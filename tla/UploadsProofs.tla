---------------------------- MODULE UploadsProofs ----------------------------
(***************************************************************************)
(* Proofs about the upload of recordings.  One worker at a time is past    *)
(* its locks, and a stop request stands while the worker that it found     *)
(* runs, for any number of invocations.  Nothing is lost, for any clips,   *)
(* destinations, workers, failures, kills and power cuts: a receipt is     *)
(* written for a copy that is whole, a copy is overwritten only while its  *)
(* clip has no receipt, and a clip is deleted only behind its receipt.     *)
(***************************************************************************)
EXTENDS MCUploads, TLAPS

-----------------------------------------------------------------------------
(* The locks of workers that are started and stopped.                      *)
PCs == {"idle", "lock", "clear", "main", "scan", "files", "upload", "sending", "recheck",
        "receipt", "sync", "delete", "unreceipt", "end", "orphan"}

\* The fields of an invocation that its locks are about.
Fields(q) == {"mode", "pc", "told"} \subseteq DOMAIN q /\ q.pc \in PCs /\ q.told \in BOOLEAN
ControlTypes == p = [i \in Procs |-> p[i]] /\ \A i \in Procs : Fields(p[i])

\* Who is past the first step has the worker's lock, and before its main
\* loop the other one too.
HoldsLocks(i) ==
    /\ p[i].pc \notin {"idle", "lock"} => work = i
    /\ p[i].pc \in {"lock", "clear"} => control = i /\ ~p[i].told

ControlInv ==
    /\ ControlTypes
    /\ \A i \in Procs : HoldsLocks(i)
    /\ Control!StopKept

\* A step of the scan leaves the locks alone and stays past them.
LEMMA ScanStep ==
  ASSUME ControlInv, NEW i \in Procs, Control!Scan(i)
  PROVE  /\ UNCHANGED <<control, work, stopfile>> /\ ControlTypes'
         /\ p[i].pc \notin {"idle", "lock", "clear"} /\ p'[i].pc \notin {"idle", "lock", "clear"}
         /\ p'[i].told = p[i].told
         /\ \A j \in Procs \ {i} : p'[j] = p[j]
<1> USE DEF ControlInv, ControlTypes, Fields, PCs, Control!others, Control!locks, Control!card, Control!Goto, Control!NextFile
<1>1. CASE Control!Prune(i)
  BY <1>1 DEF Control!Prune
<1>2. CASE \E f \in Control!Clips : Control!Pick(i, f)
  BY <1>2 DEF Control!Pick
<1>3. CASE Control!ScanEnds(i)
  BY <1>3 DEF Control!ScanEnds
<1>4. CASE Control!Connect(i)
  BY <1>4 DEF Control!Connect
<1>5. CASE Control!Transfer(i) \/ Control!TransferFails(i)
  BY <1>5 DEF Control!Transfer, Control!TransferFails
<1>6. CASE Control!Recheck(i) \/ Control!SaveReceipt(i) \/ Control!ReceiptFails(i) \/ Control!Sync(i)
  BY <1>6 DEF Control!Recheck, Control!SaveReceipt, Control!ReceiptFails, Control!Sync
<1>7. CASE Control!Delete(i) \/ Control!Keep(i) \/ Control!RemoveReceipt(i)
  BY <1>7 DEF Control!Delete, Control!Keep, Control!RemoveReceipt
<1> QED
  BY <1>1, <1>2, <1>3, <1>4, <1>5, <1>6, <1>7 DEF Control!Scan

LEMMA ControlInit == Control!Init => ControlInv
<1> SUFFICES ASSUME Control!Init PROVE ControlInv
  OBVIOUS
<1>1. p = [i \in Procs |-> Control!Away]
  BY DEF Control!Init
<1>2. ASSUME NEW i \in Procs PROVE p[i] = Control!Away /\ Fields(p[i]) /\ p[i].pc = "idle"
  BY <1>1 DEF Control!Away, Fields, PCs
<1> QED
  BY <1>1, <1>2 DEF ControlInv, ControlTypes, HoldsLocks, Control!StopKept

\* Two invocations are never both past a lock.
LEMMA Alone ==
  ASSUME ControlInv, NEW i \in Procs, NEW j \in Procs, i # j
  PROVE  /\ p[i].pc \notin {"idle", "lock"} => p[j].pc \in {"idle", "lock"}
         /\ p[i].pc \in {"lock", "clear"} => p[j].pc \notin {"lock", "clear"}
BY DEF ControlInv, HoldsLocks

\* A step of one invocation that gives up locks at most, and stays where it
\* is or goes on past them.
LEMMA OwnStep ==
  ASSUME ControlInv, NEW i \in Procs, ControlTypes',
         \A j \in Procs \ {i} : p'[j] = p[j],
         p'[i].told = p[i].told,
         stopfile' = stopfile,
         p'[i].pc \notin {"lock", "clear"},
         p[i].pc \notin {"idle", "lock"},
         control' = control \/ (control = i /\ control' = "free"),
         \/ work' = work
         \/ work' = "free" /\ p'[i].pc = "idle"
  PROVE  ControlInv'
<1>1. ASSUME NEW j \in Procs PROVE HoldsLocks(j)'
  <2>1. CASE j = i
    BY <2>1 DEF ControlInv, HoldsLocks
  <2>2. CASE j # i
    BY <2>2, Alone DEF ControlInv, HoldsLocks
  <2> QED
    BY <2>1, <2>2
<1>2. Control!StopKept'
  BY DEF ControlInv, Control!StopKept
<1> QED
  BY <1>1, <1>2 DEF ControlInv

LEMMA ControlRun ==
  ASSUME ControlInv, NEW i \in Procs, Control!Run(i)
  PROVE  ControlInv'
<1> USE ControlConstants DEF Control!FtpAssumption
<1>0. ControlTypes
  BY DEF ControlInv
<1>1. CASE Control!TakeWork(i)
  <2>1. ControlTypes' /\ (\A j \in Procs \ {i} : p'[j] = p[j]) /\ p'[i].told = p[i].told /\ stopfile' = stopfile
    BY <1>0, <1>1 DEF Control!TakeWork, Control!Goto, ControlTypes, Fields, PCs
  <2>2. p[i].pc = "lock" /\ control = i /\ ~p[i].told
    BY <1>1 DEF Control!TakeWork, ControlInv, HoldsLocks
  <2>3. CASE work = "free" /\ work' = i /\ UNCHANGED control /\ Control!Goto(i, "clear")
    <3>1. p'[i].pc = "clear"
      BY <1>0, <2>3 DEF Control!Goto, ControlTypes, Fields
    <3>2. ASSUME NEW j \in Procs PROVE HoldsLocks(j)'
      BY <2>1, <2>2, <2>3, <3>1 DEF ControlInv, HoldsLocks
    <3>3. Control!StopKept'
      BY <2>1, <2>2 DEF ControlInv, Control!StopKept
    <3> QED
      BY <2>1, <3>2, <3>3 DEF ControlInv
  <2>4. CASE control' = "free" /\ UNCHANGED work /\ Control!Goto(i, "idle")
    <3>1. p'[i].pc = "idle"
      BY <1>0, <2>4 DEF Control!Goto, ControlTypes, Fields
    <3>2. ASSUME NEW j \in Procs PROVE HoldsLocks(j)'
      BY <2>1, <2>2, <2>4, <3>1 DEF ControlInv, HoldsLocks
    <3>3. Control!StopKept'
      BY <2>1, <2>2 DEF ControlInv, Control!StopKept
    <3> QED
      BY <2>1, <3>2, <3>3 DEF ControlInv
  <2> QED
    BY <1>1, <2>3, <2>4 DEF Control!TakeWork
<1>2. CASE Control!ClearStop(i)
  <2>1. /\ ControlTypes' /\ (\A j \in Procs \ {i} : p'[j] = p[j]) /\ p'[i].told = p[i].told
        /\ p'[i].pc = "main" /\ work' = work /\ p[i].pc = "clear"
    BY <1>0, <1>2 DEF Control!ClearStop, Control!Goto, ControlTypes, Fields, PCs
  <2>2. control = i /\ work = i /\ control' = "free" /\ ~p[i].told
    BY <1>2, <2>1 DEF Control!ClearStop, ControlInv, HoldsLocks
  <2>3. ASSUME NEW j \in Procs PROVE HoldsLocks(j)'
    BY <2>1, <2>2, Alone DEF ControlInv, HoldsLocks
  <2>4. Control!StopKept'
    BY <2>1, <2>2, Alone DEF ControlInv, Control!StopKept
  <2> QED
    BY <2>1, <2>3, <2>4 DEF ControlInv
<1>3. CASE Control!RequestStop(i)
  <2>1. /\ p[i].pc = "lock" /\ stopfile' /\ control' = "free" /\ work' = work
        /\ p' = [j \in Procs |-> IF j = i THEN Control!Away ELSE [p[j] EXCEPT !.told = (j = work)]]
    BY <1>3 DEF Control!RequestStop
  <2>2. \A j \in Procs : p'[j].pc = IF j = i THEN "idle" ELSE p[j].pc
    BY <1>0, <2>1 DEF ControlTypes, Fields, Control!Away
  <2>3. ControlTypes'
    BY <1>0, <2>1 DEF ControlTypes, Fields, Control!Away, PCs
  <2>4. ASSUME NEW j \in Procs PROVE HoldsLocks(j)'
    BY <2>1, <2>2, Alone DEF ControlInv, HoldsLocks
  <2>5. Control!StopKept'
    BY <2>1 DEF Control!StopKept
  <2> QED
    BY <2>3, <2>4, <2>5 DEF ControlInv
<1>4. CASE Control!Main(i)
  <2>1. /\ ControlTypes' /\ (\A j \in Procs \ {i} : p'[j] = p[j]) /\ p'[i].told = p[i].told
        /\ p'[i].pc \notin {"lock", "clear"} /\ p[i].pc = "main" /\ UNCHANGED <<stopfile, control>>
        /\ work' = work \/ (work' = "free" /\ p'[i].pc = "idle")
    BY <1>0, <1>4 DEF Control!Main, Control!Leave, Control!Goto, ControlTypes, Fields, PCs
  <2> QED
    BY <2>1, OwnStep
<1>5. CASE Control!End(i)
  <2>1. /\ ControlTypes' /\ (\A j \in Procs \ {i} : p'[j] = p[j]) /\ p'[i].told = p[i].told
        /\ p'[i].pc \notin {"lock", "clear"} /\ p[i].pc = "end" /\ UNCHANGED <<stopfile, control>>
        /\ work' = work \/ (work' = "free" /\ p'[i].pc = "idle")
    BY <1>0, <1>5 DEF Control!End, Control!Leave, Control!Goto, ControlTypes, Fields, PCs
  <2> QED
    BY <2>1, OwnStep
<1>6. CASE Control!Scan(i)
  BY <1>6, ScanStep, OwnStep
<1>7. CASE Control!OrphanEnds(i)
  <2>1. /\ ControlTypes' /\ (\A j \in Procs \ {i} : p'[j] = p[j]) /\ p'[i].told = p[i].told
        /\ p'[i].pc = "idle" /\ p[i].pc = "orphan" /\ UNCHANGED <<stopfile, control>>
        /\ work' = work \/ work' = "free"
    BY <1>0, <1>7 DEF Control!OrphanEnds, Control!Goto, ControlTypes, Fields, PCs
  <2> QED
    BY <2>1, OwnStep
<1> QED
  BY <1>1, <1>2, <1>3, <1>4, <1>5, <1>6, <1>7 DEF Control!Run

LEMMA ControlStep ==
  ASSUME ControlInv, [Control!Next]_ftp
  PROVE  ControlInv'
<1>0. ControlTypes
  BY DEF ControlInv
<1>1. ASSUME NEW i \in Procs, Control!Run(i) PROVE ControlInv'
  BY <1>1, ControlRun
<1>2. ASSUME NEW i \in Procs, Control!Kill(i) PROVE ControlInv'
  <2>1. /\ ControlTypes' /\ (\A j \in Procs \ {i} : p'[j] = p[j]) /\ p'[i].told = p[i].told
        /\ p'[i].pc \in {"idle", "orphan"} /\ p[i].pc # "idle" /\ UNCHANGED stopfile
        /\ p'[i].pc = "orphan" => p[i].pc = "sending" /\ work' = work
        /\ control' = control \/ (control = i /\ control' = "free")
        /\ work' = work \/ (work = i /\ work' = "free" /\ p'[i].pc = "idle")
    BY <1>0, <1>2 DEF Control!Kill, Control!Goto, ControlTypes, Fields, PCs
  <2>2. ASSUME NEW j \in Procs PROVE HoldsLocks(j)'
    BY <2>1, Alone DEF ControlInv, HoldsLocks
  <2>3. Control!StopKept'
    BY <2>1 DEF ControlInv, Control!StopKept
  <2> QED
    BY <2>1, <2>2, <2>3 DEF ControlInv
<1>3. ASSUME NEW i \in Procs, NEW mode, Control!Begin(i, mode) PROVE ControlInv'
  <2>1. /\ ControlTypes' /\ (\A j \in Procs \ {i} : p'[j] = p[j]) /\ ~p'[i].told /\ p'[i].pc = "lock"
        /\ p[i].pc = "idle" /\ control = "free" /\ control' = i /\ UNCHANGED <<stopfile, work>>
    BY <1>0, <1>3 DEF Control!Begin, Control!Away, ControlTypes, Fields, PCs
  <2>2. ASSUME NEW j \in Procs PROVE HoldsLocks(j)'
    BY <2>1, ControlConstants DEF ControlInv, HoldsLocks, Control!FtpAssumption
  <2>3. Control!StopKept'
    BY <2>1 DEF ControlInv, Control!StopKept
  <2> QED
    BY <2>1, <2>2, <2>3 DEF ControlInv
<1>4. CASE \E f \in Control!Clips : Control!Record(f) \/ Control!Grow(f) \/ Control!Expire(f)
  BY <1>4 DEF Control!Record, Control!Grow, Control!Expire, Control!locks, ControlInv, ControlTypes,
     HoldsLocks, Control!StopKept
<1>5. CASE Control!Configure
  BY <1>5 DEF Control!Configure, Control!locks, ControlInv, ControlTypes, HoldsLocks, Control!StopKept
<1>6. CASE Control!PowerLoss
  BY <1>6 DEF Control!PowerLoss, ControlInv, ControlTypes, Fields, PCs, HoldsLocks, Control!StopKept, Control!Away
<1>7. CASE UNCHANGED ftp
  BY <1>7 DEF ftp, ControlInv, ControlTypes, HoldsLocks, Control!StopKept
<1> QED
  BY <1>1, <1>2, <1>3, <1>4, <1>5, <1>6, <1>7 DEF Control!Next

LEMMA ControlSays ==
  ASSUME ControlInv PROVE Control!OneWorker /\ Control!StopKept
BY DEF ControlInv, HoldsLocks, Control!OneWorker

(* For any number of invocations that are started, stopped and killed: one *)
(* at a time is past its locks, an orphaned transfer included, and a stop  *)
(* request stands as long as the worker that it found runs (ftppush.sh).   *)
THEOREM OneWorkerAtATime == Spec => []OneWorker
<1> DEFINE Inv == part = "control" => ControlInv
<1>1. Init => Inv
  BY ControlInit DEF Init
<1>2. Inv /\ [Next]_vars => Inv'
  <2> SUFFICES ASSUME Inv, [Next]_vars, part' = "control" PROVE ControlInv'
    OBVIOUS
  <2>1. part = "control" /\ [Control!Next]_ftp
    BY DEF Next, vars
  <2> QED
    BY <2>1, ControlStep
<1>3. Inv => OneWorker
  BY ControlSays DEF OneWorker
<1> QED
  BY <1>1, <1>2, <1>3, PTL DEF Spec
-----------------------------------------------------------------------------
(* The queue: what the worker relies on, and what is true of the card.     *)
Clips    == Queue!Clips
Starting == {"idle", "lock"}
Transferring == {"upload", "sending", "orphan"}   \* the copy may be cut off
Arrived      == {"recheck", "receipt"}            \* the copy is whole
Acknowledged == {"sync", "delete"}                \* and has a receipt
WithClip == {"unreceipt"} \cup Transferring \cup Arrived \cup Acknowledged
Scanning == {"scan", "files"} \cup WithClip

\* The fields of a worker that its scan is about.
Sender(q) ==
    /\ {"pc", "seen", "f", "sum", "dest", "to", "delete", "told"} \subseteq DOMAIN q
    /\ q.pc \in PCs /\ q.dest \in Dests /\ q.to \in Dests
QueueTypes ==
    /\ clip = [f \in Clips |-> clip[f]] /\ receipt = [f \in Clips |-> receipt[f]]
    /\ server = [d \in Dests |-> [f \in Clips |-> server[d][f]]]
    /\ undo \subseteq Clips /\ config.dest \in Dests
    /\ p = [i \in Workers |-> p[i]] /\ \A i \in Workers : Sender(p[i])

Whole(d, f) == server[d][f] = <<f, Size>>

\* The lock of a worker, and the configuration and the clip that it scans with.
WorkerInv(i) ==
    /\ p[i].pc \notin Starting => work = i
    /\ p[i].pc \in Scanning => p[i].dest = config.dest
    /\ p[i].pc \in WithClip => p[i].f \in Clips /\ p[i].sum = Size /\ clip[p[i].f] # Queue!Absent
    /\ p[i].pc \in Arrived \cup {"sending", "orphan"} => p[i].to = p[i].dest
    /\ p[i].pc \in Transferring =>
           receipt[p[i].f] # <<p[i].dest, Size>> /\ clip[p[i].f] # Queue!Gone
    /\ p[i].pc \in Arrived => Whole(p[i].dest, p[i].f)
    /\ p[i].pc \in Acknowledged /\ clip[p[i].f] = Size => receipt[p[i].f] = <<p[i].dest, Size>>

\* Every clip is complete; a receipt stands for a whole copy, and so does
\* the absence of a clip that was sent and deleted.
CardInv ==
    /\ \A f \in Clips : clip[f] \in {Queue!Absent, Size, Queue!Gone, Queue!Pruned}
    /\ \A f \in undo : clip[f] = Queue!Gone
    /\ \A f \in Clips, d \in Dests : receipt[f] = <<d, Size>> => Whole(d, f)
    /\ \A f \in Clips : clip[f] = Queue!Gone => \E d \in Dests : Whole(d, f)

QueueInv == QueueTypes /\ CardInv /\ \A i \in Workers : WorkerInv(i)

\* What becomes of a clip are different numbers, and no receipt is no receipt.
LEMMA Lengths ==
  /\ Size # Queue!Absent /\ Size # Queue!Gone /\ Size # Queue!Pruned
  /\ Queue!Gone # Queue!Absent /\ Queue!Gone # Queue!Pruned /\ Queue!Pruned # Queue!Absent
  /\ \A d : Queue!None # <<d, Size>>
BY QueueConstants DEF Queue!FtpAssumption, Queue!Absent, Queue!Gone, Queue!Pruned, Queue!None

LEMMA PresentIsWhole ==
  ASSUME CardInv, NEW f \in Clips PROVE Queue!Present(f) <=> clip[f] = Size
BY QueueConstants DEF Queue!FtpAssumption, CardInv, Queue!Present, Queue!Absent, Queue!Gone, Queue!Pruned

\* While a worker is past its locks every other one waits for them.
LEMMA OthersWait ==
  ASSUME QueueInv, NEW i \in Workers, NEW j \in Workers, i # j,
         p[i].pc \notin Starting, p'[j] = p[j]
  PROVE  WorkerInv(j)'
<1>1. p[j].pc \in Starting
  BY DEF QueueInv, WorkerInv
<1> QED
  BY <1>1 DEF WorkerInv, Starting, Scanning, WithClip, Transferring, Arrived, Acknowledged

LEMMA QueueInit == Queue!Init => QueueInv
<1> SUFFICES ASSUME Queue!Init PROVE QueueInv
  OBVIOUS
<1>1. First \in Dests
  BY QueueConstants DEF Queue!FtpAssumption
<1>2. p = [i \in Workers |-> Queue!Away]
  BY DEF Queue!Init
<1>3. ASSUME NEW i \in Workers PROVE Sender(p[i]) /\ p[i].pc = "idle"
  BY <1>1, <1>2 DEF Queue!Away, Sender, PCs
<1>4. QueueTypes
  BY <1>1, <1>2, <1>3 DEF Queue!Init, Queue!Remote, QueueTypes, Clips
<1>5. CardInv
  BY Lengths DEF Queue!Init, CardInv, Clips
<1>6. ASSUME NEW i \in Workers PROVE WorkerInv(i)
  BY <1>3 DEF WorkerInv, Starting, Scanning, WithClip, Transferring, Arrived, Acknowledged
<1> QED
  BY <1>4, <1>5, <1>6 DEF QueueInv

\* A step of the one worker that is past its locks.
LEMMA QueueFrame ==
  ASSUME QueueInv, NEW i \in Workers, p[i].pc \notin Starting,
         QueueTypes', CardInv', WorkerInv(i)',
         \A j \in Workers \ {i} : p'[j] = p[j]
  PROVE  QueueInv'
<1>1. ASSUME NEW j \in Workers PROVE WorkerInv(j)'
  BY OthersWait
<1> QED
  BY <1>1 DEF QueueInv

\* The copy of a clip that has no receipt for that destination and was not
\* deleted may be overwritten, and so may any copy by the whole clip.
LEMMA StoreKeeps ==
  ASSUME QueueInv, NEW e \in Dests, NEW g \in Clips, NEW what,
         server' = [server EXCEPT ![e][g] = what] \/ server' = server,
         UNCHANGED <<clip, receipt, undo>>,
         receipt[g] # <<e, Size>>, clip[g] # Queue!Gone
  PROVE  CardInv' /\ server' = [d \in Dests |-> [f \in Clips |-> server'[d][f]]]
<1>1. server = [d \in Dests |-> [f \in Clips |-> server[d][f]]]
  BY DEF QueueInv, QueueTypes
<1>2. \A d \in Dests, f \in Clips : d # e \/ f # g => server'[d][f] = server[d][f]
  BY <1>1
<1>3. \A d \in Dests, f \in Clips : (d # e \/ f # g) /\ Whole(d, f) => Whole(d, f)'
  BY <1>2 DEF Whole
<1>4. \A f \in Clips, d \in Dests : receipt'[f] = <<d, Size>> => Whole(d, f)'
  BY <1>3 DEF QueueInv, CardInv
<1>5. \A f \in Clips : clip'[f] = Queue!Gone => \E d \in Dests : Whole(d, f)'
  BY <1>3 DEF QueueInv, CardInv
<1>6. CardInv'
  BY <1>4, <1>5 DEF QueueInv, CardInv
<1> QED
  BY <1>1, <1>6

\* Worker i goes on with the clip and the destination that it has.
Moved(i) ==
    /\ p' = [j \in Workers |-> p'[j]] /\ \A j \in Workers : Sender(p'[j])
    /\ \A j \in Workers \ {i} : p'[j] = p[j]
    /\ p'[i].f = p[i].f /\ p'[i].sum = p[i].sum /\ p'[i].dest = p[i].dest /\ p'[i].to = p[i].to

LEMMA GotoMoves ==
  ASSUME QueueTypes, NEW i \in Workers, NEW pc \in PCs, Queue!Goto(i, pc)
  PROVE  Moved(i) /\ p'[i].pc = pc
<1>1. p' = [p EXCEPT ![i] = [p[i] EXCEPT !.pc = pc]]
  BY DEF Queue!Goto
<1>2. p = [j \in Workers |-> p[j]] /\ \A j \in Workers : Sender(p[j])
  BY DEF QueueTypes
<1>3. p' = [j \in Workers |-> IF j = i THEN [p[i] EXCEPT !.pc = pc] ELSE p[j]]
  BY <1>1, <1>2
<1>4. p'[i] = [p[i] EXCEPT !.pc = pc] /\ \A j \in Workers \ {i} : p'[j] = p[j]
  BY <1>3
<1>5. \A j \in Workers : Sender(p'[j])
  BY <1>2, <1>4 DEF Sender
<1>6. p' = [j \in Workers |-> p'[j]]
  BY <1>3
<1> QED
  BY <1>2, <1>4, <1>5, <1>6 DEF Moved, Sender

\* The steps of a scan, by what they change: nothing but the worker,
LEMMA WalkStep ==
  ASSUME QueueInv, NEW i \in Workers,
         \/ \E f \in Clips : Queue!Pick(i, f)
         \/ Queue!ScanEnds(i) \/ Queue!Connect(i) \/ Queue!Recheck(i)
         \/ Queue!ReceiptFails(i) \/ Queue!Keep(i)
  PROVE  QueueInv'
<1> USE DEF Queue!card, Queue!others, Queue!locks
<1>0. QueueTypes /\ CardInv /\ WorkerInv(i)
  BY DEF QueueInv
<1>1. UNCHANGED <<clip, receipt, undo, server, config, work>>
  BY DEF Queue!Pick, Queue!ScanEnds, Queue!Connect, Queue!Recheck, Queue!ReceiptFails, Queue!Keep
<1>2. CardInv'
  BY <1>0, <1>1 DEF CardInv, Whole
<1>3. p = [j \in Workers |-> p[j]] /\ \A j \in Workers : Sender(p[j])
  BY <1>0 DEF QueueTypes
<1>4. CASE \E f \in Clips : Queue!Pick(i, f)
  <2>1. PICK f \in Clips : Queue!Pick(i, f)
    BY <1>4
  <2>2. clip[f] = Size
    BY <1>0, <2>1, PresentIsWhole DEF Queue!Pick
  <2> DEFINE pc == IF receipt[f] = <<p[i].dest, Size>> THEN "delete" ELSE "upload"
             q == [p[i] EXCEPT !.seen = @ \cup {f}, !.f = f, !.sum = Size, !.pc = pc]
  <2>3. p' = [p EXCEPT ![i] = q] /\ p[i].pc = "files"
    BY <1>3, <2>1, <2>2 DEF Queue!Pick, Queue!SentBefore
  <2>4. /\ Sender(q) /\ q.f = f /\ q.sum = Size /\ q.dest = p[i].dest /\ q.to = p[i].to
        /\ q.pc \in {"delete", "upload"} /\ (q.pc = "delete" <=> receipt[f] = <<p[i].dest, Size>>)
    BY <1>3 DEF Sender, PCs
  <2> HIDE DEF q
  <2>5. p' = [j \in Workers |-> IF j = i THEN q ELSE p[j]]
    BY <1>3, <2>3
  <2>6. QueueTypes' /\ \A j \in Workers \ {i} : p'[j] = p[j]
    BY <1>0, <1>1, <1>3, <2>4, <2>5 DEF QueueTypes
  <2>7. WorkerInv(i)'
    BY <1>0, <1>1, <2>2, <2>3, <2>4, <2>5, Lengths
       DEF WorkerInv, Whole, Starting, Scanning, WithClip, Transferring, Arrived, Acknowledged
  <2> QED
    BY <1>2, <2>3, <2>6, <2>7, QueueFrame DEF Starting
<1>5. CASE Queue!ScanEnds(i) \/ Queue!Recheck(i) \/ Queue!ReceiptFails(i) \/ Queue!Keep(i)
  <2>1. PICK pc \in {"end", "files", "receipt"} :
            Queue!Goto(i, pc) /\ (pc = "receipt" => p[i].pc = "recheck")
    BY <1>5 DEF Queue!ScanEnds, Queue!Recheck, Queue!ReceiptFails, Queue!Keep, Queue!NextFile
  <2>2. Moved(i) /\ p'[i].pc = pc
    BY <1>0, <2>1, GotoMoves DEF PCs
  <2>3. p[i].pc \in {"files", "recheck", "receipt", "delete"}
    BY <1>5 DEF Queue!ScanEnds, Queue!Recheck, Queue!ReceiptFails, Queue!Keep
  <2>4. QueueTypes'
    BY <1>0, <1>1, <2>2 DEF QueueTypes, Moved
  <2>5. WorkerInv(i)'
    BY <1>0, <1>1, <2>1, <2>2, <2>3
       DEF Moved, WorkerInv, Whole, Starting, Scanning, WithClip, Transferring, Arrived, Acknowledged
  <2> QED
    BY <1>2, <2>2, <2>3, <2>4, <2>5, QueueFrame DEF Starting, Moved
<1>6. CASE Queue!Connect(i)
  <2> DEFINE q == IF Queue!Present(p[i].f) THEN [p[i] EXCEPT !.pc = "sending", !.to = config.dest]
                  ELSE [p[i] EXCEPT !.pc = "files"]
  <2>1. p' = [p EXCEPT ![i] = q] /\ p[i].pc = "upload"
    BY <1>3, <1>6 DEF Queue!Connect, Queue!Goto
  <2>2. /\ Sender(q) /\ q.f = p[i].f /\ q.sum = p[i].sum /\ q.dest = p[i].dest
        /\ q.pc = "files" \/ (q.pc = "sending" /\ q.to = config.dest)
    <3>1. config.dest \in Dests /\ Sender(p[i])
      BY <1>0 DEF QueueTypes
    <3>2. CASE Queue!Present(p[i].f)
      BY <3>1, <3>2 DEF Sender, PCs
    <3>3. CASE ~Queue!Present(p[i].f)
      BY <3>1, <3>3 DEF Sender, PCs
    <3> QED
      BY <3>2, <3>3
  <2> HIDE DEF q
  <2>3. p' = [j \in Workers |-> IF j = i THEN q ELSE p[j]]
    BY <1>3, <2>1
  <2>4. QueueTypes' /\ \A j \in Workers \ {i} : p'[j] = p[j]
    BY <1>0, <1>1, <1>3, <2>2, <2>3 DEF QueueTypes
  <2>5. WorkerInv(i)'
    BY <1>0, <1>1, <2>1, <2>2, <2>3
       DEF WorkerInv, Whole, Starting, Scanning, WithClip, Transferring, Arrived, Acknowledged
  <2> QED
    BY <1>2, <2>1, <2>4, <2>5, QueueFrame DEF Starting
<1> QED
  BY <1>4, <1>5, <1>6

\* a copy,
LEMMA SendStep ==
  ASSUME QueueInv, NEW i \in Workers,
         Queue!Transfer(i) \/ Queue!TransferFails(i) \/ Queue!OrphanEnds(i)
  PROVE  QueueInv'
<1> DEFINE f == p[i].f
           e == p[i].to
<1> USE DEF Queue!card, Queue!locks
<1>0. QueueTypes /\ CardInv /\ WorkerInv(i)
  BY DEF QueueInv
<1>1. p[i].pc \in {"sending", "orphan"} /\ UNCHANGED <<clip, receipt, undo, config>>
  BY DEF Queue!Transfer, Queue!TransferFails, Queue!OrphanEnds
<1>2. /\ f \in Clips /\ p[i].sum = Size /\ e = p[i].dest /\ e \in Dests
      /\ receipt[f] # <<e, Size>> /\ clip[f] # Queue!Gone /\ work = i
  BY <1>0, <1>1 DEF WorkerInv, QueueTypes, Sender, Starting, Scanning, WithClip, Transferring, Arrived, Acknowledged
<1>3. \A what : Queue!Store(i, what) <=> server' = [server EXCEPT ![e][f] = what]
  BY DEF Queue!Store, Queue!Remote
<1>4. Queue!Whole(i) = <<f, Size>>
  BY <1>0, <1>2, PresentIsWhole DEF Queue!Whole
<1>5. PICK what : server' = [server EXCEPT ![e][f] = what] \/ server' = server
  BY <1>3 DEF Queue!Transfer, Queue!TransferFails, Queue!OrphanEnds
<1>6. CardInv' /\ server' = [d \in Dests |-> [g \in Clips |-> server'[d][g]]]
  BY <1>1, <1>2, <1>5, StoreKeeps
<1>7. /\ Moved(i)
      /\ \/ Queue!Transfer(i) /\ p'[i].pc = "recheck" /\ work' = work
         \/ p'[i].pc = "files" /\ work' = work
         \/ p'[i].pc = "idle"
  <2>1. "recheck" \in PCs /\ "files" \in PCs /\ "idle" \in PCs
    BY DEF PCs
  <2>2. CASE Queue!Transfer(i)
    BY <1>0, <2>1, <2>2, GotoMoves DEF Queue!Transfer
  <2>3. CASE Queue!TransferFails(i)
    BY <1>0, <2>1, <2>3, GotoMoves DEF Queue!TransferFails, Queue!NextFile
  <2>4. CASE Queue!OrphanEnds(i)
    BY <1>0, <2>1, <2>4, GotoMoves DEF Queue!OrphanEnds
  <2> QED
    BY <2>2, <2>3, <2>4
<1>8. QueueTypes'
  BY <1>0, <1>1, <1>6, <1>7 DEF QueueTypes, Moved
<1>9. ASSUME Queue!Transfer(i) PROVE server'[e][f] = <<f, Size>>
  <2>2. server' = [server EXCEPT ![e][f] = <<f, Size>>]
    BY <1>3, <1>4, <1>9 DEF Queue!Transfer
  <2>3. server = [d \in Dests |-> [g \in Clips |-> server[d][g]]]
    BY <1>0 DEF QueueTypes
  <2> QED
    BY <1>2, <2>2, <2>3
<1>10. WorkerInv(i)'
  BY <1>0, <1>1, <1>2, <1>7, <1>9
     DEF Moved, WorkerInv, Whole, Starting, Scanning, WithClip, Transferring, Arrived, Acknowledged
<1> QED
  BY <1>1, <1>6, <1>7, <1>8, <1>10, QueueFrame DEF Starting, Moved

\* a receipt or a clip.
LEMMA CardStep ==
  ASSUME QueueInv, NEW i \in Workers,
         Queue!Prune(i) \/ Queue!SaveReceipt(i) \/ Queue!Sync(i) \/ Queue!Delete(i) \/ Queue!RemoveReceipt(i)
  PROVE  QueueInv'
<1> DEFINE f == p[i].f
<1> USE DEF Queue!card, Queue!others, Queue!locks
<1>0. QueueTypes /\ CardInv /\ WorkerInv(i)
  BY DEF QueueInv
<1>a. /\ Moved(i) /\ UNCHANGED <<server, config, work>>
      /\ p[i].pc \in {"scan", "receipt", "sync", "delete", "unreceipt"}
      /\ Queue!Prune(i) \/ Queue!RemoveReceipt(i) => p'[i].pc = "files"
      /\ Queue!SaveReceipt(i) => p'[i].pc = "sync"
      /\ Queue!Sync(i) => p'[i].pc = "delete"
      /\ Queue!Delete(i) => p'[i].pc = "unreceipt"
  <2>1. "files" \in PCs /\ "sync" \in PCs /\ "delete" \in PCs /\ "unreceipt" \in PCs
    BY DEF PCs
  <2> QED
    BY <1>0, <2>1, GotoMoves DEF Queue!Prune, Queue!SaveReceipt, Queue!Sync, Queue!Delete, Queue!RemoveReceipt
<1>b. /\ p[i].dest \in Dests
      /\ p[i].pc # "scan" => f \in Clips /\ p[i].sum = Size /\ clip[f] # Queue!Absent
      /\ p[i].dest = config.dest /\ work = i
  BY <1>0, <1>a DEF WorkerInv, QueueTypes, Sender, Starting, Scanning, WithClip, Transferring, Arrived, Acknowledged
<1> DEFINE Goal == QueueTypes' /\ CardInv' /\ WorkerInv(i)'
<1>1. ASSUME Queue!Prune(i) PROVE Goal
  <2>1. /\ UNCHANGED <<clip, undo>> /\ p'[i].pc = "files"
        /\ receipt' = [g \in Clips |-> IF Queue!Present(g) THEN receipt[g] ELSE Queue!None]
    BY <1>1, <1>a DEF Queue!Prune, Clips
  <2>2. QueueTypes'
    BY <1>0, <1>a, <2>1 DEF QueueTypes, Moved
  <2>3. CardInv'
    BY <1>0, <1>a, <2>1, Lengths DEF CardInv, Whole
  <2>4. WorkerInv(i)'
    BY <1>a, <1>b, <2>1 DEF Moved, WorkerInv, Starting, Scanning, WithClip, Transferring, Arrived, Acknowledged
  <2> QED
    BY <2>2, <2>3, <2>4
<1>2. ASSUME Queue!SaveReceipt(i) PROVE Goal
  <2>1. /\ UNCHANGED <<clip, undo>> /\ p'[i].pc = "sync"
        /\ receipt' = [receipt EXCEPT ![f] = <<p[i].dest, Size>>]
    BY <1>2, <1>a, <1>b DEF Queue!SaveReceipt
  <2>2. Whole(p[i].dest, f)
    BY <1>0, <1>2 DEF Queue!SaveReceipt, WorkerInv, Arrived
  <2>3. QueueTypes'
    BY <1>0, <1>a, <2>1 DEF QueueTypes, Moved
  <2>4. CardInv'
    BY <1>0, <1>a, <1>b, <2>1, <2>2 DEF CardInv, Whole, QueueTypes
  <2>5. f \in Clips /\ receipt'[f] = <<p[i].dest, Size>>
    BY <1>0, <1>2, <1>b, <2>1 DEF QueueTypes, Queue!SaveReceipt
  <2>6. WorkerInv(i)'
    <3>1. /\ p'[i].f = f /\ p'[i].sum = Size /\ p'[i].dest = p[i].dest
          /\ p'[i].dest = config'.dest /\ work' = i /\ clip'[f] # Queue!Absent
      BY <1>a, <1>b, <2>1, <2>5, <1>2 DEF Moved, Queue!SaveReceipt
    <3> QED
      BY <2>1, <2>5, <3>1 DEF WorkerInv, Starting, Scanning, WithClip, Transferring, Arrived, Acknowledged
  <2> QED
    BY <2>3, <2>4, <2>6
<1>3. ASSUME Queue!Sync(i) PROVE Goal
  <2>1. UNCHANGED <<clip, receipt>> /\ undo' = {} /\ p'[i].pc = "delete" /\ p[i].pc = "sync"
    BY <1>3, <1>a DEF Queue!Sync
  <2>2. QueueTypes'
    BY <1>0, <1>a, <2>1 DEF QueueTypes, Moved
  <2>3. CardInv'
    BY <1>0, <1>a, <2>1 DEF CardInv, Whole
  <2>4. WorkerInv(i)'
    BY <1>0, <1>a, <1>b, <2>1 DEF Moved, WorkerInv, Starting, Scanning, WithClip, Transferring, Arrived, Acknowledged
  <2> QED
    BY <2>2, <2>3, <2>4
<1>4. ASSUME Queue!Delete(i) PROVE Goal
  <2>1. /\ UNCHANGED receipt /\ p'[i].pc = "unreceipt" /\ p[i].pc = "delete"
        /\ \/ UNCHANGED <<clip, undo>>
           \/ /\ clip[f] = Size /\ clip' = [clip EXCEPT ![f] = Queue!Gone]
              /\ undo' = undo \cup {f}
    BY <1>0, <1>4, <1>a, <1>b, PresentIsWhole DEF Queue!Delete
  <2>2. clip[f] = Size => Whole(p[i].dest, f)
    BY <1>0, <1>b, <2>1 DEF WorkerInv, CardInv, Acknowledged
  <2>3. QueueTypes'
    BY <1>0, <1>a, <1>b, <2>1 DEF QueueTypes, Moved
  <2>4. CardInv'
    BY <1>0, <1>a, <1>b, <2>1, <2>2 DEF CardInv, Whole, QueueTypes
  <2>5. clip'[f] # Queue!Absent
    BY <1>0, <1>b, <2>1, Lengths DEF QueueTypes
  <2>6. WorkerInv(i)'
    BY <1>a, <1>b, <2>1, <2>5 DEF Moved, WorkerInv, Starting, Scanning, WithClip, Transferring, Arrived, Acknowledged
  <2> QED
    BY <2>3, <2>4, <2>6
<1>5. ASSUME Queue!RemoveReceipt(i) PROVE Goal
  <2>1. /\ UNCHANGED <<clip, undo>> /\ p'[i].pc = "files"
        /\ receipt' = [receipt EXCEPT ![f] = Queue!None]
    BY <1>5, <1>a DEF Queue!RemoveReceipt
  <2>2. QueueTypes'
    BY <1>0, <1>a, <2>1 DEF QueueTypes, Moved
  <2>3. CardInv'
    BY <1>0, <1>a, <2>1, Lengths DEF CardInv, Whole, QueueTypes
  <2>4. WorkerInv(i)'
    BY <1>a, <1>b, <2>1 DEF Moved, WorkerInv, Starting, Scanning, WithClip, Transferring, Arrived, Acknowledged
  <2> QED
    BY <2>2, <2>3, <2>4
<1>6. Goal
  BY <1>1, <1>2, <1>3, <1>4, <1>5
<1> QED
  BY <1>6, <1>a, QueueFrame DEF Starting, Moved
\* Starting, stopping and the loop.
LEMMA LoopStep ==
  ASSUME QueueInv, NEW i \in Workers,
         Queue!TakeWork(i) \/ Queue!ClearStop(i) \/ Queue!Main(i) \/ Queue!End(i)
  PROVE  QueueInv'
<1> USE DEF Queue!card, Queue!Leave
<1>0. QueueTypes /\ CardInv /\ WorkerInv(i)
  BY DEF QueueInv
<1>1. UNCHANGED <<clip, receipt, undo, server, config>> /\ p[i].pc \in {"lock", "clear", "main", "end"}
  BY DEF Queue!TakeWork, Queue!ClearStop, Queue!Main, Queue!End
<1>2. CardInv'
  BY <1>0, <1>1 DEF CardInv, Whole
<1>3. p = [j \in Workers |-> p[j]] /\ \A j \in Workers : Sender(p[j])
  BY <1>0 DEF QueueTypes
<1>4. CASE Queue!TakeWork(i)
  <2>1. PICK pc \in {"clear", "idle"} : Queue!Goto(i, pc)
    BY <1>4 DEF Queue!TakeWork
  <2>2. Moved(i) /\ p'[i].pc = pc
    BY <1>0, <2>1, GotoMoves DEF PCs
  <2>3. QueueTypes'
    BY <1>0, <1>1, <2>2 DEF QueueTypes, Moved
  <2>4. p[i].pc = "lock" /\ \/ work = "free" /\ work' = i
                            \/ work' = work /\ pc = "idle"
    <3>1. CASE work = "free"
      BY <1>4, <3>1 DEF Queue!TakeWork
    <3>2. CASE work # "free"
      <4>1. Queue!Goto(i, "idle") /\ work' = work /\ p[i].pc = "lock"
        BY <1>4, <3>2 DEF Queue!TakeWork
      <4>2. p'[i].pc = "idle"
        BY <1>0, <4>1, GotoMoves DEF PCs
      <4> QED
        BY <2>2, <4>1, <4>2
    <3> QED
      BY <3>1, <3>2
  <2>5. ASSUME NEW j \in Workers PROVE WorkerInv(j)'
    <3>1. CASE j = i
      BY <2>2, <2>4, <3>1, <2>1 DEF WorkerInv, Starting, Scanning, WithClip, Transferring, Arrived, Acknowledged
    <3>2. CASE j # i /\ p[j].pc \in Starting
      BY <2>2, <3>2 DEF Moved, WorkerInv, Starting, Scanning, WithClip, Transferring, Arrived, Acknowledged
    <3>3. CASE j # i /\ p[j].pc \notin Starting
      <4>1. work = j /\ j # "free"
        BY <3>3, QueueConstants DEF QueueInv, WorkerInv, Queue!FtpAssumption
      <4>2. work' = work /\ p'[j] = p[j]
        BY <2>2, <2>4, <3>3, <4>1 DEF Moved
      <4> QED
        BY <1>1, <4>2 DEF QueueInv, WorkerInv, Whole
    <3> QED
      BY <3>1, <3>2, <3>3
  <2> QED
    BY <1>2, <2>3, <2>5 DEF QueueInv
<1>5. CASE Queue!ClearStop(i) \/ Queue!End(i)
  <2>1. PICK pc \in {"main", "idle"} : Queue!Goto(i, pc)
    BY <1>5 DEF Queue!ClearStop, Queue!End
  <2>2. Moved(i) /\ p'[i].pc = pc
    BY <1>0, <2>1, GotoMoves DEF PCs
  <2>3. QueueTypes'
    BY <1>0, <1>1, <2>2 DEF QueueTypes, Moved
  <2>4. p[i].pc \notin Starting /\ (pc = "idle" \/ work' = work)
    <3>1. CASE Queue!ClearStop(i)
      BY <3>1 DEF Queue!ClearStop, Starting
    <3>2. CASE Queue!End(i) /\ work' # work
      <4>1. Queue!Goto(i, "idle")
        BY <3>2 DEF Queue!End
      <4>2. p'[i].pc = "idle"
        BY <1>0, <4>1, GotoMoves DEF PCs
      <4> QED
        BY <2>2, <3>2, <4>2 DEF Queue!End, Starting
    <3>3. CASE Queue!End(i) /\ work' = work
      BY <3>3 DEF Queue!End, Starting
    <3> QED
      BY <1>5, <3>1, <3>2, <3>3
  <2>5. work = i
    BY <1>0, <2>4 DEF WorkerInv
  <2>6. WorkerInv(i)'
    BY <2>1, <2>2, <2>4, <2>5 DEF WorkerInv, Starting, Scanning, WithClip, Transferring, Arrived, Acknowledged
  <2> QED
    BY <1>2, <2>2, <2>3, <2>4, <2>6, QueueFrame DEF Moved
<1>6. CASE Queue!Main(i)
  <2>1. p[i].pc = "main" /\ work = i
    BY <1>0, <1>6 DEF Queue!Main, WorkerInv, Starting
  <2> DEFINE Begun == [p[i] EXCEPT !.pc = "scan", !.dest = config.dest, !.delete = config.delete, !.seen = {}]
  <2>2. \/ Queue!Goto(i, "idle")
        \/ Queue!Goto(i, "end") /\ work' = work
        \/ p' = [p EXCEPT ![i] = Begun] /\ work' = work
    BY <1>3, <1>6 DEF Queue!Main
  <2>3. CASE Queue!Goto(i, "idle")
    <3>1. Moved(i) /\ p'[i].pc = "idle"
      BY <1>0, <2>3, GotoMoves DEF PCs
    <3>2. QueueTypes' /\ WorkerInv(i)'
      BY <1>0, <1>1, <3>1
         DEF QueueTypes, Moved, WorkerInv, Starting, Scanning, WithClip, Transferring, Arrived, Acknowledged
    <3> QED
      BY <1>2, <2>1, <3>1, <3>2, QueueFrame DEF Moved, Starting
  <2>4. CASE Queue!Goto(i, "end") /\ work' = work
    <3>1. Moved(i) /\ p'[i].pc = "end"
      BY <1>0, <2>4, GotoMoves DEF PCs
    <3>2. QueueTypes' /\ WorkerInv(i)'
      BY <1>0, <1>1, <2>1, <2>4, <3>1
         DEF QueueTypes, Moved, WorkerInv, Starting, Scanning, WithClip, Transferring, Arrived, Acknowledged
    <3> QED
      BY <1>2, <2>1, <3>1, <3>2, QueueFrame DEF Moved, Starting
  <2>5. CASE p' = [p EXCEPT ![i] = Begun] /\ work' = work
    <3>1. Sender(Begun) /\ Begun.pc = "scan" /\ Begun.dest = config.dest
      BY <1>0, <1>3 DEF Sender, PCs, QueueTypes
    <3> HIDE DEF Begun
    <3>2. p' = [j \in Workers |-> IF j = i THEN Begun ELSE p[j]]
      BY <1>3, <2>5
    <3>3. QueueTypes' /\ \A j \in Workers \ {i} : p'[j] = p[j]
      BY <1>0, <1>1, <1>3, <3>1, <3>2 DEF QueueTypes
    <3>4. WorkerInv(i)'
      BY <1>1, <2>1, <2>5, <3>1, <3>2 DEF WorkerInv, Scanning, WithClip, Transferring, Arrived, Acknowledged
    <3> QED
      BY <1>2, <2>1, <3>3, <3>4, QueueFrame DEF Starting
  <2> QED
    BY <2>2, <2>3, <2>4, <2>5
<1> QED
  BY <1>4, <1>5, <1>6

\* A stop request, a start and a kill.
LEMMA StartStopStep ==
  ASSUME QueueInv, NEW i \in Workers,
         Queue!RequestStop(i) \/ Queue!Kill(i) \/ \E mode \in Modes : Queue!Begin(i, mode)
  PROVE  QueueInv'
<1> USE DEF Queue!card
<1>0. QueueTypes /\ CardInv /\ WorkerInv(i)
  BY DEF QueueInv
<1>1. UNCHANGED <<clip, receipt, undo, server, config>>
  BY DEF Queue!RequestStop, Queue!Kill, Queue!Begin
<1>2. CardInv'
  BY <1>0, <1>1 DEF CardInv, Whole
<1>3. p = [j \in Workers |-> p[j]] /\ \A j \in Workers : Sender(p[j])
  BY <1>0 DEF QueueTypes
<1>4. First \in Dests
  BY QueueConstants DEF Queue!FtpAssumption
<1>5. CASE Queue!RequestStop(i)
  <2>1. /\ p' = [j \in Workers |-> IF j = i THEN Queue!Away ELSE [p[j] EXCEPT !.told = (j = work)]]
        /\ work' = work
    BY <1>5 DEF Queue!RequestStop
  <2>2. p'[i] = Queue!Away /\ \A j \in Workers \ {i} : p'[j] = [p[j] EXCEPT !.told = (j = work)]
    BY <2>1
  <2>a. ASSUME NEW j \in Workers, j # i
        PROVE  /\ Sender(p'[j]) /\ p'[j].pc = p[j].pc /\ p'[j].f = p[j].f /\ p'[j].sum = p[j].sum
               /\ p'[j].dest = p[j].dest /\ p'[j].to = p[j].to
    <3>1. PICK b : p'[j] = [p[j] EXCEPT !.told = b]
      BY <2>2, <2>a
    <3> QED
      BY <1>3, <3>1 DEF Sender
  <2>3. \A j \in Workers : Sender(p'[j])
    <3>1. Sender(Queue!Away)
      BY <1>4 DEF Sender, Queue!Away, PCs
    <3> QED
      BY <2>2, <2>a, <3>1
  <2>4. QueueTypes'
    BY <1>0, <1>1, <2>1, <2>3 DEF QueueTypes
  <2>5. ASSUME NEW j \in Workers PROVE WorkerInv(j)'
    <3>1. CASE j = i
      BY <2>2, <3>1
         DEF Queue!Away, WorkerInv, Starting, Scanning, WithClip, Transferring, Arrived, Acknowledged
    <3>2. CASE j # i
      <4>1. /\ p'[j].pc = p[j].pc /\ p'[j].f = p[j].f /\ p'[j].sum = p[j].sum
            /\ p'[j].dest = p[j].dest /\ p'[j].to = p[j].to
        BY <2>a, <3>2
      <4> QED
        BY <1>1, <2>1, <4>1 DEF QueueInv, WorkerInv, Whole
    <3> QED
      BY <3>1, <3>2
  <2> QED
    BY <1>2, <2>4, <2>5 DEF QueueInv
<1>6. CASE Queue!Kill(i)
  <2>1. PICK pc \in {"orphan", "idle"} :
            /\ Queue!Goto(i, pc)
            /\ \/ pc = "idle" /\ (work' = work \/ (work = i /\ work' = "free"))
               \/ pc = "orphan" /\ work' = work /\ p[i].pc = "sending"
    BY <1>6 DEF Queue!Kill
  <2>2. Moved(i) /\ p'[i].pc = pc
    BY <1>0, <2>1, GotoMoves DEF PCs
  <2>3. QueueTypes'
    BY <1>0, <1>1, <2>2 DEF QueueTypes, Moved
  <2>4. WorkerInv(i)'
    BY <1>0, <1>1, <2>1, <2>2
       DEF Moved, WorkerInv, Whole, Starting, Scanning, WithClip, Transferring, Arrived, Acknowledged
  <2>5. ASSUME NEW j \in Workers, j # i PROVE WorkerInv(j)'
    <3>1. p'[j] = p[j] /\ WorkerInv(j)
      BY <2>2, <2>5 DEF Moved, QueueInv
    <3>2. work' = work \/ p[j].pc \in Starting
      BY <2>1, <2>5, <3>1 DEF WorkerInv
    <3> QED
      BY <1>1, <3>1, <3>2
         DEF WorkerInv, Whole, Starting, Scanning, WithClip, Transferring, Arrived, Acknowledged
  <2> QED
    BY <1>2, <2>3, <2>4, <2>5 DEF QueueInv
<1>7. CASE \E mode \in Modes : Queue!Begin(i, mode)
  <2>1. PICK mode \in Modes : Queue!Begin(i, mode)
    BY <1>7
  <2> DEFINE q == [Queue!Away EXCEPT !.mode = mode, !.pc = "lock"]
  <2>2. p' = [j \in Workers |-> IF j = i THEN q ELSE p[j]] /\ work' = work
    BY <1>3, <2>1 DEF Queue!Begin
  <2>3. Sender(q) /\ q.pc = "lock"
    BY <1>4 DEF Sender, Queue!Away, PCs
  <2> HIDE DEF q
  <2>4. QueueTypes'
    BY <1>0, <1>1, <2>2, <2>3 DEF QueueTypes
  <2>5. WorkerInv(i)'
    BY <2>2, <2>3 DEF WorkerInv, Starting, Scanning, WithClip, Transferring, Arrived, Acknowledged
  <2>6. ASSUME NEW j \in Workers, j # i PROVE WorkerInv(j)'
    BY <1>1, <2>2, <2>6 DEF QueueInv, WorkerInv, Whole
  <2> QED
    BY <1>2, <2>4, <2>5, <2>6 DEF QueueInv
<1> QED
  BY <1>5, <1>6, <1>7
\* The recorder, retention, the owner and power.
LEMMA CardEvents ==
  ASSUME QueueInv, NEW f \in Clips, Queue!Record(f) \/ Queue!Grow(f) \/ Queue!Expire(f)
  PROVE  QueueInv'
<1> USE DEF Queue!locks
<1>0. QueueTypes /\ CardInv /\ Queue!Absent # Queue!Gone
  BY Lengths DEF QueueInv
<1>1. UNCHANGED <<undo, server, config, work, p>>
  BY DEF Queue!Record, Queue!Grow, Queue!Expire
<1>2. PICK v \in {Size, Queue!Pruned} :
          /\ clip' = [clip EXCEPT ![f] = v]
          /\ clip[f] # Queue!Gone
          /\ v = Size => clip[f] = Queue!Absent /\ UNCHANGED receipt
          /\ receipt' = receipt \/ receipt' = [receipt EXCEPT ![f] = Queue!None]
  <2>1. CASE Queue!Record(f)
    BY <1>0, <2>1 DEF Queue!Record
  <2>2. ~Queue!Grow(f)
    BY <1>0, PresentIsWhole, QueueConstants DEF Queue!Grow, Queue!FtpAssumption
  <2>3. CASE Queue!Expire(f)
    BY <1>0, <2>3, PresentIsWhole, Lengths DEF Queue!Expire
  <2> QED
    BY <2>1, <2>2, <2>3
<1>3. QueueTypes'
  BY <1>0, <1>1, <1>2 DEF QueueTypes
<1>4. \A g \in Clips : /\ clip'[g] = IF g = f THEN v ELSE clip[g]
                       /\ receipt'[g] = receipt[g] \/ receipt'[g] = Queue!None
  BY <1>0, <1>2 DEF QueueTypes
<1>5. CardInv'
  BY <1>0, <1>1, <1>2, <1>4, Lengths DEF CardInv, Whole, QueueTypes
<1>6. ASSUME NEW i \in Workers PROVE WorkerInv(i)'
  <2>1. WorkerInv(i)
    BY DEF QueueInv
  <2>2. p[i].pc \in Acknowledged /\ clip'[p[i].f] = Size => receipt'[p[i].f] = <<p[i].dest, Size>>
    <3> SUFFICES ASSUME p[i].pc \in Acknowledged, clip'[p[i].f] = Size
                 PROVE  receipt'[p[i].f] = <<p[i].dest, Size>>
      OBVIOUS
    <3>1. p[i].f \in Clips
      BY <2>1 DEF WorkerInv, WithClip
    <3>2. CASE clip[p[i].f] = Size
      <4>1. receipt'[p[i].f] = receipt[p[i].f]
        BY <1>0, <1>2, <1>4, <3>1, <3>2, Lengths DEF QueueTypes
      <4> QED
        BY <2>1, <3>2, <4>1 DEF WorkerInv
    <3>3. CASE clip[p[i].f] # Size
      BY <1>2, <1>4, <2>1, <3>1, <3>3, Lengths DEF WorkerInv, WithClip
    <3> QED
      BY <3>2, <3>3
  <2> QED
    <3>1. CASE p[i].pc \in WithClip
      <4>1. /\ p[i].f \in Clips /\ clip'[p[i].f] # Queue!Absent
            /\ clip[p[i].f] # Queue!Gone => clip'[p[i].f] # Queue!Gone
        BY <1>2, <1>4, <2>1, <3>1, Lengths DEF WorkerInv
      <4>2. \A d \in Dests : receipt[p[i].f] # <<d, Size>> => receipt'[p[i].f] # <<d, Size>>
        BY <1>4, <4>1, Lengths
      <4>3. p[i].dest \in Dests
        BY <1>0 DEF QueueTypes, Sender
      <4> QED
        BY <1>1, <2>1, <2>2, <4>1, <4>2, <4>3 DEF WorkerInv, Whole, WithClip
    <3>2. CASE p[i].pc \notin WithClip
      BY <1>1, <2>1, <3>2 DEF WorkerInv, Whole, WithClip, Scanning, Transferring, Arrived, Acknowledged
    <3> QED
      BY <3>1, <3>2
<1> QED
  BY <1>3, <1>5, <1>6 DEF QueueInv

LEMMA ConfigureStep ==
  ASSUME QueueInv, Queue!Configure
  PROVE  QueueInv'
<1>1. /\ UNCHANGED <<clip, receipt, undo, server, work, p>> /\ config'.dest \in Dests
      /\ \A i \in Workers : p[i].pc \notin Scanning
  BY DEF Queue!Configure, Queue!card, Queue!locks, Scanning, WithClip, Transferring, Arrived, Acknowledged
<1>2. QueueTypes' /\ CardInv'
  BY <1>1 DEF QueueInv, QueueTypes, CardInv, Whole
<1>3. ASSUME NEW i \in Workers PROVE WorkerInv(i)'
  BY <1>1 DEF QueueInv, WorkerInv, Scanning, WithClip, Transferring, Arrived, Acknowledged
<1> QED
  BY <1>2, <1>3 DEF QueueInv

LEMMA PowerLossStep ==
  ASSUME QueueInv, Queue!PowerLoss
  PROVE  QueueInv'
<1>0. QueueTypes /\ CardInv /\ First \in Dests
  BY QueueConstants DEF QueueInv, Queue!FtpAssumption
<1>1. PICK back \in SUBSET undo : clip' = [f \in Clips |-> IF f \in back THEN Size ELSE clip[f]]
  BY DEF Queue!PowerLoss, Clips
<1>2. /\ receipt' = [f \in Clips |-> receipt'[f]]
      /\ \A f \in Clips : receipt'[f] = receipt[f] \/ receipt'[f] = Queue!None
  BY <1>0 DEF Queue!PowerLoss, Clips, QueueTypes
<1>3. undo' = {} /\ p' = [i \in Workers |-> Queue!Away] /\ UNCHANGED <<server, config>>
  BY DEF Queue!PowerLoss
<1>4. \A i \in Workers : Sender(p'[i]) /\ p'[i].pc = "idle"
  BY <1>0, <1>3 DEF Sender, Queue!Away, PCs
<1>5. QueueTypes'
  BY <1>0, <1>1, <1>2, <1>3, <1>4 DEF QueueTypes
<1>6. CardInv'
  BY <1>0, <1>1, <1>2, <1>3, Lengths DEF CardInv, Whole, QueueTypes
<1>7. ASSUME NEW i \in Workers PROVE WorkerInv(i)'
  BY <1>4 DEF WorkerInv, Starting, Scanning, WithClip, Transferring, Arrived, Acknowledged
<1> QED
  BY <1>5, <1>6, <1>7 DEF QueueInv

LEMMA QueueStep ==
  ASSUME QueueInv, [Queue!Next]_ftp
  PROVE  QueueInv'
<1>1. ASSUME NEW i \in Workers, Queue!Run(i) PROVE QueueInv'
  BY <1>1, LoopStep, StartStopStep, WalkStep, SendStep, CardStep DEF Queue!Run, Queue!Scan, Clips
<1>2. ASSUME NEW i \in Workers, Queue!Kill(i) \/ \E mode \in Modes : Queue!Begin(i, mode) PROVE QueueInv'
  BY <1>2, StartStopStep
<1>3. CASE \E f \in Clips : Queue!Record(f) \/ Queue!Grow(f) \/ Queue!Expire(f)
  BY <1>3, CardEvents
<1>4. CASE Queue!Configure \/ Queue!PowerLoss
  BY <1>4, ConfigureStep, PowerLossStep
<1>5. CASE UNCHANGED ftp
  BY <1>5 DEF ftp, QueueInv, QueueTypes, CardInv, WorkerInv, Whole
<1> QED
  BY <1>1, <1>2, <1>3, <1>4, <1>5 DEF Queue!Next, Clips

LEMMA QueueSays ==
  ASSUME QueueInv PROVE Queue!DeletedWereSent /\ Queue!ReceiptsTrue
BY PresentIsWhole
   DEF QueueInv, CardInv, Whole, Queue!DeletedWereSent, Queue!ReceiptsTrue, Queue!Sent, Queue!Remote, Clips

(* For any clips, destinations and workers, and however often transfers    *)
(* fail, workers are killed, the owner changes the configuration and power *)
(* is lost: a recording that the uploader deleted is whole at a            *)
(* destination, and a receipt that matches a clip and a destination is     *)
(* true (ftppush_queue.sh).                                                *)
THEOREM NothingIsLost == Spec => []NothingLost
<1> DEFINE Inv == part = "queue" => QueueInv
<1>1. Init => Inv
  BY QueueInit DEF Init
<1>2. Inv /\ [Next]_vars => Inv'
  <2> SUFFICES ASSUME Inv, [Next]_vars, part' = "queue" PROVE QueueInv'
    OBVIOUS
  <2>1. part = "queue" /\ [Queue!Next]_ftp
    BY DEF Next, vars
  <2> QED
    BY <2>1, QueueStep
<1>3. Inv => NothingLost
  BY QueueSays DEF NothingLost
<1> QED
  BY <1>1, <1>2, <1>3, PTL DEF Spec
=============================================================================
