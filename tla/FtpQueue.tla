------------------------------ MODULE FtpQueue ------------------------------
(***************************************************************************)
(* The upload of recordings (ftppush.sh, ftppush_queue.sh): cron starts a  *)
(* worker every minute; a worker sends every clip whose receipt does not   *)
(* name its contents and the destination, writes the receipt, and deletes  *)
(* the clip if the owner wants that.  Clips grow or appear, retention      *)
(* deletes them, the owner changes the configuration, transfers fail,      *)
(* workers are killed and power is lost.                                   *)
(***************************************************************************)
EXTENDS Naturals

CONSTANTS
    Hours, Names,  \* a clip is an hour directory and a name in it
    Size,          \* the length of a complete clip
    Growing,       \* the recorder writes to *.mp4 itself, not to *.mp4.tmp
    Tree,          \* FTP_DIR_TREE
    Dests,         \* destinations: FTP_HOST, FTP_DIR and FTP_USERNAME
    First,         \* the destination configured at the start
    BadNames,      \* names the server never takes
    MidScan,       \* the configuration may change during a scan
    Procs,         \* invocations of ftppush.sh
    Modes,         \* what they are asked to do
    MaxFails, MaxChanges, MaxKills, MaxStops  \* bounds

Clips == Hours \X Names

\* The constants of an instance.
FtpAssumption ==
    /\ Size \in Nat \ {0} /\ First \in Dests
    /\ Growing \in BOOLEAN /\ Tree \in BOOLEAN /\ MidScan \in BOOLEAN
    /\ BadNames \subseteq Names /\ Modes \subseteq {"cron", "start", "stop"}
    /\ {MaxFails, MaxChanges, MaxKills, MaxStops} \subseteq Nat
    /\ "free" \notin Procs

VARIABLES
    clip,      \* length of each *.mp4, or Absent, Gone (sent and deleted) or Pruned
    receipt,   \* *.mp4.ftp-uploaded
    undo,      \* clips and receipts whose deletion power loss may undo
    server,    \* the files at every destination
    config,    \* system.conf
    stopfile,  \* STOPFILE exists
    control,   \* owner of the ftppush-control lock
    work,      \* owner of the ftppush lock
    p,         \* the processes; told: it ran when a stop was requested
    count      \* failures, changes, kills and stops so far (bounds)

vars == <<clip, receipt, undo, server, config, stopfile, control, work, p, count>>

NoClip == <<0, "">>
Nothing == <<NoClip, 0>>   \* no file at the server
Part == <<NoClip, 1>>      \* an interrupted transfer
None == <<"none", 0>>      \* no receipt, or one that matches nothing
Absent == 0
Gone == Size + 1
Pruned == Size + 2
Present(f) == clip[f] \in 1..Size
Remote(f) == IF Tree THEN f ELSE <<0, f[2]>>
Away == [mode |-> "cron", pc |-> "idle", seen |-> {}, f |-> NoClip, sum |-> 0,
         dest |-> First, to |-> First, delete |-> FALSE, told |-> FALSE]

TypeOK ==
    /\ clip \in [Clips -> 0..Size + 2]
    /\ receipt \in [Clips -> (Dests \X (1..Size)) \cup {None}]
    /\ undo \subseteq Clips
    /\ server \in [Dests -> [{Remote(f) : f \in Clips} -> (Clips \X (1..Size)) \cup {Nothing, Part}]]
    /\ config \in [dest: Dests, delete: BOOLEAN, upload: BOOLEAN]
    /\ stopfile \in BOOLEAN
    /\ control \in Procs \cup {"free"} /\ work \in Procs \cup {"free"}
    /\ p \in [Procs -> [mode: {"cron", "start", "stop"}, seen: SUBSET Clips, f: Clips \cup {NoClip},
             pc: {"idle", "lock", "clear", "main", "scan", "files", "upload", "sending", "recheck",
                  "receipt", "sync", "delete", "unreceipt", "end", "orphan"},
             sum: 0..Size, dest: Dests, to: Dests, delete: BOOLEAN, told: BOOLEAN]]
    /\ count \in [fails: 0..MaxFails, changes: 0..MaxChanges, kills: 0..MaxKills, stops: 0..MaxStops]

Init ==
    /\ clip = [f \in Clips |-> Absent]
    /\ receipt = [f \in Clips |-> None]
    /\ undo = {}
    /\ server = [d \in Dests |-> [n \in {Remote(f) : f \in Clips} |-> Nothing]]
    /\ config \in [dest: {First}, delete: BOOLEAN, upload: {TRUE}]
    /\ stopfile = FALSE
    /\ control = "free" /\ work = "free"
    /\ p = [i \in Procs |-> Away]
    /\ count = [fails |-> 0, changes |-> 0, kills |-> 0, stops |-> 0]

Goto(i, pc) == p' = [p EXCEPT ![i].pc = pc]
card == <<clip, receipt, undo>>
locks == <<control, work>>

-----------------------------------------------------------------------------
(* Starting, stopping and the service loop (ftppush.sh).                   *)
Begin(i, mode) ==
    /\ p[i].pc = "idle" /\ control = "free"
    /\ mode = "stop" => count.stops < MaxStops
    /\ control' = i
    /\ p' = [p EXCEPT ![i] = [Away EXCEPT !.mode = mode, !.pc = "lock"]]
    /\ UNCHANGED <<card, server, config, stopfile, work, count>>

\* MUTANT: the control lock is released before the old stop request is removed.
TakeWorkEarly(i) ==
    /\ p[i].pc = "lock" /\ p[i].mode # "stop"
    /\ control' = "free"
    /\ IF work = "free" THEN work' = i /\ Goto(i, "clear")
       ELSE UNCHANGED work /\ Goto(i, "idle")
    /\ UNCHANGED <<card, server, config, stopfile, count>>

TakeWork(i) ==
    /\ p[i].pc = "lock" /\ p[i].mode # "stop"
    /\ IF work = "free"
       THEN work' = i /\ UNCHANGED control /\ Goto(i, "clear")
       ELSE control' = "free" /\ UNCHANGED work /\ Goto(i, "idle")
    /\ UNCHANGED <<card, server, config, stopfile, count>>

ClearStop(i) ==
    /\ p[i].pc = "clear"
    /\ stopfile' = FALSE
    /\ control' = IF control = i THEN "free" ELSE control
    /\ Goto(i, "main")
    /\ UNCHANGED <<card, server, config, work, count>>

RequestStop(i) ==
    /\ p[i].pc = "lock" /\ p[i].mode = "stop"
    /\ stopfile' = TRUE
    /\ control' = "free"
    /\ p' = [j \in Procs |-> IF j = i THEN Away ELSE [p[j] EXCEPT !.told = (j = work)]]
    /\ count' = [count EXCEPT !.stops = @ + 1]
    /\ UNCHANGED <<card, server, config, work>>

Leave(i) == work' = "free" /\ Goto(i, "idle")

Main(i) ==
    /\ p[i].pc = "main"
    /\ \/ stopfile /\ Leave(i)
       \/ ~stopfile /\ ~config.upload /\ Goto(i, "end") /\ UNCHANGED work
       \/ /\ ~stopfile /\ config.upload
          /\ p' = [p EXCEPT ![i].pc = "scan", ![i].dest = config.dest,
                            ![i].delete = config.delete, ![i].seen = {}]
          /\ UNCHANGED work
    /\ UNCHANGED <<card, server, config, stopfile, control, count>>

\* MUTANT: a worker of "start" looks for the stop request only after its sleep
\* and a scan that it begins anyway.
EndUnstoppable(i) ==
    /\ p[i].pc = "end"
    /\ IF p[i].mode = "cron" THEN Leave(i)
       ELSE p' = [p EXCEPT ![i].pc = "scan", ![i].seen = {}] /\ UNCHANGED work
    /\ UNCHANGED <<card, server, config, stopfile, control, count>>

End(i) ==
    /\ p[i].pc = "end"
    /\ IF stopfile \/ p[i].mode = "cron" THEN Leave(i)
       ELSE Goto(i, "main") /\ UNCHANGED work
    /\ UNCHANGED <<card, server, config, stopfile, control, count>>

-----------------------------------------------------------------------------
(* One scan (checkFiles).                                                  *)
others == <<server, config, stopfile, locks, count>>

Prune(i) ==
    /\ p[i].pc = "scan"
    /\ receipt' = [f \in Clips |-> IF Present(f) THEN receipt[f] ELSE None]
    /\ Goto(i, "files")
    /\ UNCHANGED <<clip, undo, others>>

SentBefore(i, f) == receipt[f] = <<p[i].dest, clip[f]>>

Pick(i, f) ==
    /\ p[i].pc = "files" /\ ~stopfile
    /\ Present(f) /\ f \notin p[i].seen
    /\ p' = [p EXCEPT ![i].seen = @ \cup {f}, ![i].f = f, ![i].sum = clip[f],
                      ![i].pc = IF SentBefore(i, f) THEN "delete" ELSE "upload"]
    /\ UNCHANGED <<card, others>>

ScanEnds(i) ==
    /\ p[i].pc = "files"
    /\ stopfile \/ \A f \in Clips : Present(f) => f \in p[i].seen
    /\ Goto(i, "end")
    /\ UNCHANGED <<card, others>>

Connect(i) ==
    /\ p[i].pc = "upload"
    /\ IF Present(p[i].f)
       THEN p' = [p EXCEPT ![i].pc = "sending", ![i].to = config.dest]
       ELSE Goto(i, "files")
    /\ UNCHANGED <<card, others>>

\* MUTANT: a failed file ends the scan.
NextFileGivesUp(i) == Goto(i, "end")

\* "continue": the file is left for the next scan.
NextFile(i) == Goto(i, "files")

Store(i, what) == server' = [server EXCEPT ![p[i].to][Remote(p[i].f)] = what]

\* What ftpput read: all of the file, or what it was when retention removed it.
Whole(i) == <<p[i].f, IF Present(p[i].f) THEN clip[p[i].f] ELSE p[i].sum>>

Transfer(i) ==
    /\ p[i].pc = "sending" /\ p[i].f[2] \notin BadNames
    /\ Store(i, Whole(i))
    /\ Goto(i, "recheck")
    /\ UNCHANGED <<card, config, stopfile, locks, count>>

\* MUTANT: the status of ftpput is lost.
TransferFailsIgnored(i) ==
    /\ p[i].pc = "sending"
    /\ count.fails < MaxFails
    /\ count' = [count EXCEPT !.fails = @ + 1]
    /\ Store(i, Part) \/ UNCHANGED server
    /\ Goto(i, "recheck")
    /\ UNCHANGED <<card, config, stopfile, locks>>

\* No connection, an interrupted transfer, or a lost acknowledgement.
TransferFails(i) ==
    /\ p[i].pc = "sending"
    /\ IF p[i].f[2] \in BadNames THEN UNCHANGED <<server, count>>
       ELSE /\ count.fails < MaxFails
            /\ count' = [count EXCEPT !.fails = @ + 1]
            /\ Store(i, Part) \/ Store(i, Whole(i)) \/ UNCHANGED server
    /\ NextFile(i)
    /\ UNCHANGED <<card, config, stopfile, locks>>

Recheck(i) ==
    /\ p[i].pc = "recheck"
    /\ IF clip[p[i].f] = p[i].sum THEN Goto(i, "receipt") ELSE NextFile(i)
    /\ UNCHANGED <<card, others>>

SaveReceipt(i) ==
    /\ p[i].pc = "receipt"
    /\ receipt' = [receipt EXCEPT ![p[i].f] = <<p[i].dest, p[i].sum>>]
    /\ Goto(i, "sync")
    /\ UNCHANGED <<clip, undo, others>>

ReceiptFails(i) ==
    /\ p[i].pc = "receipt" /\ count.fails < MaxFails
    /\ count' = [count EXCEPT !.fails = @ + 1]
    /\ NextFile(i)
    /\ UNCHANGED <<card, server, config, stopfile, locks>>

Sync(i) ==
    /\ p[i].pc = "sync"
    /\ undo' = {}
    /\ Goto(i, "delete")
    /\ UNCHANGED <<clip, receipt, others>>

Delete(i) ==
    /\ p[i].pc = "delete" /\ p[i].delete
    /\ IF Present(p[i].f)
       THEN /\ clip' = [clip EXCEPT ![p[i].f] = Gone]
            /\ undo' = undo \cup {p[i].f}
       ELSE UNCHANGED <<clip, undo>>
    /\ Goto(i, "unreceipt")
    /\ UNCHANGED <<receipt, others>>

Keep(i) ==
    /\ p[i].pc = "delete"
    /\ \/ ~p[i].delete /\ UNCHANGED count
       \/ p[i].delete /\ count.fails < MaxFails /\ count' = [count EXCEPT !.fails = @ + 1]
    /\ NextFile(i)
    /\ UNCHANGED <<card, server, config, stopfile, locks>>

RemoveReceipt(i) ==
    /\ p[i].pc = "unreceipt"
    /\ receipt' = [receipt EXCEPT ![p[i].f] = None]
    /\ Goto(i, "files")
    /\ UNCHANGED <<clip, undo, others>>

-----------------------------------------------------------------------------
(* Everything else.                                                        *)
Record(f) ==
    /\ clip[f] = Absent
    /\ clip' = [clip EXCEPT ![f] = IF Growing THEN 1 ELSE Size]
    /\ UNCHANGED <<receipt, undo, server, config, stopfile, locks, p, count>>

Grow(f) ==
    /\ Present(f) /\ clip[f] < Size
    /\ clip' = [clip EXCEPT ![f] = @ + 1]
    /\ UNCHANGED <<receipt, undo, server, config, stopfile, locks, p, count>>

\* clean_records.sh or the owner; a directory goes with its receipts.
Expire(f) ==
    /\ Present(f) /\ count.changes < MaxChanges
    /\ clip' = [clip EXCEPT ![f] = Pruned]
    /\ receipt' \in {receipt, [receipt EXCEPT ![f] = None]}
    /\ count' = [count EXCEPT !.changes = @ + 1]
    /\ UNCHANGED <<undo, server, config, stopfile, locks, p>>

Configure ==
    /\ count.changes < MaxChanges
    /\ MidScan \/ \A i \in Procs : p[i].pc \in {"idle", "lock", "clear", "main", "end"}
    /\ config' \in [dest: Dests, delete: BOOLEAN, upload: BOOLEAN] /\ config' # config
    /\ count' = [count EXCEPT !.changes = @ + 1]
    /\ UNCHANGED <<card, server, stopfile, locks, p>>

\* ftpput keeps the lock of a shell that was killed until it ends.
Kill(i) ==
    /\ p[i].pc # "idle" /\ p[i].pc # "orphan" /\ count.kills < MaxKills
    /\ count' = [count EXCEPT !.kills = @ + 1]
    /\ control' = IF control = i THEN "free" ELSE control
    /\ work' = IF work = i /\ p[i].pc # "sending" THEN "free" ELSE work
    /\ Goto(i, IF p[i].pc = "sending" THEN "orphan" ELSE "idle")
    /\ UNCHANGED <<card, server, config, stopfile>>

OrphanEnds(i) ==
    /\ p[i].pc = "orphan"
    /\ Store(i, Part) \/ Store(i, Whole(i)) \/ UNCHANGED server
    /\ work' = IF work = i THEN "free" ELSE work
    /\ Goto(i, "idle")
    /\ UNCHANGED <<card, config, stopfile, control, count>>

\* Processes and locks end, STOPFILE was in RAM; a receipt that was not synced
\* and deletions since the last sync may be lost.
PowerLoss ==
    /\ count.kills < MaxKills
    /\ count' = [count EXCEPT !.kills = @ + 1]
    /\ \E back \in SUBSET undo :
           clip' = [f \in Clips |-> IF f \in back THEN Size ELSE clip[f]]
    /\ receipt' \in {receipt, [f \in Clips |-> IF \E i \in Procs : p[i].pc = "sync" /\ p[i].f = f
                                              THEN None ELSE receipt[f]]}
    /\ undo' = {} /\ stopfile' = FALSE
    /\ control' = "free" /\ work' = "free"
    /\ p' = [i \in Procs |-> Away]
    /\ UNCHANGED <<server, config>>

-----------------------------------------------------------------------------
Scan(i) ==
    \/ Prune(i) \/ (\E f \in Clips : Pick(i, f)) \/ ScanEnds(i)
    \/ Connect(i) \/ Transfer(i) \/ TransferFails(i)
    \/ Recheck(i) \/ SaveReceipt(i) \/ ReceiptFails(i) \/ Sync(i)
    \/ Delete(i) \/ Keep(i) \/ RemoveReceipt(i)

Run(i) == TakeWork(i) \/ ClearStop(i) \/ RequestStop(i) \/ Main(i) \/ End(i) \/ Scan(i) \/ OrphanEnds(i)

Next ==
    \/ \E i \in Procs : Run(i) \/ Kill(i) \/ \E mode \in Modes : Begin(i, mode)
    \/ \E f \in Clips : Record(f) \/ Grow(f) \/ Expire(f)
    \/ Configure \/ PowerLoss

\* Processes run on, and cron starts a worker again and again.
Fairness ==
    /\ \A i \in Procs : WF_vars(Run(i))
    /\ \A i \in Procs : WF_vars("cron" \in Modes /\ Begin(i, "cron"))

Spec == Init /\ [][Next]_vars /\ Fairness

-----------------------------------------------------------------------------
Sent(d, f) == server[d][Remote(f)] = <<f, Size>>

(* ftppush_queue.sh:43-44, "A file that changed during transfer is still   *)
(* pending. In particular, never delete it": a recording that the uploader *)
(* has deleted is whole at some destination, whatever failed, was killed   *)
(* or changed in between.                                                  *)
DeletedWereSent == \A f \in Clips : clip[f] = Gone => \E d \in Dests : Sent(d, f)

(* A receipt that matches a clip and a destination is true: the clip is    *)
(* there, and will not be sent again in error or kept back in error        *)
(* (OPTIMIZATIONS.md:594-597).                                             *)
ReceiptsTrue ==
    \A f \in Clips, d \in Dests :
        Present(f) /\ receipt[f] = <<d, clip[f]>> => server[d][Remote(f)] = <<f, clip[f]>>

(* One process at a time scans or transfers, the transfer of a killed      *)
(* shell included (ftppush.sh:248-249, "Killing only a parent shell could  *)
(* orphan a transfer and permit overlap").                                 *)
OneWorker ==
    \A i, j \in Procs : p[i].pc \notin {"idle", "lock"} /\ p[j].pc \notin {"idle", "lock"} => i = j

(* A stop request is not lost: it stands as long as the worker that it     *)
(* found runs, whatever else starts or ends meanwhile (ftppush.sh:217,     *)
(* "Serialize stop requests with acquisition/clearing of a new worker's    *)
(* state").                                                                *)
StopKept == \A i \in Procs : p[i].told /\ p[i].pc # "idle" => stopfile

(* ftppush_queue.sh:28, "same-minute clips and late/older files are        *)
(* distinct": no upload replaces the copy of another clip.                 *)
CopiesDistinct ==
    [][\A d \in Dests, f \in Clips : Sent(d, f) /\ ~Sent(d, f)' => server'[d][Remote(f)][1] \in {f, NoClip}]_vars

(* A worker that was asked to stop ends (ftppush.sh:250-256).              *)
StopHonoured == \A i \in Procs : p[i].told ~> p[i].pc = "idle"

(* Every complete clip that the server takes is sent to the destination,   *)
(* or leaves the card otherwise, also next to clips that always fail       *)
(* (ftppush_queue.sh:40, "A failed file cannot prevent unrelated pending   *)
(* uploads").                                                              *)
ClipsArrive ==
    \A f \in Hours \X (Names \ BadNames) : (clip[f] = Size /\ config.upload) ~>
        (Sent(config.dest, f) \/ ~Present(f) \/ ~config.upload)

(* A receipt does not outlive its clip (ftppush_queue.sh:18).              *)
ReceiptsPruned ==
    \A f \in Clips : (receipt[f] # None /\ ~Present(f)) ~>
        (receipt[f] = None \/ Present(f) \/ ~config.upload)
===============================================================================
