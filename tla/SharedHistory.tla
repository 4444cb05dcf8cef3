---------------------------- MODULE SharedHistory ----------------------------
(***************************************************************************)
(* The snapshots that one process publishes in a mapped file and another   *)
(* one copies: the motion levels (motiond writes, the recorder's threads   *)
(* read), the motion events (ipc2file writes) and the motion map (the      *)
(* encoder writes, motiond reads).  A sequence number is odd while the     *)
(* snapshot is being written.  The three differ in what a restarted writer *)
(* does: the levels are kept when the number is even, the events are       *)
(* always reset, and the map is cleared together with its number.          *)
(*                                                                         *)
(* The snapshot is a few words that are written and copied one at a time;  *)
(* each update writes its own stamp into all of them, so that a copy is    *)
(* one snapshot exactly when its words carry the same stamp.               *)
(***************************************************************************)
EXTENDS Naturals

CONSTANTS
    Restart,      \* "retain", "reset" or "zero"
    Words,        \* words of a snapshot
    Inodes,       \* bound: files created at the path, 1..n
    Readers,      \* threads of the reading process
    MaxTries,     \* attempts of a reader: 4, and 2 for the map
    MaxUpdates,   \* bound: updates of the snapshot
    MaxKills      \* bound: times the writer is killed

HistoryAssumption ==
    /\ Restart \in {"retain", "reset", "zero"}
    /\ Words \in Nat \ {0} /\ MaxTries \in Nat \ {0}
    /\ MaxUpdates \in Nat /\ MaxKills \in Nat
    /\ Inodes \subseteq Nat \ {0} /\ 1 \in Inodes /\ "free" \notin Readers

VARIABLES
    mem,     \* the shared pages of every file
    path,    \* the file the path names, 0 for none
    w,       \* the writer: what it does, the file it mapped, the word it writes
    stamp,   \* updates so far (bound, and the contents of the words)
    kills,   \* times the writer was killed (bound)
    mapped,  \* the file mapped by the reading process, 0 for none
    lock,    \* the reader that holds reader_lock, or "free"
    rd       \* the readers

vars == <<mem, path, w, stamp, kills, mapped, lock, rd>>

Cells == 1..Words
Blank == [seq |-> 0, magic |-> FALSE, cell |-> [k \in Cells |-> 0]]
Resting == [pc |-> "idle", ino |-> 0, tries |-> 0, before |-> 0, k |-> 1,
            copy |-> [k \in Cells |-> 0]]

Page   == [seq: Nat, magic: BOOLEAN, cell: [Cells -> 0..MaxUpdates]]
Writer == [pc: {"down", "idle", "clear", "write"}, ino: Inodes, k: 1..Words + 1]
Reader == [pc: {"idle", "open", "load", "copy", "check", "done"}, ino: Inodes \cup {0},
           tries: 0..MaxTries, before: Nat, k: 1..Words + 1, copy: [Cells -> 0..MaxUpdates]]

TypeOK ==
    /\ mem \in [Inodes -> Page]
    /\ path \in Inodes \cup {0} /\ mapped \in Inodes \cup {0}
    /\ w \in Writer
    /\ stamp \in 0..MaxUpdates /\ kills \in 0..MaxKills
    /\ lock \in Readers \cup {"free"}
    /\ rd \in [Readers -> Reader]

Init ==
    /\ mem = [i \in Inodes |-> Blank]
    /\ path = 0 /\ mapped = 0
    /\ w = [pc |-> "down", ino |-> 1, k |-> 1]
    /\ stamp = 0 /\ kills = 0
    /\ lock = "free"
    /\ rd = [r \in Readers |-> Resting]

readerVars == <<mapped, lock, rd>>
Odd(n) == n % 2 = 1
Seq == mem[w.ino].seq

-----------------------------------------------------------------------------
(* The writer.                                                             *)
FileOpened(i) == IF path # 0 THEN i = path
                 ELSE mem[i] = Blank /\ \A j \in Inodes : j < i => mem[j] # Blank

\* MUTANT: an odd number left by a killed writer is not made even first.
StartInPlaceUnrounded(i) ==
    /\ mem' = [mem EXCEPT ![i].seq = @ + 1, ![i].magic = TRUE]
    /\ w' = [pc |-> "write", ino |-> i, k |-> 1]

StartInPlace(i) ==
    /\ mem' = [mem EXCEPT ![i].seq = @ + (@ % 2) + 1, ![i].magic = TRUE]
    /\ w' = [pc |-> "write", ino |-> i,
             k |-> IF Restart = "retain" /\ ~Odd(mem[i].seq) /\ mem[i].magic
                   THEN Words + 1 ELSE 1]

StartFromZero(i) ==
    /\ mem' = [mem EXCEPT ![i].seq = 0, ![i].magic = FALSE]
    /\ w' = [pc |-> "clear", ino |-> i, k |-> 1]

Start(i) ==
    /\ w.pc = "down" /\ stamp < MaxUpdates
    /\ FileOpened(i)
    /\ path' = i
    /\ stamp' = stamp + 1
    /\ IF Restart = "zero" THEN StartFromZero(i) ELSE StartInPlace(i)
    /\ UNCHANGED <<kills, readerVars>>

Clear ==
    /\ w.pc = "clear"
    /\ IF w.k > Words
       THEN /\ mem' = [mem EXCEPT ![w.ino].magic = TRUE]
            /\ w' = [w EXCEPT !.pc = "idle"]
       ELSE /\ mem' = [mem EXCEPT ![w.ino].cell[w.k] = 0]
            /\ w' = [w EXCEPT !.k = @ + 1]
    /\ UNCHANGED <<path, stamp, kills, readerVars>>

BeginUpdate ==
    /\ w.pc = "idle" /\ stamp < MaxUpdates
    /\ mem' = [mem EXCEPT ![w.ino].seq = @ + 1]
    /\ w' = [w EXCEPT !.pc = "write", !.k = 1]
    /\ stamp' = stamp + 1
    /\ UNCHANGED <<path, kills, readerVars>>

WriteWord ==
    /\ w.pc = "write" /\ w.k <= Words
    /\ mem' = [mem EXCEPT ![w.ino].cell[w.k] = stamp]
    /\ w' = [w EXCEPT !.k = @ + 1]
    /\ UNCHANGED <<path, stamp, kills, readerVars>>

EndUpdate ==
    /\ w.pc = "write" /\ w.k > Words
    /\ mem' = [mem EXCEPT ![w.ino].seq = @ + 1]
    /\ w' = [w EXCEPT !.pc = "idle"]
    /\ UNCHANGED <<path, stamp, kills, readerVars>>

Kill ==
    /\ w.pc # "down" /\ kills < MaxKills
    /\ w' = [w EXCEPT !.pc = "down"]
    /\ kills' = kills + 1
    /\ UNCHANGED <<mem, path, stamp, readerVars>>

\* Somebody removes the file from /tmp; the next writer creates another one.
Unlink ==
    /\ path # 0 /\ w.pc = "down" /\ path + 1 \in Inodes
    /\ path' = 0
    /\ UNCHANGED <<mem, w, stamp, kills, readerVars>>

-----------------------------------------------------------------------------
(* The readers: one descriptor check, a mapping shared by all threads      *)
(* under reader_lock, then a bounded number of copies.                     *)
writerVars == <<mem, path, w, stamp, kills>>

TakeLock(r) ==
    /\ rd[r].pc = "idle" /\ lock = "free"
    /\ lock' = r
    /\ rd' = [rd EXCEPT ![r] = [Resting EXCEPT !.pc = "open"]]
    /\ UNCHANGED <<writerVars, mapped>>

Open(r) ==
    /\ rd[r].pc = "open"
    /\ mapped' = path
    /\ IF path = 0
       THEN lock' = "free" /\ rd' = [rd EXCEPT ![r] = Resting]
       ELSE UNCHANGED lock /\ rd' = [rd EXCEPT ![r].pc = "load", ![r].ino = path]
    /\ UNCHANGED writerVars

\* MUTANT: the reader keeps trying.
AgainUnbounded(r) == UNCHANGED lock /\ rd' = [rd EXCEPT ![r].pc = "load"]

Again(r) ==
    IF rd[r].tries + 1 = MaxTries
    THEN lock' = "free" /\ rd' = [rd EXCEPT ![r] = Resting]
    ELSE UNCHANGED lock /\ rd' = [rd EXCEPT ![r].pc = "load", ![r].tries = @ + 1]

Load(r) ==
    /\ rd[r].pc = "load" /\ mapped # 0
    /\ LET s == mem[mapped].seq IN
       IF Odd(s) \/ (Restart = "zero" /\ s = 0) THEN Again(r)
       ELSE UNCHANGED lock /\ rd' = [rd EXCEPT ![r].pc = "copy", ![r].before = s, ![r].k = 1]
    /\ UNCHANGED <<writerVars, mapped>>

CopyWord(r) ==
    /\ rd[r].pc = "copy" /\ mapped # 0
    /\ rd' = [rd EXCEPT ![r].copy[rd[r].k] = mem[mapped].cell[rd[r].k],
                        ![r].k = @ + 1,
                        ![r].pc = IF rd[r].k = Words THEN "check" ELSE "copy"]
    /\ UNCHANGED <<writerVars, mapped, lock>>

Check(r) ==
    /\ rd[r].pc = "check" /\ mapped # 0
    /\ IF mem[mapped].seq = rd[r].before /\ mem[mapped].magic
       THEN lock' = "free" /\ rd' = [rd EXCEPT ![r].pc = "done"]
       ELSE Again(r)
    /\ UNCHANGED <<writerVars, mapped>>

Use(r) ==
    /\ rd[r].pc = "done"
    /\ rd' = [rd EXCEPT ![r] = Resting]
    /\ UNCHANGED <<writerVars, mapped, lock>>

-----------------------------------------------------------------------------
Read(r) == Open(r) \/ Load(r) \/ CopyWord(r) \/ Check(r) \/ Use(r)

Next ==
    \/ \E i \in Inodes : Start(i)
    \/ Clear \/ BeginUpdate \/ WriteWord \/ EndUpdate \/ Kill \/ Unlink
    \/ \E r \in Readers : TakeLock(r) \/ Read(r)

Spec == Init /\ [][Next]_vars /\ \A r \in Readers : WF_vars(Read(r))

-----------------------------------------------------------------------------
(* A snapshot that a reader accepts is the one that was current when it    *)
(* looked: no word of it comes from another update, whoever was killed or  *)
(* restarted while it was copied (motion_metadata_levels.c:135-144,        *)
(* motion_metadata_events.c:124-133, motion_mask.h:78 "a fresh coherent    *)
(* frame").                                                                *)
Coherent ==
    \A r \in Readers : rd[r].pc = "done" => \A k \in Cells : rd[r].copy[k] = rd[r].copy[1]

(* A thread copies from the file it looked at: no other thread unmaps it   *)
(* meanwhile (motion_metadata_events.c:138, "Concurrent muxer closes must  *)
(* not unmap another reader's snapshot").                                  *)
MappingHeld ==
    \A r \in Readers : rd[r].pc \in {"load", "copy", "check"} => mapped = rd[r].ino

(* A writer between two updates has an even number and a whole snapshot    *)
(* behind it, even after a start over the odd number of a killed writer    *)
(* (motion_metadata_levels.c:55-69).                                       *)
Published ==
    w.pc = "idle" => /\ ~Odd(Seq) /\ mem[w.ino].magic
                     /\ \A k \in Cells : mem[w.ino].cell[k] = mem[w.ino].cell[1]

(* A reader ends, with a snapshot or without, also when the writer died    *)
(* inside an update (motion_metadata_events.c:123, "never block or spin    *)
(* indefinitely during clip closure").                                     *)
ReaderEnds == \A r \in Readers : rd[r].pc = "open" ~> rd[r].pc = "idle"
===============================================================================
