----------------------------- MODULE ClipClose -----------------------------
(***************************************************************************)
(* The motion tag of a recording (record_metadata.c, preloaded into the    *)
(* vendor's recorder): open remembers the descriptors of recordings in a   *)
(* table of RECORD_FDS slots; close takes the descriptor out of the table, *)
(* appends a udta box behind the final moov, then makes moov that much     *)
(* longer, and takes both back when a write fails.  The recorder's threads *)
(* open and close recordings and other files, and the kernel gives out the *)
(* lowest free descriptor.                                                 *)
(***************************************************************************)
EXTENDS Integers

CONSTANTS
    Threads,      \* threads of the recorder
    Clips,        \* recordings, each opened once
    Others,       \* finished clips that the recorder only opens to read
    RECORD_FDS,   \* slots of the table, 4
    MaxFd,        \* descriptors for these files
    MaxFaults     \* bound: failed calls and kills

Files == Clips \cup Others
Fds   == 1..MaxFd
Slots == 1..RECORD_FDS

ClipAssumption ==
    /\ RECORD_FDS \in Nat \ {0} /\ MaxFd \in Nat \ {0} /\ MaxFaults \in Nat
    /\ "closed" \notin Files /\ Clips \cap Others = {}

VARIABLES
    fds,       \* descriptor -> the open file, or "closed"
    tracked,   \* slot -> a descriptor, or -1
    file,      \* file -> its moov box, the size moov declares, what follows the original moov
    thread,    \* thread -> its step and its descriptor
    due,       \* recordings that were finished and whose tag could be built
    faults

vars == <<fds, tracked, file, thread, due, faults>>

FreshFile   == [moov |-> "none", size |-> "old", tail |-> "none"]
FinishedOne == [FreshFile EXCEPT !.moov = "last"]
NoThread    == [step |-> "idle", fd |-> 0]

Init ==
    /\ fds = [d \in Fds |-> "closed"]
    /\ tracked = [s \in Slots |-> -1]
    /\ file = [f \in Files |-> IF f \in Clips THEN FreshFile ELSE FinishedOne]
    /\ thread = [t \in Threads |-> NoThread]
    /\ due = {} /\ faults = 0

-----------------------------------------------------------------------------
Goto(t, step) == thread' = [thread EXCEPT ![t].step = step]
FileOf(t)     == fds[thread[t].fd]
Mine(t)       == file[FileOf(t)]
Put(t, f)     == file' = [file EXCEPT ![FileOf(t)] = f]
Fault         == faults < MaxFaults /\ faults' = faults + 1
Lowest(s, S)  == s \in S /\ \A x \in S : s <= x

(* recording_open up to the lock: real_open *)
Open(t, f) ==
    /\ thread[t].step = "idle"
    /\ \A d \in Fds : fds[d] # f
    /\ f \in Clips => file[f] = FreshFile
    /\ \E d \in Fds :
        /\ Lowest(d, {e \in Fds : fds[e] = "closed"})
        /\ fds' = [fds EXCEPT ![d] = f]
        /\ thread' = [thread EXCEPT ![t] = [step |-> IF f \in Clips THEN "track" ELSE "close", fd |-> d]]
    /\ UNCHANGED <<tracked, file, due, faults>>

(* Mutant: without the break every free slot takes the descriptor. *)
TrackEvery(t) ==
    /\ thread[t].step = "track"
    /\ tracked' = [s \in Slots |-> IF tracked[s] = -1 THEN thread[t].fd ELSE tracked[s]]
    /\ Goto(t, "mux")
    /\ UNCHANGED <<fds, file, due, faults>>

(* The first free slot; a fifth recording is not tracked. *)
Track(t) ==
    /\ thread[t].step = "track"
    /\ LET free == {s \in Slots : tracked[s] = -1} IN
        \/ free = {} /\ UNCHANGED tracked
        \/ \E s \in Slots : Lowest(s, free) /\ tracked' = [tracked EXCEPT ![s] = thread[t].fd]
    /\ Goto(t, "mux")
    /\ UNCHANGED <<fds, file, due, faults>>

(* The vendor's muxer writes media and, unless it gives up, the moov box. *)
Mux(t) ==
    /\ thread[t].step = "mux"
    /\ \E moov \in {"none", "last"} :
        /\ Put(t, [Mine(t) EXCEPT !.moov = moov])
        /\ due' = due \cup {f \in {FileOf(t)} : moov = "last"}
    /\ Goto(t, "close")
    /\ UNCHANGED <<fds, tracked, faults>>

(* Mutant: the slot is not given back. *)
UntrackKept(t) ==
    /\ thread[t].step = "close"
    /\ Goto(t, IF \E s \in Slots : tracked[s] = thread[t].fd THEN "find" ELSE "release")
    /\ UNCHANGED <<fds, tracked, file, due, faults>>

(* close(), the part under fd_lock *)
Untrack(t) ==
    /\ thread[t].step = "close"
    /\ LET mine == {s \in Slots : tracked[s] = thread[t].fd} IN
        \/ mine = {} /\ UNCHANGED tracked /\ Goto(t, "release")
        \/ \E s \in Slots : Lowest(s, mine) /\ tracked' = [tracked EXCEPT ![s] = -1] /\ Goto(t, "find")
    /\ UNCHANGED <<fds, file, due, faults>>

(* find_movie, and build_json, which has no history to read when motiond or *)
(* ipc2file never ran: the file is left alone then. *)
FindMovie(t) ==
    /\ thread[t].step = "find"
    /\ \/ Mine(t).moov = "last" /\ Goto(t, "append") /\ UNCHANGED due
       \/ Goto(t, "release") /\ due' = due \ {FileOf(t)}
    /\ UNCHANGED <<fds, tracked, file, faults>>

(* write_at(udta, movie.end): a full card takes a part of it *)
Append(t) ==
    /\ thread[t].step = "append"
    /\ \/ Put(t, [Mine(t) EXCEPT !.tail = "whole"]) /\ Goto(t, "size") /\ UNCHANGED faults
       \/ Fault /\ (\E part \in {"none", "part"} : Put(t, [Mine(t) EXCEPT !.tail = part])) /\ Goto(t, "truncate")
    /\ UNCHANGED <<fds, tracked, due>>

(* Mutant: the size that failed to be written is not written back. *)
NewSizeOnly(t) ==
    /\ thread[t].step = "size"
    /\ \/ Put(t, [Mine(t) EXCEPT !.size = "new"]) /\ Goto(t, "release") /\ UNCHANGED faults
       \/ Fault /\ (\E size \in {"old", "torn"} : Put(t, [Mine(t) EXCEPT !.size = size])) /\ Goto(t, "truncate")
    /\ UNCHANGED <<fds, tracked, due>>

(* The four bytes of moov's size; a failed write may have changed some of them. *)
NewSize(t) ==
    /\ thread[t].step = "size"
    /\ \/ Put(t, [Mine(t) EXCEPT !.size = "new"]) /\ Goto(t, "release") /\ UNCHANGED faults
       \/ Fault /\ (\E size \in {"old", "torn"} : Put(t, [Mine(t) EXCEPT !.size = size])) /\ Goto(t, "restore")
    /\ UNCHANGED <<fds, tracked, due>>

(* write_at(old_size), whose result is not looked at *)
OldSize(t) ==
    /\ thread[t].step = "restore"
    /\ \/ Put(t, [Mine(t) EXCEPT !.size = "old"]) /\ UNCHANGED faults
       \/ Fault /\ UNCHANGED file
    /\ Goto(t, "truncate")
    /\ UNCHANGED <<fds, tracked, due>>

(* Mutant: the tail is only cut off when the append was what failed. *)
TruncatePart(t) ==
    /\ thread[t].step = "truncate"
    /\ IF Mine(t).tail = "whole" THEN UNCHANGED file ELSE Put(t, [Mine(t) EXCEPT !.tail = "none"])
    /\ Goto(t, "release")
    /\ UNCHANGED <<fds, tracked, due, faults>>

Truncate(t) ==
    /\ thread[t].step = "truncate"
    /\ \/ Put(t, [Mine(t) EXCEPT !.tail = "none"]) /\ UNCHANGED faults
       \/ Fault /\ UNCHANGED file
    /\ Goto(t, "release")
    /\ UNCHANGED <<fds, tracked, due>>

(* real_close *)
Release(t) ==
    /\ thread[t].step = "release"
    /\ fds' = [fds EXCEPT ![thread[t].fd] = "closed"]
    /\ thread' = [thread EXCEPT ![t] = NoThread]
    /\ UNCHANGED <<tracked, file, due, faults>>

(* The recorder is killed and started again: its table is new. *)
Kill ==
    /\ Fault
    /\ fds' = [d \in Fds |-> "closed"]
    /\ tracked' = [s \in Slots |-> -1]
    /\ thread' = [t \in Threads |-> NoThread]
    /\ UNCHANGED <<file, due>>

Next ==
    \/ \E t \in Threads :
        \/ \E f \in Files : Open(t, f)
        \/ Track(t) \/ Mux(t) \/ Untrack(t) \/ FindMovie(t) \/ Append(t)
        \/ NewSize(t) \/ OldSize(t) \/ Truncate(t) \/ Release(t)
    \/ Kill

Spec == Init /\ [][Next]_vars

-----------------------------------------------------------------------------
(* After one failed call, or one kill anywhere inside close, a player finds *)
(* in every finished recording the moov box of the muxer, alone or with the *)
(* complete tag: its size never covers bytes that were not written          *)
(* (finalize_metadata appends before it changes the size).                  *)
Playable ==
    faults <= 1 => \A f \in Files : file[f].moov = "last" =>
        \/ file[f].size = "old"
        \/ file[f].size = "new" /\ file[f].tail = "whole"
        \/ \E t \in Threads : thread[t].step = "restore" /\ FileOf(t) = f

(* "A failed metadata write must leave the original playable container":    *)
(* when close returns after one failed call at most, the file has the whole *)
(* tag or not one byte of it.                                               *)
WholeOrOriginal ==
    faults <= 1 => \A t \in Threads : thread[t].step = "release" =>
        <<Mine(t).size, Mine(t).tail>> \in {<<"old", "none">>, <<"new", "whole">>}

(* A descriptor that served a recording before is a plain file again: a     *)
(* file that was not opened as a recording is never written to.             *)
OthersUntouched == \A f \in Others : file[f] = FinishedOne

(* While no call fails and no more recordings are open than the table has   *)
(* slots, every finished recording whose tag could be built carries it.     *)
Tagged ==
    faults = 0 /\ MaxFd <= RECORD_FDS => \A f \in due : (\A d \in Fds : fds[d] # f) => file[f].size = "new"
=============================================================================
