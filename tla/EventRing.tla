------------------------------ MODULE EventRing ------------------------------
(***************************************************************************)
(* The history of motion transitions that ipc2file keeps, and the events   *)
(* that the recorder writes into a clip from it when the clip is closed    *)
(* (schema yi-motion-v1).  Only the clips of a y28ga are written from it.  *)
(***************************************************************************)
EXTENDS Integers, FiniteSetsExt

CONSTANTS
    Capacity,  \* EVENT_CAPACITY
    MaxTime,   \* bound: the wall clock
    MaxSame    \* bound: messages within one millisecond

EventAssumption == Capacity \in Nat \ {0} /\ MaxTime \in Nat /\ MaxSame \in Nat

VARIABLES
    now,     \* wall clock
    signal,  \* signal[t]: the detector's state at the end of millisecond t
    same,    \* messages in this millisecond (bound)
    up,      \* ipc2file runs
    hist     \* struct motion_history

vars == <<now, signal, same, up, hist>>

Unknown == -1
States == {0, 1}
Slots == 0..Capacity - 1
Blank == [t |-> 0, state |-> Unknown]

TypeOK ==
    /\ now \in 0..MaxTime /\ same \in 0..MaxSame /\ up \in BOOLEAN
    /\ signal \in [0..now -> States]
    /\ hist \in [first: Slots, count: 0..Capacity, events: [Slots -> [t: 0..MaxTime, state: States \cup {Unknown}]],
                 base: 0..MaxTime, state: States \cup {Unknown}, last: States \cup {Unknown},
                 sample: BOOLEAN]

Cleared == [first |-> 0, count |-> 0, events |-> [i \in Slots |-> Blank],
            base |-> now, state |-> Unknown, last |-> Unknown, sample |-> TRUE]

Init ==
    /\ now = 0 /\ same = 0
    /\ signal = [t \in {0} |-> 0]
    /\ up = FALSE
    /\ hist = Cleared

-----------------------------------------------------------------------------
\* The baseline of a y28ga: 1 if motion_alarm exists, which an earlier consumer
\* may have left or never created; Unknown if the model cannot be read.
Start ==
    /\ ~up
    /\ up' = TRUE
    /\ \E s \in States \cup {Unknown} :
           hist' = [Cleared EXCEPT !.state = s, !.last = s]
    /\ UNCHANGED <<now, signal, same>>

\* MUTANT: the baseline keeps its state when the oldest event is dropped.
DropOldestStale(x) ==
    [x EXCEPT !.base = x.events[x.first].t, !.sample = FALSE,
              !.first = (@ + 1) % Capacity, !.count = @ - 1]

DropOldest(x) ==
    [x EXCEPT !.base = x.events[x.first].t, !.state = x.events[x.first].state, !.sample = FALSE,
              !.first = (@ + 1) % Capacity, !.count = @ - 1]

HistoryAdd(x, s) ==
    LET y == IF x.count = Capacity THEN DropOldest(x) ELSE x IN
    [y EXCEPT !.events[(y.first + y.count) % Capacity] = [t |-> now, state |-> s],
              !.count = @ + 1, !.last = s]

\* A START or STOP from the broker, which may repeat itself.
Observe(s) ==
    /\ same < MaxSame
    /\ signal' = [signal EXCEPT ![now] = s]
    /\ same' = same + 1
    /\ hist' = IF up /\ s # hist.last THEN HistoryAdd(hist, s) ELSE hist
    /\ UNCHANGED <<now, up>>

Kill == /\ up
        /\ up' = FALSE
        /\ UNCHANGED <<now, signal, same, hist>>

TimePasses ==
    /\ now < MaxTime
    /\ now' = now + 1
    /\ signal' = [t \in 0..now + 1 |-> IF t <= now THEN signal[t] ELSE signal[now]]
    /\ same' = 0
    /\ UNCHANGED <<up, hist>>

Next == Start \/ (\E s \in States : Observe(s)) \/ Kill \/ TimePasses

Spec == Init /\ [][Next]_vars

-----------------------------------------------------------------------------
(* What build_json writes for a clip from start to end.                    *)
Nth(i) == hist.events[(hist.first + i - 1) % Capacity]
Truncated(start) == hist.base > start

InitialState(start) ==
    LET before == {i \in 1..hist.count : Nth(i).t <= start} IN
    IF before # {} THEN Nth(Max(before)).state
    ELSE IF Truncated(start) THEN Unknown ELSE hist.state

\* The rows: the baseline when it is known, and the transitions, that fall
\* into the clip.
Row(i) == IF i = 0 THEN [t |-> hist.base, state |-> hist.state] ELSE Nth(i)
Rows(start, end) == {i \in 0..hist.count : Row(i).t \in start..end /\ (i = 0 => hist.state # Unknown)}

\* How a reader of the clip reconstructs the state at time t.
StateAt(start, end, t) ==
    LET past == {i \in Rows(start, end) : Row(i).t <= t}
    IN IF past = {} THEN InitialState(start) ELSE Row(Max(past)).state

Clips == {c \in (0..now) \X (0..now) : c[1] <= c[2]}

\* The sample that the consumer took at its start was not the detector's state.
StaleSample == hist.sample /\ hist.state # signal[hist.base]

(* A clip closed while ipc2file runs tells the state of the detector at    *)
(* every moment it says anything about, whatever the ring has dropped and  *)
(* however often ipc2file was restarted.  Only a sample may be wrong, when *)
(* motion_alarm was stale as it was taken, and only until the first        *)
(* transition (record_metadata.c:257-300, motion_metadata_events.c:37-49). *)
ClipTellsTheTruth ==
    up => \A c \in Clips : \A t \in c[1]..c[2] :
              \/ StateAt(c[1], c[2], t) \in {Unknown, signal[t]}
              \/ StaleSample /\ \A i \in 1..hist.count : Nth(i).t > t

\* And it says something about all of a clip that is not marked truncated.
ClipIsComplete ==
    up /\ hist.state # Unknown =>
        \A c \in Clips : ~Truncated(c[1]) =>
            \A t \in c[1]..c[2] : StateAt(c[1], c[2], t) # Unknown

(* The transitions of the ring alternate, from the baseline on: no state   *)
(* is repeated and none is missing between two events.                     *)
Alternates ==
    up => \A i \in 1..hist.count : Row(i).state # Row(i - 1).state
===============================================================================
