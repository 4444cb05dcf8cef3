------------------------------ MODULE LevelRing ------------------------------
(***************************************************************************)
(* The history of raw motion levels that motiond keeps for the recorder: a *)
(* ring of the newest readings that is kept across a restart of motiond    *)
(* and dropped when the wall clock was stepped.  (SharedHistory models how *)
(* the ring is copied; here an update is one step.)                        *)
(***************************************************************************)
EXTENDS Integers, Sequences

CONSTANTS
    Capacity,  \* LEVEL_CAPACITY
    Slack,     \* how far the two clocks may differ between two readings (2000 ms)
    Steps,     \* the clock steps considered
    When,      \* a step may happen with motiond "down", "started" or "ticking"
    MaxTime,   \* bound: monotonic time
    MaxLog     \* bound: readings without a reset

RingAssumption ==
    /\ Capacity \in Nat \ {0} /\ Slack \in Nat /\ MaxTime \in Nat
    /\ Steps \subseteq Nat /\ MaxLog \in Nat
    /\ When \subseteq {"down", "started", "ticking"}

VARIABLES
    mono,   \* CLOCK_MONOTONIC
    wall,   \* CLOCK_REALTIME
    up,     \* motiond: "down", "started" (no reading yet) or "ticking"
    torn,   \* motiond died inside an update: the sequence number is odd
    last,   \* last_wall and last_mono of this process
    h,      \* struct motion_levels
    log     \* every reading since the last reset (history variable)

vars == <<mono, wall, up, torn, last, h, log>>

Slots == 0..Capacity - 1
None == [wall |-> 0, mono |-> 0]
Abs(n) == IF n < 0 THEN -n ELSE n
Reading == [wall |-> wall, mono |-> mono]

ResetLevels == [first |-> 0, count |-> 0, started |-> wall, discarded |-> -1,
                until |-> wall, samples |-> [i \in Slots |-> None]]

TypeOK ==
    /\ mono \in 0..MaxTime /\ wall \in Int
    /\ up \in {"down", "started", "ticking"} /\ torn \in BOOLEAN
    /\ last \in [wall: Int, mono: Int]
    /\ h \in [first: Slots, count: 0..Capacity, started: Int, discarded: Int, until: Int,
              samples: [Slots -> [wall: Int, mono: Int]]]
    /\ log \in Seq([wall: Int, mono: Int])

Init ==
    /\ mono = 1 /\ wall = 10
    /\ up = "down" /\ torn = TRUE
    /\ last = None /\ h = ResetLevels /\ log = <<>>

-----------------------------------------------------------------------------
\* MUTANT: the clock is not looked at when the ring is kept.
RetainAlways == ~torn

Retain == ~torn /\ h.until <= wall

Start ==
    /\ up = "down"
    /\ up' = "started"
    /\ last' = None
    /\ torn' = FALSE
    /\ h' = IF Retain THEN h ELSE ResetLevels
    /\ log' = IF Retain THEN log ELSE <<>>
    /\ UNCHANGED <<mono, wall>>

\* A step of the wall clock since the last reading of this process.
ClockStepped ==
    /\ up = "ticking"
    /\ \/ wall < last.wall
       \/ Abs((wall - last.wall) - (mono - last.mono)) > Slack

Append1(r) ==
    LET full == r.count = Capacity
        first == IF full THEN (r.first + 1) % Capacity ELSE r.first
        count == IF full THEN r.count - 1 ELSE r.count
    IN [first |-> first, count |-> count + 1, started |-> r.started, until |-> r.until,
        discarded |-> IF full THEN r.samples[r.first].wall ELSE r.discarded,
        samples |-> [r.samples EXCEPT ![(first + count) % Capacity] = Reading]]

Tick(active) ==
    /\ up # "down"
    /\ active => Len(log) < MaxLog
    /\ up' = "ticking"
    /\ last' = Reading
    /\ LET base == [(IF ClockStepped THEN ResetLevels ELSE h) EXCEPT !.until = wall]
           seen == IF ClockStepped THEN <<>> ELSE log
       IN IF active THEN h' = Append1(base) /\ log' = Append(seen, Reading)
          ELSE h' = base /\ log' = seen
    /\ UNCHANGED <<mono, wall, torn>>

Die ==
    /\ up # "down"
    /\ up' = "down"
    /\ torn' \in BOOLEAN
    /\ UNCHANGED <<mono, wall, last, h, log>>

TimePasses ==
    /\ mono < MaxTime
    /\ mono' = mono + 1 /\ wall' = wall + 1
    /\ UNCHANGED <<up, torn, last, h, log>>

MaxWall == 16  \* bound: the wall clock after a step

StepClock ==
    /\ up \in When
    /\ \E d \in Steps : wall' = wall + d \/ (wall > d /\ wall' = wall - d)
    /\ wall' <= MaxWall
    /\ UNCHANGED <<mono, up, torn, last, h, log>>

Next == Start \/ (\E active \in BOOLEAN : Tick(active)) \/ Die \/ TimePasses \/ StepClock

Spec == Init /\ [][Next]_vars

-----------------------------------------------------------------------------
Held == [i \in 1..h.count |-> h.samples[(h.first + i - 1) % Capacity]]

(* The ring holds the newest readings since the last reset, in their       *)
(* order, and discarded_ms is the time of the newest one it lost, across   *)
(* overflows, restarts and clock steps (motion_metadata_levels.c:105-110). *)
HoldsTheNewest ==
    /\ Len(log) >= h.count
    /\ Held = SubSeq(log, Len(log) - h.count + 1, Len(log))
    /\ h.count = Capacity \/ h.count = Len(log)
    /\ h.discarded = IF Len(log) = h.count THEN -1 ELSE log[Len(log) - h.count].wall

(* motion_metadata_levels.c:95, "Do not bridge a manual/NTP clock step     *)
(* with apparently continuous history": the readings held lie in the       *)
(* interval the history says it covers, and in the order of the clock.     *)
ClockOrdered ==
    up # "down" =>
        /\ \A i \in 1..h.count : Held[i].wall \in h.started..h.until
        /\ \A i \in 1..h.count - 1 : Held[i].wall <= Held[i + 1].wall
===============================================================================
