---------------------------- MODULE MCHistories ----------------------------
(* From a motion to the clip that shows it: the shared pages (SharedHistory *)
(* as the level history, the event history and the motion map use it), the  *)
(* two rings in them (LevelRing, EventRing), the event files (EventFiles)   *)
(* and the metadata of a closed clip (ClipClose).  Each is checked against  *)
(* an environment that may do anything the others can do to it, so part     *)
(* says which of them moves in a behaviour; the others rest.                *)
EXTENDS Naturals

CONSTANTS
    r1, r2,                                          \* threads of the reading process
    LevelCapacity, Slack, Steps, MaxLog, LevelTime,  \* the ring of levels
    EventCapacity, MaxSame, EventTime,               \* the ring of events
    MaxMsg, MaxEvents, MaxRestarts,                  \* the queue of ipc2file
    Threads, Recordings, Others, RECORD_FDS, MaxFd, MaxFaults  \* the recorder

VARIABLES
    part,
    mem, path, w, stamp, kills, mapped, lock, rd,
    mono, wall, motiond, torn, reading, h, log,
    now, signal, same, collector, hist,
    queue, files, up, last, timers, history, motion, heard, hidden, left, events, restarts,
    fds, tracked, file, thread, due, faults

\* motiond's levels, ipc2file's events, and the encoder's map, with their proofs.
LevelPages == INSTANCE SharedHistoryProofs WITH
    Restart <- "retain", Words <- 2, Inodes <- {1, 2}, Readers <- {r1, r2},
    MaxTries <- 4, MaxUpdates <- 3, MaxKills <- 2
EventPages == INSTANCE SharedHistoryProofs WITH
    Restart <- "reset", Words <- 3, Inodes <- {1}, Readers <- {r1},
    MaxTries <- 4, MaxUpdates <- 4, MaxKills <- 2
MapPages == INSTANCE SharedHistoryProofs WITH
    Restart <- "zero", Words <- 2, Inodes <- {1}, Readers <- {r1},
    MaxTries <- 2, MaxUpdates <- 5, MaxKills <- 2

\* A ring of levels that wraps, with clock steps of twice the slack.
Ring == INSTANCE LevelRing WITH
    up <- motiond, last <- reading, Capacity <- LevelCapacity, Slack <- Slack, Steps <- Steps,
    When <- {"down", "ticking"}, MaxLog <- MaxLog, MaxTime <- LevelTime

\* A ring of events that wraps.
Log == INSTANCE EventRing WITH up <- collector, Capacity <- EventCapacity, MaxTime <- EventTime, MaxSame <- MaxSame

\* Every message and restarts; no restarts; no messages of the classifiers.
Restarted == INSTANCE EventFiles WITH
    Events <- {"start", "stop", "cry", "human", "sound", "other"}, MaxMsg <- MaxMsg, MaxEvents <- MaxEvents, MaxRestarts <- MaxRestarts
Steady == INSTANCE EventFiles WITH
    Events <- {"start", "stop", "cry", "human", "sound", "other"}, MaxMsg <- MaxMsg, MaxEvents <- MaxEvents, MaxRestarts <- 0
Plain == INSTANCE EventFiles WITH
    Events <- {"start", "stop", "sound", "other"}, MaxMsg <- MaxMsg, MaxEvents <- MaxEvents, MaxRestarts <- MaxRestarts

\* Two recordings closed by two threads while a third file is read.
Close == INSTANCE ClipClose WITH
    Threads <- Threads, Clips <- Recordings, Others <- Others, RECORD_FDS <- RECORD_FDS, MaxFd <- MaxFd, MaxFaults <- MaxFaults

ASSUME PagesAssumption ==
    LevelPages!HistoryAssumption /\ EventPages!HistoryAssumption /\ MapPages!HistoryAssumption
ASSUME RingsAssumption == Ring!RingAssumption /\ Log!EventAssumption
ASSUME ClosesAssumption == Close!ClipAssumption
ASSUME FilesAssumption ==
    Restarted!EventFilesAssumption /\ Steady!EventFilesAssumption /\ Plain!EventFilesAssumption

shared == <<mem, path, w, stamp, kills, mapped, lock, rd>>
ring   == <<mono, wall, motiond, torn, reading, h, log>>
evlog  == <<now, signal, same, collector, hist>>
alarm  == <<queue, files, up, last, timers, history, motion, heard, hidden, left, events, restarts>>
clip   == <<fds, tracked, file, thread, due, faults>>
vars   == <<part, shared, ring, evlog, alarm, clip>>

Init ==
    /\ part \in {"levels", "events", "map", "ring", "log", "restarted", "steady", "plain", "close"}
    /\ \/ part = "events" /\ EventPages!Init
       \/ part = "map" /\ MapPages!Init
       \/ part \notin {"events", "map"} /\ LevelPages!Init
    /\ Ring!Init /\ Log!Init /\ Steady!Init /\ Close!Init

Next ==
    /\ UNCHANGED part
    /\ \/ /\ \/ part = "levels" /\ LevelPages!Next
             \/ part = "events" /\ EventPages!Next
             \/ part = "map" /\ MapPages!Next
          /\ UNCHANGED <<ring, evlog, alarm, clip>>
       \/ part = "ring" /\ Ring!Next /\ UNCHANGED <<shared, evlog, alarm, clip>>
       \/ part = "log" /\ Log!Next /\ UNCHANGED <<shared, ring, alarm, clip>>
       \/ /\ \/ part = "restarted" /\ Restarted!Next
             \/ part = "steady" /\ Steady!Next
             \/ part = "plain" /\ Plain!Next
          /\ UNCHANGED <<shared, ring, evlog, clip>>
       \/ part = "close" /\ Close!Next /\ UNCHANGED <<shared, ring, evlog, alarm>>

Spec ==
    /\ Init /\ [][Next]_vars
    /\ \A r \in {r1, r2} : WF_shared(part = "levels" /\ LevelPages!Read(r))
    /\ WF_shared(part = "events" /\ EventPages!Read(r1))
    /\ WF_shared(part = "map" /\ MapPages!Read(r1))

-----------------------------------------------------------------------------
(* What is checked, each where its module states and explains it.          *)

\* Type correctness of the shared pages and of the two rings.
TypeOK == (part = "levels" => LevelPages!TypeOK) /\ Ring!TypeOK /\ Log!TypeOK

(* A snapshot that a reader of the two histories accepts is the one that   *)
(* was current when it looked; no thread of it copies from pages that      *)
(* another one has unmapped; and a writer between two updates has a whole  *)
(* snapshot behind it, also after one that was killed.                     *)
SnapshotsSound ==
    /\ part = "levels" => LevelPages!Coherent /\ LevelPages!MappingHeld /\ LevelPages!Published
    /\ part = "events" => EventPages!Coherent /\ EventPages!Published
    /\ part = "map" => MapPages!Published

Opens(r) == r \in DOMAIN rd /\ rd[r].pc = "open"
Ended(r) == r \in DOMAIN rd => rd[r].pc = "idle"

\* A reader ends, whatever the writers do.
ReaderEnds == \A r \in {r1, r2} : Opens(r) ~> Ended(r)

(* The ring holds the newest levels since its last reset, and their times  *)
(* increase, whatever the clock did while motiond was down or running.     *)
LevelsTrue == Ring!HoldsTheNewest /\ Ring!ClockOrdered

(* What a clip's metadata says of a moment is what the detector said then,  *)
(* except that a stale sample may be wrong until the first transition;      *)
(* metadata that is not marked truncated covers all of the clip.            *)
EventsTrue == Log!ClipTellsTheTruth /\ Log!ClipIsComplete /\ Log!Alternates

(* Of a start or stop that a consumer has acted on: motion is shown while   *)
(* it lasts, across restarts, unless its file could not be created or       *)
(* detection was switched off; without restarts, the history's last state   *)
(* is the detector's; and without messages of classifiers, motion that has  *)
(* ended is not shown any more and a restarted consumer takes over the      *)
(* detector's state, unless an earlier one ended during a motion.           *)
AlarmTrue ==
    /\ Restarted!AlarmShown
    /\ part = "steady" => Steady!HistoryFollows
    /\ part = "plain" => Plain!AlarmCleared /\ Plain!HistoryRestored

(* A recording the recorder has closed can be played and has its tag, as a *)
(* whole or not at all; files the recorder only reads are never changed.   *)
ClipsSound == Close!Playable /\ Close!WholeOrOriginal /\ Close!OthersUntouched /\ Close!Tagged
===============================================================================
