----------------------------- MODULE EventFiles -----------------------------
(***************************************************************************)
(* From the vendor's broker to the files the status page and ONVIF look    *)
(* at: ipc_multiplex.so copies every message the broker receives to        *)
(* /ipc_dispatch_2, ipc2file turns those messages into files under         *)
(* /tmp/onvif_notify_server and into the history of motion_metadata, and   *)
(* motion_service.sh starts the consumer and clears the alarm.  The        *)
(* baseline of the history is the one of a y28ga.                          *)
(***************************************************************************)
EXTENDS Naturals, Sequences

CONSTANTS
    Events,        \* what the firmware announces, "human" for the three classifiers
    MaxMsg,        \* messages the queue holds, 64
    MaxEvents,     \* bound: messages of the firmware
    MaxRestarts    \* bound: ends of the consumer

EventFilesAssumption ==
    /\ Events \subseteq {"start", "stop", "cry", "human", "sound", "other"}
    /\ MaxMsg \in Nat \ {0} /\ MaxEvents \in Nat /\ MaxRestarts \in Nat

VARIABLES
    queue,       \* /ipc_dispatch_2
    files,       \* the files that exist, named by their event
    up,          \* "down", "clearing" or "running"
    last,        \* last_alarm
    timers,      \* sound_stop_thread still asleep: for how many sounds
    history,     \* last_state of the shared history
    motion,      \* the firmware's last generic message
    heard,       \* that message is queued, or a consumer has acted on it
    hidden,      \* the file of the last start was not created, or motion_service.sh removed it
    left,        \* the file of a start was left by a consumer that ended
    events, restarts

words == <<heard, hidden, left>>
vars == <<queue, files, up, last, timers, history, motion, words, events, restarts>>
consumer == <<files, up, last, timers, history>>

Init ==
    /\ queue = << >> /\ files = {} /\ up = "down" /\ last = "none" /\ timers = 0
    /\ history = "unknown" /\ motion = "stop"
    /\ heard = TRUE /\ hidden = FALSE /\ left = FALSE
    /\ events = 0 /\ restarts = 0

-----------------------------------------------------------------------------
Generic == {"start", "stop"}

(* mq_receive of the broker: the copy is lost when the queue is full.  A     *)
(* detector announces starts and stops in turn.                              *)
Broker(e) ==
    /\ events < MaxEvents
    /\ e \in Generic => e # motion
    /\ events' = events + 1
    /\ motion' = IF e \in Generic THEN e ELSE motion
    /\ queue' = IF Len(queue) < MaxMsg THEN Append(queue, e) ELSE queue
    /\ heard' = IF e \in Generic THEN Len(queue) < MaxMsg ELSE heard
    /\ UNCHANGED <<consumer, hidden, left, restarts>>

(* ensure_ipc_events finds no consumer; main up to ipc_init *)
Start ==
    /\ up = "down"
    /\ up' = "clearing"
    /\ UNCHANGED <<queue, files, last, timers, history, motion, words, events, restarts>>

(* The head of the queue goes with no effect; the last word may go with it. *)
Discard ==
    /\ queue' = Tail(queue)
    /\ heard' = (heard /\ (Head(queue) \in Generic => \E i \in 2..Len(queue) : queue[i] \in Generic))

(* clear_queue, one message *)
ClearQueue ==
    /\ up = "clearing" /\ queue # << >>
    /\ Discard
    /\ UNCHANGED <<consumer, motion, hidden, left, events, restarts>>

(* Mutant: a new consumer removes the files of the one before it. *)
ReadyClean ==
    /\ up = "clearing" /\ queue = << >>
    /\ up' = "running" /\ last' = "none" /\ timers' = 0
    /\ files' = {} /\ history' = "stop"
    /\ UNCHANGED <<queue, motion, words, events, restarts>>

(* motion_history_start takes the state from the alarm file. *)
Ready ==
    /\ up = "clearing" /\ queue = << >>
    /\ up' = "running" /\ last' = "none" /\ timers' = 0
    /\ history' = IF "start" \in files THEN "start" ELSE "stop"
    /\ UNCHANGED <<queue, files, motion, words, events, restarts>>

(* Mutant: the sound becomes the last alarm too. *)
LastAlarmAny(e) == e

(* process_event: every alarm but the sound is remembered for the next stop *)
LastAlarm(e) == IF e = "sound" THEN last ELSE e

(* Mutant: the history follows the alarms as well. *)
ObservedAny(e) == IF e = "sound" THEN history ELSE e

(* handle_ipc_motion_generic: only starts and stops enter the history *)
Observed(e) == IF e \in Generic THEN e ELSE history

(* An alarm creates its file; a stop removes the file of the last alarm. *)
RecordAlarm(e) == IF e = "stop" THEN files \ {last} ELSE files \cup {e}

(* parse_message.  process_event returns early when it cannot create the *)
(* file of an alarm, and an unknown message has no effect.               *)
Receive ==
    /\ up = "running" /\ queue # << >>
    /\ LET e == Head(queue) IN
        /\ history' = Observed(e)
        /\ \/ /\ e # "other"
              /\ last' = LastAlarm(e) /\ files' = RecordAlarm(e)
              /\ timers' = IF e = "sound" THEN timers + 1 ELSE timers
              /\ hidden' = (hidden /\ e # "start") /\ left' = (left /\ e # "start")
           \/ /\ e # "stop"
              /\ hidden' = (hidden \/ e = "start")
              /\ UNCHANGED <<last, files, timers, left>>
    /\ queue' = Tail(queue)
    /\ UNCHANGED <<up, motion, heard, events, restarts>>

(* sound_stop_thread, sixty seconds after its sound *)
SoundStop ==
    /\ timers > 0
    /\ timers' = timers - 1
    /\ files' = files \ {"sound"}
    /\ UNCHANGED <<queue, up, last, history, motion, words, events, restarts>>

(* The consumer ends: killed by the kernel, or by ensure_ipc_events, maybe *)
(* with a message it has received and not acted on.  Its files stay.       *)
Ends ==
    /\ up # "down" /\ restarts < MaxRestarts
    /\ restarts' = restarts + 1
    /\ up' = "down" /\ timers' = 0
    /\ UNCHANGED <<queue, heard>> \/ (up = "running" /\ queue # << >> /\ Discard)
    /\ left' = (left \/ "start" \in files)
    /\ UNCHANGED <<files, last, history, motion, hidden, events>>

(* start_motion with detection switched off, and stop_motion *)
MotionOff ==
    /\ files' = files \ {"start"}
    /\ hidden' = TRUE /\ left' = FALSE
    /\ UNCHANGED <<queue, up, last, timers, history, motion, heard, events, restarts>>

Next ==
    \/ \E e \in Events : Broker(e)
    \/ Start \/ ClearQueue \/ Ready \/ Receive \/ SoundStop \/ Ends \/ MotionOff

Spec == Init /\ [][Next]_vars

-----------------------------------------------------------------------------
(* The consumer has acted on the last start or stop.  It has not when that  *)
(* one met a full queue, was cleared by a consumer that started, or was     *)
(* received by one that was killed before it acted; the next start or stop  *)
(* makes up for it.                                                         *)
Settled == up = "running" /\ queue = << >> /\ heard

(* With a consumer that runs on, the clips' history holds the state that the *)
(* firmware announced last; other events do not enter it ("ignores           *)
(* human/vehicle/animal events", docs/MOTION_METADATA.md), nor does a file   *)
(* that cannot be created keep it from following.                            *)
HistoryFollows == Settled => history = motion

(* The status page shows motion while the file motion_alarm exists.  Motion  *)
(* whose start a consumer has acted on is shown until its stop, also after   *)
(* that consumer was restarted, unless the file could not be created or the  *)
(* owner has switched detection off since.  A start that a consumer clears   *)
(* when it starts is not shown.                                              *)
AlarmShown == Settled /\ motion = "start" /\ ~hidden => "start" \in files

(* Without messages of classifiers, motion that has ended is not shown any   *)
(* more (docs/REFERENCE.md: only the generic motion_alarm event counts).     *)
(* Only the alarm of a consumer that ended during a motion stays; it goes    *)
(* with the next motion that is recorded, or when detection is switched off. *)
AlarmCleared == Settled /\ motion = "stop" /\ ~left => "start" \notin files

(* And then the state that a restarted consumer takes over is the            *)
(* detector's ("state observed at consumer startup",                         *)
(* docs/MOTION_METADATA.md), except where the file stands for nothing: it is *)
(* left over, or missing.                                                    *)
HistoryRestored == Settled /\ ~left /\ ~hidden => history = motion
=============================================================================
