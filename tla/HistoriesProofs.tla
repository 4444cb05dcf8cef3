-------------------------- MODULE HistoriesProofs --------------------------
(***************************************************************************)
(* Proofs about the histories: what SharedHistoryProofs shows of one set   *)
(* of shared pages holds of the three that the camera has, the alarm files *)
(* follow the detector, a clip keeps a playable container around its tag,  *)
(* the ring of levels holds the newest readings in the clock's order, and  *)
(* the events of a clip tell what the detector said.                       *)
(***************************************************************************)
EXTENDS MCHistories, Integers, Sequences, FiniteSets, FiniteSetTheorems, WellFoundedInduction, TLAPS

-----------------------------------------------------------------------------
(* The shared pages.                                                       *)
PagesInv ==
    /\ part = "levels" => LevelPages!IInv
    /\ part = "events" => EventPages!IInv
    /\ part = "map" => MapPages!IInv

LEMMA PagesInit == Init => PagesInv
BY PagesAssumption, LevelPages!InitInv, EventPages!InitInv, MapPages!InitInv DEF Init, PagesInv

LEMMA PagesStep == PagesInv /\ [Next]_vars => PagesInv'
<1> SUFFICES ASSUME PagesInv, [Next]_vars PROVE PagesInv'
  OBVIOUS
<1>0. UNCHANGED part
  BY DEF Next, vars
<1>1. CASE UNCHANGED shared
  <2>1. UNCHANGED LevelPages!vars /\ UNCHANGED EventPages!vars /\ UNCHANGED MapPages!vars
    BY <1>1 DEF shared, LevelPages!vars, EventPages!vars, MapPages!vars
  <2> QED
    BY <1>0, <2>1, PagesAssumption, LevelPages!StepInv, EventPages!StepInv, MapPages!StepInv DEF PagesInv
<1>2. CASE part = "levels" /\ LevelPages!Next
  BY <1>0, <1>2, PagesAssumption, LevelPages!StepInv DEF PagesInv
<1>3. CASE part = "events" /\ EventPages!Next
  BY <1>0, <1>3, PagesAssumption, EventPages!StepInv DEF PagesInv
<1>4. CASE part = "map" /\ MapPages!Next
  BY <1>0, <1>4, PagesAssumption, MapPages!StepInv DEF PagesInv
<1> QED
  BY <1>1, <1>2, <1>3, <1>4 DEF Next, vars

LEMMA PagesSound == PagesInv => SnapshotsSound
<1> SUFFICES ASSUME PagesInv PROVE SnapshotsSound
  OBVIOUS
<1>1. part = "levels" => LevelPages!Coherent /\ LevelPages!MappingHeld /\ LevelPages!Published
  BY PagesAssumption, LevelPages!InvSays DEF PagesInv
<1>2. part = "events" => EventPages!Coherent /\ EventPages!Published
  BY PagesAssumption, EventPages!InvSays DEF PagesInv
<1>3. part = "map" => MapPages!Published
  BY PagesAssumption, MapPages!InvSays DEF PagesInv
<1> QED
  BY <1>1, <1>2, <1>3 DEF SnapshotsSound

(* The snapshots of the levels and the events that a reader accepts are    *)
(* single snapshots, and every writer publishes whole ones, whoever is     *)
(* killed or restarted: the seqlocks of motion_metadata_levels.c,          *)
(* motion_metadata_events.c and motion_map_y623.c.                         *)
THEOREM SnapshotsAreSound == Spec => []SnapshotsSound
BY PagesInit, PagesStep, PagesSound, PTL DEF Spec

-----------------------------------------------------------------------------
(* The event files.  A message is generic when it announces the start or   *)
(* the end of motion.  While the firmware's last word has not been lost it *)
(* is the last generic message of the queue, and once the queue has none,  *)
(* a consumer has acted on it.                                             *)
Generic == {"start", "stop"}
AllEvents == {"start", "stop", "cry", "human", "sound", "other"}
PlainEvents == {"start", "stop", "sound", "other"}

LastWord ==
    \A i \in 1..Len(queue) :
        /\ queue[i] \in Generic
        /\ \A j \in 1..Len(queue) : j > i => queue[j] \notin Generic
        => queue[i] = motion
NoGeneric == \A i \in 1..Len(queue) : queue[i] \notin Generic

FilesType ==
    /\ queue \in Seq(AllEvents) /\ motion \in Generic
    /\ heard \in BOOLEAN /\ hidden \in BOOLEAN /\ left \in BOOLEAN
    /\ up \in {"down", "clearing", "running"} /\ restarts \in Nat

\* With every message, however often the consumer was restarted.
ShownInv ==
    /\ heard => LastWord
    /\ heard /\ NoGeneric /\ motion = "start" /\ ~hidden => "start" \in files

\* With every message and a consumer that runs on.
SteadyInv ==
    /\ restarts = 0
    /\ up # "running" => files = {}
    /\ heard /\ NoGeneric /\ up # "running" => motion = "stop"
    /\ heard /\ NoGeneric /\ up = "running" => history = motion

\* Without messages of classifiers, however often the consumer was restarted.
PlainInv ==
    /\ queue \in Seq(PlainEvents)
    /\ "start" \in files /\ ~left => up = "running" /\ last = "start"
    /\ heard /\ NoGeneric /\ motion = "stop" /\ ~left => "start" \notin files
    /\ heard /\ NoGeneric /\ up = "running" /\ ~left /\ ~hidden => history = motion

\* A generic message is the last word and in the queue, or not heard.
LEMMA BrokerSays ==
  ASSUME FilesType, NEW e \in AllEvents, Restarted!Broker(e)
  PROVE  /\ FilesType'
         /\ UNCHANGED <<files, up, last, history, hidden, left, restarts>>
         /\ (heard => LastWord) => (heard' => LastWord')
         /\ heard' /\ NoGeneric' => heard /\ NoGeneric /\ motion' = motion
         /\ queue \in Seq(PlainEvents) /\ e \in PlainEvents => queue' \in Seq(PlainEvents)
<1>1. /\ queue \in Seq(AllEvents) /\ motion \in Generic /\ Len(queue) \in Nat
      /\ UNCHANGED <<files, up, last, history, hidden, left, restarts>>
      /\ motion' = IF e \in Generic THEN e ELSE motion
      /\ heard' = IF e \in Generic THEN Len(queue) < MaxMsg ELSE heard
  BY DEF FilesType, Restarted!Broker, Restarted!consumer, Restarted!Generic, Generic
<1>2. heard' \in BOOLEAN
  <2>1. CASE e \in Generic
    <3>1. heard' = (Len(queue) < MaxMsg) /\ (Len(queue) < MaxMsg) \in BOOLEAN
      BY <1>1, <2>1
    <3> QED
      BY <3>1, Zenon
  <2>2. CASE e \notin Generic
    BY <1>1, <2>2, Zenon DEF FilesType
  <2> QED
    BY <2>1, <2>2
<1>3. CASE Len(queue) < MaxMsg
  <2>1. queue' = Append(queue, e)
    BY <1>3 DEF Restarted!Broker
  <2>2. /\ queue' \in Seq(AllEvents) /\ Len(queue') = Len(queue) + 1
        /\ \A i \in 1..Len(queue) : queue'[i] = queue[i]
        /\ queue'[Len(queue) + 1] = e
    BY <1>1, <2>1
  <2>3. FilesType'
    BY <1>1, <1>2, <2>2 DEF FilesType, Generic
  <2>4. ASSUME heard => LastWord, heard', NEW i \in 1..Len(queue'), queue'[i] \in Generic,
               \A j \in 1..Len(queue') : j > i => queue'[j] \notin Generic
        PROVE  queue'[i] = motion'
    <3>1. CASE i = Len(queue) + 1
      BY <1>1, <2>2, <2>4, <3>1
    <3>2. CASE i \in 1..Len(queue)
      <4>1. e \notin Generic /\ Len(queue) + 1 > i
        BY <1>1, <2>2, <2>4, <3>2
      <4>2. \A j \in 1..Len(queue) : j > i => queue[j] \notin Generic
        BY <1>1, <2>2, <2>4
      <4> QED
        BY <1>1, <2>2, <2>4, <3>2, <4>1, <4>2 DEF LastWord
    <3> QED
      BY <1>1, <2>2, <3>1, <3>2
  <2>5. ASSUME heard', NoGeneric' PROVE heard /\ NoGeneric /\ motion' = motion
    <3>1. e \notin Generic /\ NoGeneric
      BY <1>1, <2>2, <2>5 DEF NoGeneric
    <3> QED
      BY <1>1, <2>5, <3>1, Zenon
  <2>6. queue \in Seq(PlainEvents) /\ e \in PlainEvents => queue' \in Seq(PlainEvents)
    BY <2>1
  <2> QED
    BY <1>1, <2>3, <2>4, <2>5, <2>6 DEF LastWord
<1>4. CASE ~(Len(queue) < MaxMsg)
  <2>1. queue' = queue
    BY <1>4 DEF Restarted!Broker
  <2>2. heard' => heard /\ motion' = motion
    BY <1>1, <1>4
  <2>3. FilesType'
    BY <1>1, <1>2, <2>1 DEF FilesType, Generic
  <2> QED
    BY <1>1, <2>1, <2>2, <2>3 DEF LastWord, NoGeneric
<1> QED
  BY <1>3, <1>4

\* What the message at the head of the queue leaves behind.
LEMMA HeadGone ==
  ASSUME FilesType, queue # << >>, queue' = Tail(queue), UNCHANGED motion
  PROVE  /\ queue' \in Seq(AllEvents) /\ Head(queue) \in AllEvents
         /\ LastWord => LastWord'
         /\ NoGeneric' /\ Head(queue) \notin Generic => NoGeneric
         /\ NoGeneric' /\ LastWord /\ Head(queue) \in Generic => Head(queue) = motion
         /\ NoGeneric' => \A i \in 2..Len(queue) : queue[i] \notin Generic
         /\ queue \in Seq(PlainEvents) => queue' \in Seq(PlainEvents) /\ Head(queue) \in PlainEvents
<1>1. /\ queue \in Seq(AllEvents) /\ Len(queue) \in Nat \ {0} /\ Head(queue) = queue[1]
      /\ queue' \in Seq(AllEvents) /\ Len(queue') = Len(queue) - 1
      /\ \A i \in 1..Len(queue') : queue'[i] = queue[i + 1]
  BY DEF FilesType
<1>2. Head(queue) \in AllEvents
  BY <1>1
<1>3. \A i \in 2..Len(queue) : queue[i] = queue'[i - 1] /\ i - 1 \in 1..Len(queue')
  BY <1>1
<1>4. ASSUME LastWord PROVE LastWord'
  <2> SUFFICES ASSUME NEW i \in 1..Len(queue'), queue'[i] \in Generic,
                      \A j \in 1..Len(queue') : j > i => queue'[j] \notin Generic
               PROVE  queue'[i] = motion
    BY DEF LastWord
  <2>1. i + 1 \in 1..Len(queue) /\ queue[i + 1] \in Generic
    BY <1>1
  <2>2. ASSUME NEW j \in 1..Len(queue), j > i + 1 PROVE queue[j] \notin Generic
    <3>1. j - 1 \in 1..Len(queue') /\ j - 1 > i /\ queue[j] = queue'[j - 1]
      BY <1>1, <1>3, <2>2
    <3> QED
      BY <3>1
  <2> QED
    BY <1>1, <1>4, <2>1, <2>2 DEF LastWord
<1>5. ASSUME NoGeneric', Head(queue) \notin Generic, NEW i \in 1..Len(queue)
      PROVE  queue[i] \notin Generic
  <2>1. CASE i = 1
    BY <1>1, <1>5, <2>1
  <2>2. CASE i # 1
    <3>1. i - 1 \in 1..Len(queue') /\ queue[i] = queue'[i - 1]
      BY <1>1, <1>3, <2>2
    <3> QED
      BY <1>5, <3>1 DEF NoGeneric
  <2> QED
    BY <2>1, <2>2
<1>6. ASSUME NoGeneric', LastWord, Head(queue) \in Generic PROVE Head(queue) = motion
  <2>1. \A j \in 1..Len(queue) : j > 1 => queue[j] \notin Generic
    BY <1>1, <1>3, <1>6 DEF NoGeneric
  <2> QED
    BY <1>1, <1>6, <2>1 DEF LastWord
<1>7. NoGeneric' => \A i \in 2..Len(queue) : queue[i] \notin Generic
  BY <1>1, <1>3 DEF NoGeneric
<1>8. queue \in Seq(PlainEvents) => queue' \in Seq(PlainEvents) /\ Head(queue) \in PlainEvents
  BY <1>1
<1> QED
  BY <1>1, <1>2, <1>4, <1>5, <1>6, <1>7, <1>8 DEF NoGeneric

\* A message without effect is the last word only if that is then not heard.
LEMMA DiscardSays ==
  ASSUME FilesType, queue # << >>, Restarted!Discard, UNCHANGED motion
  PROVE  /\ queue' \in Seq(AllEvents) /\ heard' \in BOOLEAN
         /\ (heard => LastWord) => (heard' => LastWord')
         /\ heard' /\ NoGeneric' => heard /\ NoGeneric
         /\ queue \in Seq(PlainEvents) => queue' \in Seq(PlainEvents)
<1>1. /\ queue' = Tail(queue)
      /\ heard' = (heard /\ (Head(queue) \in Generic => \E i \in 2..Len(queue) : queue[i] \in Generic))
  BY DEF Restarted!Discard, Restarted!Generic, Generic
<1>2. heard' \in BOOLEAN /\ (heard' => heard)
  BY <1>1 DEF FilesType
<1>3. heard' /\ NoGeneric' => NoGeneric
  BY <1>1, HeadGone
<1> QED
  BY <1>1, <1>2, <1>3, HeadGone

\* What any of the three ways to act on a message has in common.
LEMMA ReceiveSays ==
  ASSUME FilesType, Restarted!Receive
  PROVE  LET e == Head(queue) IN
         /\ FilesType' /\ up = "running" /\ queue # << >> /\ queue' = Tail(queue)
         /\ UNCHANGED <<up, motion, heard, restarts>>
         /\ history' = IF e \in Generic THEN e ELSE history
         /\ \/ /\ e # "other" /\ last' = (IF e = "sound" THEN last ELSE e)
               /\ files' = (IF e = "stop" THEN files \ {last} ELSE files \cup {e})
               /\ hidden' = (hidden /\ e # "start") /\ left' = (left /\ e # "start")
            \/ /\ e # "stop" /\ hidden' = (hidden \/ e = "start")
               /\ UNCHANGED <<last, files, left>>
<1> DEFINE e == Head(queue)
<1>1. /\ up = "running" /\ queue # << >> /\ queue' = Tail(queue) /\ UNCHANGED <<up, motion, heard, restarts>>
      /\ history' = IF e \in Generic THEN e ELSE history
  BY DEF Restarted!Receive, Restarted!Observed, Restarted!Generic, Generic
<1>2. \/ /\ e # "other" /\ last' = (IF e = "sound" THEN last ELSE e)
         /\ files' = (IF e = "stop" THEN files \ {last} ELSE files \cup {e})
         /\ hidden' = (hidden /\ e # "start") /\ left' = (left /\ e # "start")
      \/ /\ e # "stop" /\ hidden' = (hidden \/ e = "start")
         /\ UNCHANGED <<last, files, left>>
  BY DEF Restarted!Receive, Restarted!LastAlarm, Restarted!RecordAlarm
<1>3. queue' \in Seq(AllEvents)
  BY <1>1, HeadGone
<1>4. hidden' \in BOOLEAN /\ left' \in BOOLEAN
  BY <1>2 DEF FilesType
<1> QED
  BY <1>1, <1>2, <1>3, <1>4 DEF FilesType

\* A consumer removes the file of motion only for a stop of the firmware.
LEMMA RecordShown ==
  ASSUME FilesType, ShownInv, Restarted!Receive
  PROVE  FilesType' /\ ShownInv'
<1> DEFINE e == Head(queue)
<1>1. /\ FilesType' /\ queue # << >> /\ queue' = Tail(queue) /\ UNCHANGED <<motion, heard>>
      /\ e = "start" => "start" \in files' \/ hidden'
      /\ e \notin Generic => hidden' = hidden /\ ("start" \in files => "start" \in files')
  BY ReceiveSays DEF Generic, FilesType
<1>2. /\ LastWord => LastWord'
      /\ NoGeneric' /\ e \notin Generic => NoGeneric
      /\ NoGeneric' /\ LastWord /\ e \in Generic => e = motion
  BY <1>1, HeadGone
<1>3. heard' => LastWord'
  BY <1>1, <1>2 DEF ShownInv
<1>4. ASSUME heard', NoGeneric', motion' = "start", ~hidden' PROVE "start" \in files'
  <2>1. CASE e \in Generic
    BY <1>1, <1>2, <1>4, <2>1 DEF ShownInv
  <2>2. CASE e \notin Generic
    BY <1>1, <1>2, <1>4, <2>2 DEF ShownInv
  <2> QED
    BY <2>1, <2>2
<1> QED
  BY <1>1, <1>3, <1>4 DEF ShownInv

LEMMA ShownStep ==
  ASSUME FilesType, ShownInv, Restarted!Next
  PROVE  FilesType' /\ ShownInv'
<1>1. ASSUME NEW e \in AllEvents, Restarted!Broker(e) PROVE FilesType' /\ ShownInv'
  BY <1>1, BrokerSays DEF ShownInv
<1>2. CASE Restarted!ClearQueue
  <2>1. /\ queue # << >> /\ Restarted!Discard /\ UNCHANGED <<up, motion, files, hidden, left, restarts>>
    BY <1>2 DEF Restarted!ClearQueue, Restarted!consumer
  <2> QED
    BY <2>1, DiscardSays DEF ShownInv, FilesType
<1>3. CASE Restarted!Receive
  BY <1>3, RecordShown
<1>4. CASE Restarted!Start \/ Restarted!Ready
  BY <1>4 DEF Restarted!Start, Restarted!Ready, Restarted!words, FilesType, ShownInv, LastWord, NoGeneric
<1>5. CASE Restarted!SoundStop
  BY <1>5 DEF Restarted!SoundStop, Restarted!words, FilesType, ShownInv, LastWord, NoGeneric
<1>6. CASE Restarted!Ends
  <2>1. /\ up' = "down" /\ restarts' \in Nat /\ left' \in BOOLEAN /\ UNCHANGED <<files, motion, hidden>>
    BY <1>6 DEF Restarted!Ends, FilesType
  <2>2. CASE UNCHANGED <<queue, heard>>
    BY <2>1, <2>2 DEF FilesType, ShownInv, LastWord, NoGeneric
  <2>3. CASE queue # << >> /\ Restarted!Discard
    BY <2>1, <2>3, DiscardSays DEF ShownInv, FilesType
  <2> QED
    BY <1>6, <2>2, <2>3 DEF Restarted!Ends
<1>7. CASE Restarted!MotionOff
  BY <1>7 DEF Restarted!MotionOff, FilesType, ShownInv, LastWord, NoGeneric
<1> QED
  BY <1>1, <1>2, <1>3, <1>4, <1>5, <1>6, <1>7 DEF Restarted!Next, AllEvents

\* The instances differ in the restarts and in the messages only.
LEMMA SteadyIsRestarted ==
  ASSUME restarts = 0, MaxRestarts \in Nat
  PROVE  Steady!Next => Restarted!Next /\ UNCHANGED restarts
BY DEF Steady!Next, Steady!Broker, Steady!Start, Steady!Discard, Steady!ClearQueue, Steady!Ready, Steady!Receive,
       Steady!SoundStop, Steady!Ends, Steady!MotionOff, Steady!consumer, Steady!words, Steady!LastAlarm,
       Steady!Observed, Steady!RecordAlarm, Steady!Generic,
       Restarted!Next, Restarted!Broker, Restarted!Start, Restarted!Discard, Restarted!ClearQueue, Restarted!Ready,
       Restarted!Receive, Restarted!SoundStop, Restarted!Ends, Restarted!MotionOff,
       Restarted!consumer, Restarted!words, Restarted!LastAlarm, Restarted!Observed, Restarted!RecordAlarm,
       Restarted!Generic

LEMMA PlainIsRestarted ==
  Plain!Next =>
      \/ \E e \in PlainEvents : Restarted!Broker(e)
      \/ Restarted!Start \/ Restarted!ClearQueue \/ Restarted!Ready \/ Restarted!Receive
      \/ Restarted!SoundStop \/ Restarted!Ends \/ Restarted!MotionOff
<1>1. Plain!Discard <=> Restarted!Discard
  BY DEF Plain!Discard, Plain!Generic, Restarted!Discard, Restarted!Generic
<1>2. \A e \in PlainEvents : Plain!Broker(e) => Restarted!Broker(e)
  BY DEF Plain!Broker, Plain!consumer, Plain!Generic, Restarted!Broker, Restarted!consumer, Restarted!Generic
<1>3. Plain!Receive => Restarted!Receive
  BY DEF Plain!Receive, Plain!LastAlarm, Plain!Observed, Plain!RecordAlarm, Plain!Generic,
         Restarted!Receive, Restarted!LastAlarm, Restarted!Observed, Restarted!RecordAlarm, Restarted!Generic
<1>4. Plain!ClearQueue => Restarted!ClearQueue
  BY <1>1 DEF Plain!ClearQueue, Plain!consumer, Restarted!ClearQueue, Restarted!consumer
<1>5. Plain!Ends => Restarted!Ends
  BY <1>1 DEF Plain!Ends, Restarted!Ends
<1>6. /\ Plain!Start => Restarted!Start
      /\ Plain!Ready => Restarted!Ready
      /\ Plain!SoundStop => Restarted!SoundStop
      /\ Plain!MotionOff => Restarted!MotionOff
  BY DEF Plain!Start, Plain!Ready, Plain!SoundStop, Plain!MotionOff, Plain!words,
         Restarted!Start, Restarted!Ready, Restarted!SoundStop, Restarted!MotionOff, Restarted!words
<1> QED
  BY <1>2, <1>3, <1>4, <1>5, <1>6 DEF Plain!Next, PlainEvents

LEMMA SteadyStep ==
  ASSUME FilesType, ShownInv, SteadyInv, Restarted!Next, UNCHANGED restarts
  PROVE  SteadyInv'
<1>0. restarts = 0 /\ restarts' = 0
  BY DEF SteadyInv
<1>1. ASSUME NEW e \in AllEvents, Restarted!Broker(e) PROVE SteadyInv'
  BY <1>0, <1>1, BrokerSays DEF SteadyInv
<1>2. CASE Restarted!ClearQueue
  <2>1. queue # << >> /\ Restarted!Discard /\ UNCHANGED <<up, motion, files, history>>
    BY <1>2 DEF Restarted!ClearQueue, Restarted!consumer
  <2> QED
    BY <1>0, <2>1, DiscardSays DEF SteadyInv
<1>3. CASE Restarted!Receive
  <2> DEFINE e == Head(queue)
  <2>1. /\ queue # << >> /\ queue' = Tail(queue) /\ UNCHANGED <<up, motion, heard>> /\ up = "running"
        /\ history' = IF e \in Generic THEN e ELSE history
    BY <1>3, ReceiveSays
  <2>2. /\ NoGeneric' /\ e \notin Generic => NoGeneric
        /\ NoGeneric' /\ LastWord /\ e \in Generic => e = motion
    BY <2>1, HeadGone
  <2> QED
    BY <1>0, <2>1, <2>2 DEF SteadyInv, ShownInv
<1>4. CASE Restarted!Start
  BY <1>0, <1>4 DEF Restarted!Start, Restarted!words, SteadyInv, NoGeneric
<1>5. CASE Restarted!Ready
  <2>1. /\ up' = "running" /\ up = "clearing" /\ UNCHANGED <<queue, motion, heard>> /\ queue = << >>
        /\ history' = IF "start" \in files THEN "start" ELSE "stop"
    BY <1>5 DEF Restarted!Ready, Restarted!words
  <2>2. NoGeneric /\ files = {}
    BY <2>1 DEF NoGeneric, SteadyInv
  <2> QED
    BY <1>0, <2>1, <2>2 DEF SteadyInv, NoGeneric
<1>6. CASE Restarted!SoundStop \/ Restarted!MotionOff
  BY <1>0, <1>6 DEF Restarted!SoundStop, Restarted!MotionOff, Restarted!words, SteadyInv, NoGeneric
<1>7. ~Restarted!Ends
  BY <1>0 DEF Restarted!Ends
<1> QED
  BY <1>1, <1>2, <1>3, <1>4, <1>5, <1>6, <1>7 DEF Restarted!Next, AllEvents

\* A stop removes the file of the consumer's own start; one that it leaves
\* behind is the only one that no stop removes.
LEMMA PlainReceive ==
  ASSUME FilesType, ShownInv, PlainInv, Restarted!Receive
  PROVE  PlainInv'
<1> DEFINE e == Head(queue)
<1>1. /\ queue # << >> /\ queue' = Tail(queue) /\ UNCHANGED <<up, motion, heard>> /\ up = "running"
      /\ history' = IF e \in Generic THEN e ELSE history
      /\ \/ /\ e # "other" /\ last' = (IF e = "sound" THEN last ELSE e)
            /\ files' = (IF e = "stop" THEN files \ {last} ELSE files \cup {e})
            /\ hidden' = (hidden /\ e # "start") /\ left' = (left /\ e # "start")
         \/ /\ e # "stop" /\ hidden' = (hidden \/ e = "start")
            /\ UNCHANGED <<last, files, left>>
  BY ReceiveSays
<1>2. /\ NoGeneric' /\ e \notin Generic => NoGeneric
      /\ NoGeneric' /\ LastWord /\ e \in Generic => e = motion
      /\ queue' \in Seq(PlainEvents) /\ e \in PlainEvents
  BY <1>1, HeadGone DEF PlainInv
<1>3. ASSUME "start" \in files', ~left' PROVE up' = "running" /\ last' = "start"
  BY <1>1, <1>2, <1>3 DEF PlainInv, PlainEvents, FilesType
<1>4. ASSUME heard', NoGeneric', motion' = "stop", ~left' PROVE "start" \notin files'
  <2>1. e # "start"
    BY <1>1, <1>2, <1>4 DEF ShownInv, Generic
  <2>2. CASE e = "stop"
    BY <1>1, <1>4, <2>2 DEF PlainInv, FilesType
  <2>3. CASE e # "stop"
    BY <1>1, <1>2, <1>4, <2>1, <2>3 DEF PlainInv, PlainEvents, Generic, FilesType
  <2> QED
    BY <2>2, <2>3
<1>5. ASSUME heard', NoGeneric', ~left', ~hidden' PROVE history' = motion'
  <2>1. CASE e \in Generic
    BY <1>1, <1>2, <1>5, <2>1 DEF ShownInv
  <2>2. CASE e \notin Generic
    BY <1>1, <1>2, <1>5, <2>2 DEF PlainInv, Generic, FilesType
  <2> QED
    BY <2>1, <2>2
<1> QED
  BY <1>2, <1>3, <1>4, <1>5 DEF PlainInv

LEMMA PlainStep ==
  ASSUME FilesType, ShownInv, PlainInv, Plain!Next
  PROVE  PlainInv'
<1>1. ASSUME NEW e \in PlainEvents, Restarted!Broker(e) PROVE PlainInv'
  <2>1. e \in AllEvents
    BY DEF AllEvents, PlainEvents
  <2> QED
    BY <1>1, <2>1, BrokerSays DEF PlainInv
<1>2. CASE Restarted!ClearQueue
  <2>1. queue # << >> /\ Restarted!Discard /\ UNCHANGED <<up, motion, files, last, history, hidden, left>>
    BY <1>2 DEF Restarted!ClearQueue, Restarted!consumer
  <2> QED
    BY <2>1, DiscardSays DEF PlainInv
<1>3. CASE Restarted!Receive
  BY <1>3, PlainReceive
<1>4. CASE Restarted!Start
  BY <1>4 DEF Restarted!Start, Restarted!words, PlainInv, NoGeneric
<1>5. CASE Restarted!Ready
  <2>1. /\ up' = "running" /\ up = "clearing" /\ UNCHANGED <<queue, files, motion, heard, hidden, left>>
        /\ queue = << >> /\ history' = IF "start" \in files THEN "start" ELSE "stop"
    BY <1>5 DEF Restarted!Ready, Restarted!words
  <2>2. NoGeneric /\ (NoGeneric' <=> NoGeneric)
    BY <2>1 DEF NoGeneric
  <2>3. "start" \in files => left
    BY <2>1 DEF PlainInv
  <2>4. ASSUME heard, ~left, ~hidden PROVE history' = motion
    <3>1. "start" \notin files /\ history' = "stop"
      BY <2>1, <2>3, <2>4
    <3>2. motion # "start"
      BY <2>2, <2>4, <3>1 DEF ShownInv
    <3> QED
      BY <3>1, <3>2 DEF FilesType, Generic
  <2> QED
    BY <2>1, <2>2, <2>3, <2>4 DEF PlainInv
<1>6. CASE Restarted!SoundStop
  BY <1>6 DEF Restarted!SoundStop, Restarted!words, PlainInv, NoGeneric
<1>7. CASE Restarted!MotionOff
  BY <1>7 DEF Restarted!MotionOff, PlainInv, NoGeneric
<1>8. CASE Restarted!Ends
  <2>1. /\ up' = "down" /\ left' = (left \/ "start" \in files) /\ UNCHANGED <<files, motion>>
    BY <1>8 DEF Restarted!Ends
  <2>2. CASE UNCHANGED <<queue, heard>>
    BY <2>1, <2>2 DEF PlainInv, NoGeneric
  <2>3. CASE queue # << >> /\ Restarted!Discard
    BY <2>1, <2>3, DiscardSays DEF PlainInv
  <2> QED
    BY <1>8, <2>2, <2>3 DEF Restarted!Ends
<1> QED
  BY <1>1, <1>2, <1>3, <1>4, <1>5, <1>6, <1>7, <1>8, PlainIsRestarted

AlarmInv ==
    /\ FilesType /\ ShownInv
    /\ part = "steady" => SteadyInv
    /\ part = "plain" => PlainInv

LEMMA AlarmInit == Init => AlarmInv
<1> SUFFICES ASSUME Steady!Init PROVE FilesType /\ ShownInv /\ SteadyInv /\ PlainInv
  BY DEF Init, AlarmInv
<1>1. /\ queue = << >> /\ files = {} /\ up = "down" /\ last = "none" /\ motion = "stop"
      /\ heard = TRUE /\ hidden = FALSE /\ left = FALSE /\ restarts = 0
  BY DEF Steady!Init
<1>2. NoGeneric /\ LastWord
  BY <1>1 DEF NoGeneric, LastWord
<1>3. FilesType
  <2>1. queue \in Seq(AllEvents) /\ motion \in Generic
    BY <1>1 DEF Generic
  <2> QED
    BY <1>1, <2>1 DEF FilesType
<1>4. ShownInv /\ SteadyInv
  BY <1>1, <1>2 DEF ShownInv, SteadyInv
<1>5. PlainInv
  BY <1>1 DEF PlainInv
<1> QED
  BY <1>3, <1>4, <1>5

LEMMA AlarmStep == AlarmInv /\ [Next]_vars => AlarmInv'
<1> SUFFICES ASSUME AlarmInv, [Next]_vars PROVE AlarmInv'
  OBVIOUS
<1>0. UNCHANGED part /\ MaxRestarts \in Nat
  BY FilesAssumption DEF Next, vars, Restarted!EventFilesAssumption
<1>1. CASE UNCHANGED alarm
  BY <1>0, <1>1 DEF alarm, AlarmInv, FilesType, ShownInv, SteadyInv, PlainInv, NoGeneric, LastWord
<1>2. CASE part = "restarted" /\ Restarted!Next
  BY <1>0, <1>2, ShownStep DEF AlarmInv
<1>3. CASE part = "steady" /\ Steady!Next
  <2>1. FilesType /\ ShownInv /\ SteadyInv /\ restarts = 0
    BY <1>3 DEF AlarmInv, SteadyInv
  <2>2. Restarted!Next /\ UNCHANGED restarts
    BY <1>0, <1>3, <2>1, SteadyIsRestarted
  <2> QED
    BY <1>0, <1>3, <2>1, <2>2, ShownStep, SteadyStep DEF AlarmInv
<1>4. CASE part = "plain" /\ Plain!Next
  <2>1. FilesType /\ ShownInv /\ PlainInv
    BY <1>4 DEF AlarmInv
  <2>2. Restarted!Next
    BY <1>4, PlainIsRestarted DEF Restarted!Next, PlainEvents
  <2> QED
    BY <1>0, <1>4, <2>1, <2>2, ShownStep, PlainStep DEF AlarmInv
<1> QED
  BY <1>1, <1>2, <1>3, <1>4 DEF Next, vars

LEMMA AlarmSays == AlarmInv => AlarmTrue
<1> SUFFICES ASSUME AlarmInv PROVE AlarmTrue
  OBVIOUS
<1>1. queue = << >> => NoGeneric
  BY DEF NoGeneric
<1>2. Restarted!AlarmShown
  BY <1>1 DEF Restarted!AlarmShown, Restarted!Settled, AlarmInv, ShownInv
<1>3. part = "steady" => Steady!HistoryFollows
  BY <1>1 DEF Steady!HistoryFollows, Steady!Settled, AlarmInv, SteadyInv
<1>4. part = "plain" => Plain!AlarmCleared /\ Plain!HistoryRestored
  BY <1>1 DEF Plain!AlarmCleared, Plain!HistoryRestored, Plain!Settled, AlarmInv, PlainInv
<1> QED
  BY <1>2, <1>3, <1>4 DEF AlarmTrue

(* For every size of the queue, once the consumer has acted on the last    *)
(* start or stop: motion is shown by the alarm file, also by a consumer    *)
(* that was restarted since, unless the file could not be created or       *)
(* detection was switched off; the history of a consumer that runs on      *)
(* follows the detector; and without messages of classifiers only the file *)
(* that a consumer left when it ended outlives its motion, and a restarted *)
(* consumer takes over the detector's state unless there is such a file or *)
(* none.  A start that was cleared or lost is not shown, which is why the  *)
(* last word must have been acted on (ipc2file.c:111).                     *)
THEOREM AlarmIsTrue == Spec => []AlarmTrue
BY AlarmInit, AlarmStep, AlarmSays, PTL DEF Spec

-----------------------------------------------------------------------------
(* The tags of clips.  A thread owns its descriptor and the file behind it *)
(* from open to close; the table only has descriptors of recordings whose  *)
(* close has not begun; and the step of close tells what the file is like. *)
ClipSteps == {"idle", "track", "mux", "close", "find", "append", "size", "restore", "truncate", "release"}
Boxes     == [moov : {"none", "last"}, size : {"old", "torn", "new"}, tail : {"none", "part", "whole"}]
Writing   == {"track", "mux", "find", "append", "size", "restore", "truncate"}
Untouched == {"track", "mux", "close", "find", "append"}

ClipTypes ==
    /\ fds \in [Close!Fds -> Close!Files \cup {"closed"}]
    /\ tracked \in [Close!Slots -> Close!Fds \cup {-1}]
    /\ file \in [Close!Files -> Boxes]
    /\ thread \in [Threads -> [step : ClipSteps, fd : Close!Fds \cup {0}]]
    /\ faults \in Nat

Works(t) == thread[t].step # "idle"

Ownership ==
    /\ \A t \in Threads : Works(t) => thread[t].fd \in Close!Fds /\ Close!FileOf(t) \in Close!Files
    /\ \A t, u \in Threads : Works(t) /\ Works(u) /\ thread[t].fd = thread[u].fd => t = u
    /\ \A d, e \in Close!Fds : fds[d] = fds[e] /\ fds[d] # "closed" => d = e

Tracks(t) == \E s \in Close!Slots : tracked[s] = thread[t].fd

Table ==
    /\ \A s \in Close!Slots : tracked[s] # -1 =>
        \E t \in Threads : /\ thread[t].fd = tracked[s] /\ thread[t].step \in {"mux", "close"}
                           /\ Close!FileOf(t) \in Recordings
    /\ \A s, u \in Close!Slots : tracked[s] = tracked[u] /\ tracked[s] # -1 => s = u

Shape(t) ==
    LET m == Close!Mine(t) IN
    /\ thread[t].step \in Writing => Close!FileOf(t) \in Recordings
    /\ thread[t].step \in Untouched => m.size = "old" /\ m.tail = "none"
    /\ thread[t].step = "size" => m.size = "old" /\ m.tail = "whole"
    /\ thread[t].step \in {"restore", "truncate"} => faults >= 1
    /\ thread[t].step = "truncate" /\ faults <= 1 => m.size = "old"
    /\ thread[t].step = "release" /\ faults <= 1 => (m.size = "old" /\ m.tail = "none") \/ (m.size = "new" /\ m.tail = "whole")

Box(f) ==
    faults <= 1 =>
        \/ file[f].size = "old"
        \/ file[f].size = "new" /\ file[f].tail = "whole"
        \/ \E t \in Threads : thread[t].step = "restore" /\ Close!FileOf(t) = f

(* A finished recording has its tag, or a thread is on the way to it.      *)
OnTheWay(f) ==
    \E t \in Threads :
        /\ Works(t) /\ Close!FileOf(t) = f
        /\ thread[t].step \in {"close", "find", "append", "size"}
        /\ thread[t].step = "close" => Tracks(t)

Pending ==
    faults = 0 /\ MaxFd <= RECORD_FDS =>
        /\ \A t \in Threads : thread[t].step = "mux" => Tracks(t)
        /\ \A f \in due : file[f].size = "new" \/ OnTheWay(f)

ClipInv ==
    /\ ClipTypes /\ Ownership /\ Table
    /\ \A t \in Threads : Works(t) => Shape(t)
    /\ \A f \in Close!Files : Box(f)
    /\ Close!OthersUntouched
    /\ Pending

LEMMA ClipConstants ==
  /\ RECORD_FDS \in Nat \ {0} /\ MaxFd \in Nat \ {0}
  /\ Close!Fds = 1..MaxFd /\ Close!Slots = 1..RECORD_FDS /\ Close!Files = Recordings \cup Others
  /\ -1 \notin Close!Fds /\ 0 \notin Close!Fds /\ "closed" \notin Close!Files /\ Recordings \cap Others = {}
BY ClosesAssumption DEF Close!ClipAssumption, Close!Fds, Close!Slots, Close!Files

LEMMA ClipInit == ASSUME Close!Init PROVE ClipInv
<1> USE ClipConstants DEF Close!Init, Close!FreshFile, Close!FinishedOne, Close!NoThread
<1>1. ClipTypes
  <2>1. file \in [Close!Files -> Boxes]
    BY DEF Boxes
  <2>2. thread \in [Threads -> [step : ClipSteps, fd : Close!Fds \cup {0}]]
    BY DEF ClipSteps
  <2> QED
    BY <2>1, <2>2 DEF ClipTypes
<1>2. \A t \in Threads : ~Works(t)
  BY DEF Works
<1>3. Ownership /\ Table
  BY <1>2 DEF Ownership, Table
<1>4. \A f \in Close!Files : Box(f)
  BY DEF Box
<1>5. Close!OthersUntouched
  BY DEF Close!OthersUntouched
<1>6. Pending
  BY DEF Pending
<1> QED
  BY <1>1, <1>2, <1>3, <1>4, <1>5, <1>6 DEF ClipInv

(* What a change of one thread's step is.                                  *)
LEMMA StepFields ==
  ASSUME ClipTypes, NEW t \in Threads, NEW st \in ClipSteps, Close!Goto(t, st)
  PROVE  /\ thread' \in [Threads -> [step : ClipSteps, fd : Close!Fds \cup {0}]]
         /\ thread'[t].step = st /\ thread'[t].fd = thread[t].fd
         /\ \A u \in Threads : u # t => thread'[u] = thread[u]
BY DEF ClipTypes, Close!Goto

(* A step of the thread that owns a recording, inside close.               *)
LEMMA OwnStep ==
  ASSUME ClipInv, NEW t \in Threads, NEW st \in ClipSteps, NEW b \in Boxes, NEW c \in Recordings, c = Close!FileOf(t), Works(t),
         fds' = fds, tracked' = tracked, Close!Goto(t, st), Close!Put(t, b), faults' \in {faults, faults + 1},
         st \notin {"idle", "mux"}, thread[t].step \in {"mux", "close"} => st = "close",
         due' \subseteq due \cup {c},
         Shape(t)', Box(c)',
         faults' = 0 /\ MaxFd <= RECORD_FDS /\ c \in due' => b.size = "new" \/ OnTheWay(c)'
  PROVE  ClipInv'
<1> USE ClipConstants
<1>1. ClipTypes /\ Ownership /\ Table /\ Pending
  BY DEF ClipInv
<1>2. /\ thread' \in [Threads -> [step : ClipSteps, fd : Close!Fds \cup {0}]]
      /\ thread'[t].step = st /\ thread'[t].fd = thread[t].fd
      /\ \A u \in Threads : u # t => thread'[u] = thread[u]
  BY <1>1, StepFields
<1>3. \A u \in Threads : thread'[u].fd = thread[u].fd /\ Close!FileOf(u)' = Close!FileOf(u) /\ (Works(u)' <=> Works(u))
  BY <1>2 DEF Close!FileOf, Works
<1>4. Close!FileOf(t) \in Close!Files /\ file \in [Close!Files -> Boxes]
  BY <1>1 DEF ClipTypes
<1>5. /\ file' \in [Close!Files -> Boxes] /\ file'[Close!FileOf(t)] = b
      /\ \A f \in Close!Files : f # Close!FileOf(t) => file'[f] = file[f]
  BY <1>4 DEF Close!Put
<1>6. \A u \in Threads : Works(u) /\ u # t => Close!FileOf(u) \in Close!Files /\ Close!FileOf(u) # Close!FileOf(t)
  BY <1>1 DEF Ownership, Close!FileOf
<1>7. faults \in Nat /\ faults' \in Nat /\ faults' >= faults
  BY <1>1 DEF ClipTypes
<1>8. ClipTypes'
  BY <1>1, <1>2, <1>5, <1>7 DEF ClipTypes
<1>9. Ownership'
  BY <1>1, <1>3 DEF Ownership
<1>10. Table'
  <2>1. ASSUME NEW s \in Close!Slots, tracked'[s] # -1
        PROVE  \E u \in Threads : /\ thread'[u].fd = tracked'[s] /\ thread'[u].step \in {"mux", "close"}
                                  /\ Close!FileOf(u)' \in Recordings
    <3>1. PICK u \in Threads : thread[u].fd = tracked[s] /\ thread[u].step \in {"mux", "close"} /\ Close!FileOf(u) \in Recordings
      BY <1>1, <2>1 DEF Table
    <3>2. thread'[u].step \in {"mux", "close"}
      BY <1>2, <3>1
    <3> QED
      BY <1>3, <3>1, <3>2
  <2> QED
    BY <1>1, <2>1 DEF Table
<1>11. ASSUME NEW u \in Threads, Works(u)' PROVE Shape(u)'
  <2>1. CASE u = t
    BY <2>1
  <2>2. CASE u # t
    <3>1. Shape(u) /\ thread'[u] = thread[u] /\ Close!Mine(u)' = Close!Mine(u) /\ Close!FileOf(u)' = Close!FileOf(u)
      BY <1>2, <1>3, <1>5, <1>6, <1>11, <2>2 DEF ClipInv, Close!Mine
    <3> HIDE DEF Close!Mine
    <3> QED
      BY <1>7, <3>1 DEF Shape
  <2> QED
    BY <2>1, <2>2
<1>12. ASSUME NEW f \in Close!Files PROVE Box(f)'
  <2>1. CASE f = Close!FileOf(t)
    BY <2>1
  <2>2. CASE f # Close!FileOf(t)
    <3>1. Box(f) /\ file'[f] = file[f]
      BY <1>5, <2>2 DEF ClipInv
    <3>2. ASSUME NEW u \in Threads, thread[u].step = "restore", Close!FileOf(u) = f
          PROVE  thread'[u].step = "restore" /\ Close!FileOf(u)' = f
      BY <1>2, <1>3, <2>2, <3>2
    <3> QED
      BY <1>7, <3>1, <3>2 DEF Box
  <2> QED
    BY <2>1, <2>2
<1>13. Close!OthersUntouched'
  BY <1>5 DEF ClipInv, Close!OthersUntouched, Close!FinishedOne, Close!FreshFile
<1>14. Pending'
  <2> SUFFICES ASSUME faults' = 0, MaxFd <= RECORD_FDS
               PROVE  /\ \A u \in Threads : thread'[u].step = "mux" => Tracks(u)'
                      /\ \A f \in due' : file'[f].size = "new" \/ OnTheWay(f)'
    BY DEF Pending
  <2>0. faults = 0
    BY <1>7
  <2>1. \A u \in Threads : Tracks(u)' <=> Tracks(u)
    BY <1>3 DEF Tracks
  <2>2. ASSUME NEW u \in Threads, thread'[u].step = "mux" PROVE Tracks(u)'
    BY <1>1, <1>2, <2>0, <2>1, <2>2 DEF Pending
  <2>3. ASSUME NEW f \in due' PROVE file'[f].size = "new" \/ OnTheWay(f)'
    <3>1. CASE f = Close!FileOf(t)
      BY <1>5, <2>3, <3>1
    <3>2. CASE f # Close!FileOf(t)
      <4>1. f \in due /\ (file[f].size = "new" \/ OnTheWay(f))
        BY <1>1, <2>0, <2>3, <3>2 DEF Pending
      <4>2. CASE OnTheWay(f)
        <5>1. PICK u \in Threads : /\ Works(u) /\ Close!FileOf(u) = f
                                   /\ thread[u].step \in {"close", "find", "append", "size"}
                                   /\ thread[u].step = "close" => Tracks(u)
          BY <4>2 DEF OnTheWay
        <5>2. u # t /\ thread'[u] = thread[u]
          BY <1>2, <3>2, <5>1
        <5> QED
          BY <1>3, <2>1, <5>1, <5>2 DEF OnTheWay
      <4>3. CASE file[f].size = "new"
        BY <1>4, <1>5, <3>2, <4>3 DEF Close!Put
      <4> QED
        BY <4>1, <4>2, <4>3
    <3> QED
      BY <3>1, <3>2
  <2> QED
    BY <2>2, <2>3
<1> QED
  BY <1>8, <1>9, <1>10, <1>11, <1>12, <1>13, <1>14 DEF ClipInv

(* Changing one field of a box.                                            *)
LEMMA MoovField ==
  ASSUME NEW m \in Boxes, NEW v \in {"none", "last"}
  PROVE  \E b \in Boxes : b = [m EXCEPT !.moov = v] /\ b.size = m.size /\ b.tail = m.tail
<1> DEFINE b == [m EXCEPT !.moov = v]
<1>1. b \in Boxes
  BY DEF Boxes
<1>2. b.size = m.size /\ b.tail = m.tail
  BY DEF Boxes
<1> HIDE DEF b
<1>3. b = [m EXCEPT !.moov = v]
  BY DEF b
<1> QED
  BY <1>1, <1>2, <1>3

LEMMA SizeField ==
  ASSUME NEW m \in Boxes, NEW v \in {"old", "torn", "new"}
  PROVE  \E b \in Boxes : b = [m EXCEPT !.size = v] /\ b.size = v /\ b.tail = m.tail
<1> DEFINE b == [m EXCEPT !.size = v]
<1>1. b \in Boxes
  BY DEF Boxes
<1>2. b.size = v /\ b.tail = m.tail
  BY DEF Boxes
<1> HIDE DEF b
<1>3. b = [m EXCEPT !.size = v]
  BY DEF b
<1> QED
  BY <1>1, <1>2, <1>3

LEMMA TailField ==
  ASSUME NEW m \in Boxes, NEW v \in {"none", "part", "whole"}
  PROVE  \E b \in Boxes : b = [m EXCEPT !.tail = v] /\ b.size = m.size /\ b.tail = v
<1> DEFINE b == [m EXCEPT !.tail = v]
<1>1. b \in Boxes
  BY DEF Boxes
<1>2. b.size = m.size /\ b.tail = v
  BY DEF Boxes
<1> HIDE DEF b
<1>3. b = [m EXCEPT !.tail = v]
  BY DEF b
<1> QED
  BY <1>1, <1>2, <1>3

(* What is known of the file of a thread inside close.                     *)
LEMMA Owned ==
  ASSUME ClipInv, NEW t \in Threads, Works(t)
  PROVE  /\ Shape(t) /\ Close!FileOf(t) \in Close!Files /\ thread[t].fd \in Close!Fds
         /\ Close!Mine(t) \in Boxes /\ Box(Close!FileOf(t)) /\ faults \in Nat
BY DEF ClipInv, ClipTypes, Ownership, Close!Mine

LEMMA StepMux ==
  ASSUME ClipInv, NEW t \in Threads, Close!Mux(t) PROVE ClipInv'
<1> USE ClipConstants
<1>1. Works(t) /\ thread[t].step = "mux"
  BY DEF Close!Mux, Works
<1>2. PICK c \in Recordings : c = Close!FileOf(t)
  BY <1>1, Owned DEF Shape, Writing
<1>3. PICK moov \in {"none", "last"} :
        /\ Close!Put(t, [Close!Mine(t) EXCEPT !.moov = moov]) /\ due' \subseteq due \cup {Close!FileOf(t)}
        /\ Close!Goto(t, "close") /\ fds' = fds /\ tracked' = tracked /\ faults' = faults
  BY DEF Close!Mux
<1>4. PICK m \in Boxes : m = Close!Mine(t) /\ m.size = "old" /\ m.tail = "none"
  BY <1>1, Owned DEF Shape, Untouched
<1>5. PICK b \in Boxes : b = [m EXCEPT !.moov = moov] /\ b.size = m.size /\ b.tail = m.tail
  BY MoovField
<1>6. thread'[t].step = "close" /\ thread'[t].fd = thread[t].fd /\ Close!FileOf(t)' = c
  BY <1>2, <1>3, StepFields DEF ClipInv, ClipSteps, Close!FileOf
<1>7. file'[c] = b
  BY <1>1, <1>2, <1>3, <1>4, <1>5, Owned DEF Close!Put, ClipInv, ClipTypes
<1>8. Shape(t)'
  BY <1>4, <1>5, <1>6, <1>7 DEF Shape, Writing, Untouched, Close!Mine
<1>9. Box(c)'
  BY <1>4, <1>5, <1>7 DEF Box
<1>10. faults' = 0 /\ MaxFd <= RECORD_FDS => OnTheWay(c)'
  <2> SUFFICES ASSUME faults' = 0, MaxFd <= RECORD_FDS PROVE OnTheWay(c)'
    OBVIOUS
  <2>1. Tracks(t)
    BY <1>1, <1>3 DEF ClipInv, Pending
  <2>2. Tracks(t)'
    BY <1>3, <1>6, <2>1 DEF Tracks
  <2> QED
    BY <1>6, <2>2 DEF OnTheWay, Works
<1>11. "close" \in ClipSteps
  BY DEF ClipSteps
<1>12. Close!Put(t, b)
  BY <1>3, <1>4, <1>5
<1> QED
  BY <1>1, <1>2, <1>3, <1>8, <1>9, <1>10, <1>11, <1>12, OwnStep

LEMMA StepFind ==
  ASSUME ClipInv, NEW t \in Threads, Close!FindMovie(t) PROVE ClipInv'
<1> USE ClipConstants
<1>1. Works(t) /\ thread[t].step = "find"
  BY DEF Close!FindMovie, Works
<1>2. PICK c \in Recordings : c = Close!FileOf(t)
  BY <1>1, Owned DEF Shape, Writing
<1>3. PICK st \in {"append", "release"} :
        /\ Close!Goto(t, st) /\ fds' = fds /\ tracked' = tracked /\ faults' = faults /\ file' = file
        /\ due' \subseteq due /\ (st = "release" => c \notin due')
  BY <1>2 DEF Close!FindMovie
<1>4. PICK b \in Boxes : b = Close!Mine(t) /\ b.size = "old" /\ b.tail = "none"
  BY <1>1, Owned DEF Shape, Untouched
<1>5. st \in ClipSteps
  BY DEF ClipSteps
<1>6. thread'[t].step = st /\ thread'[t].fd = thread[t].fd /\ Close!FileOf(t)' = c
  BY <1>2, <1>3, <1>5, StepFields DEF ClipInv, Close!FileOf
<1>7. file'[c] = b /\ Close!Put(t, b)
  BY <1>1, <1>2, <1>3, <1>4, Owned DEF Close!Put, ClipInv, ClipTypes, Close!Mine
<1>8. Shape(t)'
  BY <1>4, <1>6, <1>7 DEF Shape, Writing, Untouched, Close!Mine
<1>9. Box(c)'
  BY <1>4, <1>7 DEF Box
<1>10. c \in due' => OnTheWay(c)'
  BY <1>3, <1>6 DEF OnTheWay, Works
<1> QED
  BY <1>1, <1>2, <1>3, <1>5, <1>7, <1>8, <1>9, <1>10, OwnStep

LEMMA StepAppend ==
  ASSUME ClipInv, NEW t \in Threads, Close!Append(t) PROVE ClipInv'
<1> USE ClipConstants
<1>1. Works(t) /\ thread[t].step = "append"
  BY DEF Close!Append, Works
<1>2. PICK c \in Recordings : c = Close!FileOf(t)
  BY <1>1, Owned DEF Shape, Writing
<1>3. PICK tail \in {"none", "part", "whole"}, st \in {"size", "truncate"} :
        /\ Close!Put(t, [Close!Mine(t) EXCEPT !.tail = tail]) /\ Close!Goto(t, st)
        /\ fds' = fds /\ tracked' = tracked /\ due' = due
        /\ \/ tail = "whole" /\ st = "size" /\ faults' = faults
           \/ st = "truncate" /\ faults' = faults + 1
  BY DEF Close!Append, Close!Fault
<1>4. PICK m \in Boxes : m = Close!Mine(t) /\ m.size = "old"
  BY <1>1, Owned DEF Shape, Untouched
<1>5. PICK b \in Boxes : b = [m EXCEPT !.tail = tail] /\ b.size = m.size /\ b.tail = tail
  BY TailField
<1>6. st \in ClipSteps
  BY DEF ClipSteps
<1>7. thread'[t].step = st /\ thread'[t].fd = thread[t].fd /\ Close!FileOf(t)' = c
  BY <1>2, <1>3, <1>6, StepFields DEF ClipInv, Close!FileOf
<1>8. file'[c] = b /\ Close!Put(t, b)
  BY <1>1, <1>2, <1>3, <1>4, <1>5, Owned DEF Close!Put, ClipInv, ClipTypes
<1>9. faults \in Nat
  BY DEF ClipInv, ClipTypes
<1>10. Shape(t)'
  BY <1>3, <1>4, <1>5, <1>7, <1>8, <1>9 DEF Shape, Writing, Untouched, Close!Mine
<1>11. Box(c)'
  BY <1>4, <1>5, <1>8 DEF Box
<1>12. faults' = 0 => OnTheWay(c)'
  BY <1>3, <1>7, <1>9 DEF OnTheWay, Works
<1> QED
  BY <1>1, <1>2, <1>3, <1>6, <1>8, <1>10, <1>11, <1>12, OwnStep

LEMMA StepNewSize ==
  ASSUME ClipInv, NEW t \in Threads, Close!NewSize(t) PROVE ClipInv'
<1> USE ClipConstants
<1>1. Works(t) /\ thread[t].step = "size"
  BY DEF Close!NewSize, Works
<1>2. PICK c \in Recordings : c = Close!FileOf(t)
  BY <1>1, Owned DEF Shape, Writing
<1>3. PICK size \in {"old", "torn", "new"}, st \in {"release", "restore"} :
        /\ Close!Put(t, [Close!Mine(t) EXCEPT !.size = size]) /\ Close!Goto(t, st)
        /\ fds' = fds /\ tracked' = tracked /\ due' = due
        /\ \/ size = "new" /\ st = "release" /\ faults' = faults
           \/ st = "restore" /\ faults' = faults + 1
  BY DEF Close!NewSize, Close!Fault
<1>4. PICK m \in Boxes : m = Close!Mine(t) /\ m.tail = "whole"
  BY <1>1, Owned DEF Shape
<1>5. PICK b \in Boxes : b = [m EXCEPT !.size = size] /\ b.size = size /\ b.tail = m.tail
  BY SizeField
<1>6. st \in ClipSteps
  BY DEF ClipSteps
<1>7. thread'[t].step = st /\ thread'[t].fd = thread[t].fd /\ Close!FileOf(t)' = c
  BY <1>2, <1>3, <1>6, StepFields DEF ClipInv, Close!FileOf
<1>8. file'[c] = b /\ Close!Put(t, b)
  BY <1>1, <1>2, <1>3, <1>4, <1>5, Owned DEF Close!Put, ClipInv, ClipTypes
<1>9. faults \in Nat
  BY DEF ClipInv, ClipTypes
<1>10. Shape(t)'
  BY <1>3, <1>4, <1>5, <1>7, <1>8, <1>9 DEF Shape, Writing, Untouched, Close!Mine
<1>11. Box(c)'
  BY <1>3, <1>4, <1>5, <1>7, <1>8 DEF Box
<1>12. faults' = 0 => b.size = "new"
  BY <1>3, <1>5, <1>9
<1> QED
  BY <1>1, <1>2, <1>3, <1>6, <1>8, <1>10, <1>11, <1>12, OwnStep

LEMMA StepOldSize ==
  ASSUME ClipInv, NEW t \in Threads, Close!OldSize(t) PROVE ClipInv'
<1> USE ClipConstants
<1>1. Works(t) /\ thread[t].step = "restore"
  BY DEF Close!OldSize, Works
<1>2. PICK c \in Recordings : c = Close!FileOf(t)
  BY <1>1, Owned DEF Shape, Writing
<1>3. PICK m \in Boxes : m = Close!Mine(t)
  BY <1>1, Owned
<1>4. faults \in Nat /\ faults >= 1
  BY <1>1, Owned DEF Shape
<1>5. PICK b \in Boxes :
        /\ Close!Put(t, b) /\ Close!Goto(t, "truncate") /\ fds' = fds /\ tracked' = tracked /\ due' = due
        /\ faults' \in {faults, faults + 1} /\ (faults' = faults => b.size = "old")
  <2>1. CASE Close!Put(t, [m EXCEPT !.size = "old"]) /\ faults' = faults
    <3>1. PICK b \in Boxes : b = [m EXCEPT !.size = "old"] /\ b.size = "old"
      BY SizeField
    <3> QED
      BY <2>1, <3>1 DEF Close!OldSize
  <2>2. CASE Close!Fault /\ file' = file
    <3>1. Close!Put(t, m)
      BY <1>1, <1>3, <2>2, Owned DEF Close!Put, ClipInv, ClipTypes, Close!Mine
    <3>2. faults' = faults + 1 /\ faults' # faults
      BY <1>4, <2>2 DEF Close!Fault
    <3> QED
      BY <3>1, <3>2 DEF Close!OldSize
  <2> QED
    BY <1>3, <2>1, <2>2 DEF Close!OldSize
<1>6. "truncate" \in ClipSteps
  BY DEF ClipSteps
<1>7. thread'[t].step = "truncate" /\ thread'[t].fd = thread[t].fd /\ Close!FileOf(t)' = c
  BY <1>2, <1>5, <1>6, StepFields DEF ClipInv, Close!FileOf
<1>8. file'[c] = b
  BY <1>1, <1>2, <1>5, Owned DEF Close!Put, ClipInv, ClipTypes
<1>9. faults' >= 1 /\ (faults' <= 1 => b.size = "old") /\ faults' # 0
  BY <1>4, <1>5
<1>10. Shape(t)'
  BY <1>7, <1>8, <1>9, <1>2 DEF Shape, Writing, Untouched, Close!Mine
<1>11. Box(c)'
  BY <1>8, <1>9 DEF Box
<1> QED
  BY <1>1, <1>2, <1>5, <1>6, <1>9, <1>10, <1>11, OwnStep

LEMMA StepTruncate ==
  ASSUME ClipInv, NEW t \in Threads, Close!Truncate(t) PROVE ClipInv'
<1> USE ClipConstants
<1>1. Works(t) /\ thread[t].step = "truncate"
  BY DEF Close!Truncate, Works
<1>2. PICK c \in Recordings : c = Close!FileOf(t)
  BY <1>1, Owned DEF Shape, Writing
<1>3. PICK m \in Boxes : m = Close!Mine(t)
  BY <1>1, Owned
<1>4. faults \in Nat /\ faults >= 1 /\ (faults <= 1 => m.size = "old")
  BY <1>1, <1>3, Owned DEF Shape
<1>5. PICK b \in Boxes :
        /\ Close!Put(t, b) /\ Close!Goto(t, "release") /\ fds' = fds /\ tracked' = tracked /\ due' = due
        /\ faults' \in {faults, faults + 1} /\ (faults' = faults => b.tail = "none" /\ b.size = m.size)
  <2>1. CASE Close!Put(t, [m EXCEPT !.tail = "none"]) /\ faults' = faults
    <3>1. PICK b \in Boxes : b = [m EXCEPT !.tail = "none"] /\ b.tail = "none" /\ b.size = m.size
      BY TailField
    <3> QED
      BY <2>1, <3>1 DEF Close!Truncate
  <2>2. CASE Close!Fault /\ file' = file
    <3>1. Close!Put(t, m)
      BY <1>1, <1>3, <2>2, Owned DEF Close!Put, ClipInv, ClipTypes, Close!Mine
    <3>2. faults' = faults + 1 /\ faults' # faults
      BY <1>4, <2>2 DEF Close!Fault
    <3> QED
      BY <3>1, <3>2 DEF Close!Truncate
  <2> QED
    BY <1>3, <2>1, <2>2 DEF Close!Truncate
<1>6. "release" \in ClipSteps
  BY DEF ClipSteps
<1>7. thread'[t].step = "release" /\ thread'[t].fd = thread[t].fd /\ Close!FileOf(t)' = c
  BY <1>2, <1>5, <1>6, StepFields DEF ClipInv, Close!FileOf
<1>8. file'[c] = b
  BY <1>1, <1>2, <1>5, Owned DEF Close!Put, ClipInv, ClipTypes
<1>9. faults' >= 1 /\ (faults' <= 1 => b.size = "old" /\ b.tail = "none") /\ faults' # 0
  BY <1>4, <1>5
<1>10. Shape(t)'
  BY <1>7, <1>8, <1>9 DEF Shape, Writing, Untouched, Close!Mine
<1>11. Box(c)'
  BY <1>8, <1>9 DEF Box
<1> QED
  BY <1>1, <1>2, <1>5, <1>6, <1>9, <1>10, <1>11, OwnStep

(* A step that changes no file and leaves the other threads alone.         *)
LEMMA QuietStep ==
  ASSUME ClipInv, NEW t \in Threads, file' = file, due' = due, faults' = faults,
         \A u \in Threads : u # t => thread'[u] = thread[u] /\ (Works(u) => Close!FileOf(u)' = Close!FileOf(u)),
         thread[t].step # "restore", Works(t)' => Shape(t)'
  PROVE  (\A u \in Threads : Works(u)' => Shape(u)') /\ (\A f \in Close!Files : Box(f)') /\ Close!OthersUntouched'
<1>1. ASSUME NEW u \in Threads, Works(u)', u # t PROVE Shape(u)'
  <2>1. Works(u) /\ Shape(u) /\ thread'[u] = thread[u] /\ Close!FileOf(u)' = Close!FileOf(u)
    BY <1>1 DEF ClipInv, Works
  <2>2. Close!Mine(u)' = Close!Mine(u)
    BY <2>1 DEF Close!Mine
  <2> QED
    BY <2>1, <2>2 DEF Shape
<1>2. ASSUME NEW f \in Close!Files PROVE Box(f)'
  <2>1. Box(f)
    BY DEF ClipInv
  <2>2. ASSUME NEW u \in Threads, thread[u].step = "restore", Close!FileOf(u) = f
        PROVE  thread'[u].step = "restore" /\ Close!FileOf(u)' = f
    BY <2>2 DEF Works
  <2> QED
    BY <2>1, <2>2 DEF Box
<1> QED
  BY <1>1, <1>2 DEF ClipInv, Close!OthersUntouched, Close!FinishedOne, Close!FreshFile

LEMMA StepOpen ==
  ASSUME ClipInv, NEW t \in Threads, NEW f \in Close!Files, Close!Open(t, f) PROVE ClipInv'
<1> USE ClipConstants
<1>0. ClipTypes /\ Ownership /\ Table /\ Pending
  BY DEF ClipInv
<1>1. PICK d \in Close!Fds :
        /\ fds[d] = "closed" /\ fds' = [fds EXCEPT ![d] = f]
        /\ thread' = [thread EXCEPT ![t] = [step |-> IF f \in Recordings THEN "track" ELSE "close", fd |-> d]]
  BY DEF Close!Open, Close!Lowest
<1>2. /\ thread[t].step = "idle" /\ (\A e \in Close!Fds : fds[e] # f)
      /\ file' = file /\ due' = due /\ faults' = faults /\ tracked' = tracked
      /\ f \in Recordings => file[f] = Close!FreshFile
  BY DEF Close!Open
<1>3. PICK st \in {"track", "close"} : st = IF f \in Recordings THEN "track" ELSE "close"
  OBVIOUS
<1>4. /\ thread'[t].step = st /\ thread'[t].fd = d /\ Works(t)'
      /\ \A u \in Threads : u # t => thread'[u] = thread[u] /\ (Works(u)' <=> Works(u))
  BY <1>0, <1>1, <1>3 DEF ClipTypes, Works
<1>5. fds'[d] = f /\ \A e \in Close!Fds : e # d => fds'[e] = fds[e]
  BY <1>0, <1>1 DEF ClipTypes
<1>6. \A u \in Threads : Works(u) => u # t /\ thread[u].fd # d /\ Close!FileOf(u)' = Close!FileOf(u)
  BY <1>0, <1>1, <1>2, <1>4, <1>5 DEF Ownership, Works, Close!FileOf
<1>7. Close!FileOf(t)' = f
  BY <1>4, <1>5 DEF Close!FileOf
<1>8. ClipTypes'
  <2>1. fds' \in [Close!Fds -> Close!Files \cup {"closed"}]
    BY <1>0, <1>1 DEF ClipTypes
  <2>2. [step |-> st, fd |-> d] \in [step : ClipSteps, fd : Close!Fds \cup {0}]
    BY DEF ClipSteps
  <2>3. thread' \in [Threads -> [step : ClipSteps, fd : Close!Fds \cup {0}]]
    BY <1>0, <1>1, <1>3, <2>2 DEF ClipTypes
  <2> QED
    BY <1>0, <1>2, <2>1, <2>3 DEF ClipTypes
<1>9. Ownership'
  <2>1. \A u \in Threads : Works(u)' => thread'[u].fd \in Close!Fds /\ Close!FileOf(u)' \in Close!Files
    BY <1>0, <1>4, <1>6, <1>7 DEF Ownership
  <2>2. \A u, v \in Threads : Works(u)' /\ Works(v)' /\ thread'[u].fd = thread'[v].fd => u = v
    BY <1>0, <1>4, <1>6 DEF Ownership
  <2>3. \A e, g \in Close!Fds : fds'[e] = fds'[g] /\ fds'[e] # "closed" => e = g
    BY <1>0, <1>2, <1>5 DEF Ownership
  <2> QED
    BY <2>1, <2>2, <2>3 DEF Ownership
<1>10. Table'
  <2>1. ASSUME NEW s \in Close!Slots, tracked'[s] # -1
        PROVE  \E u \in Threads : /\ thread'[u].fd = tracked'[s] /\ thread'[u].step \in {"mux", "close"}
                                  /\ Close!FileOf(u)' \in Recordings
    <3>1. PICK u \in Threads : thread[u].fd = tracked[s] /\ thread[u].step \in {"mux", "close"} /\ Close!FileOf(u) \in Recordings
      BY <1>0, <1>2, <2>1 DEF Table
    <3>2. Works(u) /\ u # t
      BY <1>2, <3>1 DEF Works
    <3> QED
      BY <1>2, <1>4, <1>6, <3>1, <3>2
  <2> QED
    BY <1>0, <1>2, <2>1 DEF Table
<1>11. Shape(t)'
  <2>1. file'[f].size = "old" /\ file'[f].tail = "none"
    BY <1>2 DEF ClipInv, Close!OthersUntouched, Close!FreshFile, Close!FinishedOne
  <2>2. st = "track" => f \in Recordings
    BY <1>3
  <2> QED
    BY <1>4, <1>7, <2>1, <2>2 DEF Shape, Writing, Untouched, Close!Mine
<1>12. (\A u \in Threads : Works(u)' => Shape(u)') /\ (\A g \in Close!Files : Box(g)') /\ Close!OthersUntouched'
  BY <1>2, <1>4, <1>6, <1>11, QuietStep
<1>13. Pending'
  <2>1. \A u \in Threads : u # t => (Tracks(u)' <=> Tracks(u))
    BY <1>2, <1>4 DEF Tracks
  <2>2. ASSUME NEW g, OnTheWay(g) PROVE OnTheWay(g)'
    BY <1>4, <1>6, <2>1, <2>2 DEF OnTheWay
  <2>3. ASSUME NEW u \in Threads, thread'[u].step = "mux" PROVE u # t /\ thread[u].step = "mux"
    BY <1>4, <2>3
  <2> QED
    BY <1>0, <1>2, <2>1, <2>2, <2>3 DEF Pending
<1> QED
  BY <1>8, <1>9, <1>10, <1>12, <1>13 DEF ClipInv

(* No more descriptors than slots: there is one for every recording.       *)
LEMMA FreeSlot ==
  ASSUME ClipInv, NEW t \in Threads, thread[t].step = "track", MaxFd <= RECORD_FDS
  PROVE  \E s \in Close!Slots : tracked[s] = -1
<1> USE ClipConstants
<1>0. ClipTypes /\ Ownership /\ Table
  BY DEF ClipInv
<1> SUFFICES ASSUME \A s \in Close!Slots : tracked[s] # -1 PROVE FALSE
  OBVIOUS
<1> DEFINE d == thread[t].fd
<1>1. d \in Close!Fds /\ Works(t)
  BY <1>0 DEF Ownership, Works
<1>2. ASSUME NEW s \in Close!Slots PROVE tracked[s] \in Close!Fds \ {d}
  <2>1. PICK u \in Threads : thread[u].fd = tracked[s] /\ thread[u].step \in {"mux", "close"}
    BY <1>0, <1>2 DEF Table
  <2>2. Works(u) /\ u # t
    BY <2>1 DEF Works
  <2> QED
    BY <1>0, <1>1, <2>1, <2>2 DEF Ownership
<1>3. tracked \in [Close!Slots -> Close!Fds \ {d}]
  BY <1>0, <1>2 DEF ClipTypes
<1>4. IsFiniteSet(1..MaxFd) /\ Cardinality(1..MaxFd) = MaxFd /\ IsFiniteSet(1..RECORD_FDS) /\ Cardinality(1..RECORD_FDS) = RECORD_FDS
  <2>1. 1 \in Int /\ MaxFd \in Int /\ RECORD_FDS \in Int /\ ~(1 > MaxFd) /\ ~(1 > RECORD_FDS)
    OBVIOUS
  <2>2. MaxFd - 1 + 1 = MaxFd /\ RECORD_FDS - 1 + 1 = RECORD_FDS
    OBVIOUS
  <2> QED
    BY <2>1, <2>2, FS_Interval
<1> HIDE DEF d
<1>5. IsFiniteSet((1..MaxFd) \ {d}) /\ Cardinality((1..MaxFd) \ {d}) = MaxFd - 1
  BY <1>1, <1>4, FS_RemoveElement
<1>6. \E x, y \in Close!Slots : x # y /\ tracked[x] = tracked[y]
  <2>1. Cardinality(Close!Fds \ {d}) < Cardinality(Close!Slots) /\ IsFiniteSet(Close!Slots) /\ IsFiniteSet(Close!Fds \ {d})
    BY <1>4, <1>5
  <2> QED
    BY <1>3, <2>1, FS_PigeonHole
<1> QED
  BY <1>0, <1>6 DEF Table

LEMMA StepTrack ==
  ASSUME ClipInv, NEW t \in Threads, Close!Track(t) PROVE ClipInv'
<1> USE ClipConstants
<1>0. ClipTypes /\ Ownership /\ Table /\ Pending /\ Works(t) /\ thread[t].step = "track" /\ "mux" \in ClipSteps
  BY DEF ClipInv, Close!Track, Works, ClipSteps
<1>1. fds' = fds /\ file' = file /\ due' = due /\ faults' = faults /\ Close!Goto(t, "mux")
  BY DEF Close!Track
<1>2. \/ (\A s \in Close!Slots : tracked[s] # -1) /\ tracked' = tracked
      \/ \E s \in Close!Slots : tracked[s] = -1 /\ tracked' = [tracked EXCEPT ![s] = thread[t].fd]
  BY DEF Close!Track, Close!Lowest
<1>3. /\ thread' \in [Threads -> [step : ClipSteps, fd : Close!Fds \cup {0}]]
      /\ thread'[t].step = "mux" /\ thread'[t].fd = thread[t].fd /\ Works(t)'
      /\ \A u \in Threads : u # t => thread'[u] = thread[u]
  BY <1>0, <1>1, StepFields DEF Works
<1>4. \A u \in Threads : thread'[u].fd = thread[u].fd /\ Close!FileOf(u)' = Close!FileOf(u) /\ (Works(u)' <=> Works(u))
  BY <1>0, <1>1, <1>3 DEF Close!FileOf, Works
<1>5. thread[t].fd \in Close!Fds /\ Close!FileOf(t) \in Recordings /\ Shape(t)
  BY <1>0, Owned DEF Shape, Writing
<1>6. ClipTypes'
  BY <1>0, <1>1, <1>2, <1>3, <1>5 DEF ClipTypes
<1>7. Ownership'
  BY <1>0, <1>1, <1>4 DEF Ownership
<1>8. Shape(t)'
  <2>1. Close!Mine(t)' = Close!Mine(t) /\ Close!FileOf(t)' \in Recordings
    BY <1>1, <1>4, <1>5 DEF Close!Mine
  <2> QED
    BY <1>0, <1>3, <1>5, <2>1 DEF Shape, Writing, Untouched
<1>9. (\A u \in Threads : Works(u)' => Shape(u)') /\ (\A f \in Close!Files : Box(f)') /\ Close!OthersUntouched'
  BY <1>0, <1>1, <1>3, <1>4, <1>8, QuietStep
<1>10. \A s \in Close!Slots : tracked[s] # thread[t].fd
  <2> SUFFICES ASSUME NEW s \in Close!Slots, tracked[s] = thread[t].fd PROVE FALSE
    OBVIOUS
  <2>1. PICK u \in Threads : thread[u].fd = tracked[s] /\ thread[u].step \in {"mux", "close"}
    BY <1>0, <1>5 DEF Table
  <2> QED
    BY <1>0, <2>1 DEF Ownership, Works
<1>11. ASSUME NEW s \in Close!Slots, tracked[s] # -1 PROVE tracked'[s] = tracked[s]
  BY <1>0, <1>2, <1>11 DEF ClipTypes
<1>12. ASSUME NEW s \in Close!Slots, tracked'[s] # -1 PROVE tracked'[s] = tracked[s] \/ tracked'[s] = thread[t].fd
  BY <1>0, <1>2 DEF ClipTypes
<1>13. ASSUME NEW s \in Close!Slots, NEW u \in Close!Slots, tracked'[s] = tracked'[u], tracked'[s] # -1 PROVE s = u
  BY <1>0, <1>2, <1>10, <1>13 DEF ClipTypes, Table
<1>14. Table'
  <2>1. ASSUME NEW s \in Close!Slots, tracked'[s] # -1
        PROVE  \E u \in Threads : /\ thread'[u].fd = tracked'[s] /\ thread'[u].step \in {"mux", "close"}
                                  /\ Close!FileOf(u)' \in Recordings
    <3>1. CASE tracked'[s] = thread[t].fd
      BY <1>3, <1>4, <1>5, <3>1
    <3>2. CASE tracked'[s] = tracked[s]
      <4>1. PICK u \in Threads : thread[u].fd = tracked[s] /\ thread[u].step \in {"mux", "close"} /\ Close!FileOf(u) \in Recordings
        BY <1>0, <2>1, <3>2 DEF Table
      <4>2. u # t
        BY <1>0, <4>1
      <4> QED
        BY <1>3, <1>4, <3>2, <4>1, <4>2
    <3> QED
      BY <1>12, <2>1, <3>1, <3>2
  <2> QED
    BY <1>13, <2>1 DEF Table
<1>15. Pending'
  <2>1. ASSUME NEW u \in Threads, Works(u), Tracks(u) PROVE Tracks(u)'
    <3>1. thread[u].fd # -1
      BY <1>0, <2>1 DEF Ownership
    <3> QED
      BY <1>4, <1>11, <2>1, <3>1 DEF Tracks
  <2>2. ASSUME NEW f, OnTheWay(f) PROVE OnTheWay(f)'
    <3>1. PICK u \in Threads : /\ Works(u) /\ Close!FileOf(u) = f
                               /\ thread[u].step \in {"close", "find", "append", "size"}
                               /\ thread[u].step = "close" => Tracks(u)
      BY <2>2 DEF OnTheWay
    <3>2. u # t
      BY <1>0, <3>1
    <3> QED
      BY <1>3, <1>4, <2>1, <3>1, <3>2 DEF OnTheWay
  <2>3. MaxFd <= RECORD_FDS => Tracks(t)'
    <3> SUFFICES ASSUME MaxFd <= RECORD_FDS PROVE Tracks(t)'
      OBVIOUS
    <3>1. \E s \in Close!Slots : tracked[s] = -1
      BY <1>0, FreeSlot
    <3>2. PICK s \in Close!Slots : tracked[s] = -1 /\ tracked' = [tracked EXCEPT ![s] = thread[t].fd]
      BY <1>2, <3>1
    <3>3. tracked'[s] = thread[t].fd
      BY <1>0, <3>2 DEF ClipTypes
    <3> QED
      BY <1>3, <3>3 DEF Tracks
  <2>4. ASSUME faults' = 0, MaxFd <= RECORD_FDS, NEW u \in Threads, thread'[u].step = "mux" PROVE Tracks(u)'
    <3>1. CASE u = t
      BY <2>3, <2>4, <3>1
    <3>2. CASE u # t
      <4>1. thread[u].step = "mux" /\ Works(u)
        BY <1>3, <2>4, <3>2 DEF Works
      <4>2. Tracks(u)
        BY <1>0, <1>1, <2>4, <4>1 DEF Pending
      <4> QED
        BY <2>1, <4>1, <4>2
    <3> QED
      BY <3>1, <3>2
  <2> QED
    BY <1>0, <1>1, <2>2, <2>4 DEF Pending
<1> QED
  BY <1>6, <1>7, <1>9, <1>14, <1>15 DEF ClipInv

LEMMA StepUntrack ==
  ASSUME ClipInv, NEW t \in Threads, Close!Untrack(t) PROVE ClipInv'
<1> USE ClipConstants
<1>0. ClipTypes /\ Ownership /\ Table /\ Pending /\ Works(t) /\ thread[t].step = "close"
  BY DEF ClipInv, Close!Untrack, Works
<1>1. fds' = fds /\ file' = file /\ due' = due /\ faults' = faults
  BY DEF Close!Untrack
<1>2. PICK st \in {"find", "release"} :
        /\ Close!Goto(t, st)
        /\ \/ st = "release" /\ (\A s \in Close!Slots : tracked[s] # thread[t].fd) /\ tracked' = tracked
           \/ st = "find" /\ \E s \in Close!Slots : tracked[s] = thread[t].fd /\ tracked' = [tracked EXCEPT ![s] = -1]
  BY DEF Close!Untrack, Close!Lowest
<1>3. st \in ClipSteps
  BY DEF ClipSteps
<1>4. /\ thread' \in [Threads -> [step : ClipSteps, fd : Close!Fds \cup {0}]]
      /\ thread'[t].step = st /\ thread'[t].fd = thread[t].fd /\ Works(t)'
      /\ \A u \in Threads : u # t => thread'[u] = thread[u]
  BY <1>0, <1>2, <1>3, StepFields DEF Works
<1>5. \A u \in Threads : thread'[u].fd = thread[u].fd /\ Close!FileOf(u)' = Close!FileOf(u) /\ (Works(u)' <=> Works(u))
  BY <1>0, <1>1, <1>4 DEF Close!FileOf, Works
<1>6. ClipTypes'
  BY <1>0, <1>1, <1>2, <1>4 DEF ClipTypes
<1>7. Ownership'
  BY <1>0, <1>1, <1>5 DEF Ownership
<1>8. thread[t].fd \in Close!Fds /\ Shape(t)
  BY <1>0, Owned
<1>9. st = "find" => Close!FileOf(t) \in Recordings
  <2> SUFFICES ASSUME st = "find" PROVE Close!FileOf(t) \in Recordings
    OBVIOUS
  <2>1. PICK s \in Close!Slots : tracked[s] = thread[t].fd
    BY <1>2
  <2>2. PICK u \in Threads : thread[u].fd = tracked[s] /\ thread[u].step \in {"mux", "close"} /\ Close!FileOf(u) \in Recordings
    BY <1>0, <1>8, <2>1 DEF Table
  <2>3. u = t
    BY <1>0, <2>1, <2>2 DEF Ownership, Works
  <2> QED
    BY <2>2, <2>3
<1>10. Shape(t)'
  <2>1. Close!Mine(t)' = Close!Mine(t) /\ Close!FileOf(t)' = Close!FileOf(t)
    BY <1>1, <1>5 DEF Close!Mine
  <2> QED
    BY <1>0, <1>4, <1>8, <1>9, <2>1 DEF Shape, Writing, Untouched
<1>11. (\A u \in Threads : Works(u)' => Shape(u)') /\ (\A f \in Close!Files : Box(f)') /\ Close!OthersUntouched'
  BY <1>0, <1>1, <1>4, <1>5, <1>10, QuietStep
<1>12. ASSUME NEW s \in Close!Slots, tracked'[s] # -1 PROVE tracked'[s] = tracked[s] /\ tracked[s] # thread[t].fd
  <2>1. CASE st = "release"
    BY <1>2, <2>1
  <2>2. CASE st = "find"
    <3>1. PICK x \in Close!Slots : tracked[x] = thread[t].fd /\ tracked' = [tracked EXCEPT ![x] = -1]
      BY <1>2, <2>2
    <3>2. s # x /\ tracked'[s] = tracked[s]
      BY <1>0, <1>12, <3>1 DEF ClipTypes
    <3> QED
      BY <1>0, <1>12, <3>1, <3>2 DEF Table
  <2> QED
    BY <2>1, <2>2
<1>13. ASSUME NEW s \in Close!Slots, tracked[s] # -1, tracked[s] # thread[t].fd PROVE tracked'[s] = tracked[s]
  BY <1>0, <1>2, <1>13 DEF ClipTypes
<1>14. Table'
  <2>1. ASSUME NEW s \in Close!Slots, tracked'[s] # -1
        PROVE  \E u \in Threads : /\ thread'[u].fd = tracked'[s] /\ thread'[u].step \in {"mux", "close"}
                                  /\ Close!FileOf(u)' \in Recordings
    <3>1. tracked'[s] = tracked[s] /\ tracked[s] # thread[t].fd
      BY <1>12, <2>1
    <3>2. PICK u \in Threads : thread[u].fd = tracked[s] /\ thread[u].step \in {"mux", "close"} /\ Close!FileOf(u) \in Recordings
      BY <1>0, <2>1, <3>1 DEF Table
    <3>3. u # t
      BY <3>1, <3>2
    <3> QED
      BY <1>4, <1>5, <3>1, <3>2, <3>3
  <2>2. \A s, x \in Close!Slots : tracked'[s] = tracked'[x] /\ tracked'[s] # -1 => s = x
    BY <1>0, <1>12 DEF Table
  <2> QED
    BY <2>1, <2>2 DEF Table
<1>15. Pending'
  <2>1. ASSUME NEW u \in Threads, u # t, Works(u), Tracks(u) PROVE Tracks(u)'
    <3>1. thread[u].fd # -1 /\ thread[u].fd # thread[t].fd
      BY <1>0, <2>1 DEF Ownership
    <3> QED
      BY <1>5, <1>13, <2>1, <3>1 DEF Tracks
  <2>2. ASSUME NEW f, OnTheWay(f) PROVE OnTheWay(f)'
    <3>1. PICK u \in Threads : /\ Works(u) /\ Close!FileOf(u) = f
                               /\ thread[u].step \in {"close", "find", "append", "size"}
                               /\ thread[u].step = "close" => Tracks(u)
      BY <2>2 DEF OnTheWay
    <3>2. CASE u = t
      <4>1. st = "find"
        BY <1>0, <1>2, <3>1, <3>2 DEF Tracks
      <4> QED
        BY <1>4, <1>5, <3>1, <3>2, <4>1 DEF OnTheWay
    <3>3. CASE u # t
      BY <1>4, <1>5, <2>1, <3>1, <3>3 DEF OnTheWay
    <3> QED
      BY <3>2, <3>3
  <2>3. ASSUME faults' = 0, MaxFd <= RECORD_FDS, NEW u \in Threads, thread'[u].step = "mux" PROVE Tracks(u)'
    <3>1. u # t /\ thread[u].step = "mux" /\ Works(u)
      BY <1>4, <2>3 DEF Works
    <3>2. Tracks(u)
      BY <1>0, <1>1, <2>3, <3>1 DEF Pending
    <3> QED
      BY <2>1, <3>1, <3>2
  <2> QED
    BY <1>0, <1>1, <2>2, <2>3 DEF Pending
<1> QED
  BY <1>6, <1>7, <1>11, <1>14, <1>15 DEF ClipInv

LEMMA StepRelease ==
  ASSUME ClipInv, NEW t \in Threads, Close!Release(t) PROVE ClipInv'
<1> USE ClipConstants
<1>0. ClipTypes /\ Ownership /\ Table /\ Pending /\ Works(t) /\ thread[t].step = "release"
  BY DEF ClipInv, Close!Release, Works
<1>1. /\ file' = file /\ due' = due /\ faults' = faults /\ tracked' = tracked
      /\ fds' = [fds EXCEPT ![thread[t].fd] = "closed"] /\ thread' = [thread EXCEPT ![t] = Close!NoThread]
  BY DEF Close!Release
<1>2. ~Works(t)' /\ thread'[t].step = "idle" /\ \A u \in Threads : u # t => thread'[u] = thread[u] /\ (Works(u)' <=> Works(u))
  BY <1>0, <1>1 DEF ClipTypes, Works, Close!NoThread
<1>3. \A e \in Close!Fds : fds'[e] = IF e = thread[t].fd THEN "closed" ELSE fds[e]
  BY <1>0, <1>1 DEF ClipTypes
<1>4. \A u \in Threads : Works(u) /\ u # t => thread[u].fd # thread[t].fd /\ Close!FileOf(u)' = Close!FileOf(u)
  BY <1>0, <1>2, <1>3 DEF Ownership, Close!FileOf
<1>5. ClipTypes'
  <2>1. fds' \in [Close!Fds -> Close!Files \cup {"closed"}]
    BY <1>0, <1>1 DEF ClipTypes
  <2>2. Close!NoThread \in [step : ClipSteps, fd : Close!Fds \cup {0}]
    BY DEF ClipSteps, Close!NoThread
  <2>3. thread' \in [Threads -> [step : ClipSteps, fd : Close!Fds \cup {0}]]
    BY <1>0, <1>1, <2>2 DEF ClipTypes
  <2> QED
    BY <1>0, <1>1, <2>1, <2>3 DEF ClipTypes
<1>6. Ownership'
  <2>1. \A u \in Threads : Works(u)' => thread'[u].fd \in Close!Fds /\ Close!FileOf(u)' \in Close!Files
    BY <1>0, <1>2, <1>4 DEF Ownership
  <2>2. \A u, v \in Threads : Works(u)' /\ Works(v)' /\ thread'[u].fd = thread'[v].fd => u = v
    BY <1>0, <1>2 DEF Ownership
  <2>3. \A e, g \in Close!Fds : fds'[e] = fds'[g] /\ fds'[e] # "closed" => e = g
    BY <1>0, <1>3 DEF Ownership
  <2> QED
    BY <2>1, <2>2, <2>3 DEF Ownership
<1>7. Table'
  <2>1. ASSUME NEW s \in Close!Slots, tracked'[s] # -1
        PROVE  \E u \in Threads : /\ thread'[u].fd = tracked'[s] /\ thread'[u].step \in {"mux", "close"}
                                  /\ Close!FileOf(u)' \in Recordings
    <3>1. PICK u \in Threads : thread[u].fd = tracked[s] /\ thread[u].step \in {"mux", "close"} /\ Close!FileOf(u) \in Recordings
      BY <1>0, <1>1, <2>1 DEF Table
    <3>2. Works(u) /\ u # t
      BY <1>0, <3>1 DEF Works
    <3> QED
      BY <1>1, <1>2, <1>4, <3>1, <3>2
  <2> QED
    BY <1>0, <1>1, <2>1 DEF Table
<1>8. (\A u \in Threads : Works(u)' => Shape(u)') /\ (\A g \in Close!Files : Box(g)') /\ Close!OthersUntouched'
  BY <1>0, <1>1, <1>2, <1>4, QuietStep
<1>9. Pending'
  <2>1. \A u \in Threads : u # t => (Tracks(u)' <=> Tracks(u))
    BY <1>1, <1>2 DEF Tracks
  <2>2. ASSUME NEW g, OnTheWay(g) PROVE OnTheWay(g)'
    <3>1. PICK u \in Threads : /\ Works(u) /\ Close!FileOf(u) = g
                               /\ thread[u].step \in {"close", "find", "append", "size"}
                               /\ thread[u].step = "close" => Tracks(u)
      BY <2>2 DEF OnTheWay
    <3>2. u # t
      BY <1>0, <3>1
    <3> QED
      BY <1>2, <1>4, <2>1, <3>1, <3>2 DEF OnTheWay
  <2>3. ASSUME NEW u \in Threads, thread'[u].step = "mux" PROVE u # t /\ thread[u].step = "mux"
    BY <1>2, <2>3
  <2> QED
    BY <1>0, <1>1, <2>1, <2>2, <2>3 DEF Pending
<1> QED
  BY <1>5, <1>6, <1>7, <1>8, <1>9 DEF ClipInv

(* A kill counts as a fault: after one that was not the first, nothing is  *)
(* promised; after the first, no thread was writing the old size back.     *)
LEMMA StepKill ==
  ASSUME ClipInv, Close!Kill PROVE ClipInv'
<1> USE ClipConstants
<1>0. ClipTypes /\ faults \in Nat
  BY DEF ClipInv, ClipTypes
<1>1. /\ fds' = [d \in Close!Fds |-> "closed"] /\ tracked' = [s \in Close!Slots |-> -1]
      /\ thread' = [t \in Threads |-> Close!NoThread] /\ file' = file /\ due' = due /\ faults' = faults + 1
  BY DEF Close!Kill, Close!Fault
<1>2. \A t \in Threads : ~Works(t)' /\ thread'[t].step = "idle"
  BY <1>1 DEF Works, Close!NoThread
<1>3. ClipTypes'
  <2>1. Close!NoThread \in [step : ClipSteps, fd : Close!Fds \cup {0}]
    BY DEF ClipSteps, Close!NoThread
  <2>2. thread' \in [Threads -> [step : ClipSteps, fd : Close!Fds \cup {0}]]
    BY <1>1, <2>1
  <2> QED
    BY <1>0, <1>1, <2>2 DEF ClipTypes
<1>4. Ownership' /\ Table'
  BY <1>1, <1>2 DEF Ownership, Table
<1>5. ASSUME NEW f \in Close!Files PROVE Box(f)'
  <2>1. Box(f) /\ \A t \in Threads : thread[t].step = "restore" => faults >= 1
    BY DEF ClipInv, Shape, Works
  <2> QED
    BY <1>0, <1>1, <2>1 DEF Box
<1>6. Pending'
  BY <1>0, <1>1 DEF Pending
<1> QED
  BY <1>1, <1>2, <1>3, <1>4, <1>5, <1>6 DEF ClipInv, Close!OthersUntouched, Close!FinishedOne, Close!FreshFile

LEMMA ClipStutter ==
  ASSUME ClipInv, UNCHANGED clip PROVE ClipInv'
<1>1. /\ fds' = fds /\ tracked' = tracked /\ file' = file /\ thread' = thread /\ due' = due /\ faults' = faults
  BY DEF clip
<1>2. ClipTypes' /\ Ownership' /\ Table' /\ Close!OthersUntouched'
  BY <1>1 DEF ClipInv, ClipTypes, Ownership, Table, Works, Close!FileOf, Close!OthersUntouched, Close!FinishedOne, Close!FreshFile
<1>3. \A t \in Threads : Works(t)' => Shape(t)'
  BY <1>1 DEF ClipInv, Works, Shape, Close!Mine, Close!FileOf
<1>4. \A f \in Close!Files : Box(f)'
  BY <1>1 DEF ClipInv, Box, Close!FileOf
<1>5. Pending'
  BY <1>1 DEF ClipInv, Pending, OnTheWay, Tracks, Works, Close!FileOf
<1> QED
  BY <1>2, <1>3, <1>4, <1>5 DEF ClipInv

LEMMA ClipsFromInv == ASSUME ClipInv PROVE ClipsSound
<1> USE ClipConstants
<1>1. Close!Playable
  BY DEF ClipInv, Box, Close!Playable
<1>2. Close!WholeOrOriginal
  BY DEF ClipInv, Shape, Works, Close!WholeOrOriginal
<1>3. Close!Tagged
  <2> SUFFICES ASSUME faults = 0, MaxFd <= RECORD_FDS, NEW f \in due, \A d \in Close!Fds : fds[d] # f
               PROVE  file[f].size = "new"
    BY DEF Close!Tagged
  <2>1. ~OnTheWay(f)
    BY DEF ClipInv, Ownership, OnTheWay, Close!FileOf
  <2> QED
    BY <2>1 DEF ClipInv, Pending
<1> QED
  BY <1>1, <1>2, <1>3 DEF ClipInv, ClipsSound

(* record_metadata.c: for any number of threads, recordings, descriptors   *)
(* and slots, a recording is playable after a failed write or a kill, has  *)
(* the whole tag or none when close returns, and gets its tag when nothing *)
(* fails; a file that was not opened as a recording is never written.      *)
THEOREM ClipsAreSound == Spec => []ClipsSound
<1>1. Init => ClipInv
  BY ClipInit DEF Init
<1>2. ClipInv /\ [Next]_vars => ClipInv'
  <2> SUFFICES ASSUME ClipInv, [Next]_vars PROVE ClipInv'
    OBVIOUS
  <2>1. CASE UNCHANGED clip
    BY <2>1, ClipStutter
  <2>2. CASE Close!Next
    BY <2>2, StepOpen, StepTrack, StepMux, StepUntrack, StepFind, StepAppend, StepNewSize, StepOldSize,
       StepTruncate, StepRelease, StepKill DEF Close!Next
  <2> QED
    BY <2>1, <2>2 DEF Next, vars
<1> QED
  BY <1>1, <1>2, ClipsFromInv, PTL DEF Spec

-----------------------------------------------------------------------------
(* The ring of levels.  Positions are at most one round past the ring.     *)
LEMMA RingIndex ==
  ASSUME NEW c \in Nat \ {0}, NEW a \in 0..(2 * c - 1)
  PROVE  a % c = IF a < c THEN a ELSE a - c
<1> DEFINE q == a \div c
           r == a % c
<1>1. a = c * q + r /\ q \in Int /\ r \in 0..(c - 1)
  BY Z3
<1> HIDE DEF q, r
<1>2. q <= 0 => c * q <= 0
  BY <1>1
<1>3. q >= 1 => c * q >= c
  BY <1>1
<1>4. q >= 2 => c * q >= 2 * c
  BY <1>1
<1>5. q <= -1 => c * q <= -c
  BY <1>1
<1>6. c * q \in Int
  BY <1>1
<1>7. q \in {0, 1}
  BY <1>1, <1>4, <1>5, <1>6
<1>8. CASE q = 0
  BY <1>1, <1>8 DEF r
<1>9. CASE q = 1
  BY <1>1, <1>9 DEF r
<1> QED
  BY <1>7, <1>8, <1>9

Readings  == [wall : Int, mono : Int]
Rings     == [first : Ring!Slots, count : 0..LevelCapacity, started : Int, discarded : Int, until : Int,
              samples : [Ring!Slots -> Readings]]
Pos(a)    == a % LevelCapacity
At(r, i)  == r.samples[Pos(r.first + i - 1)]

RingTypes ==
    /\ wall \in Int /\ mono \in Int /\ motiond \in {"down", "started", "ticking"}
    /\ reading \in Readings /\ h \in Rings /\ log \in Seq(Readings)

(* The ring r holds the newest entries of the log l, ...                   *)
HoldsLog(r, l) ==
    /\ r.count <= Len(l) /\ (r.count = LevelCapacity \/ r.count = Len(l))
    /\ \A i \in 1..r.count : At(r, i) = l[Len(l) - r.count + i]
    /\ r.discarded = IF Len(l) = r.count THEN -1 ELSE l[Len(l) - r.count].wall

(* ... which are in order and in the interval the ring says it covers.     *)
InTime(r, l) ==
    /\ r.started <= r.until
    /\ \A i \in 1..Len(l) : r.started <= l[i].wall /\ l[i].wall <= r.until
    /\ \A i \in 1..(Len(l) - 1) : l[i].wall <= l[i + 1].wall

(* The clock is not stepped before the first reading of a process, and a   *)
(* step after it is found at the next reading.                             *)
RingInv ==
    /\ RingTypes /\ HoldsLog(h, log) /\ InTime(h, log)
    /\ motiond = "started" => h.until <= wall
    /\ motiond = "ticking" => h.until = reading.wall

LEMMA LevelConstants ==
  /\ LevelCapacity \in Nat \ {0} /\ Ring!Slots = 0..(LevelCapacity - 1)
BY RingsAssumption DEF Ring!RingAssumption, Ring!Slots

LEMMA PosIs ==
  ASSUME NEW a \in Int, a >= 0, a < LevelCapacity + LevelCapacity
  PROVE  /\ Pos(a) \in 0..(LevelCapacity - 1) /\ Pos(a) \in Int
         /\ a < LevelCapacity => Pos(a) = a
         /\ a >= LevelCapacity => Pos(a) = a - LevelCapacity
<1>1. LevelCapacity \in Nat \ {0} /\ a \in 0..(2 * LevelCapacity - 1)
  BY LevelConstants
<1>2. Pos(a) = IF a < LevelCapacity THEN a ELSE a - LevelCapacity
  BY <1>1, RingIndex DEF Pos
<1>3. CASE a < LevelCapacity
  BY <1>1, <1>2, <1>3
<1>4. CASE ~(a < LevelCapacity)
  BY <1>1, <1>2, <1>4
<1> QED
  BY <1>3, <1>4

LEMMA ResetRing ==
  ASSUME wall \in Int
  PROVE  /\ Ring!ResetLevels \in Rings /\ HoldsLog(Ring!ResetLevels, << >>) /\ InTime(Ring!ResetLevels, << >>)
         /\ Ring!ResetLevels.until = wall /\ Ring!ResetLevels.started = wall
<1> USE LevelConstants
<1> DEFINE r == Ring!ResetLevels
<1>1. /\ r = [first |-> 0, count |-> 0, started |-> wall, discarded |-> -1, until |-> wall, samples |-> [i \in Ring!Slots |-> Ring!None]]
      /\ Ring!None \in Readings
  BY DEF Ring!ResetLevels, Ring!None, Readings
<1> HIDE DEF r
<1>2. r.first = 0 /\ r.count = 0 /\ r.started = wall /\ r.discarded = -1 /\ r.until = wall
  BY <1>1
<1>3. r \in Rings
  <2>1. [i \in Ring!Slots |-> Ring!None] \in [Ring!Slots -> Readings] /\ 0 \in Ring!Slots /\ 0 \in 0..LevelCapacity /\ -1 \in Int
    BY <1>1
  <2> QED
    BY <1>1, <2>1 DEF Rings
<1>4. HoldsLog(r, << >>) /\ InTime(r, << >>)
  BY <1>2 DEF HoldsLog, InTime
<1> QED
  BY <1>2, <1>3, <1>4 DEF r

LEMMA RingInit == ASSUME Ring!Init PROVE RingInv
<1>1. wall \in Int /\ mono \in Int /\ motiond = "down" /\ reading \in Readings
  BY DEF Ring!Init, Ring!None, Readings
<1>2. h = Ring!ResetLevels /\ log = << >> /\ log \in Seq(Readings)
  BY DEF Ring!Init
<1> QED
  BY <1>1, <1>2, ResetRing DEF RingInv, RingTypes

(* Appending to the ring is appending to the log: while the ring is not    *)
(* full the reading goes behind the last; when it is, it replaces the      *)
(* oldest, which becomes the one discarded.                                *)
LEMMA AppendRing ==
  ASSUME NEW r \in Rings, NEW l \in Seq(Readings), HoldsLog(r, l), Ring!Reading \in Readings
  PROVE  /\ Ring!Append1(r) \in Rings /\ HoldsLog(Ring!Append1(r), Append(l, Ring!Reading))
         /\ Ring!Append1(r).started = r.started /\ Ring!Append1(r).until = r.until
<1> USE LevelConstants
<1> DEFINE a == Ring!Append1(r)
           C == LevelCapacity
           v == Ring!Reading
           k == Append(l, v)
<1>1. PICK first \in 0..(C - 1), count \in 0..C, n \in Nat :
        /\ first = r.first /\ count = r.count /\ n = Len(l) /\ count <= n /\ (count = C \/ count = n)
  <2>1. r.first \in 0..(C - 1) /\ r.count \in 0..C
    BY DEF Rings
  <2>2. Len(l) \in Nat
    OBVIOUS
  <2>3. r.count <= Len(l) /\ (r.count = C \/ r.count = Len(l))
    BY DEF HoldsLog
  <2> QED
    BY <2>1, <2>2, <2>3
<1>2. r.samples \in [0..(C - 1) -> Readings] /\ r.started \in Int /\ r.until \in Int /\ r.discarded \in Int
  BY DEF Rings
<1>3. k \in Seq(Readings) /\ Len(k) = n + 1 /\ k[n + 1] = v /\ \A i \in 1..n : k[i] = l[i]
  BY <1>1
<1>4. \A i \in 1..count : r.samples[Pos(first + i - 1)] = l[n - count + i]
  BY <1>1 DEF HoldsLog, At
<1>5. CASE count # C
  <2>0. count = n /\ count < C
    BY <1>1, <1>5
  <2>1. PICK p \in 0..(C - 1) : p = Pos(first + count) /\ (first + count < C => p = first + count) /\ (first + count >= C => p = first + count - C)
    <3>1. first + count \in Int /\ first + count >= 0 /\ first + count < C + C
      BY <1>1, <2>0
    <3> QED
      BY <3>1, PosIs
  <2>2. a = [first |-> first, count |-> count + 1, started |-> r.started, until |-> r.until,
             discarded |-> r.discarded, samples |-> [r.samples EXCEPT ![p] = v]]
    BY <1>1, <1>5, <2>1 DEF Ring!Append1, Pos
  <2>3. [r.samples EXCEPT ![p] = v] \in [0..(C - 1) -> Readings] /\ count + 1 \in 0..C
    BY <1>2, <2>0
  <2> HIDE DEF a
  <2>4. a \in Rings
    BY <1>2, <2>2, <2>3 DEF Rings
  <2>5. /\ a.first = first /\ a.count = count + 1 /\ a.started = r.started /\ a.until = r.until
        /\ a.discarded = r.discarded /\ a.samples = [r.samples EXCEPT ![p] = v]
    BY <2>2
  <2>6. ASSUME NEW i \in 1..(count + 1) PROVE At(a, i) = k[i]
    <3>1. first + i - 1 \in Int /\ first + i - 1 >= 0 /\ first + i - 1 < C + C
      BY <1>1, <2>0
    <3>2. PICK j \in 0..(C - 1) : j = Pos(first + i - 1) /\ (first + i - 1 < C => j = first + i - 1) /\ (first + i - 1 >= C => j = first + i - 1 - C)
      BY <3>1, PosIs
    <3>3. At(a, i) = [r.samples EXCEPT ![p] = v][j]
      BY <2>5, <3>2 DEF At
    <3>4. CASE i = count + 1
      <4>1. first + i - 1 = first + count
        BY <1>1, <3>4
      <4>2. j = p
        BY <2>1, <3>2, <4>1
      <4> QED
        BY <1>2, <1>3, <2>0, <3>3, <3>4, <4>2
    <3>5. CASE i # count + 1
      <4>1. i \in 1..count /\ n - count + i = i /\ i \in 1..n
        BY <1>1, <2>0, <3>5
      <4>2. j # p
        BY <1>1, <2>0, <2>1, <3>2, <4>1
      <4>3. r.samples[j] = l[i]
        BY <1>4, <3>2, <4>1
      <4> QED
        BY <1>2, <1>3, <3>3, <4>1, <4>2, <4>3
    <3> QED
      BY <3>4, <3>5
  <2>7. HoldsLog(a, k)
    <3>1. \A i \in 1..(count + 1) : (n + 1) - (count + 1) + i = i
      BY <1>1, <2>0
    <3>2. r.discarded = -1
      BY <1>1, <2>0 DEF HoldsLog
    <3> QED
      <4>1. a.count <= Len(k) /\ a.count = Len(k)
        BY <1>1, <1>3, <2>0, <2>5
      <4>2. \A i \in 1..a.count : At(a, i) = k[Len(k) - a.count + i]
        BY <1>3, <2>0, <2>5, <2>6, <3>1
      <4>3. a.discarded = -1
        BY <2>5, <3>2
      <4> HIDE DEF k
      <4> QED
        BY <4>1, <4>2, <4>3 DEF HoldsLog
  <2> QED
    BY <2>4, <2>5, <2>7 DEF a
<1>6. CASE count = C
  <2>0. n >= C /\ first + 1 \in Int /\ first + 1 >= 0 /\ first + 1 < C + C
    BY <1>1, <1>6
  <2>1. PICK next \in 0..(C - 1) : next = Pos(first + 1) /\ (first + 1 < C => next = first + 1) /\ (first + 1 >= C => next = first + 1 - C)
    BY <2>0, PosIs
  <2>2. Pos(next + (C - 1)) = first
    <3>1. next + (C - 1) \in Int /\ next + (C - 1) >= 0 /\ next + (C - 1) < C + C
      OBVIOUS
    <3>2. PICK j \in 0..(C - 1) : j = Pos(next + (C - 1)) /\ (next + (C - 1) < C => j = next + (C - 1)) /\ (next + (C - 1) >= C => j = next + (C - 1) - C)
      BY <3>1, PosIs
    <3>3. j = first
      BY <1>1, <2>1, <3>2
    <3> QED
      BY <3>2, <3>3
  <2>3. a = [first |-> next, count |-> C, started |-> r.started, until |-> r.until,
             discarded |-> r.samples[first].wall, samples |-> [r.samples EXCEPT ![first] = v]]
    <3>1. C - 1 + 1 = C
      OBVIOUS
    <3> QED
      BY <1>1, <1>6, <2>1, <2>2, <3>1 DEF Ring!Append1, Pos
  <2>4. [r.samples EXCEPT ![first] = v] \in [0..(C - 1) -> Readings] /\ r.samples[first].wall \in Int /\ C \in 0..C
    BY <1>2 DEF Readings
  <2> HIDE DEF a
  <2>5. a \in Rings
    BY <1>2, <2>3, <2>4 DEF Rings
  <2>6. /\ a.first = next /\ a.count = C /\ a.started = r.started /\ a.until = r.until
        /\ a.discarded = r.samples[first].wall /\ a.samples = [r.samples EXCEPT ![first] = v]
    BY <2>3
  <2>7. ASSUME NEW i \in 1..C PROVE At(a, i) = k[n + 1 - C + i]
    <3>1. next + i - 1 \in Int /\ next + i - 1 >= 0 /\ next + i - 1 < C + C
      OBVIOUS
    <3>2. PICK j \in 0..(C - 1) : j = Pos(next + i - 1) /\ (next + i - 1 < C => j = next + i - 1) /\ (next + i - 1 >= C => j = next + i - 1 - C)
      BY <3>1, PosIs
    <3>3. At(a, i) = [r.samples EXCEPT ![first] = v][j]
      BY <2>6, <3>2 DEF At
    <3>4. CASE i = C
      <4>1. j = first /\ n + 1 - C + i = n + 1
        BY <1>1, <2>1, <3>2, <3>4
      <4> QED
        BY <1>2, <1>3, <3>3, <4>1
    <3>5. CASE i # C
      <4>1. i + 1 \in 1..C /\ n + 1 - C + i = n - C + (i + 1) /\ n - C + (i + 1) \in 1..n
        BY <1>1, <2>0, <3>5
      <4>2. j # first
        BY <1>1, <2>1, <3>2, <3>5
      <4>3. j = Pos(first + (i + 1) - 1)
        <5>1. first + (i + 1) - 1 \in Int /\ first + (i + 1) - 1 >= 0 /\ first + (i + 1) - 1 < C + C
          BY <1>1, <4>1
        <5>2. PICK p \in 0..(C - 1) : p = Pos(first + (i + 1) - 1) /\ (first + (i + 1) - 1 < C => p = first + (i + 1) - 1) /\ (first + (i + 1) - 1 >= C => p = first + (i + 1) - 1 - C)
          BY <5>1, PosIs
        <5>3. j = p
          <6>1. CASE first + 1 < C
            BY <2>1, <3>2, <3>5, <5>2, <6>1
          <6>2. CASE ~(first + 1 < C)
            <7>1. next = 0 /\ first = C - 1
              BY <2>1, <6>2
            <7>2. j = i - 1
              BY <3>2, <7>1
            <7>3. p = i - 1
              BY <5>2, <7>1
            <7> QED
              BY <7>2, <7>3
          <6> QED
            BY <6>1, <6>2
        <5> QED
          BY <5>2, <5>3
      <4>4. r.samples[j] = l[n - C + (i + 1)]
        BY <1>4, <1>6, <4>1, <4>3
      <4> QED
        BY <1>2, <1>3, <3>3, <4>1, <4>2, <4>4
    <3> QED
      BY <3>4, <3>5
  <2>8. r.samples[first] = k[n + 1 - C]
    <3>1. 1 \in 1..count /\ first + 1 - 1 = first /\ n - count + 1 = n + 1 - C /\ n + 1 - C \in 1..n
      BY <1>1, <1>6, <2>0
    <3>2. Pos(first) = first
      <4>1. first \in Int /\ first >= 0 /\ first < C + C
        OBVIOUS
      <4>2. PICK p \in 0..(C - 1) : p = Pos(first) /\ (first < C => p = first) /\ (first >= C => p = first - C)
        BY <4>1, PosIs
      <4> QED
        BY <4>2
    <3>3. r.samples[first] = l[n - count + 1]
      BY <1>4, <3>1, <3>2
    <3> QED
      BY <1>3, <3>1, <3>3
  <2>9. HoldsLog(a, k)
    <3>1. n + 1 # C /\ C <= n + 1
      BY <2>0
    <3> QED
      <4>1. a.count <= Len(k) /\ a.count = C /\ Len(k) # a.count
        BY <1>3, <2>6, <3>1
      <4>2. \A i \in 1..a.count : At(a, i) = k[Len(k) - a.count + i]
        <5>1. Len(k) - a.count = n + 1 - C
          BY <1>3, <2>6
        <5> QED
          BY <2>6, <2>7, <5>1
      <4>3. a.discarded = k[Len(k) - a.count].wall
        <5>1. Len(k) - a.count = n + 1 - C
          BY <1>3, <2>6
        <5> QED
          BY <2>6, <2>8, <5>1
      <4> HIDE DEF k
      <4> QED
        BY <4>1, <4>2, <4>3 DEF HoldsLog
  <2> QED
    BY <2>5, <2>6, <2>9 DEF a
<1> QED
  BY <1>5, <1>6

(* A reading that is not before the end of the interval extends it.        *)
LEMMA AppendTimes ==
  ASSUME NEW r \in Rings, NEW s \in Rings, NEW l \in Seq(Readings), NEW v \in Readings, InTime(r, l),
         s.started = r.started, s.until = v.wall, r.until <= v.wall
  PROVE  InTime(s, l) /\ InTime(s, Append(l, v))
<1> DEFINE k == Append(l, v)
<1>1. r.started \in Int /\ r.until \in Int /\ v.wall \in Int /\ Len(l) \in Nat
  BY DEF Rings, Readings
<1>2. \A i \in 1..Len(l) : l[i].wall \in Int /\ r.started <= l[i].wall /\ l[i].wall <= v.wall
  <2> TAKE i \in 1..Len(l)
  <2>1. l[i] \in Readings
    OBVIOUS
  <2>2. l[i].wall \in Int
    BY <2>1 DEF Readings
  <2>3. r.started <= l[i].wall /\ l[i].wall <= r.until
    BY DEF InTime
  <2> QED
    BY <1>1, <2>2, <2>3
<1>3. s.started <= s.until /\ s.started <= v.wall
  BY <1>1 DEF InTime
<1>4. InTime(s, l)
  BY <1>2, <1>3 DEF InTime
<1>5. Len(k) = Len(l) + 1 /\ k[Len(l) + 1] = v /\ \A i \in 1..Len(l) : k[i] = l[i]
  BY <1>1
<1> HIDE DEF k
<1>6. ASSUME NEW i \in 1..Len(k) PROVE s.started <= k[i].wall /\ k[i].wall <= s.until
  <2>1. CASE i = Len(l) + 1
    BY <1>1, <1>3, <1>5, <2>1
  <2>2. CASE i # Len(l) + 1
    <3>1. i \in 1..Len(l)
      BY <1>1, <1>5, <2>2
    <3> QED
      BY <1>2, <1>5, <3>1
  <2> QED
    BY <2>1, <2>2
<1>7. ASSUME NEW i \in 1..(Len(k) - 1) PROVE k[i].wall <= k[i + 1].wall
  <2>0. i \in 1..Len(l) /\ k[i] = l[i]
    BY <1>1, <1>5
  <2>1. CASE i = Len(l)
    BY <1>2, <1>5, <2>0, <2>1
  <2>2. CASE i # Len(l)
    <3>1. i \in 1..(Len(l) - 1) /\ i + 1 \in 1..Len(l)
      BY <1>1, <2>0, <2>2
    <3>2. l[i].wall <= l[i + 1].wall
      BY <3>1 DEF InTime
    <3> QED
      BY <1>5, <2>0, <3>1, <3>2
  <2> QED
    BY <2>1, <2>2
<1>8. InTime(s, k)
  BY <1>3, <1>6, <1>7 DEF InTime
<1> QED
  BY <1>4, <1>8 DEF k

LEMMA StepTick ==
  ASSUME RingInv, NEW active \in BOOLEAN, Ring!Tick(active) PROVE RingInv'
<1> USE LevelConstants
<1>1. /\ motiond \in {"started", "ticking"} /\ motiond' = "ticking" /\ reading' = Ring!Reading
      /\ wall' = wall /\ mono' = mono /\ wall \in Int /\ mono \in Int
  BY DEF RingInv, RingTypes, Ring!Tick
<1>2. Ring!Reading \in Readings /\ Ring!Reading.wall = wall
  BY <1>1 DEF Ring!Reading, Readings
<1>3. PICK r \in Rings, l \in Seq(Readings) :
        /\ r = (IF Ring!ClockStepped THEN Ring!ResetLevels ELSE h) /\ l = (IF Ring!ClockStepped THEN << >> ELSE log)
        /\ HoldsLog(r, l) /\ InTime(r, l) /\ r.until <= wall
  <2>1. CASE Ring!ClockStepped
    <3>1. << >> \in Seq(Readings) /\ wall <= wall
      BY <1>1
    <3> QED
      BY <1>1, <2>1, <3>1, ResetRing
  <2>2. CASE ~Ring!ClockStepped
    <3>1. h.until <= wall
      <4>1. CASE motiond = "started"
        BY <4>1 DEF RingInv
      <4>2. CASE motiond = "ticking"
        <5>1. ~(wall < reading.wall) /\ reading.wall \in Int
          BY <2>2, <4>2 DEF Ring!ClockStepped, RingInv, RingTypes, Readings
        <5> QED
          BY <1>1, <4>2, <5>1 DEF RingInv
      <4> QED
        BY <1>1, <4>1, <4>2
    <3> QED
      BY <2>2, <3>1 DEF RingInv, RingTypes
  <2> QED
    BY <2>1, <2>2
<1>4. PICK b \in Rings : /\ b = [r EXCEPT !.until = wall]
                         /\ b.until = wall /\ b.started = r.started /\ HoldsLog(b, l)
  <2> DEFINE b == [r EXCEPT !.until = wall]
  <2>1. b \in Rings
    BY <1>1 DEF Rings
  <2>2. b.until = wall /\ b.started = r.started /\ b.first = r.first /\ b.count = r.count /\ b.discarded = r.discarded /\ b.samples = r.samples
    BY DEF Rings
  <2>3. b = [r EXCEPT !.until = wall]
    OBVIOUS
  <2> HIDE DEF b
  <2>4. HoldsLog(b, l)
    BY <1>3, <2>2 DEF HoldsLog, At
  <2> QED
    BY <2>1, <2>2, <2>3, <2>4
<1>5. /\ active => h' = Ring!Append1(b) /\ log' = Append(l, Ring!Reading)
      /\ ~active => h' = b /\ log' = l
  BY <1>3, <1>4 DEF Ring!Tick
<1>6. /\ Ring!Append1(b) \in Rings /\ HoldsLog(Ring!Append1(b), Append(l, Ring!Reading))
      /\ Ring!Append1(b).started = b.started /\ Ring!Append1(b).until = b.until
  BY <1>2, <1>4, AppendRing
<1>7. InTime(b, l)
  BY <1>2, <1>3, <1>4, AppendTimes
<1>8. InTime(Ring!Append1(b), Append(l, Ring!Reading))
  BY <1>2, <1>3, <1>4, <1>6, AppendTimes
<1>9. Append(l, Ring!Reading) \in Seq(Readings)
  BY <1>2
<1>10. /\ h' \in Rings /\ log' \in Seq(Readings) /\ h'.until = wall
       /\ HoldsLog(h', log') /\ InTime(h', log')
  BY <1>4, <1>5, <1>6, <1>7, <1>8, <1>9
<1>11. RingTypes'
  BY <1>1, <1>2, <1>10 DEF RingTypes
<1>12. HoldsLog(h, log)' /\ InTime(h, log)'
  BY <1>10 DEF HoldsLog, InTime, At, Pos
<1> QED
  BY <1>1, <1>2, <1>10, <1>11, <1>12 DEF RingInv

LEMMA StepRing ==
  ASSUME RingInv, Ring!Next PROVE RingInv'
<1> USE LevelConstants
<1>1. CASE Ring!Start
  <2>1. /\ motiond' = "started" /\ reading' = Ring!None /\ wall' = wall /\ mono' = mono
        /\ Ring!None \in Readings /\ wall \in Int /\ wall <= wall
    BY <1>1 DEF Ring!Start, Ring!None, Readings, RingInv, RingTypes
  <2>2. /\ h' \in Rings /\ log' \in Seq(Readings) /\ HoldsLog(h', log') /\ InTime(h', log') /\ h'.until <= wall
    <3>1. CASE Ring!Retain
      BY <1>1, <3>1 DEF Ring!Start, Ring!Retain, RingInv, RingTypes
    <3>2. CASE ~Ring!Retain
      <4>1. h' = Ring!ResetLevels /\ log' = << >>
        BY <1>1, <3>2 DEF Ring!Start
      <4>2. << >> \in Seq(Readings)
        OBVIOUS
      <4> QED
        BY <2>1, <4>1, <4>2, ResetRing
    <3> QED
      BY <3>1, <3>2
  <2>3. RingTypes'
    BY <2>1, <2>2 DEF RingInv, RingTypes
  <2>4. HoldsLog(h, log)' /\ InTime(h, log)'
    BY <2>2 DEF HoldsLog, InTime, At, Pos
  <2> QED
    BY <2>1, <2>2, <2>3, <2>4 DEF RingInv
<1>2. CASE \E active \in BOOLEAN : Ring!Tick(active)
  BY <1>2, StepTick
<1>3. CASE Ring!Die
  <2>1. wall' = wall /\ mono' = mono /\ reading' = reading /\ h' = h /\ log' = log /\ motiond' = "down"
    BY <1>3 DEF Ring!Die
  <2> QED
    BY <2>1 DEF RingInv, RingTypes, HoldsLog, InTime, At, Pos
<1>4. CASE Ring!TimePasses
  <2>1. wall' = wall + 1 /\ mono' = mono + 1 /\ reading' = reading /\ h' = h /\ log' = log /\ motiond' = motiond
    BY <1>4 DEF Ring!TimePasses
  <2>2. RingTypes' /\ HoldsLog(h, log)' /\ InTime(h, log)'
    BY <2>1 DEF RingInv, RingTypes, HoldsLog, InTime, At, Pos
  <2>3. h.until <= wall => h.until <= wall + 1
    BY DEF RingInv, RingTypes, Rings
  <2> QED
    BY <2>1, <2>2, <2>3 DEF RingInv
<1>5. CASE Ring!StepClock
  <2>1. /\ motiond \in {"down", "ticking"} /\ mono' = mono /\ reading' = reading /\ h' = h /\ log' = log /\ motiond' = motiond
        /\ wall' \in Int
    <3>1. PICK d \in Steps : wall' = wall + d \/ wall' = wall - d
      BY <1>5 DEF Ring!StepClock
    <3>2. d \in Int /\ wall \in Int
      BY RingsAssumption DEF Ring!RingAssumption, RingInv, RingTypes
    <3> QED
      BY <1>5, <3>1, <3>2 DEF Ring!StepClock
  <2>2. RingTypes' /\ HoldsLog(h, log)' /\ InTime(h, log)'
    BY <2>1 DEF RingInv, RingTypes, HoldsLog, InTime, At, Pos
  <2> QED
    BY <2>1, <2>2 DEF RingInv
<1> QED
  BY <1>1, <1>2, <1>3, <1>4, <1>5 DEF Ring!Next

LEMMA SuffixIs ==
  ASSUME NEW S, NEW s \in Seq(S), NEW a \in 1..(Len(s) + 1), NEW n \in Nat, n = Len(s)
  PROVE  /\ SubSeq(s, a, n) \in Seq(S) /\ Len(SubSeq(s, a, n)) = n - a + 1
         /\ \A i \in 1..(n - a + 1) : SubSeq(s, a, n)[i] = s[a + i - 1]
OBVIOUS

LEMMA RingSays == ASSUME RingInv PROVE LevelsTrue
<1> USE LevelConstants
<1>0. h \in Rings /\ log \in Seq(Readings) /\ HoldsLog(h, log) /\ InTime(h, log)
  BY DEF RingInv, RingTypes
<1>1. PICK n \in Nat, c \in 0..LevelCapacity : n = Len(log) /\ c = h.count /\ c <= n
  BY <1>0 DEF Rings, HoldsLog
<1>2. ASSUME NEW i \in 1..c
      PROVE  Ring!Held[i] = log[n - c + i] /\ n - c + i \in 1..n
  BY <1>0, <1>1 DEF Ring!Held, HoldsLog, At, Pos
<1>3. Ring!Held = SubSeq(log, Len(log) - h.count + 1, Len(log))
  <2> DEFINE x == SubSeq(log, n - c + 1, n)
  <2>0. x \in Seq(Readings) /\ Len(x) = c /\ \A i \in 1..c : x[i] = log[n - c + i]
    <3>1. PICK a \in 1..(Len(log) + 1) : a = n - c + 1
      BY <1>1
    <3>2. /\ SubSeq(log, a, n) \in Seq(Readings) /\ Len(SubSeq(log, a, n)) = n - a + 1
          /\ \A i \in 1..(n - a + 1) : SubSeq(log, a, n)[i] = log[a + i - 1]
      BY <1>0, <1>1, SuffixIs
    <3>3. x = SubSeq(log, a, n)
      BY <3>1
    <3>4. n - a + 1 = c /\ \A i \in 1..c : a + i - 1 = n - c + i
      BY <1>1, <3>1
    <3> HIDE DEF x
    <3> QED
      BY <3>2, <3>3, <3>4
  <2> HIDE DEF x
  <2>1. x = [i \in 1..c |-> log[n - c + i]]
    BY <2>0
  <2>2. Ring!Held = [i \in 1..c |-> log[n - c + i]]
    BY <1>1, <1>2 DEF Ring!Held
  <2> QED
    BY <1>1, <2>1, <2>2 DEF x
<1>4. Ring!HoldsTheNewest
  BY <1>0, <1>1, <1>3 DEF HoldsLog, Ring!HoldsTheNewest
<1>5. \A i \in 1..c : log[n - c + i].wall \in Int /\ h.started \in Int /\ h.until \in Int
  <2> TAKE i \in 1..c
  <2>1. n - c + i \in 1..Len(log)
    BY <1>1
  <2>2. log[n - c + i] \in Readings
    BY <1>0, <2>1
  <2> QED
    BY <1>0, <2>2 DEF Readings, Rings
<1>6. \A i \in 1..c : Ring!Held[i].wall \in h.started..h.until
  <2> TAKE i \in 1..c
  <2>1. h.started <= log[n - c + i].wall /\ log[n - c + i].wall <= h.until
    BY <1>0, <1>1, <1>2 DEF InTime
  <2> QED
    BY <1>2, <1>5, <2>1
<1>7. \A i \in 1..(c - 1) : Ring!Held[i].wall <= Ring!Held[i + 1].wall
  <2> TAKE i \in 1..(c - 1)
  <2>1. i \in 1..c /\ i + 1 \in 1..c /\ n - c + i \in 1..(n - 1) /\ n - c + (i + 1) = (n - c + i) + 1
    BY <1>1
  <2>2. log[n - c + i].wall <= log[(n - c + i) + 1].wall
    BY <1>0, <1>1, <2>1 DEF InTime
  <2> QED
    BY <1>2, <2>1, <2>2
<1>8. Ring!ClockOrdered
  BY <1>1, <1>6, <1>7 DEF Ring!ClockOrdered
<1> QED
  BY <1>4, <1>8 DEF LevelsTrue

(* motion_metadata_levels.c: whatever the capacity, and however the clock  *)
(* is stepped and motiond restarted, the ring holds the newest levels      *)
(* since its last reset, it knows the newest it has lost, and what it      *)
(* holds is in order inside the interval it claims to cover.               *)
THEOREM LevelsAreTrue == Spec => []LevelsTrue
<1>1. Init => RingInv
  BY RingInit DEF Init
<1>2. RingInv /\ [Next]_vars => RingInv'
  <2> SUFFICES ASSUME RingInv, [Next]_vars PROVE RingInv'
    OBVIOUS
  <2>1. CASE UNCHANGED ring
    BY <2>1 DEF ring, RingInv, RingTypes, HoldsLog, InTime, At, Pos
  <2>2. CASE Ring!Next
    BY <2>2, StepRing
  <2> QED
    BY <2>1, <2>2 DEF Next, vars
<1> QED
  BY <1>1, <1>2, RingSays, PTL DEF Spec

-----------------------------------------------------------------------------
(* The ring of events.  The rows of a history are its baseline and then    *)
(* its transitions, oldest first.                                          *)
Occurrences == [t : Int, state : Int]
Logs == [first : Log!Slots, count : 0..EventCapacity, events : [Log!Slots -> Occurrences],
         base : Int, state : Int, last : Int, sample : BOOLEAN]
Slot(a)   == a % EventCapacity
Row(x, i) == IF i = 0 THEN [t |-> x.base, state |-> x.state] ELSE x.events[Slot(x.first + i - 1)]

LogTypes == now \in Nat /\ collector \in BOOLEAN /\ hist \in Logs /\ signal \in [0..now -> Log!States]

(* The rows are in the order of time; ...                                  *)
InOrder(x) ==
    \A i \in 0..x.count : /\ 0 <= Row(x, i).t /\ Row(x, i).t <= now
                          /\ \A j \in i..x.count : Row(x, i).t <= Row(x, j).t

(* each changes the state of the one before it, which only at the baseline *)
(* may be unknown; ...                                                     *)
Changes(x) ==
    /\ x.last = Row(x, x.count).state
    /\ x.state \in Log!States \cup {Log!Unknown}
    /\ \A i \in 1..x.count : Row(x, i).state \in Log!States /\ Row(x, i).state # Row(x, i - 1).state

(* and each tells the detector's state until the next one, unless it is a  *)
(* stale sample.                                                           *)
Stale(x) == x.sample /\ x.state # signal[x.base]
Truth(x) ==
    \A i \in 0..x.count : \A t \in Row(x, i).t..now :
        (\A j \in (i + 1)..x.count : t < Row(x, j).t)
            => Row(x, i).state \in {Log!Unknown, signal[t]} \/ (i = 0 /\ Stale(x))

LogInv == LogTypes /\ (collector => InOrder(hist) /\ Changes(hist) /\ Truth(hist))

LEMMA EventConstants ==
  /\ EventCapacity \in Nat \ {0} /\ Log!Slots = 0..(EventCapacity - 1)
BY RingsAssumption DEF Log!EventAssumption, Log!Slots

LEMMA SlotIs ==
  ASSUME NEW a \in Int, a >= 0, a < EventCapacity + EventCapacity
  PROVE  /\ Slot(a) \in 0..(EventCapacity - 1)
         /\ a < EventCapacity => Slot(a) = a
         /\ a >= EventCapacity => Slot(a) = a - EventCapacity
<1>1. EventCapacity \in Nat \ {0} /\ a \in 0..(2 * EventCapacity - 1)
  BY EventConstants
<1>2. Slot(a) = IF a < EventCapacity THEN a ELSE a - EventCapacity
  BY <1>1, RingIndex DEF Slot
<1>3. CASE a < EventCapacity
  BY <1>1, <1>2, <1>3
<1>4. CASE ~(a < EventCapacity)
  BY <1>1, <1>2, <1>4
<1> QED
  BY <1>3, <1>4

LEMMA RowTypes ==
  ASSUME NEW x \in Logs, NEW i \in 0..x.count
  PROVE  Row(x, i) \in Occurrences /\ Row(x, i).t \in Int /\ Row(x, i).state \in Int
<1> USE EventConstants
<1>1. CASE i = 0
  BY <1>1 DEF Row, Logs, Occurrences
<1>2. CASE i # 0
  <2>1. x.first \in 0..(EventCapacity - 1) /\ x.count \in 0..EventCapacity
    BY DEF Logs
  <2>2. Slot(x.first + i - 1) \in 0..(EventCapacity - 1)
    <3>1. x.first + i - 1 \in Int /\ x.first + i - 1 >= 0 /\ x.first + i - 1 < EventCapacity + EventCapacity
      BY <1>2, <2>1
    <3> QED
      BY <3>1, SlotIs
  <2>3. x.events \in [0..(EventCapacity - 1) -> Occurrences]
    BY DEF Logs
  <2> QED
    BY <1>2, <2>2, <2>3 DEF Row, Occurrences
<1> QED
  BY <1>1, <1>2

(* A transition goes behind the last row.  When the ring is full, the      *)
(* oldest transition becomes the baseline, which is then no sample: all    *)
(* rows move by d.                                                         *)
LEMMA AddRow ==
  ASSUME NEW x \in Logs, NEW s \in Int, now \in Int
  PROVE  \E y \in Logs, d \in {0, 1} :
             /\ y = Log!HistoryAdd(x, s)
             /\ y.count = x.count + 1 - d /\ y.count >= 1 /\ y.last = s
             /\ Row(y, y.count) = [t |-> now, state |-> s]
             /\ \A i \in 0..(y.count - 1) : Row(y, i) = Row(x, i + d)
             /\ d = 1 => x.count >= 1 /\ y.sample = FALSE
             /\ d = 0 => y.sample = x.sample
<1> USE EventConstants
<1> DEFINE C == EventCapacity
           v == [t |-> now, state |-> s]
           a == Log!HistoryAdd(x, s)
<1>1. PICK first \in 0..(C - 1), count \in 0..C : first = x.first /\ count = x.count
  BY DEF Logs
<1>2. /\ x.events \in [0..(C - 1) -> Occurrences] /\ x.base \in Int /\ x.state \in Int
      /\ x.sample \in BOOLEAN /\ v \in Occurrences
  BY DEF Logs, Occurrences
<1>x. x = [first |-> first, count |-> count, events |-> x.events, base |-> x.base, state |-> x.state,
           last |-> x.last, sample |-> x.sample]
  BY <1>1 DEF Logs
<1>3. CASE count # C
  <2>1. PICK p \in 0..(C - 1) : p = Slot(first + count) /\ (first + count < C => p = first + count) /\ (first + count >= C => p = first + count - C)
    <3>1. first + count \in Int /\ first + count >= 0 /\ first + count < C + C
      BY <1>1, <1>3
    <3> QED
      BY <3>1, SlotIs
  <2> DEFINE ev == [x.events EXCEPT ![p] = v]
  <2>2. a = [x EXCEPT !.events = ev, !.count = count + 1, !.last = s]
    BY <1>1, <1>3, <2>1 DEF Log!HistoryAdd, Slot
  <2>3. ev \in [0..(C - 1) -> Occurrences] /\ count + 1 \in 0..C
    BY <1>2, <1>3
  <2> HIDE DEF a, ev
  <2>4. a \in Logs
    BY <2>2, <2>3 DEF Logs
  <2>5. /\ a.first = first /\ a.count = count + 1 /\ a.events = [x.events EXCEPT ![p] = v]
        /\ a.base = x.base /\ a.state = x.state /\ a.last = s /\ a.sample = x.sample
    <3>1. /\ a.first = x.first /\ a.count = count + 1 /\ a.events = ev
          /\ a.base = x.base /\ a.state = x.state /\ a.last = s /\ a.sample = x.sample
      BY <2>2 DEF Logs
    <3> QED
      BY <1>1, <3>1 DEF ev
  <2> HIDE DEF v
  <2>6. Row(a, count + 1) = v
    <3>1. first + (count + 1) - 1 = first + count /\ count + 1 # 0
      OBVIOUS
    <3> QED
      BY <1>2, <2>1, <2>5, <3>1 DEF Row
  <2>7. ASSUME NEW i \in 0..count PROVE Row(a, i) = Row(x, i + 0)
    <3>1. CASE i = 0
      BY <2>5, <3>1 DEF Row
    <3>2. CASE i # 0
      <4>1. first + i - 1 \in Int /\ first + i - 1 >= 0 /\ first + i - 1 < C + C
        BY <1>1, <1>3, <3>2
      <4>2. PICK j \in 0..(C - 1) : j = Slot(first + i - 1) /\ (first + i - 1 < C => j = first + i - 1) /\ (first + i - 1 >= C => j = first + i - 1 - C)
        BY <4>1, SlotIs
      <4>3. j # p
        BY <1>3, <2>1, <3>2, <4>2
      <4>4. a.events[j] = x.events[j]
        BY <1>2, <2>5, <4>3
      <4> QED
        BY <1>1, <2>5, <3>2, <4>2, <4>4 DEF Row
    <3> QED
      BY <3>1, <3>2
  <2>8. /\ a.count = x.count + 1 - 0 /\ a.count >= 1
        /\ Row(a, a.count) = v
        /\ \A i \in 0..(a.count - 1) : Row(a, i) = Row(x, i + 0)
        /\ a.sample = x.sample
    BY <1>2, <1>1, <2>5, <2>6, <2>7
  <2> QED
    BY <2>4, <2>5, <2>8 DEF a, v
<1>4. CASE count = C
  <2>1. PICK next \in 0..(C - 1) : next = Slot(first + 1) /\ (first + 1 < C => next = first + 1) /\ (first + 1 >= C => next = first + 1 - C)
    <3>1. first + 1 \in Int /\ first + 1 >= 0 /\ first + 1 < C + C
      BY <1>1, <1>4
    <3> QED
      BY <3>1, SlotIs
  <2>2. Slot(next + (C - 1)) = first
    <3>1. next + (C - 1) \in Int /\ next + (C - 1) >= 0 /\ next + (C - 1) < C + C
      OBVIOUS
    <3>2. PICK j \in 0..(C - 1) : j = Slot(next + (C - 1)) /\ (next + (C - 1) < C => j = next + (C - 1)) /\ (next + (C - 1) >= C => j = next + (C - 1) - C)
      BY <3>1, SlotIs
    <3>3. j = first
      BY <1>1, <2>1, <3>2
    <3> QED
      BY <3>2, <3>3
  <2> DEFINE dropped == Log!DropOldest(x)
  <2>3. dropped = [first |-> next, count |-> C - 1, events |-> x.events, base |-> x.events[first].t,
                   state |-> x.events[first].state, last |-> x.last, sample |-> FALSE]
    <3>1. dropped = [x EXCEPT !.base = x.events[first].t, !.state = x.events[first].state, !.sample = FALSE,
                              !.first = next, !.count = C - 1]
      BY <1>1, <1>4, <2>1 DEF Log!DropOldest, Slot
    <3> HIDE DEF dropped
    <3> QED
      BY <1>x, <3>1
  <2>4. a = [first |-> next, count |-> C, events |-> [x.events EXCEPT ![first] = v],
             base |-> x.events[first].t, state |-> x.events[first].state, last |-> s, sample |-> FALSE]
    <3> HIDE DEF dropped
    <3>1. /\ dropped.first = next /\ dropped.count = C - 1 /\ dropped.events = x.events
          /\ C - 1 + 1 = C
      BY <2>3
    <3>2. a = [dropped EXCEPT !.events = [x.events EXCEPT ![first] = v], !.count = C, !.last = s]
      BY <1>1, <1>4, <2>2, <3>1 DEF Log!HistoryAdd, Slot, dropped
    <3> QED
      BY <2>3, <3>2
  <2>5. /\ [x.events EXCEPT ![first] = v] \in [0..(C - 1) -> Occurrences] /\ C \in 0..C
        /\ x.events[first].t \in Int /\ x.events[first].state \in Int
    BY <1>2 DEF Occurrences
  <2> HIDE DEF a, dropped
  <2>6. a \in Logs
    BY <1>2, <2>4, <2>5 DEF Logs
  <2>7. /\ a.first = next /\ a.count = C /\ a.events = [x.events EXCEPT ![first] = v]
        /\ a.base = x.events[first].t /\ a.state = x.events[first].state /\ a.last = s /\ a.sample = FALSE
    BY <2>4
  <2>8. Row(a, C) = v
    <3>1. next + C - 1 = next + (C - 1) /\ C # 0
      OBVIOUS
    <3> QED
      BY <1>2, <2>2, <2>7, <3>1 DEF Row
  <2>9. x.events[first] = Row(x, 1)
    <3>1. first + 1 - 1 = first /\ first \in Int /\ first >= 0 /\ first < C + C
      OBVIOUS
    <3> QED
      BY <1>1, <3>1, SlotIs DEF Row
  <2>10. ASSUME NEW i \in 0..(C - 1) PROVE Row(a, i) = Row(x, i + 1)
    <3>1. CASE i = 0
      <4>1. Row(a, 0) = [t |-> x.events[first].t, state |-> x.events[first].state]
        BY <2>7 DEF Row
      <4>2. x.events[first] \in Occurrences
        BY <1>2
      <4>3. [t |-> x.events[first].t, state |-> x.events[first].state] = x.events[first]
        BY <4>2 DEF Occurrences
      <4> QED
        BY <2>9, <3>1, <4>1, <4>3
    <3>2. CASE i # 0
      <4>1. next + i - 1 \in Int /\ next + i - 1 >= 0 /\ next + i - 1 < C + C
        BY <3>2
      <4>2. PICK j \in 0..(C - 1) : j = Slot(next + i - 1) /\ (next + i - 1 < C => j = next + i - 1) /\ (next + i - 1 >= C => j = next + i - 1 - C)
        BY <4>1, SlotIs
      <4>3. first + (i + 1) - 1 = first + i /\ first + i \in Int /\ first + i >= 0 /\ first + i < C + C /\ i + 1 # 0
        OBVIOUS
      <4>4. PICK k \in 0..(C - 1) : k = Slot(first + i) /\ (first + i < C => k = first + i) /\ (first + i >= C => k = first + i - C)
        BY <4>3, SlotIs
      <4>5. j = k /\ j # first
        <5>1. CASE first + 1 < C
          BY <2>1, <3>2, <4>2, <4>4, <5>1
        <5>2. CASE ~(first + 1 < C)
          <6>1. next = 0 /\ first = C - 1
            BY <2>1, <5>2
          <6>2. j = i - 1 /\ k = i - 1
            BY <3>2, <4>2, <4>4, <6>1
          <6> QED
            BY <3>2, <6>1, <6>2
        <5> QED
          BY <5>1, <5>2
      <4>6. a.events[j] = x.events[j]
        BY <1>2, <2>7, <4>5
      <4> QED
        BY <1>1, <2>7, <3>2, <4>2, <4>3, <4>4, <4>5, <4>6 DEF Row
    <3> QED
      BY <3>1, <3>2
  <2>11. /\ a.count = x.count + 1 - 1 /\ a.count >= 1 /\ x.count >= 1
         /\ Row(a, a.count) = v
         /\ \A i \in 0..(a.count - 1) : Row(a, i) = Row(x, i + 1)
    BY <1>1, <1>4, <2>7, <2>8, <2>10
  <2> QED
    BY <2>6, <2>7, <2>11 DEF a
<1> QED
  BY <1>3, <1>4

LEMMA LogInit == ASSUME Log!Init PROVE LogInv
<1> USE EventConstants
<1>1. now = 0 /\ collector = FALSE /\ signal \in [0..now -> Log!States]
  BY DEF Log!Init, Log!States
<1>2. Log!Blank \in Occurrences
  BY DEF Log!Blank, Log!Unknown, Occurrences
<1>3. hist \in Logs
  <2>1. /\ 0 \in Log!Slots /\ 0 \in 0..EventCapacity /\ now \in Int /\ Log!Unknown \in Int
        /\ [i \in Log!Slots |-> Log!Blank] \in [Log!Slots -> Occurrences]
    BY <1>1, <1>2 DEF Log!Unknown
  <2> QED
    BY <2>1 DEF Log!Init, Log!Cleared, Logs
<1> QED
  BY <1>1, <1>3 DEF LogInv, LogTypes

LEMMA StartLog == ASSUME LogInv, Log!Start PROVE LogInv'
<1> USE EventConstants
<1>1. PICK s \in Log!States \cup {Log!Unknown} : hist' = [Log!Cleared EXCEPT !.state = s, !.last = s]
  BY DEF Log!Start
<1>2. now \in Nat /\ now' = now /\ signal' = signal /\ collector' = TRUE /\ signal \in [0..now -> Log!States]
  BY DEF Log!Start, LogInv, LogTypes
<1>3. s \in Log!States \cup {Log!Unknown} /\ s \in Int
  BY <1>1 DEF Log!States, Log!Unknown
<1>4. Log!Blank \in Occurrences
  BY DEF Log!Blank, Log!Unknown, Occurrences
<1>5. hist' = [first |-> 0, count |-> 0, events |-> [i \in Log!Slots |-> Log!Blank], base |-> now,
               state |-> s, last |-> s, sample |-> TRUE]
  BY <1>1 DEF Log!Cleared
<1>6. hist' \in Logs
  <2>1. /\ 0 \in Log!Slots /\ 0 \in 0..EventCapacity /\ now \in Int
        /\ [i \in Log!Slots |-> Log!Blank] \in [Log!Slots -> Occurrences]
    BY <1>2, <1>4
  <2> QED
    BY <1>3, <1>5, <2>1 DEF Logs
<1>7. /\ hist'.count = 0 /\ hist'.last = s /\ hist'.state = s /\ hist'.base = now /\ hist'.sample
      /\ Row(hist', 0) = [t |-> now, state |-> s]
  BY <1>5 DEF Row
<1>8. InOrder(hist)' /\ Changes(hist)'
  BY <1>2, <1>3, <1>7 DEF InOrder, Changes
<1>9. Truth(hist)'
  <2>1. Stale(hist)' <=> s # signal[now]
    BY <1>2, <1>7 DEF Stale
  <2>2. ASSUME NEW t \in now..now PROVE s \in {Log!Unknown, signal[t]} \/ s # signal[now]
    BY <1>2
  <2> QED
    BY <1>2, <1>7, <2>1, <2>2 DEF Truth
<1> QED
  BY <1>2, <1>6, <1>8, <1>9 DEF LogInv, LogTypes

\* A message that changes the state is a new row; one that repeats it is not.
LEMMA ObserveLog == ASSUME LogInv, NEW s \in Log!States, Log!Observe(s) PROVE LogInv'
<1> USE EventConstants
<1>1. /\ now \in Nat /\ now' = now /\ collector' = collector /\ s \in Int /\ hist \in Logs
      /\ signal \in [0..now -> Log!States] /\ signal' = [signal EXCEPT ![now] = s]
  BY DEF Log!Observe, LogInv, LogTypes, Log!States
<1>2. /\ signal' \in [0..now -> Log!States] /\ signal'[now] = s
      /\ \A t \in 0..now : t # now => signal'[t] = signal[t]
  BY <1>1
<1>3. CASE ~collector
  BY <1>1, <1>2, <1>3 DEF LogInv, LogTypes, Log!Observe
<1>4. CASE collector /\ s = hist.last
  <2>1. hist' = hist /\ InOrder(hist) /\ Changes(hist) /\ Truth(hist) /\ hist.count \in Nat
    BY <1>1, <1>4 DEF Log!Observe, LogInv, Logs
  <2>2. InOrder(hist)' /\ Changes(hist)'
    BY <1>1, <2>1 DEF InOrder, Changes
  <2>3. ASSUME NEW i \in 0..hist.count, NEW t \in Row(hist, i).t..now,
               \A j \in (i + 1)..hist.count : t < Row(hist, j).t
        PROVE  Row(hist, i).state \in {Log!Unknown, signal'[t]} \/ (i = 0 /\ Stale(hist)')
    <3>0. Row(hist, i).t \in Int /\ 0 <= Row(hist, i).t /\ t \in 0..now
      BY <1>1, <2>1, RowTypes DEF InOrder
    <3>1. CASE t # now
      <4>1. Row(hist, i).state \in {Log!Unknown, signal'[t]} \/ (i = 0 /\ Stale(hist))
        BY <1>2, <2>1, <2>3, <3>0, <3>1 DEF Truth
      <4>2. ASSUME i = 0, Stale(hist) PROVE Stale(hist)'
        <5>1. hist.base = Row(hist, i).t
          BY <4>2 DEF Row
        <5>2. hist.base \in 0..now /\ hist.base # now
          BY <1>1, <3>0, <3>1, <5>1
        <5> QED
          BY <1>2, <2>1, <4>2, <5>2 DEF Stale
      <4> QED
        BY <4>1, <4>2
    <3>2. CASE t = now /\ i = hist.count
      BY <1>2, <1>4, <2>1, <3>2 DEF Changes
    <3>3. CASE t = now /\ i # hist.count
      <4>1. hist.count \in (i + 1)..hist.count /\ hist.count \in 0..hist.count
        BY <2>1, <3>3
      <4>2. Row(hist, hist.count).t \in Int /\ Row(hist, hist.count).t <= now /\ t < Row(hist, hist.count).t
        BY <1>1, <2>1, <2>3, <4>1, RowTypes DEF InOrder
      <4> QED
        BY <1>1, <3>3, <4>2
    <3> QED
      BY <3>1, <3>2, <3>3
  <2>4. Truth(hist)'
    BY <1>1, <2>1, <2>3 DEF Truth
  <2> QED
    BY <1>1, <1>2, <2>1, <2>2, <2>4 DEF LogInv, LogTypes
<1>5. CASE collector /\ s # hist.last
  <2>0. InOrder(hist) /\ Changes(hist) /\ Truth(hist) /\ hist.count \in Nat
    BY <1>1, <1>5 DEF LogInv, Logs
  <2>1. PICK y \in Logs, d \in {0, 1} :
             /\ y = Log!HistoryAdd(hist, s)
             /\ y.count = hist.count + 1 - d /\ y.count >= 1 /\ y.last = s
             /\ Row(y, y.count) = [t |-> now, state |-> s]
             /\ \A i \in 0..(y.count - 1) : Row(y, i) = Row(hist, i + d)
             /\ d = 1 => hist.count >= 1 /\ y.sample = FALSE
             /\ d = 0 => y.sample = hist.sample
    <3>1. hist \in Logs /\ s \in Int /\ now \in Int
      BY <1>1
    <3> QED
      BY <3>1, AddRow, Zenon
  <2>2. hist' = y
    BY <1>5, <2>1 DEF Log!Observe
  <2> DEFINE n == y.count
  <2>3. n \in Nat /\ n >= 1 /\ \A i \in 0..(n - 1) : i + d \in 0..hist.count /\ Row(y, i) = Row(hist, i + d)
    BY <2>0, <2>1
  <2>4. n - 1 + d = hist.count /\ Row(y, n).t = now /\ Row(y, n).state = s
    BY <2>0, <2>1
  <2> HIDE DEF n
  <2>5. \A i \in 0..n : Row(y, i).t \in Int /\ 0 <= Row(y, i).t /\ Row(y, i).t <= now
    <3> TAKE i \in 0..n
    <3>1. CASE i = n
      BY <1>1, <2>4, <3>1
    <3>2. CASE i # n
      <4>1. i \in 0..(n - 1)
        BY <2>3, <3>2
      <4>2. i + d \in 0..hist.count /\ Row(y, i) = Row(hist, i + d)
        BY <2>3, <4>1
      <4> QED
        BY <1>1, <2>0, <4>2, RowTypes DEF InOrder
    <3> QED
      BY <3>1, <3>2
  <2>6. InOrder(y)
    <3>1. ASSUME NEW i \in 0..n, NEW j \in i..n PROVE Row(y, i).t <= Row(y, j).t
      <4>1. CASE j = n
        BY <2>4, <2>5, <4>1
      <4>2. CASE j # n
        <5>1. i \in 0..(n - 1) /\ j \in 0..(n - 1) /\ j + d \in (i + d)..hist.count
          BY <2>1, <2>3, <2>4, <4>2
        <5>2. i + d \in 0..hist.count /\ Row(y, i) = Row(hist, i + d) /\ Row(y, j) = Row(hist, j + d)
          BY <2>3, <5>1
        <5> QED
          BY <2>0, <5>1, <5>2 DEF InOrder
      <4> QED
        BY <4>1, <4>2
    <3> QED
      BY <2>5, <3>1 DEF InOrder, n
  <2>7. Changes(y)
    <3>1. y.last = Row(y, n).state
      BY <2>1, <2>4
    <3>2. y.state \in Log!States \cup {Log!Unknown}
      <4>1. Row(y, 0) = Row(hist, 0 + d) /\ d \in 0..hist.count /\ 0 + d = d
        BY <2>0, <2>1, <2>3
      <4>2. Row(y, 0).state = y.state /\ Row(hist, 0).state = hist.state
        BY DEF Row
      <4>3. CASE d = 0
        BY <2>0, <4>1, <4>2, <4>3 DEF Changes
      <4>4. CASE d = 1
        BY <2>0, <2>1, <4>1, <4>2, <4>4 DEF Changes
      <4> QED
        BY <4>3, <4>4
    <3>3. ASSUME NEW i \in 1..n PROVE Row(y, i).state \in Log!States /\ Row(y, i).state # Row(y, i - 1).state
      <4>0. i - 1 \in 0..(n - 1)
        BY <2>3
      <4>1. Row(y, i - 1) = Row(hist, i - 1 + d)
        BY <2>3, <4>0
      <4>2. CASE i = n
        <5>1. Row(y, i - 1) = Row(hist, hist.count)
          BY <2>4, <4>1, <4>2
        <5> QED
          BY <1>5, <2>0, <2>4, <4>2, <5>1 DEF Changes
      <4>3. CASE i # n
        <5>1. i \in 0..(n - 1)
          BY <2>3, <4>3
        <5>2. Row(y, i) = Row(hist, i + d) /\ i + d \in 1..hist.count /\ i + d - 1 = i - 1 + d
          BY <2>0, <2>3, <2>4, <5>1
        <5> QED
          BY <2>0, <4>1, <5>2 DEF Changes
      <4> QED
        BY <4>2, <4>3
    <3> QED
      BY <3>1, <3>2, <3>3 DEF Changes, n
  <2>8. ASSUME NEW i \in 0..n, NEW t \in Row(y, i).t..now,
               \A j \in (i + 1)..n : t < Row(y, j).t
        PROVE  Row(y, i).state \in {Log!Unknown, signal'[t]} \/ (i = 0 /\ Stale(y)')
    <3>0. t \in 0..now
      BY <1>1, <2>5
    <3>1. CASE i = n
      <4>1. t = now
        BY <1>1, <2>4, <3>1
      <4> QED
        BY <1>2, <2>4, <3>1, <4>1
    <3>2. CASE i # n
      <4>1. i \in 0..(n - 1) /\ n \in (i + 1)..n
        BY <2>3, <3>2
      <4>2. t < now
        BY <2>4, <2>8, <4>1
      <4>3. i + d \in 0..hist.count /\ Row(y, i) = Row(hist, i + d)
        BY <2>3, <4>1
      <4>4. ASSUME NEW j \in (i + d + 1)..hist.count PROVE t < Row(hist, j).t
        <5>1. j - d \in (i + 1)..n /\ j - d \in 0..(n - 1) /\ j - d + d = j
          BY <2>0, <2>1, <2>3, <2>4, <4>1
        <5>2. Row(y, j - d) = Row(hist, j)
          BY <2>3, <5>1
        <5> QED
          BY <2>8, <5>1, <5>2
      <4>5. Row(hist, i + d).state \in {Log!Unknown, signal[t]} \/ (i + d = 0 /\ Stale(hist))
        BY <2>0, <4>3, <4>4 DEF Truth
      <4>6. ASSUME i + d = 0, Stale(hist) PROVE i = 0 /\ Stale(y)'
        <5>1. i = 0 /\ d = 0 /\ Row(y, i) = Row(hist, 0)
          BY <4>3, <4>6
        <5>2. y.base = hist.base /\ y.state = hist.state /\ y.base = Row(y, i).t
          BY <5>1 DEF Row
        <5>3. y.base \in 0..now /\ y.base # now
          BY <1>1, <2>5, <4>2, <5>2
        <5> QED
          BY <1>2, <2>1, <4>6, <5>1, <5>2, <5>3 DEF Stale
      <4> QED
        BY <1>1, <1>2, <3>0, <4>2, <4>3, <4>5, <4>6
    <3> QED
      BY <3>1, <3>2
  <2>9. InOrder(hist)' /\ Changes(hist)'
    BY <1>1, <2>2, <2>6, <2>7 DEF InOrder, Changes
  <2>10. Truth(hist)'
    BY <1>1, <2>2, <2>8 DEF Truth, n
  <2> QED
    BY <1>1, <1>2, <2>2, <2>9, <2>10 DEF LogInv, LogTypes
<1> QED
  BY <1>3, <1>4, <1>5

LEMMA ClockLog == ASSUME LogInv, Log!TimePasses PROVE LogInv'
<1>1. /\ now \in Nat /\ now' = now + 1 /\ collector' = collector /\ hist' = hist /\ hist \in Logs
      /\ signal \in [0..now -> Log!States]
      /\ signal' = [t \in 0..now + 1 |-> IF t <= now THEN signal[t] ELSE signal[now]]
  BY DEF Log!TimePasses, LogInv, LogTypes
<1>2. LogTypes'
  BY <1>1 DEF LogInv, LogTypes
<1>3. CASE ~collector
  BY <1>1, <1>2, <1>3 DEF LogInv
<1>4. CASE collector
  <2>1. InOrder(hist) /\ Changes(hist) /\ Truth(hist) /\ hist.count \in Nat
    BY <1>1, <1>4 DEF LogInv, Logs
  <2>2. \A i \in 0..hist.count : Row(hist, i).t \in Int
    BY <1>1, RowTypes
  <2>3. InOrder(hist)' /\ Changes(hist)'
    BY <1>1, <2>1, <2>2 DEF InOrder, Changes
  <2>4. ASSUME NEW i \in 0..hist.count, NEW t \in Row(hist, i).t..(now + 1),
               \A j \in (i + 1)..hist.count : t < Row(hist, j).t
        PROVE  Row(hist, i).state \in {Log!Unknown, signal'[t]} \/ (i = 0 /\ Stale(hist)')
    <3>0. t \in 0..(now + 1) /\ Row(hist, i).t <= now
      BY <1>1, <2>1, <2>2 DEF InOrder
    <3>9. Stale(hist)' = Stale(hist)
      <4>1. hist.base = Row(hist, 0).t /\ 0 \in 0..hist.count
        BY <2>1 DEF Row
      <4>2. hist.base \in 0..now
        BY <1>1, <2>1, <2>2, <4>1 DEF InOrder
      <4> QED
        BY <1>1, <4>2 DEF Stale
    <3>1. CASE t <= now
      <4>1. t \in Row(hist, i).t..now /\ signal'[t] = signal[t]
        BY <1>1, <2>2, <3>0, <3>1
      <4> QED
        BY <2>1, <2>4, <3>9, <4>1 DEF Truth
    <3>2. CASE ~(t <= now)
      <4>1. t = now + 1 /\ signal'[t] = signal[now] /\ now \in Row(hist, i).t..now
        BY <1>1, <2>2, <3>0, <3>2
      <4>2. i = hist.count
        <5> SUFFICES ASSUME i # hist.count PROVE FALSE
          OBVIOUS
        <5>1. hist.count \in (i + 1)..hist.count /\ hist.count \in 0..hist.count
          BY <2>1
        <5>2. Row(hist, hist.count).t <= now /\ t < Row(hist, hist.count).t /\ Row(hist, hist.count).t \in Int
          BY <2>1, <2>2, <2>4, <5>1 DEF InOrder
        <5> QED
          BY <1>1, <4>1, <5>2
      <4>3. \A j \in (i + 1)..hist.count : now < Row(hist, j).t
        BY <2>1, <4>2
      <4> QED
        BY <2>1, <3>9, <4>1, <4>3 DEF Truth
    <3> QED
      BY <3>1, <3>2
  <2>5. Truth(hist)'
    BY <1>1, <2>4 DEF Truth
  <2> QED
    BY <1>2, <2>3, <2>5 DEF LogInv
<1> QED
  BY <1>3, <1>4

LEMMA LogStep == ASSUME LogInv, Log!Next PROVE LogInv'
<1>1. CASE Log!Kill
  BY <1>1 DEF Log!Kill, LogInv, LogTypes
<1> QED
  BY <1>1, StartLog, ObserveLog, ClockLog DEF Log!Next

(* A set of positions has a last one: the relation < on the natural        *)
(* numbers is well-founded.                                                *)
LEMMA LastOf ==
  ASSUME NEW n \in Nat, NEW T, T \subseteq 0..n, T # {}
  PROVE  Log!Max(T) \in T /\ \A y \in T : y <= Log!Max(T)
<1> DEFINE B == {n - i : i \in T}
<1>1. \A b \in B : b \in Nat
  OBVIOUS
<1>2. B # {}
  <2>1. PICK i \in T : TRUE
    OBVIOUS
  <2>2. n - i \in B
    BY <2>1
  <2> QED
    BY <2>2
<1>3. PICK m \in B : \A k \in B : <<k, m>> \notin OpToRel(<, Nat)
  <2> HIDE DEF B
  <2>1. B \subseteq Nat
    BY <1>1
  <2> QED
    BY <1>2, <2>1, NatLessThanWellFounded, WFMin, Zenon
<1>4. \A k \in B : ~ (k < m)
  BY <1>1, <1>3, Zenon DEF OpToRel
<1>5. PICK x \in T : m = n - x
  BY <1>3
<1>6. ASSUME NEW y \in T PROVE x >= y
  <2>1. n - y \in B /\ ~ (n - y < n - x)
    BY <1>4, <1>5
  <2> QED
    BY <2>1
<1>7. \E z \in T : \A y \in T : z >= y
  BY <1>6
<1>8. Log!Max(T) \in T /\ \A y \in T : Log!Max(T) >= y
  BY <1>7 DEF Log!Max
<1> QED
  BY <1>8

\* What the clip from c to e says of the moment t is what a row says of it
\* that is followed by none until then, or that nothing is known.
LEMMA ToldByARow ==
  ASSUME LogTypes, InOrder(hist), NEW c \in Int, NEW e \in Int, NEW t \in c..e
  PROVE  \/ /\ Log!StateAt(c, e, t) = Log!Unknown /\ Log!Truncated(c)
         \/ \E i \in 0..hist.count :
                /\ Row(hist, i).t <= t /\ \A j \in (i + 1)..hist.count : t < Row(hist, j).t
                /\ Log!StateAt(c, e, t) = Row(hist, i).state
<1>1. hist \in Logs /\ hist.count \in Nat /\ hist.base \in Int /\ c <= t /\ t <= e /\ t \in Int
  BY DEF LogTypes, Logs
<1>2. \A i \in 1..hist.count : Log!Nth(i) = Row(hist, i)
  BY DEF Log!Nth, Row, Slot
<1>3. \A i \in 0..hist.count : Log!Row(i) = Row(hist, i) /\ Row(hist, i).t \in Int
  BY <1>1, <1>2, RowTypes DEF Log!Row, Row
<1> DEFINE past == {i \in Log!Rows(c, e) : Log!Row(i).t <= t}
           before == {i \in 1..hist.count : Log!Nth(i).t <= c}
<1>4. past \subseteq 0..hist.count /\ before \subseteq 0..hist.count
  BY <1>1 DEF Log!Rows
<1>5. \A j \in 1..hist.count : c <= Row(hist, j).t /\ Row(hist, j).t <= t => j \in past
  BY <1>1, <1>3 DEF Log!Rows
<1>6. CASE past # {}
  <2>1. PICK m \in past : m = Log!Max(past) /\ \A j \in past : j <= m
    <3> HIDE DEF past
    <3> QED
      BY <1>1, <1>4, <1>6, LastOf
  <2>2. m \in 0..hist.count /\ c <= Row(hist, m).t /\ Row(hist, m).t <= t
    BY <1>1, <1>3, <2>1 DEF Log!Rows
  <2>3. ASSUME NEW j \in (m + 1)..hist.count PROVE t < Row(hist, j).t
    <3>1. j \in 1..hist.count /\ j \in m..hist.count /\ ~(j <= m) /\ j \in 0..hist.count
      BY <1>1, <2>2
    <3>2. Row(hist, m).t <= Row(hist, j).t /\ j \notin past
      BY <2>1, <2>2, <3>1 DEF InOrder
    <3> QED
      BY <1>1, <1>3, <1>5, <2>2, <3>1, <3>2
  <2>4. Log!StateAt(c, e, t) = Log!Row(m).state
    BY <1>6, <2>1 DEF Log!StateAt
  <2> HIDE DEF past
  <2> QED
    BY <1>3, <2>2, <2>3, <2>4
<1>7. CASE past = {}
  <2>1. Log!StateAt(c, e, t) = Log!InitialState(c)
    BY <1>7 DEF Log!StateAt
  <2>2. \A j \in 1..hist.count : c < Row(hist, j).t => t < Row(hist, j).t
    BY <1>1, <1>3, <1>5, <1>7
  <2> HIDE DEF past
  <2>3. CASE before # {}
    <3>1. PICK m \in before : m = Log!Max(before) /\ \A j \in before : j <= m
      <4> HIDE DEF before
      <4> QED
        BY <1>1, <1>4, <2>3, LastOf
    <3>2. m \in 1..hist.count /\ Row(hist, m).t <= c
      BY <1>2, <3>1
    <3>3. ASSUME NEW j \in (m + 1)..hist.count PROVE t < Row(hist, j).t
      <4>1. j \in 1..hist.count /\ ~(j <= m) /\ j \in 0..hist.count
        BY <1>1, <3>2
      <4>2. c < Row(hist, j).t
        BY <1>1, <1>2, <1>3, <3>1, <4>1
      <4> QED
        BY <2>2, <4>1, <4>2
    <3>4. Log!InitialState(c) = Row(hist, m).state
      BY <1>2, <2>3, <3>1, <3>2 DEF Log!InitialState
    <3>5. m \in 0..hist.count /\ Row(hist, m).t <= t
      BY <1>1, <1>3, <3>2
    <3> QED
      BY <2>1, <3>3, <3>4, <3>5
  <2>4. CASE before = {}
    <3>1. \A j \in 1..hist.count : t < Row(hist, j).t
      BY <1>1, <1>2, <1>3, <2>2, <2>4
    <3>2. CASE Log!Truncated(c)
      <4>1. Log!InitialState(c) = Log!Unknown
        BY <2>4, <3>2 DEF Log!InitialState
      <4> QED
        BY <2>1, <3>2, <4>1
    <3>3. CASE ~Log!Truncated(c)
      <4>1. Log!InitialState(c) = hist.state
        BY <2>4, <3>3 DEF Log!InitialState
      <4>2. hist.base <= t
        BY <1>1, <3>3 DEF Log!Truncated
      <4>3. Row(hist, 0).t <= t /\ Row(hist, 0).state = hist.state /\ 0 \in 0..hist.count /\ 0 + 1 = 1
        BY <1>1, <4>2 DEF Row
      <4> QED
        BY <2>1, <3>1, <4>1, <4>3
    <3> QED
      BY <3>2, <3>3
  <2> QED
    BY <2>3, <2>4
<1> QED
  BY <1>6, <1>7

LEMMA LogSays == ASSUME LogInv PROVE EventsTrue
<1>1. LogTypes /\ now \in Nat /\ hist \in Logs /\ hist.count \in Nat
  BY DEF LogInv, LogTypes, Logs
<1>2. CASE ~collector
  BY <1>2 DEF EventsTrue, Log!ClipTellsTheTruth, Log!ClipIsComplete, Log!Alternates
<1>3. CASE collector
  <2>0. InOrder(hist) /\ Changes(hist) /\ Truth(hist)
    BY <1>3 DEF LogInv
  <2>1. \A i \in 0..hist.count : Row(hist, i).t \in Int
    BY <1>1, RowTypes
  <2>2. Log!Unknown \notin Log!States
    BY DEF Log!Unknown, Log!States
  <2>3. ASSUME NEW c \in 0..now, NEW e \in 0..now, NEW t \in c..e
        PROVE  /\ \/ Log!StateAt(c, e, t) \in {Log!Unknown, signal[t]}
                  \/ Log!StaleSample /\ \A j \in 1..hist.count : Log!Nth(j).t > t
               /\ hist.state # Log!Unknown /\ ~Log!Truncated(c) => Log!StateAt(c, e, t) # Log!Unknown
    <3>0. c \in Int /\ e \in Int /\ t <= now /\ t \in Int
      BY <1>1
    <3>1. CASE Log!StateAt(c, e, t) = Log!Unknown /\ Log!Truncated(c)
      BY <3>1
    <3>2. CASE \E i \in 0..hist.count :
                /\ Row(hist, i).t <= t /\ \A j \in (i + 1)..hist.count : t < Row(hist, j).t
                /\ Log!StateAt(c, e, t) = Row(hist, i).state
      <4>1. PICK i \in 0..hist.count :
                /\ Row(hist, i).t <= t /\ \A j \in (i + 1)..hist.count : t < Row(hist, j).t
                /\ Log!StateAt(c, e, t) = Row(hist, i).state
        BY <3>2
      <4>2. t \in Row(hist, i).t..now
        BY <1>1, <2>1, <3>0, <4>1
      <4>3. Row(hist, i).state \in {Log!Unknown, signal[t]} \/ (i = 0 /\ Stale(hist))
        BY <2>0, <4>1, <4>2 DEF Truth
      <4>5. ASSUME i = 0, Stale(hist)
            PROVE  Log!StaleSample /\ \A j \in 1..hist.count : Log!Nth(j).t > t
        <5>1. Log!StaleSample
          BY <4>5 DEF Stale, Log!StaleSample
        <5>2. ASSUME NEW j \in 1..hist.count PROVE Log!Nth(j).t > t
          <6>1. Log!Nth(j) = Row(hist, j) /\ j \in (i + 1)..hist.count /\ j \in 0..hist.count
            BY <1>1, <4>5 DEF Log!Nth, Row, Slot
          <6> QED
            BY <2>1, <3>0, <4>1, <6>1
        <5> QED
          BY <5>1, <5>2
      <4>4. hist.state # Log!Unknown => Row(hist, i).state # Log!Unknown
        <5>1. CASE i = 0
          BY <5>1 DEF Row
        <5>2. CASE i # 0
          <6>1. i \in 1..hist.count
            BY <1>1, <5>2
          <6> QED
            BY <2>0, <2>2, <6>1 DEF Changes
        <5> QED
          BY <5>1, <5>2
      <4> QED
        BY <4>1, <4>3, <4>4, <4>5
    <3> QED
      BY <1>1, <2>0, <3>0, <3>1, <3>2, ToldByARow
  <2>4. Log!ClipTellsTheTruth /\ Log!ClipIsComplete
    BY <2>3 DEF Log!ClipTellsTheTruth, Log!ClipIsComplete, Log!Clips
  <2>5. Log!Alternates
    <3> SUFFICES ASSUME NEW i \in 1..hist.count PROVE Log!Row(i).state # Log!Row(i - 1).state
      BY DEF Log!Alternates
    <3>1. i # 0 /\ Log!Row(i) = Row(hist, i)
      BY <1>1 DEF Log!Row, Log!Nth, Row, Slot
    <3>2. Log!Row(i - 1) = Row(hist, i - 1)
      BY <1>1 DEF Log!Row, Log!Nth, Row, Slot
    <3> QED
      BY <2>0, <3>1, <3>2 DEF Changes
  <2> QED
    BY <2>4, <2>5 DEF EventsTrue
<1> QED
  BY <1>2, <1>3

(* motion_metadata_events.c and record_metadata.c: whatever the capacity   *)
(* of the ring, however many transitions it has dropped and however often  *)
(* ipc2file was restarted, a clip tells the detector's state at every      *)
(* moment that it says something about, except where a consumer that found *)
(* a stale motion_alarm took its sample from it, and there until the first *)
(* transition; and one that is not marked truncated says something about   *)
(* all of its moments, if there was a sample.                              *)
THEOREM EventsAreTrue == Spec => []EventsTrue
<1>1. Init => LogInv
  BY LogInit DEF Init
<1>2. LogInv /\ [Next]_vars => LogInv'
  <2> SUFFICES ASSUME LogInv, [Next]_vars PROVE LogInv'
    OBVIOUS
  <2>1. CASE UNCHANGED evlog
    BY <2>1 DEF evlog, LogInv, LogTypes, InOrder, Changes, Truth, Stale
  <2>2. CASE Log!Next
    BY <2>2, LogStep
  <2> QED
    BY <2>1, <2>2 DEF Next, vars
<1> QED
  BY <1>1, <1>2, LogSays, PTL DEF Spec
=============================================================================
