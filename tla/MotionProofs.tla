---------------------------- MODULE MotionProofs ----------------------------
(***************************************************************************)
(* Proofs about motiond, from the readings to the recorder.  The detection *)
(* loop (MotionDetector) is type correct, a motion ends only after a whole *)
(* quiet delay without motion in the readings in force, and no unusable    *)
(* map hides strong motion for longer than its timeouts.  The delivery     *)
(* (MotionDelivery) never repeats a START and implements RecorderSignal,   *)
(* for queues of any size and any number of faults.                        *)
(***************************************************************************)
EXTENDS MotionDetector, MotionDelivery, TLAPS

-----------------------------------------------------------------------------
(* What the helpers on times return.                                       *)
LEMMA OlderType ==
  ASSUME NEW age \in Int, NEW d \in Nat \ {0}, NEW bound \in Nat, age >= -1, age <= bound
  PROVE  Older(age, d, bound) \in 0..bound
BY DEF Older, UpTo

LEMMA LessType ==
  ASSUME NEW n \in Nat, NEW d \in Nat \ {0}
  PROVE  /\ Less(n, d) \in Nat
         /\ \A b \in Nat : n \in 0..b => Less(n, d) \in 0..b
BY DEF Less

LEMMA LimitType == Limit \in Nat \ {0} /\ Never \in Nat /\ 0 \in 0..Limit
BY BoundsAssumption DEF Limit, Never

LEMMA FaultType == faults \in 0..MaxFaults /\ Fault => faults' \in 0..MaxFaults
BY BoundsAssumption DEF Fault

LEMMA WriteStateType ==
  ASSUME NEW v \in {"0", "1"}, file \in {"0", "1"}, unwritten \in {"yes", "no"},
         faults \in 0..MaxFaults, WriteState(v)
  PROVE  file' \in {"0", "1"} /\ unwritten' \in {"yes", "no"} /\ faults' \in 0..MaxFaults
BY FaultType DEF WriteState

LEMMA ObservationType ==
  ASSUME TypeOK PROVE Observation \in Readings \cup {"none", "skip"}
BY DEF TypeOK, Observation

(* What the decision leaves of the detector.                               *)
LEMMA MotionUpdateType ==
  ASSUME TypeOK, NEW o \in Readings \cup {"none"}, MotionUpdate(o)
  PROVE  /\ active' \in {"0", "1"} /\ positives' \in 0..Confirm /\ quiet' \in -1..Quiet
         /\ active' = "0" => positives' < Confirm
<1>1. active \in {"0", "1"} /\ positives \in 0..Confirm /\ quiet \in -1..Quiet
      /\ (active = "0" => positives < Confirm) /\ Confirm \in Nat \ {0} /\ Quiet \in Nat \ {0}
  BY BoundsAssumption DEF TypeOK
<1>2. CASE o = "none" /\ Missing
  BY <1>1, <1>2 DEF Missing
<1>3. CASE active = "0" /\ IdleUpdate(o)
  BY <1>1, <1>3 DEF IdleUpdate
<1>4. CASE active = "1" /\ ActiveUpdate(o)
  BY <1>1, <1>4 DEF ActiveUpdate
<1> QED
  BY <1>2, <1>3, <1>4 DEF MotionUpdate

(* What a read of the map leaves of the mask.                              *)
LEMMA MaskType ==
  ASSUME TypeOK, MaskRead
  PROVE  /\ shared' \in {"open", "none"} /\ mapRetry' \in 0..Second
         /\ seen' \in {"fresh", "key", "same", "unavailable"} /\ frameRead' \in {"yes", "no"}
         /\ score' \in Readings \cup {"none"} /\ scoreAge' \in 0..(Stale + 1)
         /\ predAge' \in 0..Never
<1>1. /\ frame \in Readings \cup {"key"} /\ mapAge \in -1..(Stale + 1)
      /\ mapRetry \in 0..Second /\ frameRead \in {"yes", "no"}
      /\ score \in Readings \cup {"none"} /\ scoreAge \in 0..(Stale + 1)
      /\ predAge \in 0..Never /\ Second \in Nat /\ Stale \in Nat /\ Never \in Nat
  BY BoundsAssumption, LimitType DEF TypeOK
<1>2. KeepLast \in {"same", "unavailable"} /\ Predicted \in 0..Never /\ Scored \in Readings
  BY <1>1 DEF KeepLast, Predicted, Scored, Readings
<1>3. shared' \in {"open", "none"} /\ mapRetry' \in 0..Second
  BY <1>1 DEF MaskRead
<1>4. CASE /\ seen' = KeepLast
           /\ UNCHANGED <<frameRead, score, scoreAge, predAge>>
  BY <1>1, <1>2, <1>3, <1>4
<1>5. CASE /\ Usable(mapAge) /\ predAge' = Predicted /\ seen' = "unavailable"
           /\ UNCHANGED <<frameRead, score, scoreAge>>
  BY <1>1, <1>2, <1>3, <1>5
<1>6. CASE /\ Usable(mapAge) /\ predAge' = Predicted /\ score' = Scored
           /\ seen' = IF frameRead = "yes" THEN "same" ELSE IF frame = "key" THEN "key" ELSE "fresh"
           /\ scoreAge' = mapAge /\ frameRead' = "yes"
  BY <1>1, <1>2, <1>3, <1>6 DEF Usable
<1> QED
  BY <1>4, <1>5, <1>6 DEF MaskRead

(* The history of one decision.                                            *)
LEMMA WatchedType ==
  ASSUME TypeOK, Watched
  PROVE  calm' \in 0..Quiet /\ grounds' \in {"usable", "none"} /\ blind' \in 0..Limit
<1>1. calm \in 0..Quiet /\ grounds \in {"usable", "none"} /\ blind \in 0..Limit /\ Quiet \in Nat
  BY BoundsAssumption DEF TypeOK
<1>2. UpTo(blind + 1, Limit) \in 0..Limit
  BY <1>1, LimitType DEF UpTo
<1> QED
  BY <1>1, <1>2, LimitType DEF Watched

(* Time passes.                                                            *)
LEMMA SleepType == TypeOK /\ Sleep => TypeOK'
<1> SUFFICES ASSUME TypeOK, Sleep PROVE TypeOK'
    OBVIOUS
<1>1. PICK d \in 1..MaxGap :
       /\ veRetry' = Less(veRetry, d) /\ mapRetry' = Less(mapRetry, d)
       /\ telemetry' = Less(telemetry, d)
       /\ mapAge' = Older(mapAge, d, Stale + 1) /\ scoreAge' = Older(scoreAge, d, Stale + 1)
       /\ predAge' = IF predAge = Never THEN Never ELSE Older(predAge, d, AllKey + 1)
       /\ upAge' = Older(upAge, d, Grace)
       /\ quiet' = IF quiet = -1 THEN -1 ELSE Older(quiet, d, Quiet)
       /\ calm' = Older(calm, d, Quiet)
  BY DEF Sleep
<1>2. d \in Nat \ {0} /\ Stale \in Nat /\ AllKey \in Nat /\ Grace \in Nat /\ Quiet \in Nat
      /\ Second \in Nat /\ Stale + 1 \in Nat /\ AllKey + 1 \in Nat
  BY BoundsAssumption
<1>3. veRetry' \in Nat /\ mapRetry' \in 0..Second /\ telemetry' \in 0..Second
  BY <1>1, <1>2, LessType DEF TypeOK
<1>4. mapAge' \in -1..(Stale + 1)
  <2>1. mapAge \in Int /\ mapAge >= -1 /\ mapAge <= Stale + 1
    BY <1>2 DEF TypeOK
  <2> QED
    BY <1>1, <1>2, <2>1, OlderType
<1>5. scoreAge' \in 0..(Stale + 1)
  <2>1. scoreAge \in Int /\ scoreAge >= -1 /\ scoreAge <= Stale + 1
    BY <1>2 DEF TypeOK
  <2> QED
    BY <1>1, <1>2, <2>1, OlderType
<1>6. predAge' \in 0..Never
  <2>1. CASE predAge = Never
    BY <1>1, <2>1, LimitType
  <2>2. CASE predAge # Never
    <3>1. predAge \in Int /\ predAge >= -1 /\ predAge <= AllKey + 1
      BY <1>2, <2>2 DEF TypeOK, Never
    <3>2. Older(predAge, d, AllKey + 1) \in 0..(AllKey + 1)
      BY <1>2, <3>1, OlderType
    <3> QED
      BY <1>1, <1>2, <2>2, <3>2 DEF Never
  <2> QED
    BY <2>1, <2>2
<1>7. upAge' \in 0..Grace
  <2>1. upAge \in Int /\ upAge >= -1 /\ upAge <= Grace
    BY <1>2 DEF TypeOK
  <2> QED
    BY <1>1, <1>2, <2>1, OlderType
<1>8. quiet' \in -1..Quiet /\ calm' \in 0..Quiet
  <2>1. quiet \in Int /\ quiet >= -1 /\ quiet <= Quiet /\ calm \in Int /\ calm >= -1 /\ calm <= Quiet
    BY <1>2 DEF TypeOK
  <2>2. Older(quiet, d, Quiet) \in 0..Quiet /\ Older(calm, d, Quiet) \in 0..Quiet
    BY <1>2, <2>1, OlderType
  <2> QED
    BY <1>1, <1>2, <2>2
<1> QED
  BY <1>3, <1>4, <1>5, <1>6, <1>7, <1>8 DEF TypeOK, Sleep

LEMMA TypeStep == TypeOK /\ [Next]_vars => TypeOK'
<1> SUFFICES ASSUME TypeOK, [Next]_vars PROVE TypeOK'
    OBVIOUS
<1> USE DEF encoder, mask, detector, state, history
<1>1. CASE PublishBegin
  BY <1>1 DEF PublishBegin, TypeOK
<1>2. CASE PublishEnd
  <2>1. mapAge' \in -1..(Stale + 1)
    BY <1>2, BoundsAssumption DEF PublishEnd
  <2> QED
    BY <1>2, <2>1 DEF PublishEnd, TypeOK
<1>3. CASE RmmExit
  BY <1>3, FaultType DEF RmmExit, TypeOK
<1>4. CASE RmmStart
  BY <1>4 DEF RmmStart, TypeOK
<1>5. CASE ReadStats
  <2>1. veRetry' \in Nat /\ ve' \in Readings \cup {"none"}
    BY <1>5, BoundsAssumption DEF ReadStats, TypeOK
  <2> QED
    BY <1>5, <2>1 DEF ReadStats, TypeOK
<1>6. CASE MaskClosed
  <2>1. mapRetry' \in 0..Second
    BY <1>6, BoundsAssumption DEF MaskClosed, TypeOK
  <2> QED
    BY <1>6, <2>1 DEF MaskClosed, TypeOK
<1>7. CASE MaskRead
  <2>1. /\ at' = "update" /\ asked' = "yes"
        /\ UNCHANGED <<ve, veRetry, encoder, upAge, detector, state, faults, history>>
    BY <1>7 DEF MaskRead
  <2> QED
    BY <1>7, <2>1, MaskType DEF TypeOK
<1>8. CASE Update
  <2>1. /\ at' = "publish"
        /\ UNCHANGED <<ve, veRetry, encoder, asked, mask, seen, telemetry>>
    BY <1>8 DEF Update
  <2>2. calm' \in 0..Quiet /\ grounds' \in {"usable", "none"} /\ blind' \in 0..Limit
    BY <1>8, WatchedType DEF Update
  <2>3. /\ active' \in {"0", "1"} /\ positives' \in 0..Confirm /\ quiet' \in -1..Quiet
        /\ active' = "0" => positives' < Confirm
    <3>1. CASE Observation = "skip"
      BY <1>8, <3>1 DEF Update, TypeOK
    <3>2. CASE Observation # "skip"
      BY <1>8, <3>2, ObservationType, MotionUpdateType DEF Update
    <3> QED
      BY <3>1, <3>2
  <2>4. file' \in {"0", "1"} /\ unwritten' \in {"yes", "no"} /\ faults' \in 0..MaxFaults
    <3>1. CASE active' # active
      <4>1. WriteState(active')
        BY <1>8, <3>1 DEF Update
      <4> QED
        BY <2>3, <4>1, WriteStateType DEF TypeOK
    <3>2. CASE active' = active
      BY <1>8, <3>2 DEF Update, TypeOK
    <3> QED
      BY <3>1, <3>2
  <2> QED
    BY <2>1, <2>2, <2>3, <2>4 DEF TypeOK
<1>9. CASE Telemetry
  <2>1. telemetry' \in 0..Second
    BY <1>9, BoundsAssumption DEF Telemetry, TypeOK
  <2>2. file' \in {"0", "1"} /\ unwritten' \in {"yes", "no"} /\ faults' \in 0..MaxFaults
    BY <1>9, WriteStateType DEF Telemetry, TypeOK
  <2> QED
    BY <1>9, <2>1, <2>2 DEF Telemetry, TypeOK
<1>10. CASE Sleep
  BY <1>10, SleepType
<1>11. CASE Exit \/ Kill
  <2>1. Gone /\ file' \in {"0", "1"} /\ asked' \in {"yes", "no"} /\ faults' \in 0..MaxFaults
    BY <1>11, FaultType DEF Exit, Kill, TypeOK
  <2> QED
    BY <2>1, BoundsAssumption, LimitType DEF Gone, TypeOK
<1>12. CASE Restart
  <2>1. file' \in {"0", "1"} /\ unwritten' \in {"yes", "no"} /\ faults' \in 0..MaxFaults
    BY <1>12, WriteStateType DEF Restart, TypeOK
  <2> QED
    BY <1>12, <2>1 DEF Restart, TypeOK
<1>13. CASE UNCHANGED vars
  BY <1>13 DEF vars, TypeOK
<1> QED
  BY <1>1, <1>2, <1>3, <1>4, <1>5, <1>6, <1>7, <1>8, <1>9, <1>10, <1>11, <1>12, <1>13
     DEF Next, Pass, Encoder

LEMMA TypeInit == Init => TypeOK
BY BoundsAssumption, LimitType DEF Init, Fresh, TypeOK, Readings

(* Every reachable state of the detection loop is well formed, for every   *)
(* threshold, delay and number of faults.                                  *)
THEOREM TypeCorrect == Spec => []TypeOK
BY TypeInit, TypeStep, PTL DEF Spec

-----------------------------------------------------------------------------
(* Actions that leave what QuietInv speaks of alone.                       *)
quietVars == <<quiet, calm, active, shared, frameRead, score, scoreAge, mapAge, frame, predAge>>

LEMMA QuietKept ==
  ASSUME QuietInv, UNCHANGED quietVars, at # "update", at' # "update"
  PROVE  QuietInv'
BY DEF QuietInv, quietVars, Loud, Scored

LEMMA QuietKeptAt ==
  ASSUME QuietInv, UNCHANGED quietVars, UNCHANGED <<at, seen>>
  PROVE  QuietInv'
BY DEF QuietInv, quietVars, Loud, Scored

(* A read of the map leaves the quiet period for the decision to judge.    *)
LEMMA QuietMaskRead == TypeOK /\ QuietInv /\ MaskRead => QuietInv'
<1> SUFFICES ASSUME TypeOK, QuietInv, MaskRead PROVE QuietInv'
    OBVIOUS
<1>1. /\ scoreAge \in Nat /\ mapAge \in Int /\ predAge \in Nat /\ Stale \in Nat /\ AllKey \in Nat
      /\ Stale <= AllKey
  BY BoundsAssumption, LimitType DEF TypeOK
<1>2. /\ at = "mask" /\ at' = "update" /\ shared' = "open"
      /\ UNCHANGED <<quiet, calm, active, mapAge, frame>>
  BY DEF MaskRead, encoder, detector, history
<1>3. CASE /\ seen' = KeepLast
           /\ UNCHANGED <<frameRead, score, scoreAge, predAge>>
  <2>1. Loud' => Loud
    BY <1>3 DEF Loud
  <2>2. Loud => seen' = "same" /\ quiet = -1 /\ predAge <= scoreAge
    BY <1>1, <1>2, <1>3 DEF Loud, KeepLast, Usable, QuietInv
  <2>3. seen' = "same" => score' # "none" /\ scoreAge' <= Stale
    BY <1>3 DEF KeepLast, Usable
  <2> QED
    BY <1>2, <1>3, <2>1, <2>2, <2>3 DEF QuietInv, Scored
<1>4. CASE /\ Predicted > AllKey /\ predAge' = Predicted /\ seen' = "unavailable"
           /\ UNCHANGED <<frameRead, score, scoreAge>>
  <2>1. predAge > AllKey
    BY <1>1, <1>4 DEF Predicted
  <2>2. ~Loud
    BY <1>1, <2>1 DEF Loud, QuietInv
  <2>3. ~Loud'
    BY <1>4, <2>2 DEF Loud
  <2> QED
    BY <1>2, <1>4, <2>3 DEF QuietInv, Scored
<1>5. CASE /\ Usable(mapAge) /\ predAge' = Predicted /\ score' = Scored
           /\ seen' = IF frameRead = "yes" THEN "same" ELSE IF frame = "key" THEN "key" ELSE "fresh"
           /\ scoreAge' = mapAge /\ frameRead' = "yes"
  <2>1. Loud' => frame # "key" /\ predAge' = 0 /\ predAge' <= scoreAge'
    BY <1>1, <1>5 DEF Loud, Scored, Predicted, Usable
  <2>2. Loud' => seen' = "fresh" \/ (seen' = "same" /\ quiet = -1)
    <3>1. CASE frameRead = "yes"
      <4>1. score = Scored /\ scoreAge = mapAge
        BY <3>1 DEF QuietInv
      <4>2. Loud' => Loud
        BY <1>5, <4>1 DEF Loud
      <4> QED
        BY <1>2, <1>5, <3>1, <4>2 DEF QuietInv
    <3>2. CASE frameRead # "yes"
      BY <1>5, <2>1, <3>2
    <3> QED
      BY <3>1, <3>2
  <2>3. score' = Scored'
    BY <1>2, <1>5 DEF Scored
  <2>4. score' # "none" /\ scoreAge' <= Stale
    BY <1>5 DEF Usable, Scored, TypeOK, Readings
  <2> QED
    BY <1>2, <1>5, <2>1, <2>2, <2>3, <2>4 DEF QuietInv
<1> QED
  BY <1>3, <1>4, <1>5 DEF MaskRead

(* The decision.                                                           *)
LEMMA QuietUpdate ==
  ASSUME TypeOK, QuietInv, Update
  PROVE  QuietInv' /\ (active = "1" /\ active' = "0" => calm' = Quiet)
<1>1. /\ quiet \in -1..Quiet /\ calm \in 0..Quiet /\ Quiet \in Nat \ {0} /\ active \in {"0", "1"}
      /\ seen \in {"fresh", "key", "same", "unavailable"}
  BY BoundsAssumption DEF TypeOK
<1>2. /\ at = "update" /\ at' = "publish"
      /\ UNCHANGED <<shared, frameRead, score, scoreAge, mapAge, frame, predAge, seen>>
  BY DEF Update, mask, encoder
<1>3. calm' = IF InForce = "quiet" THEN calm ELSE 0
  BY DEF Update, Watched
<1>4. Loud' <=> Loud
  BY <1>2 DEF Loud
<1>5. /\ quiet' <= calm' /\ (active' = "0" => quiet' = -1) /\ (Loud => quiet' = -1)
      /\ (active = "1" /\ active' = "0" => calm' = Quiet)
  <2>1. CASE Observation = "skip"
    <3>1. seen = "same" /\ InForce = score
      <4>1. score # "skip" /\ ve # "skip"
        BY DEF TypeOK, Readings
      <4> QED
        BY <2>1, <4>1 DEF Observation, InForce
    <3>2. active' = active /\ quiet' = quiet
      BY <2>1 DEF Update, detector
    <3>3. Loud => quiet = -1
      BY <1>2, <3>1 DEF QuietInv
    <3>4. quiet # -1 => score = "quiet"
      <4>1. score # "none" /\ scoreAge <= Stale
        BY <1>2, <3>1 DEF QuietInv
      <4> QED
        BY <3>3, <4>1 DEF Loud, TypeOK, Readings
    <3> QED
      BY <1>1, <1>3, <3>1, <3>2, <3>3, <3>4 DEF QuietInv
  <2>2. CASE Observation # "skip"
    <3> DEFINE o == Observation
    <3>1. o \in Readings \cup {"none"} /\ MotionUpdate(o)
      BY <2>2, ObservationType DEF Update
    <3>2. seen # "same" /\ InForce = o
      BY <2>2 DEF Observation, InForce
    <3>3. Loud => o # "quiet"
      <4>1. Loud => seen = "fresh"
        BY <1>2, <3>2 DEF QuietInv
      <4>2. seen = "fresh" => o \in {"none", score}
        BY DEF Observation
      <4> QED
        BY <4>1, <4>2 DEF Loud
    <3> HIDE DEF o
    <3>4. CASE o = "none" /\ Missing
      BY <1>1, <1>3, <3>2, <3>4 DEF Missing
    <3>5. CASE active = "0" /\ IdleUpdate(o)
      <4>1. quiet = -1
        BY <3>5 DEF QuietInv
      <4>2. quiet' = -1 /\ active = "0"
        BY <3>5, <4>1 DEF IdleUpdate
      <4> QED
        BY <1>1, <1>3, <4>2
    <3>6. CASE active = "1" /\ ActiveUpdate(o)
      <4>1. CASE o # "quiet"
        BY <1>1, <1>3, <3>2, <3>6, <4>1 DEF ActiveUpdate
      <4>2. CASE o = "quiet"
        <5>1. calm' = calm /\ quiet <= calm /\ ~Loud
          BY <1>3, <3>2, <3>3, <4>2 DEF QuietInv
        <5> QED
          BY <1>1, <3>6, <4>2, <5>1 DEF ActiveUpdate
      <4> QED
        BY <4>1, <4>2
    <3> QED
      BY <3>1, <3>4, <3>5, <3>6 DEF MotionUpdate
  <2> QED
    BY <2>1, <2>2
<1> QED
  BY <1>2, <1>4, <1>5 DEF QuietInv, Scored

(* Time passes for the quiet period and for the calm alike.                *)
LEMMA OlderMonotone ==
  ASSUME NEW a \in Int, NEW b \in Int, NEW d \in Nat, NEW bound \in Nat, a <= b
  PROVE  Older(a, d, bound) <= Older(b, d, bound)
BY DEF Older, UpTo

LEMMA QuietSleep == TypeOK /\ QuietInv /\ Sleep => QuietInv'
<1> SUFFICES ASSUME TypeOK, QuietInv, Sleep PROVE QuietInv'
    OBVIOUS
<1>1. PICK d \in 1..MaxGap :
       /\ mapAge' = Older(mapAge, d, Stale + 1) /\ scoreAge' = Older(scoreAge, d, Stale + 1)
       /\ predAge' = IF predAge = Never THEN Never ELSE Older(predAge, d, AllKey + 1)
       /\ quiet' = IF quiet = -1 THEN -1 ELSE Older(quiet, d, Quiet)
       /\ calm' = Older(calm, d, Quiet)
  BY DEF Sleep
<1>2. /\ at = "sleep" /\ at' = "sample"
      /\ UNCHANGED <<frame, shared, frameRead, score, active>>
  BY DEF Sleep
<1>3. /\ d \in Nat \ {0} /\ quiet \in -1..Quiet /\ calm \in 0..Quiet /\ Quiet \in Nat
      /\ scoreAge \in 0..(Stale + 1) /\ predAge \in 0..Never /\ Stale \in Nat /\ AllKey \in Nat
      /\ Stale <= AllKey
  BY BoundsAssumption DEF TypeOK
<1>4. quiet' <= calm'
  <2>1. Older(quiet, d, Quiet) <= Older(calm, d, Quiet) /\ Older(calm, d, Quiet) \in 0..Quiet
    <3>1. quiet <= calm /\ quiet \in Int /\ calm \in Int /\ calm >= -1 /\ calm <= Quiet
      BY <1>3 DEF QuietInv
    <3> QED
      BY <1>3, <3>1, OlderMonotone, OlderType
  <2> QED
    BY <1>1, <2>1
<1>5. Loud' => Loud
  BY <1>1, <1>2, <1>3 DEF Loud, Older, UpTo
<1>6. Loud' => predAge' <= scoreAge'
  <2> SUFFICES ASSUME Loud' PROVE predAge' <= scoreAge'
      OBVIOUS
  <2>1. scoreAge' = scoreAge + d /\ scoreAge + d <= Stale
    BY <1>1, <1>3 DEF Loud, Older, UpTo
  <2>2. predAge <= scoreAge
    BY <1>5 DEF QuietInv
  <2>3. predAge # Never /\ predAge + d <= AllKey
    BY <1>3, <2>1, <2>2 DEF Never
  <2>4. predAge' = predAge + d
    BY <1>1, <1>3, <2>3 DEF Older, UpTo
  <2> QED
    BY <1>3, <2>1, <2>2, <2>4
<1>7. Loud' => quiet' = -1
  BY <1>1, <1>2, <1>5 DEF QuietInv
<1>8. frameRead' = "yes" => score' = Scored' /\ scoreAge' = mapAge'
  BY <1>1, <1>2 DEF QuietInv, Scored
<1> QED
  BY <1>1, <1>2, <1>4, <1>6, <1>7, <1>8 DEF QuietInv

(* A new frame in the map has not been read.                               *)
LEMMA QuietPublish == QuietInv /\ PublishEnd => QuietInv'
BY DEF QuietInv, PublishEnd, Loud, detector, history

LEMMA QuietGone == Gone => QuietInv'
BY DEF Gone, QuietInv, Loud

LEMMA QuietStep ==
  ASSUME TypeOK, QuietInv, [Next]_vars
  PROVE  QuietInv' /\ (active = "1" /\ active' = "0" => calm' = Quiet \/ at' = "down")
<1> USE DEF encoder, mask, detector, history
<1>1. CASE PublishBegin \/ RmmExit \/ RmmStart \/ UNCHANGED vars
  <2>1. UNCHANGED quietVars /\ UNCHANGED <<at, seen>>
    BY <1>1 DEF PublishBegin, RmmExit, RmmStart, vars, quietVars
  <2> QED
    BY <2>1, QuietKeptAt DEF quietVars
<1>2. CASE PublishEnd
  BY <1>2, QuietPublish DEF PublishEnd
<1>3. CASE ReadStats \/ Telemetry \/ Restart
  <2>1. UNCHANGED quietVars /\ at # "update" /\ at' # "update"
    BY <1>3 DEF ReadStats, Telemetry, Restart, quietVars
  <2> QED
    BY <2>1, QuietKept DEF quietVars
<1>4. CASE MaskClosed
  <2>1. score = "none"
    BY <1>4 DEF MaskClosed, QuietInv
  <2> QED
    BY <1>4, <2>1 DEF MaskClosed, QuietInv, Loud, Scored
<1>5. CASE MaskRead
  BY <1>5, QuietMaskRead DEF MaskRead
<1>6. CASE Update
  BY <1>6, QuietUpdate
<1>7. CASE Sleep
  BY <1>7, QuietSleep DEF Sleep
<1>8. CASE Exit \/ Kill
  BY <1>8, QuietGone DEF Exit, Kill, Gone
<1> QED
  BY <1>1, <1>2, <1>3, <1>4, <1>5, <1>6, <1>7, <1>8 DEF Next, Pass, Encoder

LEMMA QuietInit == Init => QuietInv
BY DEF Init, Fresh, QuietInv, Loud

(* The inductive invariant of the quiet period.                            *)
THEOREM QuietPeriod == Spec => [](TypeOK /\ QuietInv)
<1>1. TypeOK /\ QuietInv /\ [Next]_vars => (TypeOK /\ QuietInv)'
  BY TypeStep, QuietStep
<1> QED
  BY <1>1, TypeInit, QuietInit, PTL DEF Spec

(* A motion ends only after a whole quiet delay in which every reading in  *)
(* force was quiet, for every threshold, delay and timeout and whatever    *)
(* the encoder publishes: motion_update and motion_mask_read together.     *)
THEOREM StopsAreQuiet == Spec => QuietBeforeStop
<1>1. TypeOK /\ QuietInv /\ [Next]_vars
      => [active = "1" /\ active' = "0" => calm' = Quiet \/ at' = "down"]_vars
  BY QuietStep
<1> QED
  BY <1>1, QuietPeriod, PTL DEF Spec, QuietBeforeStop

-----------------------------------------------------------------------------
(* How long the map can hide motion.  Left is a bound on the idle passes   *)
(* still possible, with strong whole-frame motion and without a new        *)
(* predicted frame, when the next pass sees every age grown by n:          *)
(* before the first map, the rest of the grace period, the votes of the    *)
(* whole frame and then a first key frame; while a predicted frame that    *)
(* was read is in the map, its rest until it is stale and then the time    *)
(* for which key frames are believed; after it, the rest of that time;     *)
(* and last, the rest of the last score's time and the votes still         *)
(* missing.                                                                *)
Late == IF at \in {"publish", "sleep"} THEN 1 ELSE 0

Held(n) == frame # "key" /\ frameRead = "yes" /\ mapAge + n <= Stale

Left(n) ==
  IF score = "none"
  THEN (Grace - UpTo(upAge + n, Grace)) + (Confirm - positives) + AllKey + Stale + Confirm
  ELSE IF Held(n) THEN (Stale + 1 - (mapAge + n)) + AllKey + Stale + Confirm
  ELSE IF predAge + n <= AllKey THEN (AllKey + 1 - (predAge + n)) + Stale + Confirm
  ELSE (Stale + 1 - UpTo(scoreAge + n, Stale + 1)) + (Confirm - positives)

BlindInv ==
  /\ active = "1" => blind = 0
  /\ (score = "none") <=> (predAge = Never)
  /\ at = "update" /\ seen = "key" => predAge <= AllKey
  /\ at = "update" /\ seen \in {"key", "fresh"} => score # "none"
  /\ score = "none" /\ upAge < Grace => positives = 0
  /\ (at = "update" /\ seen = "fresh") \/ blind + Left(Late) <= Limit
  /\ blind < Limit

LEMMA LimitCovers ==
  /\ AllKey + Stale + Confirm + Stale <= Limit
  /\ AllKey + Stale + Confirm + Grace + Confirm <= Limit
BY BoundsAssumption DEF Limit

(* The numbers that the bound is about.                                    *)
LEMMA BlindTypes ==
  ASSUME TypeOK
  PROVE  /\ Confirm \in Nat \ {0} /\ Stale \in Nat \ {0} /\ AllKey \in Nat \ {0}
         /\ Grace \in Nat \ {0} /\ Limit \in Nat \ {0} /\ Never = AllKey + 2
         /\ mapAge \in -1..(Stale + 1) /\ scoreAge \in 0..(Stale + 1)
         /\ predAge \in 0..Never /\ upAge \in 0..Grace /\ positives \in 0..Confirm
         /\ blind \in 0..Limit
BY BoundsAssumption, LimitType DEF TypeOK, Never

LEMMA UpToType ==
  ASSUME NEW n \in Int, NEW bound \in Int PROVE UpTo(n, bound) \in Int /\ UpTo(n, bound) <= bound
<1>1. CASE n > bound
  BY <1>1 DEF UpTo
<1>2. CASE ~(n > bound)
  BY <1>2 DEF UpTo
<1> QED
  BY <1>1, <1>2

LEMMA LeftType == TypeOK => Left(Late) \in Int
<1> SUFFICES ASSUME TypeOK PROVE Left(Late) \in Int
    OBVIOUS
<1>1. /\ mapAge \in Int /\ scoreAge \in Int /\ predAge \in Int /\ upAge \in Int
      /\ positives \in Int /\ Stale \in Int /\ AllKey \in Int /\ Grace \in Int /\ Confirm \in Int
  BY BoundsAssumption, LimitType DEF TypeOK
<1>2. Late \in Int
  BY DEF Late
<1>3. UpTo(upAge + Late, Grace) \in Int /\ UpTo(scoreAge + Late, Stale + 1) \in Int
  <2>1. upAge + Late \in Int /\ scoreAge + Late \in Int /\ Stale + 1 \in Int
    BY <1>1, <1>2
  <2> QED
    BY <1>1, <2>1, UpToType
<1>4. CASE score = "none"
  BY <1>1, <1>2, <1>3, <1>4 DEF Left
<1>5. CASE score # "none" /\ Held(Late)
  BY <1>1, <1>2, <1>5 DEF Left
<1>6. CASE score # "none" /\ ~Held(Late) /\ predAge + Late <= AllKey
  BY <1>1, <1>2, <1>6 DEF Left
<1>7. CASE score # "none" /\ ~Held(Late) /\ ~(predAge + Late <= AllKey)
  BY <1>1, <1>2, <1>3, <1>7 DEF Left
<1> QED
  BY <1>4, <1>5, <1>6, <1>7

LEMMA LeftTypeNext == TypeOK' => Left(Late)' \in Int
<1> SUFFICES ASSUME TypeOK' PROVE Left(Late)' \in Int
    OBVIOUS
<1>1. /\ mapAge' \in Int /\ scoreAge' \in Int /\ predAge' \in Int /\ upAge' \in Int
      /\ positives' \in Int /\ Stale \in Int /\ AllKey \in Int /\ Grace \in Int /\ Confirm \in Int
  BY BoundsAssumption, LimitType DEF TypeOK
<1>2. Late' \in Int
  BY DEF Late
<1>3. UpTo(upAge' + Late', Grace) \in Int /\ UpTo(scoreAge' + Late', Stale + 1) \in Int
  <2>1. upAge' + Late' \in Int /\ scoreAge' + Late' \in Int /\ Stale + 1 \in Int
    BY <1>1, <1>2
  <2> QED
    BY <1>1, <2>1, UpToType
<1>4. CASE score' = "none"
  BY <1>1, <1>2, <1>3, <1>4 DEF Left
<1>5. CASE score' # "none" /\ Held(Late)'
  BY <1>1, <1>2, <1>5 DEF Left
<1>6. CASE score' # "none" /\ ~Held(Late)' /\ predAge' + Late' <= AllKey
  BY <1>1, <1>2, <1>6 DEF Left
<1>7. CASE score' # "none" /\ ~Held(Late)' /\ ~(predAge' + Late' <= AllKey)
  BY <1>1, <1>2, <1>3, <1>7 DEF Left
<1> QED
  BY <1>4, <1>5, <1>6, <1>7

(* What Left reads, and an action that leaves all of it alone.             *)
blindVars == <<active, blind, score, predAge, upAge, positives, frame, frameRead, mapAge, scoreAge>>

LEMMA BlindKept ==
  ASSUME BlindInv, UNCHANGED blindVars, Late' = Late,
         (UNCHANGED <<at, seen>>) \/ (at # "update" /\ at' # "update")
  PROVE  BlindInv'
<1>1. Left(Late)' = Left(Late)
  BY DEF Left, Held, blindVars
<1> QED
  BY <1>1 DEF BlindInv, blindVars

(* A frame that replaces one in the map only shortens what is left.        *)
LEMMA BlindPublish ==
  ASSUME TypeOK, QuietInv, BlindInv, PublishEnd
  PROVE  BlindInv'
<1>1. /\ UNCHANGED <<at, seen, active, blind, score, predAge, upAge, positives, scoreAge>>
      /\ frameRead' = "no"
  BY DEF PublishEnd, detector, history
<1>2. Late' = Late /\ Late \in {0, 1}
  BY <1>1 DEF Late
<1>3. ~Held(Late)'
  BY <1>1 DEF Held
<1>4. Left(Late)' <= Left(Late)
  <2>1. CASE score = "none"
    <3>1. Left(Late) = Left(Late)' /\ Left(Late) \in Int
      BY <1>1, <1>2, <2>1, BlindTypes DEF Left, UpTo
    <3> QED
      BY <3>1
  <2>2. CASE score # "none" /\ Held(Late)
    <3>1. Left(Late) = (Stale + 1 - (mapAge + Late)) + AllKey + Stale + Confirm /\ mapAge + Late <= Stale
      BY <2>2 DEF Left, Held
    <3>2. Left(Late)' = IF predAge + Late <= AllKey
                        THEN (AllKey + 1 - (predAge + Late)) + Stale + Confirm
                        ELSE (Stale + 1 - UpTo(scoreAge + Late, Stale + 1)) + (Confirm - positives)
      BY <1>1, <1>2, <1>3, <2>2 DEF Left
    <3> QED
      BY <1>2, <3>1, <3>2, BlindTypes DEF UpTo
  <2>3. CASE score # "none" /\ ~Held(Late)
    <3>1. Left(Late)' = Left(Late)
      BY <1>1, <1>2, <1>3, <2>3 DEF Left
    <3>2. Left(Late) \in Int
      BY <1>2, <2>3, BlindTypes DEF Left, UpTo
    <3> QED
      BY <3>1, <3>2
  <2> QED
    BY <2>1, <2>2, <2>3
<1>5. blind \in Int /\ Left(Late) \in Int /\ Left(Late)' \in Int /\ Limit \in Int
  <2>1. TypeOK'
    BY TypeStep DEF Next, Encoder
  <2> QED
    BY <2>1, LeftType, LeftTypeNext, BlindTypes
<1>6. blind + Left(Late) <= Limit => blind + Left(Late)' <= Limit
  BY <1>4, <1>5
<1> QED
  BY <1>1, <1>2, <1>6 DEF BlindInv

(* A pass later every age has grown by at least one.                       *)
LEMMA BlindSleep ==
  ASSUME TypeOK, QuietInv, BlindInv, Sleep
  PROVE  BlindInv'
<1>1. PICK d \in 1..MaxGap :
       /\ mapAge' = Older(mapAge, d, Stale + 1) /\ scoreAge' = Older(scoreAge, d, Stale + 1)
       /\ predAge' = IF predAge = Never THEN Never ELSE Older(predAge, d, AllKey + 1)
       /\ upAge' = Older(upAge, d, Grace)
  BY DEF Sleep
<1>2. /\ at = "sleep" /\ at' = "sample"
      /\ UNCHANGED <<frame, frameRead, score, active, positives, blind>>
  BY DEF Sleep
<1>3. /\ d \in Nat \ {0} /\ Late = 1 /\ Late' = 0
  BY <1>2, BoundsAssumption DEF Late
<1>4. TypeOK'
  BY SleepType
<1>5. /\ mapAge' = (IF mapAge + d > Stale + 1 THEN Stale + 1 ELSE mapAge + d)
      /\ scoreAge' = (IF scoreAge + d > Stale + 1 THEN Stale + 1 ELSE scoreAge + d)
      /\ upAge' = (IF upAge + d > Grace THEN Grace ELSE upAge + d)
  BY <1>1 DEF Older, UpTo
<1>6. predAge # Never => predAge' = (IF predAge + d > AllKey + 1 THEN AllKey + 1 ELSE predAge + d)
  BY <1>1 DEF Older, UpTo
<1>7. blind + Left(1) <= Limit
  BY <1>2, <1>3 DEF BlindInv
<1>8. Left(Late)' <= Left(1)
  <2>1. CASE score = "none"
    <3>1. Left(1) = (Grace - UpTo(upAge + 1, Grace)) + (Confirm - positives) + AllKey + Stale + Confirm
      BY <2>1 DEF Left
    <3>2. Left(Late)' = (Grace - UpTo(upAge' + 0, Grace)) + (Confirm - positives) + AllKey + Stale + Confirm
      BY <1>2, <1>3, <2>1 DEF Left
    <3>3. upAge' \in Int /\ upAge' <= Grace /\ (upAge' >= upAge + 1 \/ upAge' = Grace)
      BY <1>3, <1>5, BlindTypes
    <3> QED
      BY <3>1, <3>2, <3>3, BlindTypes DEF UpTo
  <2>2. CASE score # "none" /\ Held(1)
    <3>1. Left(1) = (Stale + 1 - (mapAge + 1)) + AllKey + Stale + Confirm /\ mapAge + 1 <= Stale
      BY <2>2 DEF Left, Held
    <3>2. CASE Held(Late)'
      <4>1. Left(Late)' = (Stale + 1 - (mapAge' + 0)) + AllKey + Stale + Confirm
        BY <1>2, <1>3, <2>2, <3>2 DEF Left
      <4>2. mapAge' \in Int /\ mapAge' >= mapAge + 1
        BY <1>3, <1>5, <3>1, BlindTypes
      <4> QED
        BY <3>1, <4>1, <4>2, BlindTypes
    <3>3. CASE ~Held(Late)'
      <4>1. Left(Late)' = IF predAge' + 0 <= AllKey
                          THEN (AllKey + 1 - (predAge' + 0)) + Stale + Confirm
                          ELSE (Stale + 1 - UpTo(scoreAge' + 0, Stale + 1)) + (Confirm - positives)
        BY <1>2, <1>3, <2>2, <3>3 DEF Left
      <4>2. predAge' \in Nat /\ scoreAge' \in 0..(Stale + 1)
        BY <1>4, LimitType DEF TypeOK
      <4> QED
        BY <3>1, <4>1, <4>2, BlindTypes DEF UpTo
    <3> QED
      BY <3>2, <3>3
  <2>3. CASE score # "none" /\ ~Held(1)
    <3>1. ~Held(Late)'
      BY <1>2, <1>3, <1>5, <2>3, BlindTypes DEF Held
    <3>2. Left(Late)' = IF predAge' + 0 <= AllKey
                        THEN (AllKey + 1 - (predAge' + 0)) + Stale + Confirm
                        ELSE (Stale + 1 - UpTo(scoreAge' + 0, Stale + 1)) + (Confirm - positives)
      BY <1>2, <1>3, <2>3, <3>1 DEF Left
    <3>3. Left(1) = IF predAge + 1 <= AllKey
                    THEN (AllKey + 1 - (predAge + 1)) + Stale + Confirm
                    ELSE (Stale + 1 - UpTo(scoreAge + 1, Stale + 1)) + (Confirm - positives)
      BY <2>3 DEF Left
    <3>4. predAge # Never
      BY <2>3 DEF BlindInv
    <3>5. /\ predAge' \in Int /\ predAge' >= 0 /\ (predAge' >= predAge + 1 \/ predAge' = AllKey + 1)
          /\ scoreAge' \in 0..(Stale + 1) /\ (scoreAge' >= scoreAge + 1 \/ scoreAge' = Stale + 1)
      BY <1>3, <1>5, <1>6, <3>4, BlindTypes
    <3>6. CASE predAge + 1 <= AllKey
      BY <3>2, <3>3, <3>5, <3>6, BlindTypes DEF UpTo
    <3>7. CASE ~(predAge + 1 <= AllKey)
      <4>1. ~(predAge' + 0 <= AllKey)
        BY <3>5, <3>7, BlindTypes
      <4>2. UpTo(scoreAge' + 0, Stale + 1) \in Int /\ UpTo(scoreAge + 1, Stale + 1) \in Int
            /\ UpTo(scoreAge' + 0, Stale + 1) >= UpTo(scoreAge + 1, Stale + 1)
        BY <3>5, BlindTypes DEF UpTo
      <4> QED
        BY <3>2, <3>3, <3>7, <4>1, <4>2, BlindTypes
    <3> QED
      BY <3>6, <3>7
  <2> QED
    BY <2>1, <2>2, <2>3
<1>9. blind' + Left(Late)' <= Limit
  <2>1. Left(Late) \in Int /\ Left(Late) = Left(1) /\ Left(Late)' \in Int
    BY <1>3, <1>4, LeftType, LeftTypeNext
  <2> QED
    BY <1>2, <1>7, <1>8, <2>1, BlindTypes
<1>10. (score' = "none") <=> (predAge' = Never)
  <2>1. (score = "none") <=> (predAge = Never)
    BY DEF BlindInv
  <2>2. predAge # Never => predAge' # Never
    BY <1>3, <1>6, BlindTypes
  <2> QED
    BY <1>1, <1>2, <2>1, <2>2
<1>11. upAge' < Grace => upAge < Grace
  BY <1>3, <1>5, BlindTypes
<1> QED
  BY <1>2, <1>9, <1>10, <1>11 DEF BlindInv

(* A read uses up no pass; the first map starts the time of its key frames, *)
(* and a new predicted frame ends the count.                               *)
LEMMA BlindMaskRead ==
  ASSUME TypeOK, QuietInv, BlindInv, MaskRead
  PROVE  BlindInv'
<1>1. /\ at = "mask" /\ at' = "update" /\ Late = 0 /\ Late' = 0
      /\ UNCHANGED <<active, blind, upAge, positives, frame, mapAge>>
  BY DEF MaskRead, encoder, detector, history, Late
<1>2. blind + Left(0) <= Limit
  BY <1>1 DEF BlindInv
<1>3. blind \in Int /\ Left(0) \in Int /\ Limit \in Int
  BY <1>1, LeftType, BlindTypes
<1>4. CASE /\ seen' = KeepLast
           /\ UNCHANGED <<frameRead, score, scoreAge, predAge>>
  <2>1. Left(Late)' = Left(0)
    BY <1>1, <1>4 DEF Left, Held
  <2>2. seen' \in {"same", "unavailable"}
    BY <1>4 DEF KeepLast
  <2> QED
    BY <1>1, <1>2, <1>4, <2>1, <2>2 DEF BlindInv
<1>5. CASE /\ Predicted > AllKey /\ predAge' = Predicted /\ seen' = "unavailable"
           /\ UNCHANGED <<frameRead, score, scoreAge>>
  <2>1. predAge' = predAge
    BY <1>5, BlindTypes DEF Predicted
  <2>2. Left(Late)' = Left(0)
    BY <1>1, <1>5, <2>1 DEF Left, Held
  <2> QED
    BY <1>1, <1>2, <1>5, <2>1, <2>2 DEF BlindInv
<1>6. CASE /\ Usable(mapAge) /\ predAge' = Predicted /\ Predicted <= AllKey /\ score' = Scored
           /\ seen' = IF frameRead = "yes" THEN "same" ELSE IF frame = "key" THEN "key" ELSE "fresh"
           /\ scoreAge' = mapAge /\ frameRead' = "yes"
  <2>1. score' # "none" /\ predAge' # Never /\ predAge' <= AllKey
    <3>1. score' # "none"
      BY <1>6 DEF Scored, TypeOK, Readings
    <3> QED
      BY <1>6, <3>1, BlindTypes DEF Predicted
  <2>2. mapAge >= 0 /\ mapAge <= Stale /\ mapAge \in Int
    BY <1>6, BlindTypes DEF Usable
  <2>3. seen' = "fresh" \/ blind + Left(Late)' <= Limit
    <3>1. CASE frame # "key" /\ frameRead = "yes"
      <4>1. score # "none" /\ Held(0) /\ Held(Late)'
        <5>1. score = Scored
          BY <3>1 DEF QuietInv
        <5>2. score # "none"
          BY <5>1 DEF Scored, TypeOK, Readings
        <5> QED
          BY <1>1, <1>6, <2>2, <3>1, <5>2 DEF Held
      <4>2. Left(Late)' = Left(0)
        BY <1>1, <2>1, <4>1 DEF Left
      <4> QED
        BY <1>2, <4>2
    <3>2. CASE frame # "key" /\ frameRead # "yes"
      BY <1>6, <3>2
    <3>3. CASE frame = "key"
      <4>1. ~Held(Late)' /\ ~Held(0)
        BY <1>1, <3>3 DEF Held
      <4>2. Left(Late)' = (AllKey + 1 - (predAge' + 0)) + Stale + Confirm
        <5>1. predAge' + 0 <= AllKey
          BY <1>6, <2>1, BlindTypes DEF Predicted
        <5> QED
          BY <1>1, <2>1, <4>1, <5>1 DEF Left
      <4>3. CASE predAge = Never
        <5>1. predAge' = 0 /\ score = "none"
          BY <1>6, <4>3 DEF Predicted, BlindInv
        <5>2. Left(0) = (Grace - UpTo(upAge + 0, Grace)) + (Confirm - positives) + AllKey + Stale + Confirm
          BY <5>1 DEF Left
        <5>3. UpTo(upAge + 0, Grace) \in Int /\ UpTo(upAge + 0, Grace) <= Grace
          <6>1. upAge + 0 \in Int /\ Grace \in Int
            BY BlindTypes
          <6> QED
            BY <6>1, UpToType
        <5>4. CASE active = "0"
          <6>1. positives < Confirm
            BY <5>4 DEF TypeOK
          <6> QED
            BY <1>2, <1>3, <4>2, <5>1, <5>2, <5>3, <6>1, BlindTypes
        <5>5. CASE active = "1"
          <6>1. blind = 0
            BY <5>5 DEF BlindInv
          <6> QED
            BY <4>2, <5>1, <6>1, LimitCovers, BlindTypes
        <5> QED
          BY <5>4, <5>5 DEF TypeOK
      <4>4. CASE predAge # Never
        <5>1. predAge' = predAge /\ score # "none"
          BY <1>6, <3>3, <4>4 DEF Predicted, BlindInv
        <5>2. Left(0) = (AllKey + 1 - (predAge + 0)) + Stale + Confirm
          <6>1. predAge + 0 <= AllKey
            BY <2>1, <5>1, BlindTypes
          <6> QED
            BY <4>1, <5>1, <6>1 DEF Left
        <5> QED
          BY <1>2, <4>2, <5>1, <5>2
      <4> QED
        BY <4>3, <4>4
    <3> QED
      BY <3>1, <3>2, <3>3
  <2> QED
    BY <1>1, <2>1, <2>3 DEF BlindInv
<1> QED
  BY <1>4, <1>5, <1>6 DEF MaskRead

(* What a pass without a new predicted frame does to the votes when        *)
(* neither the grace period nor the believed key frames are left: it keeps *)
(* them for a score that is still in force, or adds one.                   *)
LEMMA VoteOrScore ==
  ASSUME TypeOK, QuietInv, BlindInv, Update, ve = "strong", active' = "0", seen # "fresh",
         score # "none" => predAge > AllKey, score = "none" => upAge = Grace
  PROVE  \/ score # "none" /\ scoreAge <= Stale /\ positives' = positives /\ active = "0"
         \/ positives' = positives + 1 /\ active = "0"
<1>1. at = "update" /\ seen \in {"key", "same", "unavailable"}
  BY DEF Update, TypeOK
<1>2. seen # "key"
  BY <1>1, BlindTypes DEF BlindInv
<1>3. CASE seen = "same"
  <2>1. Observation = "skip"
    BY <1>3 DEF Observation
  <2> QED
    BY <1>1, <1>3, <2>1 DEF Update, detector, QuietInv
<1>4. CASE seen = "unavailable"
  <2>1. Observation = "strong"
    BY <1>4 DEF Observation
  <2>2. MotionUpdate("strong")
    BY <2>1 DEF Update
  <2>3. active = "0" /\ IdleUpdate("strong")
    BY <2>2 DEF MotionUpdate, ActiveUpdate, TypeOK
  <2> QED
    BY <2>3 DEF IdleUpdate
<1> QED
  BY <1>1, <1>2, <1>3, <1>4

(* Before the first map and within the grace period there are no votes.    *)
LEMMA NoVotesInGrace ==
  ASSUME TypeOK, QuietInv, BlindInv, Update, score = "none", upAge < Grace
  PROVE  positives' = 0 /\ positives = 0
<1>1. at = "update" /\ seen = "unavailable"
  <2>1. at = "update"
    BY DEF Update
  <2> QED
    BY <2>1 DEF TypeOK, QuietInv, BlindInv
<1>2. upAge # Grace
  BY BlindTypes
<1>3. Observation = "none"
  BY <1>1, <1>2 DEF Observation
<1>4. MotionUpdate("none")
  BY <1>3 DEF Update
<1> QED
  BY <1>4 DEF MotionUpdate, Missing, BlindInv

(* What is left after a decision fits into the limit on its own.           *)
LEMMA LeftAfterUpdate ==
  ASSUME TypeOK, TypeOK', QuietInv, Late' = 1,
         UNCHANGED <<upAge, score, frame, frameRead, mapAge, predAge, scoreAge>>
  PROVE  Left(Late)' <= Limit
<1>1. positives' \in 0..Confirm
  BY DEF TypeOK
<1>2. CASE score = "none"
  <2>1. Left(Late)' = (Grace - UpTo(upAge + 1, Grace)) + (Confirm - positives') + AllKey + Stale + Confirm
    BY <1>2 DEF Left
  <2>2. UpTo(upAge + 1, Grace) \in Nat
    BY BlindTypes DEF UpTo
  <2> QED
    BY <1>1, <2>1, <2>2, LimitCovers, BlindTypes
<1>3. CASE score # "none" /\ Held(1)
  <2>1. Held(Late)'
    BY <1>3 DEF Held
  <2>2. Left(Late)' = (Stale + 1 - (mapAge + 1)) + AllKey + Stale + Confirm
    BY <1>3, <2>1 DEF Left
  <2>3. mapAge >= 0
    BY <1>3, BlindTypes DEF Held, QuietInv
  <2> QED
    BY <2>2, <2>3, LimitCovers, BlindTypes
<1>4. CASE score # "none" /\ ~Held(1)
  <2>1. ~Held(Late)'
    BY <1>4 DEF Held
  <2>2. Left(Late)' = IF predAge + 1 <= AllKey
                      THEN (AllKey + 1 - (predAge + 1)) + Stale + Confirm
                      ELSE (Stale + 1 - UpTo(scoreAge + 1, Stale + 1)) + (Confirm - positives')
    BY <1>4, <2>1 DEF Left
  <2>3. UpTo(scoreAge + 1, Stale + 1) \in Int /\ UpTo(scoreAge + 1, Stale + 1) >= 1
    BY BlindTypes DEF UpTo
  <2>4. CASE predAge + 1 <= AllKey
    BY <2>2, <2>4, LimitCovers, BlindTypes
  <2>5. CASE ~(predAge + 1 <= AllKey)
    BY <1>1, <2>2, <2>3, <2>5, LimitCovers, BlindTypes
  <2> QED
    BY <2>4, <2>5
<1> QED
  BY <1>2, <1>3, <1>4

(* Every decision that counts uses up one of the passes that were left.    *)
LEMMA BlindUpdate ==
  ASSUME TypeOK, QuietInv, BlindInv, Update
  PROVE  BlindInv'
<1>1. /\ at = "update" /\ at' = "publish" /\ Late = 0 /\ Late' = 1
      /\ UNCHANGED <<upAge, score, frame, frameRead, mapAge, predAge, scoreAge, seen, ve>>
  BY DEF Update, mask, encoder, Late
<1>2. TypeOK'
  BY TypeStep DEF Next, Pass
<1>3. blind' = IF active' = "0" /\ ve = "strong" /\ seen # "fresh" THEN UpTo(blind + 1, Limit) ELSE 0
  BY DEF Update, Watched
<1>4. positives' \in 0..Confirm /\ (active' = "0" => positives' < Confirm)
  BY <1>2 DEF TypeOK
<1>5. score' = "none" /\ upAge' < Grace => positives' = 0
  BY <1>1, NoVotesInGrace
<1>6. CASE ~(active' = "0" /\ ve = "strong" /\ seen # "fresh")
  <2>1. blind' = 0
    BY <1>3, <1>6
  <2>2. Left(Late)' <= Limit /\ Left(Late)' \in Int
    BY <1>1, <1>2, LeftAfterUpdate, LeftTypeNext
  <2>3. blind' + Left(Late)' <= Limit /\ blind' < Limit
    BY <2>1, <2>2, BlindTypes
  <2> QED
    BY <1>1, <1>5, <2>1, <2>3 DEF BlindInv
<1>7. CASE active' = "0" /\ ve = "strong" /\ seen # "fresh"
  <2>1. blind' = blind + 1
    BY <1>3, <1>7, BlindTypes DEF UpTo, BlindInv
  <2>2. blind + Left(0) <= Limit
    BY <1>1, <1>7 DEF BlindInv
  <2>3. blind \in Nat /\ Left(0) \in Int /\ Left(Late)' \in Int /\ Limit \in Nat
    BY <1>1, <1>2, LeftType, LeftTypeNext, BlindTypes
  <2>4. Left(Late)' + 1 <= Left(0) /\ Left(Late)' >= 1
    <3>1. CASE score = "none"
      <4>1. Left(Late)' = (Grace - UpTo(upAge + 1, Grace)) + (Confirm - positives') + AllKey + Stale + Confirm
        BY <1>1, <3>1 DEF Left
      <4>2. Left(0) = (Grace - UpTo(upAge + 0, Grace)) + (Confirm - positives) + AllKey + Stale + Confirm
        BY <3>1 DEF Left
      <4>3. CASE upAge < Grace
        <5>1. positives' = 0 /\ positives = 0
          BY <3>1, <4>3, NoVotesInGrace
        <5>2. UpTo(upAge + 1, Grace) = upAge + 1 /\ UpTo(upAge + 0, Grace) = upAge
          BY <4>3, BlindTypes DEF UpTo
        <5> QED
          BY <4>1, <4>2, <4>3, <5>1, <5>2, BlindTypes
      <4>4. CASE ~(upAge < Grace)
        <5>1. upAge = Grace
          BY <4>4, BlindTypes
        <5>2. positives' = positives + 1
          BY <1>7, <3>1, <5>1, VoteOrScore
        <5>3. UpTo(upAge + 1, Grace) = Grace /\ UpTo(upAge + 0, Grace) = Grace
          BY <5>1, BlindTypes DEF UpTo
        <5> QED
          BY <1>4, <1>7, <4>1, <4>2, <5>2, <5>3, BlindTypes
      <4> QED
        BY <4>3, <4>4
    <3>2. CASE score # "none" /\ Held(0)
      <4>1. Left(0) = (Stale + 1 - (mapAge + 0)) + AllKey + Stale + Confirm /\ mapAge + 0 <= Stale
        BY <3>2 DEF Left, Held
      <4>2. CASE Held(1)
        <5>1. Held(Late)' /\ mapAge + 1 <= Stale
          BY <1>1, <4>2 DEF Held
        <5>2. Left(Late)' = (Stale + 1 - (mapAge + 1)) + AllKey + Stale + Confirm
          BY <1>1, <3>2, <5>1 DEF Left
        <5> QED
          BY <4>1, <5>1, <5>2, BlindTypes
      <4>3. CASE ~Held(1)
        <5>1. ~Held(Late)'
          BY <1>1, <4>3 DEF Held
        <5>2. Left(Late)' = IF predAge + 1 <= AllKey
                            THEN (AllKey + 1 - (predAge + 1)) + Stale + Confirm
                            ELSE (Stale + 1 - UpTo(scoreAge + 1, Stale + 1)) + (Confirm - positives')
          BY <1>1, <3>2, <5>1 DEF Left
        <5>3. /\ UpTo(scoreAge + 1, Stale + 1) \in Int /\ UpTo(scoreAge + 1, Stale + 1) >= 1
              /\ UpTo(scoreAge + 1, Stale + 1) <= Stale + 1
          BY BlindTypes DEF UpTo
        <5> QED
          BY <1>4, <1>7, <4>1, <5>2, <5>3, BlindTypes
      <4> QED
        BY <4>2, <4>3
    <3>3. CASE score # "none" /\ ~Held(0)
      <4>1. ~Held(Late)'
        BY <1>1, <3>3, BlindTypes DEF Held
      <4>2. Left(Late)' = IF predAge + 1 <= AllKey
                          THEN (AllKey + 1 - (predAge + 1)) + Stale + Confirm
                          ELSE (Stale + 1 - UpTo(scoreAge + 1, Stale + 1)) + (Confirm - positives')
        BY <1>1, <3>3, <4>1 DEF Left
      <4>3. Left(0) = IF predAge + 0 <= AllKey
                      THEN (AllKey + 1 - (predAge + 0)) + Stale + Confirm
                      ELSE (Stale + 1 - UpTo(scoreAge + 0, Stale + 1)) + (Confirm - positives)
        BY <3>3 DEF Left
      <4>4. /\ UpTo(scoreAge + 1, Stale + 1) \in Int /\ UpTo(scoreAge + 1, Stale + 1) >= 1
            /\ UpTo(scoreAge + 1, Stale + 1) <= Stale + 1 /\ UpTo(scoreAge + 0, Stale + 1) = scoreAge
            /\ UpTo(scoreAge + 1, Stale + 1) >= scoreAge
            /\ (scoreAge <= Stale => UpTo(scoreAge + 1, Stale + 1) = scoreAge + 1)
        BY BlindTypes DEF UpTo
      <4>5. CASE predAge <= AllKey
        BY <1>4, <1>7, <4>2, <4>3, <4>4, <4>5, BlindTypes
      <4>6. CASE predAge > AllKey
        <5>1. \/ scoreAge <= Stale /\ positives' = positives
              \/ positives' = positives + 1
          BY <1>7, <3>3, <4>6, VoteOrScore
        <5>2. ~(predAge + 1 <= AllKey) /\ ~(predAge + 0 <= AllKey)
          BY <4>6, BlindTypes
        <5> QED
          BY <1>4, <1>7, <4>2, <4>3, <4>4, <5>1, <5>2, BlindTypes
      <4> QED
        BY <4>5, <4>6, BlindTypes
    <3> QED
      BY <3>1, <3>2, <3>3
  <2>5. blind' + Left(Late)' <= Limit /\ blind' < Limit
    BY <2>1, <2>2, <2>3, <2>4
  <2> QED
    BY <1>1, <1>5, <1>7, <2>5 DEF BlindInv
<1> QED
  BY <1>6, <1>7

LEMMA BlindGone == Gone => BlindInv'
<1> SUFFICES ASSUME Gone PROVE BlindInv'
    OBVIOUS
<1>1. /\ at' = "down" /\ score' = "none" /\ predAge' = Never /\ upAge' = 0 /\ positives' = 0
      /\ active' = "0" /\ blind' = 0 /\ Late' = 0
  BY DEF Gone, Late
<1>2. UpTo(0 + 0, Grace) = 0
  BY BoundsAssumption DEF UpTo
<1>3. Left(Late)' = (Grace - UpTo(0 + 0, Grace)) + (Confirm - 0) + AllKey + Stale + Confirm
  BY <1>1 DEF Left
<1>4. blind' + Left(Late)' <= Limit /\ blind' < Limit
  BY <1>1, <1>2, <1>3, LimitCovers, LimitType, BoundsAssumption
<1> QED
  BY <1>1, <1>4 DEF BlindInv

LEMMA BlindInit == Init => BlindInv
<1> SUFFICES ASSUME Init PROVE BlindInv
    OBVIOUS
<1>1. /\ at = "sample" /\ score = "none" /\ predAge = Never /\ upAge = 0 /\ positives = 0
      /\ active = "0" /\ blind = 0 /\ Late = 0
  BY DEF Init, Fresh, Late
<1>2. UpTo(0 + 0, Grace) = 0
  BY BoundsAssumption DEF UpTo
<1>3. Left(Late) = (Grace - UpTo(0 + 0, Grace)) + (Confirm - 0) + AllKey + Stale + Confirm
  BY <1>1 DEF Left
<1>4. blind + Left(Late) <= Limit /\ blind < Limit
  BY <1>1, <1>2, <1>3, LimitCovers, LimitType, BoundsAssumption
<1> QED
  BY <1>1, <1>4 DEF BlindInv

LEMMA BlindStep ==
  ASSUME TypeOK, QuietInv, BlindInv, [Next]_vars
  PROVE  BlindInv'
<1> USE DEF encoder, mask, detector, history
<1>1. CASE PublishBegin \/ RmmExit \/ RmmStart \/ UNCHANGED vars
  <2>1. UNCHANGED blindVars /\ UNCHANGED <<at, seen>> /\ Late' = Late
    BY <1>1 DEF PublishBegin, RmmExit, RmmStart, vars, blindVars, Late
  <2> QED
    BY <2>1, BlindKept
<1>2. CASE PublishEnd
  BY <1>2, BlindPublish
<1>3. CASE ReadStats \/ Telemetry \/ Restart
  <2>1. UNCHANGED blindVars /\ at # "update" /\ at' # "update" /\ Late' = Late
    BY <1>3 DEF ReadStats, Telemetry, Restart, blindVars, Late
  <2> QED
    BY <2>1, BlindKept
<1>4. CASE MaskClosed
  <2>1. UNCHANGED blindVars /\ at = "mask" /\ at' = "update" /\ seen' = "unavailable" /\ Late' = Late
    BY <1>4 DEF MaskClosed, blindVars, Late
  <2>2. Left(Late)' = Left(Late)
    BY <2>1 DEF Left, Held, blindVars
  <2> QED
    BY <2>1, <2>2 DEF BlindInv, blindVars
<1>5. CASE MaskRead
  BY <1>5, BlindMaskRead
<1>6. CASE Update
  BY <1>6, BlindUpdate
<1>7. CASE Sleep
  BY <1>7, BlindSleep
<1>8. CASE Exit \/ Kill
  BY <1>8, BlindGone DEF Exit, Kill
<1> QED
  BY <1>1, <1>2, <1>3, <1>4, <1>5, <1>6, <1>7, <1>8 DEF Next, Pass, Encoder

(* Strong whole-frame motion is never hidden for longer than the timeouts  *)
(* of the map add up to, for every threshold, delay and timeout and        *)
(* whatever the encoder publishes, stops publishing or restarts:           *)
(* motion_mask_read and the fallback of the detection loop together.       *)
THEOREM MapNeverBlinds == Spec => []NotBlinded
<1>1. TypeOK /\ QuietInv /\ BlindInv /\ [Next]_vars => (TypeOK /\ QuietInv /\ BlindInv)'
  BY TypeStep, QuietStep, BlindStep
<1>2. BlindInv => NotBlinded
  BY DEF BlindInv, NotBlinded
<1> QED
  BY <1>1, <1>2, TypeInit, QuietInit, BlindInit, PTL DEF Spec

-----------------------------------------------------------------------------
(* The delivery: types.                                                    *)
USE DEF Msgs

LEMMA DelayType ==
  \A n \in 0..Interval : Fewer(n) \in 0..Interval
  BY DeliveryAssumption DEF Fewer

LEMMA TimesType ==
  checkIn \in 0..Interval /\ retryIn \in 0..Interval /\ TimePasses
    => checkIn' \in 0..Interval /\ retryIn' \in 0..Interval
  BY DelayType DEF TimePasses

LEMMA BreakType ==
  breaks \in 0..MaxBreaks /\ Break => breaks' \in 0..MaxBreaks
  BY DeliveryAssumption DEF Break

LEMMA WantType ==
  ASSUME todo \subseteq {"reset", "start"}, NEW m \in Msgs, Want(m)
  PROVE  wanted' \in Msgs /\ todo' \subseteq {"reset", "start"}
  BY DEF Want

LEMMA SentType ==
  ASSUME wanted \in Msgs, todo \subseteq {"reset", "start"}, tries \in 0..2, tries > 0,
         Sent
  PROVE  sent' \in Msgs /\ todo' \subseteq {"reset", "start"} /\ tries' \in 0..2
  BY DEF Sent, NextMsg

LEMMA DeliveryTypeInit ==
  DeliveryInit => DeliveryTypeOK
  BY DeliveryAssumption DEF DeliveryInit, DeliveryTypeOK

LEMMA DeliveryTypeStep ==
  DeliveryTypeOK /\ [DeliveryNext]_deliveryVars => DeliveryTypeOK'
<1> SUFFICES ASSUME DeliveryTypeOK, [DeliveryNext]_deliveryVars
    PROVE DeliveryTypeOK'
    OBVIOUS
<1> USE DeliveryAssumption DEF DeliveryTypeOK, delivery, side
<1>1. CASE NoTransition
  BY <1>1, TimesType DEF NoTransition
<1>2. CASE Transition
  <2>1. wanted' \in Msgs /\ todo' \subseteq {"reset", "start"}
    BY <1>2, WantType DEF Transition
  <2>2. checkIn' \in 0..Interval /\ retryIn' \in 0..Interval
    BY <1>2, TimesType DEF Transition
  <2>3. owed' \in {"owed", "none"} /\ lasted' \in 0..MinMotion
    BY <1>2 DEF Transition
  <2> QED
    BY <1>2, <2>1, <2>2, <2>3 DEF Transition
<1>3. CASE Check
  BY <1>3 DEF Check
<1>4. CASE OpenTooSoon
  BY <1>4 DEF OpenTooSoon
<1>5. CASE OpenFails
  BY <1>5, BreakType DEF OpenFails
<1>6. CASE Open
  <2>1. conn' \in {"live", "dead", "none"} /\ todo' \subseteq {"reset", "start"}
    BY <1>6 DEF Open
  <2>2. checkIn' \in 0..Interval
    BY <1>6 DEF Open
  <2> QED
    BY <1>6, <2>1, <2>2 DEF Open
<1>7. CASE SendLive
  <2>1. NextMsg \in Msgs
    BY DEF NextMsg
  <2>2. queue' \in Seq(Msgs)
    BY <1>7, <2>1 DEF SendLive
  <2>3. sent' \in Msgs /\ todo' \subseteq {"reset", "start"} /\ tries' \in 0..2
    BY <1>7, SentType DEF SendLive, MaySend
  <2> QED
    BY <1>7, <2>2, <2>3 DEF SendLive, Sent
<1>8. CASE SendDead
  <2>1. sent' \in Msgs /\ todo' \subseteq {"reset", "start"} /\ tries' \in 0..2
    BY <1>8, SentType DEF SendDead, MaySend
  <2> QED
    BY <1>8, <2>1 DEF SendDead, Sent
<1>9. CASE SendFull
  BY <1>9 DEF SendFull
<1>10. CASE SendBreaks
  BY <1>10, BreakType DEF SendBreaks
<1>11. CASE SendDone
  BY <1>11 DEF SendDone
<1>12. CASE EndOfPass
  BY <1>12 DEF EndOfPass
<1>13. CASE RetryShutdown
  BY <1>13, TimesType DEF RetryShutdown
<1>14. CASE EndShutdown
  BY <1>14 DEF EndShutdown, Closed
<1>15. CASE BeginShutdown
  BY <1>15, BreakType, TimesType, WantType DEF BeginShutdown
<1>16. CASE DeliveryKill
  BY <1>16, BreakType DEF DeliveryKill, Closed
<1>17. CASE DeliveryRestart
  BY <1>17 DEF DeliveryRestart
<1>18. CASE Receive
  BY <1>18 DEF Receive
<1>19. CASE BrokerStart
  BY <1>19 DEF BrokerStart
<1>20. CASE BrokerExit
  BY <1>20, BreakType DEF BrokerExit
<1>21. CASE UNCHANGED deliveryVars
  BY <1>21 DEF deliveryVars
<1> QED
  BY <1>1, <1>2, <1>3, <1>4, <1>5, <1>6, <1>7, <1>8, <1>9, <1>10, <1>11, <1>12, <1>13,
     <1>14, <1>15, <1>16, <1>17, <1>18, <1>19, <1>20, <1>21
       DEF DeliveryNext, Motiond, Tick, Broker

(* The files, counters and the queue hold values of their types.           *)
THEOREM DeliveryTypeCorrect == DeliverySpec => []DeliveryTypeOK
<1>1. DeliveryInit => DeliveryTypeOK
  BY DeliveryTypeInit
<1>2. DeliveryTypeOK /\ [DeliveryNext]_deliveryVars => DeliveryTypeOK'
  BY DeliveryTypeStep
<1> QED
  BY <1>1, <1>2, PTL DEF DeliverySpec

-----------------------------------------------------------------------------
(* The order of the messages.                                              *)

LEMMA DeliveryBegins == DeliveryInit => DeliveryInv
  BY DEF DeliveryInit, DeliveryInv, NoDoubleStart, LastMsg

(* Nothing DeliveryInv mentions changes but what is wanted, or the         *)
(* connection is given up.                                                 *)
LEMMA InvKept ==
  ASSUME DeliveryInv, sent' = sent, queue' = queue, rec' = rec, todo' = todo,
         conn' \in {conn, "none"}
  PROVE  DeliveryInv'
  BY DEF DeliveryInv, NoDoubleStart, LastMsg

LEMMA InvWant ==
  ASSUME DeliveryTypeOK, DeliveryInv, NEW m, Want(m),
         sent' = sent, queue' = queue, rec' = rec, conn' = conn
  PROVE  DeliveryInv'
  BY
    DEF DeliveryInv, NoDoubleStart, LastMsg, Want, DeliveryTypeOK

(* What is sent after the reset differs from what was sent before.         *)
LEMMA NextAlternates ==
  ASSUME DeliveryTypeOK, DeliveryInv, conn # "none", Pending
  PROVE  /\ NextMsg \in Msgs
         /\ "reset" \in todo => NextMsg = "STOP"
         /\ "reset" \notin todo => NextMsg # sent
<1>1. CASE "reset" \in todo
  BY <1>1 DEF NextMsg, DeliveryTypeOK
<1>2. CASE "reset" \notin todo /\ "start" \in todo
  <2>1. todo = {"start"}
    BY <1>2 DEF DeliveryTypeOK
  <2> QED
    BY <1>2, <2>1 DEF NextMsg, DeliveryInv
<1>3. CASE todo = {}
  BY <1>3 DEF NextMsg, Pending, DeliveryTypeOK
<1> QED
  BY <1>1, <1>2, <1>3 DEF DeliveryTypeOK

(* The bookkeeping after a message was taken.                              *)
LEMMA SentKeeps ==
  ASSUME DeliveryTypeOK, DeliveryInv, conn # "none", Pending, Sent
  PROVE  todo' = {"start"} => sent' = "STOP"
<1>1. CASE "reset" \in todo
  BY <1>1 DEF Sent, NextMsg
<1>2. CASE "reset" \notin todo
  BY <1>2 DEF Sent, NextMsg, DeliveryTypeOK
<1> QED
  BY <1>1, <1>2

LEMMA InvSendLive ==
  DeliveryTypeOK /\ DeliveryInv /\ SendLive => DeliveryInv'
<1> SUFFICES ASSUME DeliveryTypeOK, DeliveryInv, SendLive
    PROVE DeliveryInv'
    OBVIOUS
<1> DEFINE n == Len(queue)
           m == NextMsg
<1>1. queue \in Seq(Msgs) /\ rec \in Msgs /\ n \in Nat
  BY DEF DeliveryTypeOK
<1>2. conn = "live" /\ Pending /\ Sent
  BY DEF SendLive, MaySend
<1>3. m \in Msgs /\ ("reset" \in todo => m = "STOP") /\ ("reset" \notin todo => m # sent)
  BY <1>2, NextAlternates
<1> HIDE DEF m
<1>4. queue' = Append(queue, m) /\ rec' = rec
  BY DEF SendLive, m
<1>5. Len(queue') = n + 1 /\ queue'[n + 1] = m /\ (\A i \in 1..n : queue'[i] = queue[i])
  BY <1>1, <1>3, <1>4
<1>6. m = "START" => LastMsg = "STOP"
  <2>1. LastMsg \in Msgs
    BY <1>1 DEF LastMsg
  <2>2. m = "START" => "reset" \notin todo
    BY <1>3
  <2>3. "reset" \notin todo => LastMsg = sent
    BY <1>2 DEF DeliveryInv
  <2> QED
    BY <1>3, <2>1, <2>2, <2>3
<1>7. NoDoubleStart'
  <2>1. CASE n = 0
    <3>1. queue = <<>>
      BY <1>1, <2>1
    <3>2. LastMsg = rec
      BY <3>1 DEF LastMsg
    <3> QED
      BY <1>4, <1>5, <1>6, <2>1, <3>2 DEF NoDoubleStart
  <2>2. CASE n > 0
    <3>1. queue # <<>> /\ LastMsg = queue[n]
      BY <1>1, <2>2 DEF LastMsg
    <3>2. queue'[1] = queue[1]
      BY <1>1, <1>5, <2>2
    <3>3. ~(rec' = "START" /\ queue'[1] = "START")
      BY <1>4, <3>1, <3>2 DEF DeliveryInv, NoDoubleStart
    <3>4. ASSUME NEW i \in 1..n PROVE ~(queue'[i] = "START" /\ queue'[i + 1] = "START")
      <4>1. CASE i = n
        BY <4>1, <1>1, <1>5, <1>6, <3>1
      <4>2. CASE i # n
        <5>1. i \in 1..(n - 1) /\ i + 1 \in 1..n
          BY <4>2, <1>1
        <5> QED
          BY <5>1, <1>5 DEF DeliveryInv, NoDoubleStart
      <4> QED
        BY <4>1, <4>2
    <3> QED
      BY <1>1, <1>5, <3>3, <3>4 DEF NoDoubleStart
  <2> QED
    BY <1>1, <2>1, <2>2
<1>8. LastMsg' = m
  BY <1>1, <1>4, <1>5 DEF LastMsg
<1>9. sent' = m /\ conn' = conn
  BY <1>2 DEF Sent, m
<1> QED
  BY <1>2, <1>7, <1>8, <1>9, SentKeeps DEF DeliveryInv

LEMMA InvReceive ==
  DeliveryTypeOK /\ DeliveryInv /\ Receive => DeliveryInv'
<1> SUFFICES ASSUME DeliveryTypeOK, DeliveryInv, Receive
    PROVE DeliveryInv'
    OBVIOUS
<1> DEFINE n == Len(queue)
<1>1. queue \in Seq(Msgs) /\ queue # <<>> /\ n \in Nat \ {0}
  BY DEF DeliveryTypeOK, Receive
<1>2. rec' = queue[1] /\ queue' = Tail(queue)
  BY <1>1 DEF Receive
<1>3. Len(queue') = n - 1 /\ \A i \in 1..(n - 1) : queue'[i] = queue[i + 1]
  BY <1>1, <1>2
<1>4. \A i \in 1..(n - 1) : ~(queue[i] = "START" /\ queue[i + 1] = "START")
  BY DEF DeliveryInv, NoDoubleStart
<1>5. NoDoubleStart'
  <2>1. queue' # <<>> => ~(rec' = "START" /\ queue'[1] = "START")
    <3> SUFFICES ASSUME queue' # <<>> PROVE ~(rec' = "START" /\ queue'[1] = "START")
        OBVIOUS
    <3>1. 1 \in 1..(n - 1)
      BY <1>1, <1>2, <1>3
    <3> QED
      BY <1>2, <1>3, <1>4, <3>1
  <2>2. ASSUME NEW i \in 1..(n - 2) PROVE ~(queue'[i] = "START" /\ queue'[i + 1] = "START")
    <3>1. i \in 1..(n - 1) /\ i + 1 \in 1..(n - 1)
      BY <1>1
    <3> QED
      BY <1>3, <1>4, <3>1
  <2> QED
    BY <1>1, <1>3, <2>1, <2>2 DEF NoDoubleStart
<1>6. LastMsg' = LastMsg
  <2>1. CASE n = 1
    BY <1>1, <1>2, <1>3, <2>1 DEF LastMsg
  <2>2. CASE n > 1
    <3>1. queue' # <<>> /\ queue'[n - 1] = queue[n]
      BY <1>1, <1>2, <1>3, <2>2
    <3> QED
      BY <1>1, <1>3, <3>1 DEF LastMsg
  <2>3. Len(queue) \in Nat /\ Len(queue) # 0
    BY <1>1
  <2>4. \A k \in Nat : k # 0 => k = 1 \/ k > 1
    OBVIOUS
  <2>5. n = 1 \/ n > 1
    BY <2>3, <2>4, Zenon
  <2> QED
    BY <2>1, <2>2, <2>5
<1> QED
  BY <1>5, <1>6 DEF DeliveryInv, Receive, delivery

LEMMA DeliveryStep ==
  DeliveryTypeOK /\ DeliveryInv /\ [DeliveryNext]_deliveryVars => DeliveryInv'
<1> SUFFICES ASSUME DeliveryTypeOK, DeliveryInv, [DeliveryNext]_deliveryVars
    PROVE DeliveryInv'
    OBVIOUS
<1> USE DEF delivery, side
<1>1. CASE NoTransition
  BY <1>1, InvKept DEF NoTransition
<1>2. CASE Transition
  BY <1>2, InvWant DEF Transition
<1>3. CASE Check
  BY <1>3, InvKept DEF Check, DeliveryTypeOK
<1>4. CASE OpenTooSoon
  BY <1>4, InvKept DEF OpenTooSoon
<1>5. CASE OpenFails
  BY <1>5, InvKept DEF OpenFails
<1>6. CASE Open
  <2>1. CASE conn = "none"
    <3>1. "reset" \in todo'
      BY <1>6, <2>1 DEF Open
    <3> QED
      BY <1>6, <3>1 DEF Open, DeliveryInv, NoDoubleStart
  <2>2. CASE conn # "none"
    BY <1>6, <2>2, InvKept DEF Open
  <2> QED
    BY <2>1, <2>2
<1>7. CASE SendLive
  BY <1>7, InvSendLive
<1>8. CASE SendDead
  <2>1. conn = "dead" /\ conn' = "dead" /\ Pending /\ Sent
        /\ queue' = queue /\ rec' = rec
    BY <1>8 DEF SendDead, MaySend, Sent
  <2>2. todo' = {"start"} => sent' = "STOP"
    BY <2>1, SentKeeps
  <2> QED
    BY <2>1, <2>2 DEF DeliveryInv, NoDoubleStart
<1>9. CASE SendFull
  BY <1>9, InvKept DEF SendFull
<1>10. CASE SendBreaks
  BY <1>10, InvKept DEF SendBreaks
<1>11. CASE SendDone
  BY <1>11, InvKept DEF SendDone
<1>12. CASE EndOfPass
  BY <1>12, InvKept DEF EndOfPass
<1>13. CASE RetryShutdown
  BY <1>13, InvKept DEF RetryShutdown
<1>14. CASE EndShutdown
  BY <1>14, InvKept DEF EndShutdown, Closed
<1>15. CASE BeginShutdown
  BY <1>15, InvWant DEF BeginShutdown
<1>16. CASE DeliveryKill
  BY <1>16, InvKept DEF DeliveryKill, Closed
<1>17. CASE DeliveryRestart
  BY <1>17 DEF DeliveryRestart, DeliveryInv, NoDoubleStart
<1>18. CASE Receive
  BY <1>18, InvReceive
<1>19. CASE BrokerStart
  BY <1>19, InvKept DEF BrokerStart
<1>20. CASE BrokerExit
  <2>1. queue' = <<>> /\ conn' # "live" /\ todo' = todo /\ sent' = sent
    BY <1>20 DEF BrokerExit
  <2>2. conn' # "none" => conn # "none"
    BY <1>20 DEF BrokerExit
  <2> QED
    BY <2>1, <2>2 DEF DeliveryInv, NoDoubleStart
<1>21. CASE UNCHANGED deliveryVars
  BY <1>21, InvKept DEF deliveryVars
<1> QED
  BY <1>1, <1>2, <1>3, <1>4, <1>5, <1>6, <1>7, <1>8, <1>9, <1>10, <1>11, <1>12, <1>13,
     <1>14, <1>15, <1>16, <1>17, <1>18, <1>19, <1>20, <1>21
       DEF DeliveryNext, Motiond, Tick, Broker

(* For a queue of any size and any number of faults, the recorder never    *)
(* gets two STARTs without a STOP between them.                            *)
THEOREM StartsAlternate == DeliverySpec => []NoDoubleStart
<1>1. DeliveryInit => DeliveryTypeOK /\ DeliveryInv
  BY DeliveryTypeInit, DeliveryBegins
<1>2. DeliveryTypeOK /\ DeliveryInv /\ [DeliveryNext]_deliveryVars
        => (DeliveryTypeOK /\ DeliveryInv)'
  BY DeliveryTypeStep, DeliveryStep
<1>3. DeliveryInv => NoDoubleStart
  BY DEF DeliveryInv
<1> QED
  BY <1>1, <1>2, <1>3, PTL DEF DeliverySpec

-----------------------------------------------------------------------------
(* motiond implements the signal it promises.                              *)

LEMMA SignalSent ==
  ASSUME DeliveryTypeOK, DeliveryInv, conn # "none", Pending, Sent
  PROVE  Signal!Next
<1>1. NextMsg \in Msgs
      /\ ("reset" \in todo => NextMsg = "STOP")
      /\ ("reset" \notin todo => NextMsg # sent)
  BY NextAlternates
<1>2. sent' = NextMsg /\ conn' = conn /\ "reset" \notin todo'
      /\ Link' = NextMsg
  BY <1>1 DEF Sent, Link, DeliveryTypeOK
<1>3. Link = IF "reset" \in todo THEN "fresh" ELSE sent
  BY DEF Link
<1>4. sent \in Msgs
  BY DEF DeliveryTypeOK
<1> QED
  BY <1>1, <1>2, <1>3, <1>4
    DEF Signal!Next, Signal!SendStop, Signal!SendStart

LEMMA SignalStep ==
  DeliveryTypeOK /\ DeliveryInv /\ [DeliveryNext]_deliveryVars
    => [Signal!Next]_(Link)
<1> SUFFICES ASSUME DeliveryTypeOK, DeliveryInv, [DeliveryNext]_deliveryVars
    PROVE [Signal!Next]_(Link)
    OBVIOUS
<1> USE DEF delivery, side
<1>a. Link' \in {Link, "fresh"} => [Signal!Next]_(Link)
  BY DEF Signal!Next, Signal!Lose
<1>b. ASSUME sent' = sent, conn' \in {conn, "none"}, "reset" \in todo' <=> "reset" \in todo
      PROVE  [Signal!Next]_(Link)
  BY <1>a, <1>b DEF Link
<1>1. CASE NoTransition
  BY <1>1, <1>b DEF NoTransition
<1>2. CASE Transition
  BY <1>2, <1>b DEF Transition, Want
<1>3. CASE Check
  BY <1>3, <1>b DEF Check, DeliveryTypeOK
<1>4. CASE OpenTooSoon
  BY <1>4, <1>b DEF OpenTooSoon
<1>5. CASE OpenFails
  BY <1>5, <1>b DEF OpenFails
<1>6. CASE Open
  BY <1>6, <1>a DEF Open, Link
<1>7. CASE SendLive
  BY <1>7, SignalSent DEF SendLive, MaySend
<1>8. CASE SendDead
  BY <1>8, SignalSent DEF SendDead, MaySend
<1>9. CASE SendFull
  BY <1>9, <1>b DEF SendFull
<1>10. CASE SendBreaks
  BY <1>10, <1>b DEF SendBreaks
<1>11. CASE SendDone
  BY <1>11, <1>b DEF SendDone
<1>12. CASE EndOfPass
  BY <1>12, <1>b DEF EndOfPass
<1>13. CASE RetryShutdown
  BY <1>13, <1>b DEF RetryShutdown
<1>14. CASE EndShutdown
  BY <1>14, <1>b DEF EndShutdown, Closed
<1>15. CASE BeginShutdown
  BY <1>15, <1>b DEF BeginShutdown, Want
<1>16. CASE DeliveryKill
  BY <1>16, <1>b DEF DeliveryKill, Closed
<1>17. CASE DeliveryRestart
  BY <1>17, <1>a DEF DeliveryRestart, Link
<1>18. CASE Receive
  BY <1>18, <1>b DEF Receive
<1>19. CASE BrokerStart
  BY <1>19, <1>b DEF BrokerStart
<1>20. CASE BrokerExit
  BY <1>20, <1>a DEF BrokerExit, Link
<1>21. CASE UNCHANGED deliveryVars
  BY <1>21, <1>b DEF deliveryVars
<1> QED
  BY <1>1, <1>2, <1>3, <1>4, <1>5, <1>6, <1>7, <1>8, <1>9, <1>10, <1>11, <1>12, <1>13,
     <1>14, <1>15, <1>16, <1>17, <1>18, <1>19, <1>20, <1>21
       DEF DeliveryNext, Motiond, Tick, Broker

(* Every behaviour of the delivery is one of RecorderSignal: a connection  *)
(* begins with STOP and alternates from there.                             *)
THEOREM DeliveryImplementsSignal == DeliverySpec => SignalSpec
<1>1. DeliveryInit => DeliveryTypeOK /\ DeliveryInv
  BY DeliveryTypeInit, DeliveryBegins
<1>2. DeliveryTypeOK /\ DeliveryInv /\ [DeliveryNext]_deliveryVars
        => (DeliveryTypeOK /\ DeliveryInv)'
  BY DeliveryTypeStep, DeliveryStep
<1>3. DeliveryInit => Signal!Init
  BY DEF DeliveryInit, Signal!Init, Link
<1> QED
  BY <1>1, <1>2, <1>3, SignalStep, PTL DEF DeliverySpec, SignalSpec, Signal!Spec
=============================================================================
