--------------------------- MODULE MotionDetector ---------------------------
(***************************************************************************)
(* The detection loop of motiond (motiond.c, motion_tuning.h) with the     *)
(* exclusion mask (motion_mask.h) and the encoder hook that publishes the  *)
(* motion map (motion_map_y623.c).                                         *)
(*                                                                         *)
(* Each pass reads the vendor's whole-frame statistics and, with a mask,   *)
(* the shared map.  A map that is fresh replaces the whole-frame reading; *)
(* one that was read before, or is being written, changes nothing; one     *)
(* that is stale, or has held only key frames for too long, hands the      *)
(* decision back to the whole frame.  Readings are abstracted to what the  *)
(* thresholds make of them; times are ages and countdowns in sample        *)
(* intervals.                                                              *)
(***************************************************************************)
EXTENDS Integers

CONSTANTS
  Confirm,    (* confirm_samples                                            *)
  Quiet,      (* quiet_ms                                                   *)
  Stale,      (* the 500 ms after which a map is unavailable                *)
  AllKey,     (* the 2000 ms without a predicted frame                      *)
  Grace,      (* the 1000 ms that startup waits for the first map           *)
  VeRetry,    (* VE_OPEN_RETRY_MS                                           *)
  VePressure, (* VE_PRESSURE_RETRY_MS                                       *)
  Second,     (* the 1000 ms of map reopening and of telemetry              *)
  MaxGap,     (* bound on the intervals a pass may take                     *)
  MaxFaults   (* bound on exits, kills and failed writes                    *)

ASSUME BoundsAssumption ==
  /\ Confirm \in Nat \ {0} /\ Quiet \in Nat \ {0} /\ Stale \in Nat \ {0}
  /\ AllKey \in Nat \ {0} /\ Grace \in Nat \ {0} /\ VeRetry \in Nat \ {0}
  /\ VePressure \in Nat \ {0} /\ Second \in Nat \ {0} /\ MaxGap \in Nat \ {0}
  /\ MaxFaults \in Nat /\ Stale <= AllKey

VARIABLES
  at,         (* sample, mask, update, publish; "down" without process      *)
  ve,         (* this pass's whole-frame reading                            *)
  veRetry,    (* until ve_retry_after_ms                                    *)
  rmm,        (* the encoder process: "up" or "down"                        *)
  gen,        (* the map's generation: absent, zero, odd or even            *)
  frame,      (* the reading in the map, "key" for a full I frame           *)
  mapAge,     (* its age, -1 when it is newer than the pass's clock         *)
  asked,      (* the map's enabled flag, "yes" or "no"                      *)
  shared,     (* "open" once the map is mapped                              *)
  mapRetry,   (* until retry_after                                          *)
  seen,       (* this pass's motion_mask_read: a fresh predicted frame, a   *)
              (* fresh key frame, the same as before, or unavailable        *)
  frameRead,  (* whether the map's frame is last_pid/last_frame: "yes", "no" *)
  score,      (* the reading of the last frame read, "none" before it       *)
  scoreAge,   (* its age                                                    *)
  predAge,    (* since last_predicted_ms, else first_map_ms                 *)
  upAge,      (* since mask_started_ms, up to Grace                         *)
  active,     (* detector.active: "1" or "0"                                *)
  positives,
  quiet,      (* since quiet_since, -1 when it is not set                   *)
  file,       (* /tmp/motion.state                                          *)
  unwritten,  (* state_pending: "yes" or "no"                               *)
  telemetry,  (* until the next telemetry                                   *)
  faults,
  calm,       (* history: since the reading in force last showed motion or  *)
              (* was missing, up to Quiet                                   *)
  grounds,    (* history: "usable" if a whole-frame reading or a predicted  *)
              (* frame is among the quiet ones since then, else "none"      *)
  blind       (* history: idle passes in a row with strong whole-frame      *)
              (* motion and no new predicted frame in the map, up to Limit  *)

encoder  == <<rmm, gen, frame, mapAge>>
mask     == <<shared, mapRetry, frameRead, score, scoreAge, predAge, upAge>>
detector == <<active, positives, quiet>>
state    == <<file, unwritten, telemetry>>
history  == <<calm, grounds, blind>>
vars == <<at, ve, veRetry, encoder, asked, mask, seen, detector, state, faults, history>>

Readings == {"strong", "weak", "quiet"}  (* >= trigger, between, <= release *)
Never    == AllKey + 2                   (* predAge before the first map    *)
Limit    == AllKey + Stale + Confirm
            + (IF Stale > Grace + Confirm THEN Stale ELSE Grace + Confirm)

UpTo(n, bound) == IF n > bound THEN bound ELSE n
Less(n, d)     == IF n > d THEN n - d ELSE 0
Older(age, d, bound) == UpTo(age + d, bound)

(* A process that has just started: motion_detector and motion_mask.       *)
Fresh ==
  /\ at = "sample" /\ ve = "none" /\ veRetry = 0 /\ seen = "unavailable"
  /\ shared = "none" /\ mapRetry = 0 /\ frameRead = "no"
  /\ score = "none" /\ scoreAge = 0 /\ predAge = Never /\ upAge = 0
  /\ active = "0" /\ positives = 0 /\ quiet = -1
  /\ telemetry = 0 /\ calm = 0 /\ grounds = "none" /\ blind = 0

Init ==
  /\ Fresh
  /\ rmm \in {"up", "down"} /\ gen = (IF rmm = "up" THEN "zero" ELSE "absent")
  /\ frame = "quiet" /\ mapAge = 0 /\ asked = "no"
  /\ file = "0" /\ unwritten = "no" /\ faults = 0

Fault == faults < MaxFaults /\ faults' = faults + 1

-----------------------------------------------------------------------------
(* The encoder.  It publishes for a reader that asked, and never waits.    *)

PublishBegin ==
  /\ rmm = "up" /\ asked = "yes" /\ gen \in {"zero", "even"}
  /\ gen' = "odd"
  /\ UNCHANGED <<at, ve, veRetry, rmm, frame, mapAge, asked, mask, seen, detector>>
  /\ UNCHANGED <<state, faults, history>>

(* A frame that is complete after the pass read its clock is newer than it. *)
PublishEnd ==
  /\ rmm = "up" /\ gen = "odd"
  /\ gen' = "even"
  /\ frame' \in Readings \cup {"key"}
  /\ mapAge' \in IF at = "mask" THEN {-1, 0} ELSE {0}
  /\ frameRead' = "no"
  /\ UNCHANGED <<at, ve, veRetry, rmm, asked, shared, mapRetry, score, scoreAge, predAge>>
  /\ UNCHANGED <<upAge, seen, detector, state, faults, history>>

RmmExit ==
  /\ rmm = "up" /\ Fault
  /\ rmm' = "down"
  /\ UNCHANGED <<at, ve, veRetry, gen, frame, mapAge, asked, mask, seen, detector>>
  /\ UNCHANGED <<state, history>>

(* initialize_map clears the file that the detector may have mapped.       *)
RmmStart ==
  /\ rmm = "down"
  /\ rmm' = "up" /\ gen' = "zero" /\ asked' = "no"
  /\ UNCHANGED <<at, ve, veRetry, frame, mapAge, mask, seen, detector, state, faults, history>>

-----------------------------------------------------------------------------
(* One pass of the loop.                                                   *)

(* read_stats: not before the retry time, and then with an answer (which   *)
(* may be out of range), without one, or held back because memory is       *)
(* fragmented.                                                             *)
ReadStats ==
  /\ at = "sample"
  /\ \/ veRetry > 0 /\ ve' = "none" /\ UNCHANGED veRetry
     \/ veRetry = 0 /\ ve' \in Readings \cup {"none"} /\ UNCHANGED veRetry
     \/ veRetry = 0 /\ ve' = "none" /\ veRetry' \in {VeRetry, VePressure}
  /\ at' = "mask"
  /\ UNCHANGED <<encoder, asked, mask, seen, detector, state, faults, history>>

(* A snapshot from this pass's past and no older than 500 ms.              *)
Usable(age) == age >= 0 /\ age <= Stale

(* The end of motion_mask_read when no attempt got a usable snapshot.      *)
KeepLast == IF score # "none" /\ Usable(scoreAge) THEN "same" ELSE "unavailable"

(* Mutant: every frame counts as predicted.                                *)
PredictedAnyway == 0
(* last_predicted_ms, else first_map_ms, after this snapshot.              *)
Predicted == IF frame # "key" \/ predAge = Never THEN 0 ELSE predAge

(* motion_mask_score: a full I frame shows no motion.                      *)
Scored == IF frame = "key" THEN "quiet" ELSE frame

(* motion_mask_read without a map: it is opened at most once a second.     *)
MaskClosed ==
  /\ at = "mask" /\ shared = "none" /\ (mapRetry > 0 \/ gen = "absent")
  /\ seen' = "unavailable" /\ at' = "update"
  /\ mapRetry' = IF mapRetry > 0 THEN mapRetry ELSE Second
  /\ UNCHANGED <<ve, veRetry, encoder, asked, shared, frameRead, score, scoreAge, predAge>>
  /\ UNCHANGED <<upAge, detector, state, faults, history>>

(* motion_mask_read with one: the reader asks for publication, then looks. *)
MaskRead ==
  /\ at = "mask" /\ (shared = "open" \/ (mapRetry = 0 /\ gen # "absent"))
  /\ shared' = "open" /\ asked' = "yes" /\ at' = "update"
  /\ mapRetry' = IF shared = "open" THEN mapRetry ELSE Second
  /\ \/ /\ gen # "even" \/ ~Usable(mapAge)
        /\ seen' = KeepLast
        /\ UNCHANGED <<frameRead, score, scoreAge, predAge>>
     \/ /\ gen = "even" /\ Usable(mapAge)
        /\ predAge' = Predicted
        /\ \/ /\ Predicted > AllKey
              /\ seen' = "unavailable"
              /\ UNCHANGED <<frameRead, score, scoreAge>>
           \/ /\ Predicted <= AllKey
              /\ seen' = IF frameRead = "yes" THEN "same" ELSE IF frame = "key" THEN "key" ELSE "fresh"
              /\ score' = Scored
              /\ scoreAge' = mapAge /\ frameRead' = "yes"
  /\ UNCHANGED <<ve, veRetry, encoder, upAge, detector, state, faults, history>>

(* What motion_update is given.  A map that is unavailable yields to the   *)
(* whole frame, except before the first map of a process.                  *)
Observation ==
  IF seen = "same" THEN "skip"
  ELSE IF ve = "none" THEN "none"
  ELSE IF seen \in {"fresh", "key"} THEN score
  ELSE IF score # "none" \/ upAge = Grace THEN ve
  ELSE "none"

(* Mutant: a missing sample leaves the quiet period running.               *)
MissingKeepsQuiet == positives' = 0 /\ UNCHANGED <<active, quiet>>
(* motion_update without a usable sample.                                  *)
Missing == positives' = 0 /\ quiet' = -1 /\ UNCHANGED active

(* Mutant: one confirmation too many.                                      *)
IdleUpdateLate(o) ==
  LET votes == IF o = "strong" THEN positives + 1 ELSE 0
  IN \/ votes <= Confirm /\ positives' = votes /\ UNCHANGED <<active, quiet>>
     \/ votes > Confirm /\ positives' = votes /\ active' = "1" /\ quiet' = -1
(* motion_update while idle.                                               *)
IdleUpdate(o) ==
  LET votes == IF o = "strong" THEN positives + 1 ELSE 0
  IN \/ votes < Confirm /\ positives' = votes /\ UNCHANGED <<active, quiet>>
     \/ votes >= Confirm /\ positives' = votes /\ active' = "1" /\ quiet' = -1

(* motion_update during a motion.                                          *)
ActiveUpdate(o) ==
  LET elapsed == IF quiet = -1 THEN 0 ELSE quiet
  IN \/ o # "quiet" /\ quiet' = -1 /\ UNCHANGED <<active, positives>>
     \/ o = "quiet" /\ elapsed < Quiet /\ quiet' = elapsed /\ UNCHANGED <<active, positives>>
     \/ o = "quiet" /\ elapsed >= Quiet /\ active' = "0" /\ positives' = 0 /\ quiet' = -1

MotionUpdate(o) ==
  \/ o = "none" /\ Missing
  \/ o # "none" /\ active = "0" /\ IdleUpdate(o)
  \/ o # "none" /\ active = "1" /\ ActiveUpdate(o)

(* Mutant: a write that failed is not remembered.                          *)
WriteStateOnce(v) ==
  \/ file' = v /\ unwritten' = "no" /\ UNCHANGED faults
  \/ Fault /\ unwritten' = "no" /\ UNCHANGED file

(* write_state: a rename, or nothing and another try with the telemetry.   *)
WriteState(v) ==
  \/ file' = v /\ unwritten' = "no" /\ UNCHANGED faults
  \/ Fault /\ unwritten' = "yes" /\ UNCHANGED file

(* The reading in force: a frame that was read before still is.            *)
InForce == IF seen = "same" THEN score ELSE Observation

Watched ==
  /\ calm' = IF InForce = "quiet" THEN calm ELSE 0
  /\ grounds' = IF InForce # "quiet" THEN "none"
                ELSE IF seen \in {"fresh", "unavailable"} THEN "usable" ELSE grounds
  /\ blind' = IF active' = "0" /\ ve = "strong" /\ seen # "fresh"
              THEN UpTo(blind + 1, Limit) ELSE 0

Update ==
  /\ at = "update"
  /\ IF Observation = "skip" THEN UNCHANGED detector ELSE MotionUpdate(Observation)
  /\ IF active' # active THEN WriteState(active') ELSE UNCHANGED <<file, unwritten, faults>>
  /\ Watched
  /\ at' = "publish"
  /\ UNCHANGED <<ve, veRetry, encoder, asked, mask, seen, telemetry>>

(* Mutant: a state that could not be written is not written again.         *)
TelemetryOnly ==
  /\ at = "publish"
  /\ telemetry' = IF telemetry > 0 THEN telemetry ELSE Second
  /\ at' = "sleep"
  /\ UNCHANGED <<ve, veRetry, encoder, asked, mask, seen, detector, file, unwritten>>
  /\ UNCHANGED <<faults, history>>

(* Once a second, with the telemetry, a state that could not be written is *)
(* written again.                                                          *)
Telemetry ==
  /\ at = "publish"
  /\ IF telemetry = 0 /\ unwritten = "yes" THEN WriteState(active)
     ELSE UNCHANGED <<file, unwritten, faults>>
  /\ telemetry' = IF telemetry > 0 THEN telemetry ELSE Second
  /\ at' = "sleep"
  /\ UNCHANGED <<ve, veRetry, encoder, asked, mask, seen, detector, history>>

(* nanosleep, which may return late.                                       *)
Sleep ==
  /\ at = "sleep"
  /\ \E d \in 1..MaxGap :
       /\ veRetry' = Less(veRetry, d) /\ mapRetry' = Less(mapRetry, d)
       /\ telemetry' = Less(telemetry, d)
       /\ mapAge' = Older(mapAge, d, Stale + 1) /\ scoreAge' = Older(scoreAge, d, Stale + 1)
       /\ predAge' = IF predAge = Never THEN Never ELSE Older(predAge, d, AllKey + 1)
       /\ upAge' = Older(upAge, d, Grace)
       /\ quiet' = IF quiet = -1 THEN -1 ELSE Older(quiet, d, Quiet)
       /\ calm' = Older(calm, d, Quiet)
  /\ at' = "sample" /\ ve' = "none" /\ seen' = "unavailable"
  /\ UNCHANGED <<rmm, gen, frame, asked, shared, frameRead, score, active, positives>>
  /\ UNCHANGED <<file, unwritten, faults, grounds, blind>>

-----------------------------------------------------------------------------
(* SIGTERM is seen at the top of the loop; SIGKILL at any point.  Nothing  *)
(* of the process's memory is left.                                        *)

Gone ==
  /\ at' = "down" /\ ve' = "none" /\ veRetry' = 0 /\ seen' = "unavailable"
  /\ shared' = "none" /\ mapRetry' = 0 /\ frameRead' = "no"
  /\ score' = "none" /\ scoreAge' = 0 /\ predAge' = Never /\ upAge' = 0
  /\ active' = "0" /\ positives' = 0 /\ quiet' = -1
  /\ unwritten' = "no" /\ telemetry' = 0 /\ calm' = 0 /\ grounds' = "none" /\ blind' = 0
  /\ UNCHANGED encoder

Exit ==
  /\ at = "sample" /\ Fault
  /\ Gone
  /\ file' \in {"0", file}
  /\ asked' = IF shared = "open" THEN "no" ELSE asked

Kill ==
  /\ at # "down" /\ Fault
  /\ Gone
  /\ UNCHANGED <<file, asked>>

Restart ==
  /\ at = "down"
  /\ at' = "sample"
  /\ WriteState("0")
  /\ UNCHANGED <<ve, veRetry, encoder, asked, mask, seen, detector, telemetry, history>>

-----------------------------------------------------------------------------
Pass == ReadStats \/ MaskClosed \/ MaskRead \/ Update \/ Telemetry \/ Sleep
Encoder == PublishBegin \/ PublishEnd \/ RmmStart
Next == Pass \/ Encoder \/ RmmExit \/ Exit \/ Kill \/ Restart

Spec == Init /\ [][Next]_vars

(* The loop runs and the service starts it again; nothing makes the        *)
(* encoder publish or the scene move.                                      *)
FairSpec == Spec /\ WF_vars(Pass) /\ WF_vars(Restart)

-----------------------------------------------------------------------------
(* Type correctness.                                                       *)
TypeOK ==
  /\ at \in {"sample", "mask", "update", "publish", "sleep", "down"}
  /\ ve \in Readings \cup {"none"} /\ veRetry \in Nat
  /\ rmm \in {"up", "down"} /\ gen \in {"absent", "zero", "odd", "even"}
  /\ frame \in Readings \cup {"key"} /\ mapAge \in -1..(Stale + 1) /\ asked \in {"yes", "no"}
  /\ shared \in {"open", "none"} /\ mapRetry \in 0..Second
  /\ seen \in {"fresh", "key", "same", "unavailable"} /\ frameRead \in {"yes", "no"}
  /\ score \in Readings \cup {"none"} /\ scoreAge \in 0..(Stale + 1)
  /\ predAge \in 0..Never /\ upAge \in 0..Grace
  /\ active \in {"0", "1"} /\ positives \in 0..Confirm /\ quiet \in -1..Quiet
  /\ active = "0" => positives < Confirm
  /\ file \in {"0", "1"} /\ unwritten \in {"yes", "no"} /\ telemetry \in 0..Second
  /\ faults \in 0..MaxFaults /\ calm \in 0..Quiet
  /\ grounds \in {"usable", "none"} /\ blind \in 0..Limit

(* A STOP is made only after a whole quiet delay in which no reading in    *)
(* force showed motion and none was missing, whichever source it came from *)
(* and however often the source changed (motion_tuning.h:47).              *)
QuietBeforeStop == [][active = "1" /\ active' = "0" => calm' = Quiet \/ at' = "down"]_vars

(* What makes it inductive: the quiet period is not older than the calm,   *)
(* and the last frame read does not show motion unless it ended the quiet  *)
(* period, is about to, or is too old to be in force again.                *)
Loud == score \in {"strong", "weak"} /\ scoreAge <= Stale
QuietInv ==
  /\ quiet <= calm
  /\ active = "0" => quiet = -1
  /\ shared = "none" => score = "none"
  /\ frameRead = "yes" => score = Scored /\ scoreAge = mapAge
  /\ Loud => predAge <= scoreAge
  /\ at = "update" /\ seen = "same" => score # "none" /\ scoreAge <= Stale
  /\ Loud /\ at # "update" => quiet = -1
  /\ Loud /\ at = "update" => seen = "fresh" \/ (seen = "same" /\ quiet = -1)

(* A map that is stale, half written, or holds only key frames cannot keep *)
(* strong whole-frame motion from being detected for longer than its       *)
(* timeouts add up to (motion_mask.h:114, motiond.c:473).                  *)
NotBlinded == blind < Limit

(* A motion is not ended by key frames alone, which show nothing           *)
(* (motion_mask.h:114).                                                    *)
NotStoppedByKeys ==
  [][active = "1" /\ active' = "0" => grounds' = "usable" \/ at' = "down"]_vars

(* While motiond runs the state file says what it decided, or is           *)
(* still to be written.                                                    *)
FileAgrees == at # "down" => file = active \/ unwritten = "yes"

(* A settled detector is a settled state file, whatever writes, exits and  *)
(* kills came before.                                                      *)
FileFollows == \A v \in {"0", "1"} : <>[](active = v) => <>[](file = v)
=============================================================================
