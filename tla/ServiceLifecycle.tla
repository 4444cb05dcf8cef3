-------------------------- MODULE ServiceLifecycle --------------------------
(***************************************************************************)
(* The local motion detector (motiond), the recorder (mp4record) and the   *)
(* collector of motion events (ipc2file) that both need, as                *)
(* motion_service.sh, service.sh, the watchdog and the settings page start *)
(* and stop them on a y623 with a card.  Every operation runs under a lock *)
(* that it does not wait for, and calls others: motion takes motion, then  *)
(* the recorder's, then the collector's.  ONVIF is a caller of the         *)
(* collector's two operations.  Memory for restarts is available.          *)
(***************************************************************************)
EXTENDS Naturals, Sequences, FiniteSets

CONSTANTS
    Clients,             \* CGI processes and the boot script
    Watchdog,            \* wd.sh
    Programs,            \* what clients ask for
    Config,              \* the configurations considered
    Slow,                \* a daemon may take longer than the two seconds its starter waits
    MaxOps, MaxFaults    \* bounds

Daemons == {"motiond", "mp4record", "ipc2file"}
Locks == {"motion", "record", "events"}
Procs == Clients \cup {Watchdog}

\* The constants of an instance.
LifecycleAssumption ==
    /\ Slow \in BOOLEAN /\ MaxOps \in Nat /\ MaxFaults \in Nat /\ "none" \notin Procs
    /\ Config \subseteq [motion : BOOLEAN, save : BOOLEAN, rec : BOOLEAN]

VARIABLES
    cfg,     \* MOTION_DETECTION, SAVE_VIDEO_ON_MOTION, REC_WITHOUT_CLOUD
    coming,  \* how many of a daemon are forked and not yet visible to ps
    up,      \* how many are visible
    going,   \* how many are visible and terminating
    owner,   \* OWNERFILE: motion detection started the recorder
    lock,    \* per lock, who holds it, or "none"
    stack,   \* per process the operations it is in, innermost first: <<operation, next step>>
    rc,      \* per process the status of the last operation: "ok", "busy" or "fail"
    off,     \* a change that disabled motion detection was applied, and reported so
    round,   \* the watchdog's next check
    ops, faults  \* bounds

vars == <<cfg, coming, up, going, owner, lock, stack, rc, off, round, ops, faults>>

Count(d) == up[d] + going[d]

Init ==
    /\ cfg \in Config
    /\ coming = [d \in Daemons |-> 0] /\ up = coming /\ going = coming
    /\ owner = FALSE /\ off = FALSE
    /\ lock = [l \in Locks |-> "none"]
    /\ stack = [p \in Procs |-> <<>>]
    /\ rc = [p \in Procs |-> "ok"]
    /\ round = "motion" /\ ops = 0 /\ faults = 0

-----------------------------------------------------------------------------
(* The control of a process                                                *)
At(p, op, step) == stack[p] # <<>> /\ Head(stack[p]) = <<op, step>>

Goto(p, step) == stack' = [stack EXCEPT ![p][1] = <<@[1], step>>]

\* Continue at step once the operation op has returned.
Call(p, op, step) == stack' = [stack EXCEPT ![p] = <<<<op, "lock">>, <<Head(@)[1], step>>>> \o Tail(@)]

LockOf(op) ==
    CASE op \in {"motion", "motionstop"} -> "motion"
      [] op \in {"rec", "recstop"} -> "record"
      [] OTHER -> "events"

Release(p, op) == IF lock[LockOf(op)] = p THEN [lock EXCEPT ![LockOf(op)] = "none"] ELSE lock

Return(p, status) ==
    /\ stack' = [stack EXCEPT ![p] = Tail(@)]
    /\ rc' = [rc EXCEPT ![p] = status]
    /\ lock' = Release(p, Head(stack[p])[1])

daemons == <<coming, up, going>>
outer == <<cfg, off, round, ops, faults>>

\* A bounded wait ends with what is awaited, or, for a slow daemon, without it.
Await(seen) ==
    /\ IF seen THEN UNCHANGED faults ELSE Slow /\ faults < MaxFaults /\ faults' = faults + 1
    /\ UNCHANGED <<cfg, off, round, ops>>

\* yi_lock: bound or busy, never waited for.
TakeLock(p, op) ==
    /\ At(p, op, "lock")
    /\ IF lock[LockOf(op)] = "none"
       THEN lock' = [lock EXCEPT ![LockOf(op)] = p] /\ Goto(p, "go") /\ UNCHANGED rc
       ELSE Return(p, "busy")
    /\ UNCHANGED <<daemons, owner>> /\ UNCHANGED outer

-----------------------------------------------------------------------------
(* ensure_ipc_events and stop_unused_ipc_events                            *)
Ready == Count("ipc2file") = 1

\* A healthy collector is kept; others are killed before one is started.
EventsGo(p) ==
    /\ At(p, "events", "go")
    /\ IF Ready THEN Return(p, "ok") /\ UNCHANGED daemons
       ELSE /\ up' = [up EXCEPT !["ipc2file"] = 0] /\ going' = [going EXCEPT !["ipc2file"] = 0]
            /\ Goto(p, "start") /\ UNCHANGED <<coming, rc, lock>>
    /\ UNCHANGED owner /\ UNCHANGED outer

EventsStart(p) ==
    /\ At(p, "events", "start")
    /\ up' = [up EXCEPT !["ipc2file"] = @ + 1]
    /\ Goto(p, "check")
    /\ UNCHANGED <<coming, going, rc, lock, owner>> /\ UNCHANGED outer

EventsCheck(p) ==
    /\ At(p, "events", "check")
    /\ Return(p, IF Ready THEN "ok" ELSE "fail")
    /\ UNCHANGED <<daemons, owner>> /\ UNCHANGED outer

UnusedGo(p) ==
    /\ At(p, "unused", "go")
    /\ IF cfg.motion \/ cfg.rec \/ Count("mp4record") > 0 THEN Return(p, "ok")
       ELSE Goto(p, "kill") /\ UNCHANGED <<rc, lock>>
    /\ UNCHANGED <<daemons, owner>> /\ UNCHANGED outer

Terminate(d) == going' = [going EXCEPT ![d] = @ + up[d]] /\ up' = [up EXCEPT ![d] = 0]

UnusedKill(p) ==
    /\ At(p, "unused", "kill")
    /\ Terminate("ipc2file") /\ UNCHANGED coming
    /\ Return(p, "ok")
    /\ UNCHANGED owner /\ UNCHANGED outer

-----------------------------------------------------------------------------
(* service.sh mp4record start and stop                                     *)
RecGo(p) ==
    /\ At(p, "rec", "go")
    /\ Call(p, "events", "count")
    /\ UNCHANGED <<daemons, owner, lock, rc>> /\ UNCHANGED outer

RecCount(p) ==
    /\ At(p, "rec", "count")
    /\ IF rc[p] # "ok" THEN Return(p, "fail") /\ UNCHANGED coming
       ELSE IF Count("mp4record") = 0
       THEN /\ coming' = [coming EXCEPT !["mp4record"] = @ + 1]
            /\ Goto(p, "spawned") /\ UNCHANGED <<rc, lock>>
       ELSE Goto(p, "wait") /\ UNCHANGED <<coming, rc, lock>>
    /\ UNCHANGED <<up, going, owner>> /\ UNCHANGED outer

\* Until the recorder is seen, two seconds at most.
RecWait(p) ==
    /\ At(p, "rec", "spawned") \/ At(p, "rec", "wait")
    /\ Await(coming["mp4record"] = 0 \/ Count("mp4record") > 0)
    /\ Return(p, IF Count("mp4record") > 0 THEN "ok" ELSE "fail")
    /\ UNCHANGED <<daemons, owner>>

RecStopGo(p) ==
    /\ At(p, "recstop", "go")
    /\ Terminate("mp4record") /\ UNCHANGED coming
    /\ Goto(p, "wait")
    /\ UNCHANGED <<owner, lock, rc>> /\ UNCHANGED outer

RecStopWait(p) ==
    /\ At(p, "recstop", "wait")
    /\ Await(going["mp4record"] = 0)
    /\ Return(p, IF Count("mp4record") = 0 THEN "ok" ELSE "fail")
    /\ UNCHANGED <<daemons, owner>>

-----------------------------------------------------------------------------
(* start_motion and stop_motion                                            *)
\* stop_motiond: TERM, then KILL, to every visible instance.
KillDetectors ==
    /\ up' = [up EXCEPT !["motiond"] = 0] /\ going' = [going EXCEPT !["motiond"] = 0]
    /\ UNCHANGED coming

MotionGo(p) ==
    /\ At(p, "motion", "go")
    /\ KillDetectors
    /\ Goto(p, "config")
    /\ UNCHANGED <<owner, lock, rc>> /\ UNCHANGED outer

\* MUTANT: what the caller knew of the configuration is used.
MotionConfigStale(p) ==
    /\ At(p, "motion", "config")
    /\ IF cfg.motion \/ p = Watchdog THEN Call(p, "events", "record") ELSE Goto(p, "disown")
    /\ UNCHANGED <<daemons, owner, lock, rc>> /\ UNCHANGED outer

MotionConfig(p) ==
    /\ At(p, "motion", "config")
    /\ IF cfg.motion THEN Call(p, "events", "record") ELSE Goto(p, "disown")
    /\ UNCHANGED <<daemons, owner, lock, rc>> /\ UNCHANGED outer

\* ensure_single_mp4record, or stop_owned_mp4record when clips are not wanted.
MotionRecord(p) ==
    /\ At(p, "motion", "record")
    /\ \/ rc[p] # "ok" /\ Return(p, "fail") /\ UNCHANGED owner
       \/ rc[p] = "ok" /\ ~cfg.save /\ Goto(p, "disownstart") /\ UNCHANGED <<owner, lock, rc>>
       \/ rc[p] = "ok" /\ cfg.save /\ Count("mp4record") > 1
          /\ Call(p, "recstop", "again") /\ UNCHANGED <<owner, lock, rc>>
       \/ rc[p] = "ok" /\ cfg.save /\ Count("mp4record") = 0
          /\ Call(p, "rec", "single") /\ UNCHANGED <<owner, lock, rc>>
       \/ rc[p] = "ok" /\ cfg.save /\ Count("mp4record") = 1
          /\ owner' = (owner /\ ~cfg.rec) /\ Goto(p, "detector") /\ UNCHANGED <<lock, rc>>
    /\ UNCHANGED daemons /\ UNCHANGED outer

MotionAgain(p) ==
    /\ At(p, "motion", "again")
    /\ IF Count("mp4record") > 1 THEN Return(p, "fail") /\ UNCHANGED owner
       ELSE IF Count("mp4record") = 0 THEN Call(p, "rec", "single") /\ UNCHANGED <<owner, lock, rc>>
       ELSE owner' = (owner /\ ~cfg.rec) /\ Goto(p, "detector") /\ UNCHANGED <<lock, rc>>
    /\ UNCHANGED daemons /\ UNCHANGED outer

MotionSingle(p) ==
    /\ At(p, "motion", "single")
    /\ IF Count("mp4record") = 1
       THEN owner' = (owner \/ ~cfg.rec) /\ Goto(p, "detector") /\ UNCHANGED <<lock, rc>>
       ELSE Return(p, "fail") /\ UNCHANGED owner
    /\ UNCHANGED daemons /\ UNCHANGED outer

\* stop_owned_mp4record: the recorder's stop, whose status is not looked at.
Disown(p) ==
    /\ At(p, "motion", "disown") \/ At(p, "motion", "disownstart") \/ At(p, "motionstop", "disown")
    /\ LET next == IF Head(stack[p])[2] = "disownstart" THEN "disownedstart" ELSE "disowned"
       IN  IF owner /\ ~cfg.rec THEN Call(p, "recstop", next) ELSE Goto(p, next)
    /\ UNCHANGED <<daemons, owner, lock, rc>> /\ UNCHANGED outer

Disowned(p) ==
    /\ \/ At(p, "motion", "disownedstart") /\ Goto(p, "detector") /\ UNCHANGED <<lock, rc, off>>
       \/ At(p, "motion", "disowned") /\ Return(p, "ok") /\ off' = (off \/ ~cfg.motion)
       \/ At(p, "motionstop", "disowned") /\ Return(p, "ok") /\ UNCHANGED off
    /\ owner' = FALSE
    /\ UNCHANGED <<daemons, cfg, round, ops, faults>>

MotionDetector(p) ==
    /\ At(p, "motion", "detector")
    /\ coming' = [coming EXCEPT !["motiond"] = @ + 1]
    /\ Goto(p, "observe")
    /\ UNCHANGED <<up, going, owner, lock, rc>> /\ UNCHANGED outer

\* Not seen in time, only its logger is killed; motiond ignores SIGPIPE.
MotionObserve(p) ==
    /\ At(p, "motion", "observe")
    /\ Await(coming["motiond"] = 0 \/ Count("motiond") > 0)
    /\ Return(p, IF Count("motiond") > 0 THEN "ok" ELSE "fail")
    /\ UNCHANGED <<daemons, owner>>

MotionStopGo(p) ==
    /\ At(p, "motionstop", "go")
    /\ KillDetectors
    /\ Goto(p, "disown")
    /\ UNCHANGED <<owner, lock, rc>> /\ UNCHANGED outer

-----------------------------------------------------------------------------
(* The callers                                                             *)
\* The settings page saves and restarts motion detection; the service page
\* runs one operation.
Ask(c, op) ==
    /\ stack[c] = <<>> /\ ops < MaxOps
    /\ ops' = ops + 1
    /\ IF op = "motion"
       THEN \E new \in Config : cfg' = new /\ off' = (off /\ new = cfg)
       ELSE UNCHANGED <<cfg, off>>
    /\ stack' = [stack EXCEPT ![c] = <<<<op, "lock">>>>]
    /\ UNCHANGED <<daemons, owner, lock, rc, round, faults>>

Begin(op) == stack' = [stack EXCEPT ![Watchdog] = <<<<op, "lock">>>>]

\* check_motion
CheckMotion ==
    /\ stack[Watchdog] = <<>> /\ round = "motion"
    /\ round' = "aux"
    /\ IF cfg.motion /\ Count("motiond") # 1 THEN Begin("motion") ELSE UNCHANGED stack
    /\ UNCHANGED <<cfg, daemons, owner, lock, rc, off, ops, faults>>

\* MUTANT: a collector is restored for motion detection only.
CheckAuxMotion ==
    /\ stack[Watchdog] = <<>> /\ round = "aux"
    /\ round' = "motion"
    /\ IF cfg.motion /\ ~Ready THEN Begin("events") ELSE UNCHANGED stack
    /\ UNCHANGED <<cfg, daemons, owner, lock, rc, off, ops, faults>>

\* process_count of wd.sh, which also counts a running "service.sh mp4record".
RecorderSeen ==
    \/ Count("mp4record") > 0
    \/ \E p \in Procs : \E i \in 1..Len(stack[p]) : stack[p][i][1] \in {"rec", "recstop"}

\* check_aux_services: at most one restart in a pass.
CheckAux ==
    /\ stack[Watchdog] = <<>> /\ round = "aux"
    /\ round' = "motion"
    /\ IF cfg.rec /\ ~RecorderSeen THEN Begin("rec")
       ELSE IF (cfg.rec \/ cfg.motion \/ RecorderSeen) /\ ~Ready THEN Begin("events")
       ELSE UNCHANGED stack
    /\ UNCHANGED <<cfg, daemons, owner, lock, rc, off, ops, faults>>

-----------------------------------------------------------------------------
(* Daemons and faults                                                      *)
Appear(d) ==
    /\ coming[d] > 0
    /\ coming' = [coming EXCEPT ![d] = @ - 1] /\ up' = [up EXCEPT ![d] = @ + 1]
    /\ UNCHANGED <<cfg, going, owner, lock, stack, rc, off, round, ops, faults>>

Vanish(d) ==
    /\ going[d] > 0
    /\ going' = [going EXCEPT ![d] = @ - 1]
    /\ UNCHANGED <<cfg, coming, up, owner, lock, stack, rc, off, round, ops, faults>>

\* The kernel reclaims memory, or a daemon crashes.
OomKill(d) ==
    /\ up[d] > 0 /\ faults < MaxFaults
    /\ up' = [up EXCEPT ![d] = @ - 1]
    /\ faults' = faults + 1
    /\ UNCHANGED <<cfg, coming, going, owner, lock, stack, rc, off, round, ops>>

Spawned(p) ==
    IF stack[p] = <<>> THEN {}
    ELSE IF Head(stack[p]) = <<"rec", "spawned">> THEN {"mp4record"}
    ELSE IF Head(stack[p]) = <<"motion", "observe">> THEN {"motiond"} ELSE {}

\* The guard ends an operation after 20 seconds, with what it has just started.
GuardKill(p) ==
    /\ stack[p] # <<>> /\ faults < MaxFaults
    /\ stack' = [stack EXCEPT ![p] = <<>>]
    /\ rc' = [rc EXCEPT ![p] = "fail"]
    /\ lock' = [l \in Locks |-> IF lock[l] = p THEN "none" ELSE lock[l]]
    /\ coming' = [d \in Daemons |-> IF d \in Spawned(p) THEN 0 ELSE coming[d]]
    /\ going' = [d \in Daemons |-> IF d \in Spawned(p) THEN Count(d) ELSE going[d]]
    /\ up' = [d \in Daemons |-> IF d \in Spawned(p) THEN 0 ELSE up[d]]
    /\ faults' = faults + 1
    /\ UNCHANGED <<cfg, owner, off, round, ops>>

-----------------------------------------------------------------------------
Ops == {"events", "unused", "rec", "recstop", "motion", "motionstop"}

Step(p) ==
    \/ \E op \in Ops : TakeLock(p, op)
    \/ EventsGo(p) \/ EventsStart(p) \/ EventsCheck(p) \/ UnusedGo(p) \/ UnusedKill(p)
    \/ RecGo(p) \/ RecCount(p) \/ RecWait(p) \/ RecStopGo(p) \/ RecStopWait(p)
    \/ MotionGo(p) \/ MotionConfig(p) \/ MotionRecord(p) \/ MotionAgain(p) \/ MotionSingle(p)
    \/ Disown(p) \/ Disowned(p) \/ MotionDetector(p) \/ MotionObserve(p) \/ MotionStopGo(p)

Check == CheckMotion \/ CheckAux

Next ==
    \/ \E p \in Procs : Step(p) \/ GuardKill(p)
    \/ \E c \in Clients, op \in Programs : Ask(c, op)
    \/ Check
    \/ \E d \in Daemons : Appear(d) \/ Vanish(d) \/ OomKill(d)

Fairness ==
    /\ \A p \in Procs : WF_vars(Step(p))
    /\ WF_vars(Check)
    /\ \A d \in Daemons : WF_vars(Appear(d)) /\ WF_vars(Vanish(d))

Spec == Init /\ [][Next]_vars /\ Fairness

-----------------------------------------------------------------------------
(* service.sh:523, "mp4record is not internally singleton-safe. Never      *)
(* start a duplicate", and motion_service.sh:244: in any interleaving of   *)
(* callers there is one recorder and one collector, the ones that are      *)
(* still starting or ending included, and one detector that is not ending. *)
Singletons ==
    /\ coming["mp4record"] + Count("mp4record") <= 1
    /\ up["ipc2file"] <= 1
    /\ coming["motiond"] + up["motiond"] <= 1

(* Once the settings page has been told that motion detection is off, no   *)
(* watchdog pass or start that was under way brings the detector back      *)
(* (motion_service.sh:416).                                                *)
MotionStaysOff == off => coming["motiond"] + Count("motiond") = 0

(* SERVICE_SERIALIZATION.md:56, a caller that gets 75 "must not interpret  *)
(* it as successful mutation": the ownership of a recorder is given up     *)
(* only with the recorder, or when it is to run anyway.                    *)
OwnershipKept ==
    [][owner /\ ~owner' => cfg.rec \/ up["mp4record"] = 0]_vars

(* MOTION_METADATA.md:15, "Recording and both motion backends start this   *)
(* shared consumer before they need it": a recorder becomes visible when   *)
(* a collector runs.                                                       *)
CollectorFirst ==
    [][up'["mp4record"] > up["mp4record"] => up["ipc2file"] > 0]_vars

(* MOTION_METADATA.md:17, "The existing watchdog restores a missing        *)
(* consumer".                                                              *)
CollectorRestored == up["mp4record"] > 0 ~> (up["ipc2file"] = 1 \/ up["mp4record"] = 0)

(* OPTIMIZATIONS.md:337, "the watchdog is responsible for bringing         *)
(* configured services back": detection that is configured runs, whoever   *)
(* was in whose way and whatever was killed.                               *)
MotionRestored == cfg.motion ~> (up["motiond"] = 1 \/ ~cfg.motion)

(* ... and so does continuous recording,                                   *)
RecorderRestored == cfg.rec ~> (up["mp4record"] = 1 \/ ~cfg.rec)

(* ... and the recording of motion.                                        *)
MotionRecorded ==
    (cfg.motion /\ cfg.save) ~> (up["mp4record"] = 1 \/ ~(cfg.motion /\ cfg.save))
===============================================================================
