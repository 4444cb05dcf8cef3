----------------------------- MODULE MCServices -----------------------------
(* Who starts and stops the services: the guard of a worker (ServiceGuard), *)
(* the reset button (ResetButton), and the detector, the recorder and their *)
(* collector (ServiceLifecycle).  They share no state here; part says which *)
(* one moves.                                                               *)
EXTENDS Naturals

CONSTANTS
    Hold, Settle, MaxTime, MaxErrors,  \* of the button
    Many, One, wd,                     \* sets of callers, and the watchdog
    ManyOps, FewOps, MaxKills          \* bounds of the services

VARIABLES
    part,
    g, stopped, leader, helper, joined, asked, ok, status, stray,
    now, down, ready, accept, released, press, armed, request, low, steady, long, asks, errors,
    cfg, coming, up, going, owner, lock, stack, rc, off, round, ops, faults

\* A guard under another guard, and one alone.
Inner == INSTANCE ServiceGuard WITH Nested <- TRUE
Alone == INSTANCE ServiceGuard WITH Nested <- FALSE

Button == INSTANCE ResetButton WITH faults <- errors, MaxFaults <- MaxErrors

\* The services: who calls which operations, under which configurations.
Life(Clients, Programs, Config, Slow, MaxOps, MaxFaults) == INSTANCE ServiceLifecycle WITH Watchdog <- wd

Settings(m, s, r) == [motion |-> m, save |-> s, rec |-> r]
ClipsOnly == {Settings(TRUE, TRUE, FALSE)}
AllModes  == ClipsOnly \cup {Settings(FALSE, FALSE, FALSE), Settings(TRUE, FALSE, TRUE)}
Controls  == {"motion", "motionstop", "rec", "recstop"}
AllOps    == Controls \cup {"unused", "events"}

ASSUME GuardConstants == Inner!NestedAssumption /\ Alone!NestedAssumption
ASSUME ButtonConstants == Button!ButtonAssumption
ASSUME LifeConstants ==
    /\ Life(Many, AllOps, AllModes, FALSE, ManyOps, MaxKills)!LifecycleAssumption
    /\ Life(One, AllOps, AllModes, TRUE, FewOps, MaxKills)!LifecycleAssumption

guard  == <<g, stopped, leader, helper, joined, asked, ok, status, stray>>
button == <<now, down, ready, accept, released, press, armed, request, low, steady, long, asks, errors>>
life   == <<cfg, coming, up, going, owner, lock, stack, rc, off, round, ops, faults>>
vars   == <<part, guard, button, life>>

\* A part that rests is in one of its initial states.
Init ==
    /\ part \in {"inner", "alone", "button", "killed", "changed", "both", "late"}
    /\ IF part = "alone" THEN Alone!Init ELSE Inner!Init
    /\ Button!Init /\ (part # "button" => ~down)
    /\ \/ part \in {"killed", "changed"} /\ Life(Many, AllOps, AllModes, FALSE, ManyOps, MaxKills)!Init
       \/ part \notin {"killed", "changed"} /\ Life(One, AllOps, AllModes, FALSE, FewOps, MaxKills)!Init
    /\ part \notin {"changed", "both"} => cfg \in ClipsOnly

\* Many callers and the watchdog with a kill, or with changing settings; one
\* caller with both, or with daemons that are slow to start.
Services ==
    \/ part = "killed" /\ Life(Many, Controls, ClipsOnly, FALSE, ManyOps, MaxKills)!Next
    \/ part = "changed" /\ Life(Many, AllOps, AllModes, FALSE, ManyOps, 0)!Next
    \/ part = "both" /\ Life(One, AllOps, AllModes, FALSE, FewOps, MaxKills)!Next
    \/ part = "late" /\ Life(One, {"motion", "recstop"}, ClipsOnly, TRUE, ManyOps, MaxKills)!Next

Next ==
    /\ UNCHANGED part
    /\ \/ part = "inner" /\ Inner!Next /\ UNCHANGED <<button, life>>
       \/ part = "alone" /\ Alone!Next /\ UNCHANGED <<button, life>>
       \/ part = "button" /\ Button!Next /\ UNCHANGED <<guard, life>>
       \/ Services /\ UNCHANGED <<guard, button>>

\* What goes on by itself where a liveness property is checked.
Step(p) ==
    \/ part = "both" /\ Life(One, AllOps, AllModes, FALSE, FewOps, MaxKills)!Step(p)
    \/ part = "late" /\ Life(One, AllOps, ClipsOnly, TRUE, ManyOps, MaxKills)!Step(p)
Check == part \in {"both", "late"} /\ Life(One, AllOps, AllModes, FALSE, FewOps, MaxKills)!Check
Appear(d) == part \in {"both", "late"} /\ Life(One, AllOps, AllModes, FALSE, FewOps, MaxKills)!Appear(d)
Vanish(d) == part \in {"both", "late"} /\ Life(One, AllOps, AllModes, FALSE, FewOps, MaxKills)!Vanish(d)

\* The fairness of each module, where a liveness property is checked.
Spec ==
    /\ Init /\ [][Next]_vars
    /\ WF_guard(part = "alone" /\ Alone!Guard("inner")) /\ WF_guard(part = "alone" /\ Alone!Exec("inner"))
    /\ \A p \in One \cup {wd} : WF_life(Step(p))
    /\ WF_life(Check)
    /\ \A d \in {"motiond", "mp4record", "ipc2file"} : WF_life(Appear(d)) /\ WF_life(Vanish(d))

-----------------------------------------------------------------------------
(* What is checked, each where its module states and explains it.          *)

(* No signal of a guard goes to a group whose number may be another's by   *)
(* then; a caller that is told of success knows that the worker ended by   *)
(* itself; once a guard gave up on a worker and returned, nothing of the   *)
(* worker's group runs.                                                    *)
GuardSound == Inner!OwnGroupOnly /\ Inner!StatusTrue /\ Inner!GroupEnded

ToStop  == part = "alone" /\ "inner" \in stopped
Over    == part = "alone" => leader["inner"] \notin {"fork", "run"}
GivenUp == part = "alone" /\ g["inner"] = "expired"
Empty   == part = "alone" => Alone!Alive("inner") = {}

\* A worker that no outer guard kills early ends when it is to stop, and its group with it.
AskedEnds == (ToStop ~> Over) /\ (GivenUp ~> Empty)

(* Once armed and settled, the vendor's count of pressed samples never     *)
(* grows; a whole hold of the button after the settling time, and nothing  *)
(* else, asks for the hotspot, once.                                       *)
ButtonSound ==
    [][(armed /\ accept <= now => low' <= low) /\ (Button!OneRequestPerHold /\ Button!RequestMeansHold)']_vars

(* One recorder, one collector and one detector, in any interleaving of    *)
(* callers; detection that was reported off stays off.                     *)
Singletons ==
    /\ part # "late" => Life(One, AllOps, AllModes, FALSE, FewOps, MaxKills)!Singletons
    /\ Life(One, AllOps, AllModes, FALSE, FewOps, MaxKills)!MotionStaysOff

Recording  == part = "both" /\ up["mp4record"] > 0
Collected  == part = "both" => up["ipc2file"] = 1 \/ up["mp4record"] = 0
Wanted     == part \in {"both", "late"} /\ cfg.motion
Detecting  == part \in {"both", "late"} => up["motiond"] = 1 \/ ~cfg.motion
Continuous == part = "both" /\ cfg.rec
Recorded   == part = "both" => up["mp4record"] = 1 \/ ~cfg.rec

(* A recorder without its collector gets one or ends; detection that is    *)
(* configured comes to run, also when daemons are slow to start; and so    *)
(* does continuous recording.                                              *)
ServicesRestored == (Recording ~> Collected) /\ (Wanted ~> Detecting) /\ (Continuous ~> Recorded)
===============================================================================
