---------------------------- MODULE ServiceGuard ----------------------------
(***************************************************************************)
(* service_guard.c: a guard forks its worker into a process group of its   *)
(* own and, after a deadline or a signal, sends the group TERM and a       *)
(* second later KILL.  With Nested the worker of the outer guard is a      *)
(* script that runs the inner guard (hotspot.sh under wd.sh or the         *)
(* settings page, for instance), so that the inner guard is a member of    *)
(* the outer one's group.  Time is asynchronous: the second between TERM   *)
(* and KILL may be shorter for one guard than what another one does in it. *)
(***************************************************************************)
EXTENDS Naturals, FiniteSets

CONSTANT Nested  \* the outer guard's worker runs a guard

\* The constants of an instance.
NestedAssumption == Nested \in BOOLEAN

Guards == {"outer", "inner"}
Top == IF Nested THEN "outer" ELSE "inner"

VARIABLES
    g,         \* the guards: "off", "fork", "watch", "expired", "grace", "kill", "reap", "done" or "dead"
    stopped,   \* the guards whose handler has run
    leader,    \* the child a guard has forked: "none", "fork", "run", "zombie", "reaped"
    helper,    \* what the worker starts in the background: "none", "run", "dead"
    joined,    \* the children that are in their own group
    asked,     \* the processes with a TERM they may obey: <<guard, "leader" or "helper">>
    ok,        \* the workers that ended by themselves
    status,    \* what a guard has returned: "none", "own", "signal", "124" or "128"
    stray      \* a signal went to a group whose leader's PID was free again

vars == <<g, stopped, leader, helper, joined, asked, ok, status, stray>>

Alive(x) == {p \in {"leader", "helper"} :
                IF p = "leader" THEN leader[x] \in {"fork", "run"} ELSE helper[x] = "run"}

Init ==
    /\ g = [x \in Guards |-> IF x = Top THEN "fork" ELSE "off"]
    /\ stopped = {} /\ joined = {} /\ asked = {} /\ ok = {} /\ stray = FALSE
    /\ leader = [x \in Guards |-> "none"]
    /\ helper = [x \in Guards |-> "none"]
    /\ status = [x \in Guards |-> "none"]

-----------------------------------------------------------------------------
(* Signals.  The inner guard, and its child until it has a group of its    *)
(* own, belong to the outer group.                                         *)
InGroup(x) ==
    (IF x \in joined THEN {x} \X Alive(x) ELSE {})
    \cup (IF x = "outer" /\ leader["inner"] = "fork" /\ "inner" \notin joined THEN {<<"inner", "leader">>} ELSE {})

GuardsIn(x) == {y \in Guards : x = "outer" /\ y = "inner" /\ g[y] \notin {"off", "done", "dead"}}

FreeAgain(x) == leader[x] = "reaped" /\ Alive(x) = {}

\* The child keeps the guard's handler until it has reset it: such a TERM is lost.
SendTerm(x) ==
    /\ asked' = asked \cup {p \in InGroup(x) : p[2] = "helper" \/ leader[p[1]] = "run"}
    /\ stopped' = stopped \cup GuardsIn(x)
    /\ stray' = (stray \/ FreeAgain(x))

SendKill(x) ==
    /\ leader' = [y \in Guards |-> IF <<y, "leader">> \in InGroup(x) THEN "zombie" ELSE leader[y]]
    /\ helper' = [y \in Guards |-> IF <<y, "helper">> \in InGroup(x) THEN "dead" ELSE helper[y]]
    /\ g' = [y \in Guards |-> IF y = x THEN "reap" ELSE IF y \in GuardsIn(x) THEN "dead" ELSE g[y]]
    /\ stray' = (stray \/ FreeAgain(x))

-----------------------------------------------------------------------------
(* The guard                                                               *)
Fork(x) ==
    /\ g[x] = "fork" /\ leader[x] = "none"
    /\ leader' = [leader EXCEPT ![x] = "fork"]
    /\ UNCHANGED <<g, stopped, helper, joined, asked, ok, status, stray>>

\* setpgid by the parent: EACCES and ESRCH mean that the child was faster.
Adopt(x) ==
    /\ g[x] = "fork" /\ leader[x] # "none"
    /\ joined' = joined \cup {x}
    /\ g' = [g EXCEPT ![x] = "watch"]
    /\ UNCHANGED <<stopped, leader, helper, asked, ok, status, stray>>

Collect(x) ==
    /\ g[x] = "watch" /\ leader[x] = "zombie"
    /\ leader' = [leader EXCEPT ![x] = "reaped"]
    /\ g' = [g EXCEPT ![x] = "done"]
    /\ status' = [status EXCEPT ![x] = IF x \in ok THEN "own" ELSE "signal"]
    /\ UNCHANGED <<stopped, helper, joined, asked, ok, stray>>

\* The deadline may pass at any time.
Expire(x) ==
    /\ g[x] = "watch" /\ leader[x] \in {"fork", "run"}
    /\ g' = [g EXCEPT ![x] = "expired"]
    /\ UNCHANGED <<stopped, leader, helper, joined, asked, ok, status, stray>>

\* MUTANT: the child is reaped as soon as it ends.
GraceReaps(x) ==
    /\ g[x] = "expired"
    /\ SendTerm(x)
    /\ leader' = [leader EXCEPT ![x] = IF @ = "zombie" THEN "reaped" ELSE @]
    /\ g' = [g EXCEPT ![x] = "kill"]
    /\ UNCHANGED <<helper, joined, ok, status>>

Terminate(x) ==
    /\ g[x] = "expired"
    /\ SendTerm(x)
    /\ g' = [g EXCEPT ![x] = "kill"]
    /\ UNCHANGED <<leader, helper, joined, ok, status>>

\* MUTANT: only the worker is killed.
KillLeader(x) ==
    /\ g[x] = "kill"
    /\ leader' = [leader EXCEPT ![x] = IF @ = "reaped" THEN @ ELSE "zombie"]
    /\ g' = [g EXCEPT ![x] = "reap"]
    /\ UNCHANGED <<stopped, helper, joined, asked, ok, status, stray>>

Kill(x) ==
    /\ g[x] = "kill"
    /\ SendKill(x)
    /\ UNCHANGED <<stopped, joined, asked, ok, status>>

Reap(x) ==
    /\ g[x] = "reap" /\ leader[x] \in {"zombie", "reaped"}
    /\ leader' = [leader EXCEPT ![x] = "reaped"]
    /\ g' = [g EXCEPT ![x] = "done"]
    /\ status' = [status EXCEPT ![x] = IF x \in stopped THEN "128" ELSE "124"]
    /\ UNCHANGED <<stopped, helper, joined, asked, ok, stray>>

\* TERM, INT or HUP from outside.
Signal(x) ==
    /\ x = Top /\ g[x] \in {"fork", "watch"}
    /\ stopped' = stopped \cup {x}
    /\ UNCHANGED <<g, leader, helper, joined, asked, ok, status, stray>>

-----------------------------------------------------------------------------
(* The child and the worker                                                *)
Exec(x) ==
    /\ leader[x] = "fork"
    /\ leader' = [leader EXCEPT ![x] = "run"]
    /\ joined' = joined \cup {x}
    /\ g' = IF x = "outer" THEN [g EXCEPT !["inner"] = "fork"] ELSE g
    /\ UNCHANGED <<stopped, helper, asked, ok, status, stray>>

Background(x) ==
    /\ leader[x] = "run" /\ helper[x] = "none"
    /\ helper' = [helper EXCEPT ![x] = "run"]
    /\ UNCHANGED <<g, stopped, leader, joined, asked, ok, status, stray>>

\* The worker of the outer guard waits for the inner one.
Finish(x) ==
    /\ leader[x] = "run"
    /\ x = "outer" => g["inner"] \in {"done", "dead"}
    /\ leader' = [leader EXCEPT ![x] = "zombie"]
    /\ ok' = ok \cup {x}
    /\ UNCHANGED <<g, stopped, helper, joined, asked, status, stray>>

Obey(x, p) ==
    /\ <<x, p>> \in asked /\ p \in Alive(x)
    /\ leader' = IF p = "leader" THEN [leader EXCEPT ![x] = "zombie"] ELSE leader
    /\ helper' = IF p = "helper" THEN [helper EXCEPT ![x] = "dead"] ELSE helper
    /\ UNCHANGED <<g, stopped, joined, asked, ok, status, stray>>

\* A guard whose handler has run leaves its loop at the next look.
Stop(x) ==
    /\ x \in stopped /\ g[x] = "watch" /\ leader[x] # "zombie"
    /\ g' = [g EXCEPT ![x] = "expired"]
    /\ UNCHANGED <<stopped, leader, helper, joined, asked, ok, status, stray>>

-----------------------------------------------------------------------------
Guard(x) == Fork(x) \/ Adopt(x) \/ Collect(x) \/ Stop(x) \/ Terminate(x) \/ Kill(x) \/ Reap(x)

Next == \E x \in Guards :
    \/ Guard(x) \/ Expire(x) \/ Signal(x) \/ Exec(x) \/ Background(x) \/ Finish(x)
    \/ \E p \in {"leader", "helper"} : Obey(x, p)

Spec == Init /\ [][Next]_vars /\ \A x \in Guards : WF_vars(Guard(x)) /\ WF_vars(Exec(x))

-----------------------------------------------------------------------------
(* service_guard.c:72, "Keep child unreaped until the final kill: its      *)
(* PID/group cannot recycle": no signal of a guard goes to a group whose   *)
(* number another process may have by then.                                *)
OwnGroupOnly == ~stray

(* A caller that is told of success or of the worker's own status knows    *)
(* that the worker ended by itself, and is told 124 or more otherwise      *)
(* (service_guard.c:79-81).                                                *)
StatusTrue == \A x \in Guards : g[x] = "done" => (status[x] = "own" => x \in ok)

(* Once a guard gave up on a worker and has returned, nothing of the       *)
(* worker's group runs (service_guard.c:77).                               *)
GroupEnded == \A x \in Guards : g[x] = "done" /\ status[x] \in {"124", "128"} => Alive(x) = {}

(* SERVICE_SERIALIZATION.md:61, "after a deadline or TERM/INT/HUP sends    *)
(* TERM then KILL one second later to the group": a worker whose guard is  *)
(* to stop ends, and its whole group if the guard had to give it up,       *)
(* whether or not it obeys TERM.                                           *)
AskedEnds ==
    \A x \in Guards :
        /\ x \in stopped ~> leader[x] \notin {"fork", "run"}
        /\ g[x] = "expired" ~> Alive(x) = {}
===============================================================================
