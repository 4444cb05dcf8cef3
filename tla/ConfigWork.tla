----------------------------- MODULE ConfigWork -----------------------------
(***************************************************************************)
(* The lock of the configuration backup and restore pages (config_work.sh, *)
(* save.sh, load.sh): a directory made with mkdir, which holds the PID of  *)
(* its owner, and one staging directory that every owner clears first.     *)
(***************************************************************************)
EXTENDS FiniteSets

CONSTANTS
    Requests,  \* processes: one request each
    Faults     \* "term" in the work, "late" (TERM after an explicit cleanup), "kill"

ConfigAssumption == Faults \subseteq {"term", "late", "kill"} /\ "none" \notin Requests

VARIABLES
    dir,   \* CONFIG_LOCK exists
    pid,   \* CONFIG_LOCK/pid, or "none"
    root,  \* the request whose staging directory exists, or "none"
    r,     \* where every request is: "new", a step named after what it does next, or "dead"
    page   \* "save" or "load"

vars == <<dir, pid, root, r, page>>

Holding == {"pid", "stage", "work", "clean", "unpid", "undir"}
Alive(i) == r[i] \notin {"new", "dead"}

Init ==
    /\ dir = FALSE /\ pid = "none" /\ root = "none"
    /\ r = [i \in Requests |-> "new"]
    /\ page \in [Requests -> {"save", "load"}]

Goto(i, pc) == r' = [r EXCEPT ![i] = pc]

-----------------------------------------------------------------------------
(* config_work_begin                                                       *)
TryLock(i) ==
    /\ r[i] = "new"
    /\ dir' = TRUE
    /\ Goto(i, IF dir THEN "look" ELSE "pid")
    /\ UNCHANGED <<pid, root, page>>

\* MUTANT: an owner without a PID is taken for a dead one.
LookHasty(i) ==
    /\ r[i] = "look"
    /\ Goto(i, IF pid # "none" /\ Alive(pid) THEN "dead" ELSE "rmpid")
    /\ UNCHANGED <<dir, pid, root, page>>

\* No PID, or the PID of a running process: the request is refused.
Look(i) ==
    /\ r[i] = "look"
    /\ Goto(i, IF pid = "none" THEN "dead" ELSE IF Alive(pid) THEN "dead" ELSE "rmpid")
    /\ UNCHANGED <<dir, pid, root, page>>

StealPid(i) ==
    /\ r[i] = "rmpid"
    /\ pid' = "none"
    /\ Goto(i, "rmdir")
    /\ UNCHANGED <<dir, root, page>>

StealDir(i) ==
    /\ r[i] = "rmdir"
    /\ dir' = (dir /\ pid # "none")
    /\ Goto(i, IF dir /\ pid = "none" THEN "mkdir" ELSE "dead")
    /\ UNCHANGED <<pid, root, page>>

StealLock(i) ==
    /\ r[i] = "mkdir"
    /\ dir' = TRUE
    /\ Goto(i, IF dir THEN "dead" ELSE "pid")
    /\ UNCHANGED <<pid, root, page>>

WritePid(i) ==
    /\ r[i] = "pid"
    /\ pid' = IF dir THEN i ELSE pid
    /\ Goto(i, "stage")
    /\ UNCHANGED <<dir, root, page>>

Stage(i) ==
    /\ r[i] = "stage"
    /\ root' = i
    /\ Goto(i, "work")
    /\ UNCHANGED <<dir, pid, page>>

-----------------------------------------------------------------------------
(* The work, and config_work_cleanup: from the exit trap, or called by     *)
(* load.sh, which removes the trap afterwards.                             *)
Work(i) ==
    /\ r[i] = "work"
    /\ Goto(i, "clean")
    /\ UNCHANGED <<dir, pid, root, page>>

RemoveStage(i) ==
    /\ r[i] = "clean"
    /\ root' = "none"
    /\ Goto(i, "unpid")
    /\ UNCHANGED <<dir, pid, page>>

RemovePid(i) ==
    /\ r[i] = "unpid"
    /\ pid' = "none"
    /\ Goto(i, "undir")
    /\ UNCHANGED <<dir, root, page>>

RemoveDir(i) ==
    /\ r[i] = "undir"
    /\ dir' = (dir /\ pid # "none")
    /\ Goto(i, IF page[i] = "load" THEN "trap" ELSE "dead")
    /\ UNCHANGED <<pid, root, page>>

RemoveTrap(i) ==
    /\ r[i] = "trap"
    /\ Goto(i, "rest")
    /\ UNCHANGED <<dir, pid, root, page>>

Finish(i) ==
    /\ r[i] = "rest"
    /\ Goto(i, "dead")
    /\ UNCHANGED <<dir, pid, root, page>>

\* TERM, HUP or INT: the shell exits and its exit trap cleans up.
Terminated(i) ==
    /\ \/ "term" \in Faults /\ r[i] \in {"stage", "work"}
       \/ "late" \in Faults /\ r[i] = "trap"
    /\ Goto(i, "clean")
    /\ page' = [page EXCEPT ![i] = "save"]
    /\ UNCHANGED <<dir, pid, root>>

\* KILL, or a signal before the trap is set.
Killed(i) ==
    /\ "kill" \in Faults /\ Alive(i)
    /\ Goto(i, "dead")
    /\ UNCHANGED <<dir, pid, root, page>>

-----------------------------------------------------------------------------
Step(i) ==
    \/ Look(i) \/ StealPid(i) \/ StealDir(i) \/ StealLock(i) \/ WritePid(i) \/ Stage(i)
    \/ Work(i) \/ RemoveStage(i) \/ RemovePid(i) \/ RemoveDir(i) \/ RemoveTrap(i) \/ Finish(i)

Next == \E i \in Requests : TryLock(i) \/ Step(i) \/ Terminated(i) \/ Killed(i)

Spec == Init /\ [][Next]_vars /\ \A i \in Requests : WF_vars(Step(i))

-----------------------------------------------------------------------------
(* config_work.sh:23, "Leftovers from a killed request/reboot are removed  *)
(* by the next request": what a request removes is never the staging       *)
(* directory of a request that is still at work.                           *)
StagingIsOwn == \A i \in Requests : r[i] = "work" => root = i

(* ... and they can be removed: a lock that nobody holds any more carries  *)
(* the PID from which the next request can tell.                           *)
LockRecoverable == dir /\ (\A i \in Requests : r[i] \notin Holding) => pid # "none"

(* Every lock is given back, by the trap as well (config_work.sh:20-21).   *)
LockReturned == dir ~> ~dir
===============================================================================
