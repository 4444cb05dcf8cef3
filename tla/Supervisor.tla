------------------------------ MODULE Supervisor ------------------------------
(***************************************************************************)
(* The RTSP server and the watchdog that restarts it, as service.sh rtsp,  *)
(* the settings page and the watchdog itself start and stop them.  A stop  *)
(* of the server also stops the watchdog; a start leaves a process behind  *)
(* that starts a watchdog thirty seconds later, unless one is there.       *)
(* Operations take the lock service-rtsp, which nobody waits for.          *)
(***************************************************************************)
EXTENDS Naturals

CONSTANTS
    Pages,        \* settings requests
    Switch,       \* the values of the setting RTSP: subset of BOOLEAN
    MaxVersion,   \* bound: changes of the settings of the server
    MaxFaults,    \* bound: kills
    MaxStarters   \* bound: delayed starters told apart

Job == "job"      \* the watchdog's own "service.sh rtsp start"
Procs == Pages \cup {Job}

\* The constants of an instance.
SupervisorAssumption ==
    /\ Switch \subseteq BOOLEAN /\ TRUE \in Switch
    /\ MaxVersion \in Nat \ {0} /\ MaxFaults \in Nat /\ MaxStarters \in Nat \ {0}

VARIABLES
    on, version,  \* RTSP, and the settings of the server; each version has its own port
    server,       \* the version the server runs with, 0: no server
    watchdog,     \* is wd.sh running
    port,         \* the version whose port wd.sh looks at, read when it started
    starters,     \* ensure_rtsp_watchdog: starters that still sleep
    lock,         \* the holder of service-rtsp or "none"
    pc,           \* per process its place
    snap,         \* per process what init_config read
    again,        \* the pages that start the server after their stop: RTSP_ENABLED
    faults

vars == <<on, version, server, watchdog, port, starters, lock, pc, snap, again, faults>>
settings == <<on, version, again>>

\* After boot: system.sh has started the server, then the watchdog.
Init ==
    /\ on \in Switch /\ version = 1
    /\ server = IF on THEN 1 ELSE 0
    /\ watchdog = TRUE /\ port = 1
    /\ starters = IF on THEN 1 ELSE 0
    /\ lock = "none" /\ again = {} /\ faults = 0
    /\ pc = [p \in Procs |-> "idle"] /\ snap = [p \in Procs |-> 0]

Goto(p, l) == pc' = [pc EXCEPT ![p] = l]

\* What a page does once its stop has returned, with whatever status.
AfterStop(p) == IF p \in again THEN "start" ELSE "idle"

\* set_configs.sh saves, stops and, when RTSP is on, starts.
Save(p) ==
    /\ p \in Pages /\ pc[p] = "idle" /\ version < MaxVersion
    /\ version' = version + 1 /\ on' \in Switch
    /\ again' = IF on' THEN again \cup {p} ELSE again \ {p}
    /\ Goto(p, "stop")
    /\ UNCHANGED <<server, watchdog, port, starters, lock, snap, faults>>

StopLock(p) ==
    /\ pc[p] = "stop"
    /\ IF lock = "none" THEN lock' = p /\ Goto(p, "stopping")
       ELSE Goto(p, AfterStop(p)) /\ UNCHANGED lock
    /\ UNCHANGED <<settings, server, watchdog, port, starters, snap, faults>>

\* stop_rtsp
Stop(p) ==
    /\ pc[p] = "stopping"
    /\ watchdog' = FALSE /\ server' = 0
    /\ lock' = "none" /\ Goto(p, AfterStop(p))
    /\ UNCHANGED <<settings, port, starters, snap, faults>>

StartLock(p) ==
    /\ pc[p] = "start"
    /\ IF lock = "none"
       THEN lock' = p /\ Goto(p, "starting") /\ snap' = [snap EXCEPT ![p] = version]
       ELSE Goto(p, "idle") /\ UNCHANGED <<lock, snap>>
    /\ UNCHANGED <<settings, server, watchdog, port, starters, faults>>

Later == IF starters < MaxStarters THEN starters + 1 ELSE starters

\* start_rtsp: a running server is kept.
Start(p) ==
    /\ pc[p] = "starting"
    /\ server' = IF server = 0 THEN snap[p] ELSE server
    /\ starters' = Later
    /\ lock' = "none" /\ Goto(p, "idle")
    /\ UNCHANGED <<settings, watchdog, port, snap, faults>>

\* The end of a starter's thirty seconds.
Wake ==
    /\ starters > 0 /\ starters' = starters - 1
    /\ watchdog' = TRUE
    /\ port' = IF watchdog THEN port ELSE version
    /\ UNCHANGED <<settings, server, lock, pc, snap, faults>>

\* MUTANT: a server that is missing is not noticed.
CheckPort ==
    /\ watchdog /\ on /\ server # 0 /\ server # port /\ pc[Job] = "idle"
    /\ server' = 0
    /\ Goto(Job, "start")
    /\ UNCHANGED <<settings, watchdog, port, starters, lock, snap, faults>>

\* check_rtsp: nobody listens on the port, or there is no process.
Check ==
    /\ watchdog /\ on /\ server # port /\ pc[Job] = "idle"
    /\ server' = 0
    /\ Goto(Job, "start")
    /\ UNCHANGED <<settings, watchdog, port, starters, lock, snap, faults>>

\* The kernel kills the server.
OomKill ==
    /\ server # 0 /\ faults < MaxFaults
    /\ server' = 0 /\ faults' = faults + 1
    /\ UNCHANGED <<settings, watchdog, port, starters, lock, pc, snap>>

Step(p) == StopLock(p) \/ Stop(p) \/ StartLock(p) \/ Start(p)

Next ==
    \/ \E p \in Procs : Save(p) \/ Step(p)
    \/ Wake \/ Check \/ OomKill

Spec ==
    /\ Init /\ [][Next]_vars
    /\ \A p \in Procs : WF_vars(Step(p))
    /\ WF_vars(Wake) /\ WF_vars(Check)

-----------------------------------------------------------------------------
(* system.sh:399, "keep exactly one lightweight supervisor": whatever is   *)
(* saved, a watchdog is there again.                                       *)
Supervised == []<>watchdog

(* A server that is configured and was killed, stopped for a change of its *)
(* settings or lost to a busy lock comes back.                             *)
StreamsReturn == on ~> (server # 0 \/ ~on)

(* set_configs.sh:282, "Rebuild once for all changed RTSP settings": the   *)
(* last settings saved are the ones the server runs with in the end.       *)
Rebuilt == <>[](on => server = version)
===============================================================================
