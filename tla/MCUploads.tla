----------------------------- MODULE MCUploads -----------------------------
(* The upload of recordings (FtpQueue): the queue of one worker against     *)
(* failures, configuration changes, kills and power loss; the control of    *)
(* workers that are started and stopped at the same time; and the progress  *)
(* of the queue beside a clip that the server never takes.                  *)
EXTENDS Naturals

CONSTANTS
    Hours, Names, Size, BadNames,    \* the clips
    Dests, First,                    \* the destinations
    Workers, Modes,                  \* invocations that send clips, and what they are asked
    MaxFails, MaxChanges, MaxKills,  \* what happens to them
    Procs, MaxStops,                 \* invocations that are started and stopped
    p1                               \* the worker of the progress part

VARIABLES part, clip, receipt, undo, server, config, stopfile, control, work, p, count

Queue == INSTANCE FtpQueue WITH
    Growing <- FALSE, Tree <- TRUE, MidScan <- FALSE, Procs <- Workers, MaxStops <- 0
Control == INSTANCE FtpQueue WITH
    Names <- {"a"}, Growing <- FALSE, Tree <- TRUE, Dests <- {First}, BadNames <- {}, MidScan <- FALSE,
    Modes <- {"cron", "start", "stop"}, MaxFails <- 0, MaxChanges <- 0
Live == INSTANCE FtpQueue WITH
    Hours <- {1}, Names <- {"a", "b"}, Size <- 2, Growing <- TRUE, Tree <- TRUE,
    Dests <- {First}, BadNames <- {"a"}, MidScan <- FALSE, Procs <- {p1}, Modes <- {"cron"},
    MaxFails <- 1, MaxChanges <- 1, MaxKills <- 1, MaxStops <- 0

ASSUME QueueConstants == Queue!FtpAssumption
ASSUME ControlConstants == Control!FtpAssumption /\ Live!FtpAssumption

ftp  == <<clip, receipt, undo, server, config, stopfile, control, work, p, count>>
vars == <<part, ftp>>

Init ==
    \/ part = "queue" /\ Queue!Init
    \/ part = "control" /\ Control!Init
    \/ part = "live" /\ Live!Init

Next ==
    /\ UNCHANGED part
    /\ \/ part = "queue" /\ Queue!Next
       \/ part = "control" /\ Control!Next
       \/ part = "live" /\ Live!Next

\* Processes run on, and cron starts a worker again and again.
Spec ==
    /\ Init /\ [][Next]_vars
    /\ \A i \in Procs :
           /\ WF_ftp(part = "control" /\ Control!Run(i))
           /\ WF_ftp(part = "control" /\ Control!Begin(i, "cron"))
    /\ WF_ftp(part = "live" /\ Live!Run(p1))
    /\ WF_ftp(part = "live" /\ Live!Begin(p1, "cron"))

-----------------------------------------------------------------------------
(* What is checked, each where FtpQueue states and explains it.            *)

\* Type correctness.
TypeOK ==
    /\ part = "queue" => Queue!TypeOK
    /\ part = "control" => Control!TypeOK
    /\ part = "live" => Live!TypeOK

(* A recording that the uploader deleted is whole at a destination, and a  *)
(* receipt that matches a clip and a destination is true.                  *)
NothingLost == part = "queue" => Queue!DeletedWereSent /\ Queue!ReceiptsTrue

(* One process at a time scans or transfers, the transfer of a killed      *)
(* shell included, and a stop request stands as long as the worker that it *)
(* found runs.                                                             *)
OneWorker == part = "control" => Control!OneWorker /\ Control!StopKept

Told(i)    == part = "control" /\ p[i].told
Stopped(i) == part = "control" => p[i].pc = "idle"

\* A worker that was asked to stop ends.
StopHonoured == \A i \in Procs : Told(i) ~> Stopped(i)

Waiting(f) == part = "live" /\ clip[f] = 2 /\ config.upload
Settled(f) == part = "live" => Live!Sent(config.dest, f) \/ ~Live!Present(f) \/ ~config.upload
Stale(f)  == part = "live" /\ receipt[f] # Live!None /\ ~Live!Present(f)
Pruned(f) == part = "live" => receipt[f] = Live!None \/ Live!Present(f) \/ ~config.upload

(* A complete clip that the server takes is sent, also beside one that     *)
(* always fails, and a receipt does not outlive its clip.                  *)
ClipsArrive ==
    /\ Waiting(<<1, "b">>) ~> Settled(<<1, "b">>)
    /\ \A f \in {<<1, "a">>, <<1, "b">>} : Stale(f) ~> Pruned(f)
===============================================================================
