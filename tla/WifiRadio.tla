------------------------------ MODULE WifiRadio ------------------------------
(***************************************************************************)
(* Ownership of the camera's only radio, wlan0.                            *)
(*                                                                         *)
(* Every script that changes the radio takes the socket lock wifi-recovery *)
(* (yi_lock): the hotspot worker (hotspot.sh apply and recover), the       *)
(* maintenance handoff (wifi_failover.sh), the primary reconnect           *)
(* (wifi_recovery.sh), the wrapper of the vendor's station scripts         *)
(* (wifi_station_guard.sh), and two that only need the radio left alone:   *)
(* the site scan and the web page's save.  The watchdog (wd.sh) observes   *)
(* without the lock and starts workers in the background, so everything it *)
(* has seen may be stale by the time a worker runs.  A worker can be       *)
(* killed at any step by service_guard; the kernel then frees its lock.    *)
(*                                                                         *)
(* What the files in /tmp hold survives the death of a worker and is lost  *)
(* at a reboot.                                                            *)
(***************************************************************************)
EXTENDS Naturals

CONSTANTS
  Workers,     (* slots for worker processes alive at the same time          *)
  None,        (* "no worker holds wifi-recovery"                            *)
  BootConfigs, (* settings the camera may boot with: mode, password and      *)
               (* primary, as in the variables below                         *)
  Faults,      (* which of the faults below the environment may inject       *)
  MaxEvents,   (* bound on environment events: requests, calls and faults    *)
  CheckLimit,  (* failed checks before escalation, 6 in wd.sh                *)
  Grace        (* outage grace in watchdog passes, WIFI_MAINTENANCE_GRACE    *)

FaultKinds == {"kill", "helper", "sysconf", "tmpfs"}

ASSUME WorkersAssumption == Workers # {} /\ None \notin Workers
ASSUME ConfigsAssumption ==
  BootConfigs \subseteq [mode : {"hotspot", "maintenance"}, password : {"set", "unset"},
                         primary : {"saved", "empty"}]
ASSUME BoundsAssumption == /\ Faults \subseteq FaultKinds
                           /\ MaxEvents \in Nat
                           /\ CheckLimit \in Nat \ {0}
                           /\ Grace \in Nat

VARIABLES
  state,       (* /tmp/yi-hotspot/state, "" when the file is missing         *)
  request,     (* /tmp/yi-hotspot.request                                    *)
  pending,     (* /tmp/yi-hotspot/pending                                    *)
  maint,       (* /tmp/wifi_maintenance_active                               *)
  mode,        (* WIFI_RECOVERY_MODE in system.conf                          *)
  password,    (* WIFI_HOTSPOT_PASSWORD                                      *)
  primary,     (* /tmp/wpa_supplicant.conf, the router's profile             *)
  supplicant,  (* the profile of the running wpa_supplicant, or "none"       *)
  ap,          (* what is up of the hotspot: hostapd, udhcpd, and "master"   *)
               (* while the driver reports Mode:Master                       *)
  pc,          (* where each worker process is, "idle" for a free slot       *)
  role,        (* which script it runs                                       *)
  act,         (* ACTION of apply_locked                                     *)
  fresh,       (* the workers whose NEW_REQUEST is yes (apply_locked)        *)
  holder,      (* owner of wifi-recovery                                     *)
  wdpc,        (* where the watchdog's pass is                               *)
  fails,       (* WIFI_FAILSAFE_COUNTER, counted up to CheckLimit            *)
  lost,        (* passes since WIFI_FAILSAFE_STARTED plus one, 0 when unset  *)
  mfails,      (* WIFI_MAINTENANCE_FAILSAFE_COUNTER, up to CheckLimit        *)
  events       (* environment events so far                                  *)

files == <<state, request, pending, maint>>
conf  == <<mode, password, primary>>
radio == <<supplicant, ap>>
procs == <<pc, role, act, fresh, holder>>
wd    == <<wdpc, fails, lost, mfails>>
vars  == <<files, conf, radio, procs, wd, events>>

HotspotStates == {"", "station", "starting", "active", "stopping", "failed"}
ApStates      == {"starting", "active", "stopping"}
Starts        == {"start", "start-open"}
Requests      == Starts \cup {"stop"}
MaintStates   == {"none", "maintenance_pending", "maintenance"}
Modes         == {"hotspot", "maintenance"}
Profiles      == {"primary", "maintenance"}

HotspotRoles  == {"apply", "recover"}
StationRoles  == {"failover", "reboot", "reconnect", "vendor"}
OtherRoles    == {"scan", "save"}
Roles         == HotspotRoles \cup StationRoles \cup OtherRoles

(* restore_station, start_ap, the rest of hotspot.sh, the other scripts    *)
RestoreSteps  == {"r_state", "r_teardown", "r_marker", "r_wpa", "r_dhcp", "r_station"}
StartSteps    == {"s_check", "s_state", "s_takeover", "s_hostapd", "s_ready",
                  "s_udhcpd", "s_active"}
ApplySteps    == {"locked", "claim", "clear", "decide", "startfail", "fail", "done"}
StationSteps  == {"f_reboot", "f_marker", "f_kill", "f_wpa", "p_wpa", "v_run"}
OtherSteps    == {"c_scan", "c_save"}
Critical      == RestoreSteps \cup StartSteps \cup ApplySteps \cup StationSteps
                   \cup OtherSteps
Steps         == Critical \cup {"idle", "spawned"}

(***************************************************************************)
(* The requests a boot may leave behind (boot_request): an explicit        *)
(* WIFI_HOTSPOT_BOOT or an unprovisioned camera asks for the hotspot, and  *)
(* only the unprovisioned camera without a password asks for an open one.  *)
(* "none" is the normal station boot and a failed check.                   *)
(***************************************************************************)
BootRequests(prim, pw) ==
  {"none", "start"} \cup (IF prim = "empty" /\ pw = "unset" THEN {"start-open"} ELSE {})

(* What the vendor's startup and system.sh leave in RAM.                   *)
Init ==
  /\ \E c \in BootConfigs : /\ mode = c.mode
                             /\ password = c.password
                             /\ primary = c.primary
  /\ request \in BootRequests(primary, password)
  /\ state = "" /\ pending = "none" /\ maint = "none"
  /\ supplicant = (IF primary = "saved" THEN "primary" ELSE "none")
  /\ ap = {}
  /\ pc = [w \in Workers |-> "idle"]
  /\ role = [w \in Workers |-> "none"]
  /\ act = [w \in Workers |-> "none"]
  /\ fresh = {}
  /\ holder = None
  /\ wdpc = "poll" /\ fails = 0 /\ lost = 0 /\ mfails = 0
  /\ events = 0

-----------------------------------------------------------------------------
(* Processes and the lock.                                                 *)

Goto(w, step) == /\ pc' = [pc EXCEPT ![w] = step]
                 /\ UNCHANGED <<role, act, fresh, holder>>

(* A process that ends, however it ends, frees its slot; owner is what     *)
(* becomes of the lock: the kernel releases it with its last descriptor.   *)
EndProcess(w, owner) ==
  /\ pc' = [pc EXCEPT ![w] = "idle"]
  /\ role' = [role EXCEPT ![w] = "none"]
  /\ act' = [act EXCEPT ![w] = "none"]
  /\ fresh' = fresh \ {w}
  /\ holder' = owner

Exit(w) == EndProcess(w, None)

Spawn(r) ==
  \E w \in Workers :
    /\ pc[w] = "idle"
    /\ pc' = [pc EXCEPT ![w] = "spawned"]
    /\ role' = [role EXCEPT ![w] = r]
    /\ UNCHANGED <<act, fresh, holder>>

(* yi_lock wifi-recovery: the bind succeeds for one process only ...       *)
AcquireLock(w) ==
  /\ pc[w] = "spawned" /\ holder = None
  /\ pc' = [pc EXCEPT ![w] = "locked"]
  /\ holder' = w
  /\ UNCHANGED <<role, act, fresh, files, conf, radio, wd, events>>

(* ... and every other caller leaves at once with status 75.               *)
LockBusy(w) ==
  /\ pc[w] = "spawned" /\ holder # None
  /\ EndProcess(w, holder)
  /\ UNCHANGED <<files, conf, radio, wd, events>>

(* One environment event, out of a bounded number.                         *)
Event == events < MaxEvents /\ events' = events + 1

Fault(kind) == kind \in Faults /\ Event

(* A write of the state file; it fails when the tmpfs is full.             *)
SetState(w, new, next, onError) ==
  \/ /\ state' = new /\ Goto(w, next)
     /\ UNCHANGED events
  \/ /\ Fault("tmpfs") /\ Goto(w, onError)
     /\ UNCHANGED state

-----------------------------------------------------------------------------
(* hotspot.sh: recover and apply_locked.                                   *)

Queued == request # "none" \/ pending # "none"

BeginApply(w) ==
  /\ pc[w] = "locked" /\ role[w] = "apply"
  /\ Goto(w, "claim")
  /\ UNCHANGED <<files, conf, radio, wd, events>>

(* Mutant: automatic recovery does not look for queued requests.           *)
MayRecoverAnyway == mode # "maintenance" /\ state \notin ApStates

MayRecover == mode # "maintenance" /\ ~Queued /\ state \notin ApStates

BeginRecover(w) ==
  /\ pc[w] = "locked" /\ role[w] = "recover"
  /\ \/ /\ MayRecover
        /\ pending' = "start"
        /\ Goto(w, "claim")
     \/ /\ ~MayRecover
        /\ Exit(w)
        /\ UNCHANGED pending
  /\ UNCHANGED <<state, request, maint, conf, radio, wd, events>>

HelpersAlive == {"hostapd", "udhcpd"} \subseteq ap

(* The ACTION of an apply that finds nothing pending.                       *)
IdleAction ==
  IF state \in {"starting", "stopping"} THEN "stop"
  ELSE IF state = "active" /\ ~HelpersAlive THEN "start"
  ELSE IF state = "active" /\ "master" \notin ap THEN "stop"
  ELSE "none"

(* Mutant: the old pending work is read before the new request replaces it. *)
ClaimReadsFirst(w) ==
  /\ pc[w] = "claim"
  /\ LET todo == IF pending # "none" THEN pending
                 ELSE IF request # "none" THEN request ELSE IdleAction
     IN /\ pending' = (IF request # "none" THEN request ELSE pending)
        /\ request' = "none"
        /\ IF todo = "none" THEN Exit(w)
           ELSE /\ pc' = [pc EXCEPT ![w] = IF todo = "start-open" THEN "clear" ELSE "decide"]
                /\ act' = [act EXCEPT ![w] = IF todo = "stop" THEN "stop" ELSE "start"]
                /\ fresh' = IF request # "none" THEN fresh \cup {w} ELSE fresh
                /\ UNCHANGED <<role, holder>>
  /\ UNCHANGED <<state, maint, conf, radio, wd, events>>

(* mv REQUEST pending, then read it.                                       *)
Claim(w) ==
  /\ pc[w] = "claim"
  /\ LET work == IF request # "none" THEN request ELSE pending
         todo == IF work # "none" THEN work ELSE IdleAction
     IN /\ pending' = work /\ request' = "none"
        /\ \/ /\ todo = "none"
              /\ Exit(w)
           \/ /\ todo # "none"
              /\ pc' = [pc EXCEPT ![w] = IF todo = "start-open" THEN "clear" ELSE "decide"]
              /\ act' = [act EXCEPT ![w] = IF todo = "stop" THEN "stop" ELSE "start"]
              /\ fresh' = IF request # "none" THEN fresh \cup {w} ELSE fresh
              /\ UNCHANGED <<role, holder>>
  /\ UNCHANGED <<state, maint, conf, radio, wd, events>>

(* Mutant: only the worker that claimed the request clears the password.    *)
ClearPasswordOnce(w) ==
  /\ pc[w] = "clear"
  /\ password' = IF w \in fresh THEN "unset" ELSE password
  /\ Goto(w, "decide")
  /\ UNCHANGED <<files, mode, primary, radio, wd, events>>

(* clear_password: an unwritable system.conf ends the worker here and      *)
(* leaves the open start pending.                                          *)
ClearPassword(w) ==
  /\ pc[w] = "clear"
  /\ \/ /\ password' = "unset" /\ Goto(w, "decide")
        /\ UNCHANGED events
     \/ /\ password = "set" /\ Fault("sysconf") /\ Exit(w)
        /\ UNCHANGED password
  /\ UNCHANGED <<files, mode, primary, radio, wd>>

(* Mutant: a stop is taken for done whenever no maintenance marker is set. *)
DecideTrustsMarker(w) ==
  /\ pc[w] = "decide"
  /\ LET todo == IF w \notin fresh /\ state \in {"starting", "stopping"}
                 THEN "stop" ELSE act[w]
     IN /\ act' = [act EXCEPT ![w] = todo]
        /\ pc' = [pc EXCEPT ![w] = IF todo = "start" THEN "s_check"
                                   ELSE IF maint = "none" THEN "done" ELSE "r_state"]
  /\ UNCHANGED <<role, fresh, holder, files, conf, radio, wd, events>>

(* An interrupted transition is rolled back before anything else, unless a *)
(* newer request says otherwise; a stop with nothing to undo is dropped.   *)
Decide(w) ==
  /\ pc[w] = "decide"
  /\ LET todo == IF w \notin fresh /\ state \in {"starting", "stopping"}
                 THEN "stop" ELSE act[w]
     IN /\ act' = [act EXCEPT ![w] = todo]
        /\ pc' = [pc EXCEPT ![w] =
                    IF todo = "start" THEN "s_check"
                    ELSE IF state \in {"", "station"} /\ maint = "none" THEN "done"
                    ELSE "r_state"]
  /\ UNCHANGED <<role, fresh, holder, files, conf, radio, wd, events>>

(* Mutant: the failure path returns without removing the pending work.     *)
MarkFailedKeepsPending(w) ==
  /\ pc[w] = "fail"
  /\ state' = "failed" /\ Exit(w)
  /\ UNCHANGED <<request, pending, maint, conf, radio, wd, events>>

(* set_state failed, whose own failure is ignored.                         *)
MarkFailed(w) ==
  /\ pc[w] = "fail"
  /\ SetState(w, "failed", "done", "done")
  /\ UNCHANGED <<request, pending, maint, conf, radio, wd>>

DropPending(w) ==
  /\ pc[w] = "done"
  /\ pending' = "none"
  /\ Exit(w)
  /\ UNCHANGED <<state, request, maint, conf, radio, wd, events>>

-----------------------------------------------------------------------------
(* hotspot.sh: restore_station.                                            *)

RestoreState(w) ==
  /\ pc[w] = "r_state"
  /\ SetState(w, "stopping", "r_teardown", "fail")
  /\ UNCHANGED <<request, pending, maint, conf, radio, wd>>

(* Mutant: the access point's processes are forgotten.                     *)
RadioOffStationOnly == supplicant' = "none" /\ UNCHANGED ap

(* stop_ap and the killall of every station process.                       *)
RadioOff == supplicant' = "none" /\ ap' = {}

RestoreTeardown(w) ==
  /\ pc[w] = "r_teardown"
  /\ RadioOff
  /\ Goto(w, "r_marker")
  /\ UNCHANGED <<files, conf, wd, events>>

RestoreMarker(w) ==
  /\ pc[w] = "r_marker"
  /\ maint' = "none"
  /\ Goto(w, "r_wpa")
  /\ UNCHANGED <<state, request, pending, conf, radio, wd, events>>

RestoreSupplicant(w) ==
  /\ pc[w] = "r_wpa"
  /\ \/ /\ primary = "saved"
        /\ supplicant' = "primary" /\ Goto(w, "r_dhcp")
     \/ /\ Goto(w, "fail")
        /\ UNCHANGED supplicant
  /\ UNCHANGED <<ap, files, conf, wd, events>>

RestoreDhcp(w) ==
  /\ pc[w] = "r_dhcp"
  /\ Goto(w, "r_station") \/ Goto(w, "fail")
  /\ UNCHANGED <<files, conf, radio, wd, events>>

(* The rollback of a failed start still ends in the state failed.          *)
RestoreDone(w) ==
  /\ pc[w] = "r_station"
  /\ SetState(w, "station", IF act[w] = "start" THEN "fail" ELSE "done", "fail")
  /\ UNCHANGED <<request, pending, maint, conf, radio, wd>>

-----------------------------------------------------------------------------
(* hotspot.sh: start_ap.                                                   *)

(* Settings and prerequisites, before anything is disturbed.               *)
StartCheck(w) ==
  /\ pc[w] = "s_check"
  /\ Goto(w, "s_state") \/ Goto(w, "startfail")
  /\ UNCHANGED <<files, conf, radio, wd, events>>

StartState(w) ==
  /\ pc[w] = "s_state"
  /\ SetState(w, "starting", "s_takeover", "startfail")
  /\ UNCHANGED <<request, pending, maint, conf, radio, wd>>

StartTakeover(w) ==
  /\ pc[w] = "s_takeover"
  /\ RadioOff
  /\ Goto(w, "s_hostapd") \/ Goto(w, "startfail")
  /\ UNCHANGED <<files, conf, wd, events>>

StartHostapd(w) ==
  /\ pc[w] = "s_hostapd"
  /\ \/ /\ ap' \in {ap \cup {"hostapd"}, ap \cup {"hostapd", "master"}} /\ Goto(w, "s_ready")
     \/ /\ Goto(w, "startfail")
        /\ UNCHANGED ap
  /\ UNCHANGED <<supplicant, files, conf, wd, events>>

(* Ready is state=ENABLED and Mode:Master within five seconds.             *)
StartReady(w) ==
  /\ pc[w] = "s_ready"
  /\ \/ "master" \in ap /\ Goto(w, "s_udhcpd")
     \/ Goto(w, "startfail")
  /\ UNCHANGED <<files, conf, radio, wd, events>>

StartUdhcpd(w) ==
  /\ pc[w] = "s_udhcpd"
  /\ \/ ap' = ap \cup {"udhcpd"} /\ Goto(w, "s_active")
     \/ ap' = ap \ {"udhcpd"} /\ Goto(w, "startfail")
  /\ UNCHANGED <<supplicant, files, conf, wd, events>>

StartActive(w) ==
  /\ pc[w] = "s_active"
  /\ SetState(w, "active", "done", "startfail")
  /\ UNCHANGED <<request, pending, maint, conf, radio, wd>>

(* A start that failed after the teardown began is rolled back; one that   *)
(* failed its preflight keeps a hotspot that is already running.           *)
StartFailed(w) ==
  /\ pc[w] = "startfail"
  /\ Goto(w, IF state \in {"starting", "stopping"} THEN "r_state"
             ELSE IF state = "active" THEN "done" ELSE "fail")
  /\ UNCHANGED <<files, conf, radio, wd, events>>

-----------------------------------------------------------------------------
(* The station side: each rechecks under the lock what its caller saw.     *)

(* Mutant: the hotspot's state is not rechecked under the lock.            *)
MayTouchStationUnchecked == ~Queued

MayTouchStation == state \notin ApStates /\ ~Queued

(* wifi_failover.sh: a refused or invalid handoff changes nothing.         *)
BeginFailover(w) ==
  /\ pc[w] = "locked" /\ role[w] \in {"failover", "reboot"}
  /\ LET allowed == MayTouchStation /\ mode = "maintenance"
     IN \/ /\ allowed /\ role[w] = "failover"
           /\ Goto(w, "f_marker")
        \/ /\ allowed /\ role[w] = "reboot" /\ maint # "none"
           /\ Goto(w, "f_reboot")
        \/ Exit(w)
  /\ UNCHANGED <<files, conf, radio, wd, events>>

FailoverMarker(w) ==
  /\ pc[w] = "f_marker"
  /\ maint' = "maintenance_pending"
  /\ Goto(w, "f_kill")
  /\ UNCHANGED <<state, request, pending, conf, radio, wd, events>>

FailoverKill(w) ==
  /\ pc[w] = "f_kill"
  /\ supplicant' = "none"
  /\ Goto(w, "f_wpa")
  /\ UNCHANGED <<ap, files, conf, wd, events>>

FailoverSupplicant(w) ==
  /\ pc[w] = "f_wpa"
  /\ supplicant' \in {"maintenance", "none"}
  /\ Exit(w)
  /\ UNCHANGED <<ap, files, conf, wd, events>>

(* Everything under /tmp and every process is gone; the boot starts over.  *)
Reboot(w) ==
  /\ pc[w] = "f_reboot"
  /\ state' = "" /\ pending' = "none" /\ maint' = "none"
  /\ request' \in BootRequests(primary, password)
  /\ supplicant' = IF primary = "saved" THEN "primary" ELSE "none"
  /\ ap' = {}
  /\ pc' = [v \in Workers |-> "idle"]
  /\ role' = [v \in Workers |-> "none"]
  /\ act' = [v \in Workers |-> "none"]
  /\ fresh' = {}
  /\ holder' = None
  /\ wdpc' = "poll" /\ fails' = 0 /\ lost' = 0 /\ mfails' = 0
  /\ UNCHANGED <<conf, events>>

(* wifi_recovery.sh                                                        *)
BeginReconnect(w) ==
  /\ pc[w] = "locked" /\ role[w] = "reconnect"
  /\ IF MayTouchStation /\ maint = "none" THEN Goto(w, "p_wpa") ELSE Exit(w)
  /\ UNCHANGED <<files, conf, radio, wd, events>>

(* A missing supplicant is launched, a running one reconfigured.           *)
Reconnect(w) ==
  /\ pc[w] = "p_wpa"
  /\ supplicant' \in IF supplicant = "none" /\ primary = "saved" THEN {"none", "primary"}
                     ELSE {supplicant}
  /\ Exit(w)
  /\ UNCHANGED <<ap, files, conf, wd, events>>

(* wifi_station_guard.sh                                                   *)
BeginVendor(w) ==
  /\ pc[w] = "locked" /\ role[w] = "vendor"
  /\ IF MayTouchStation /\ maint = "none" THEN Goto(w, "v_run") ELSE Exit(w)
  /\ UNCHANGED <<files, conf, radio, wd, events>>

(* wificonnect.sh, killwifi.sh or wifidhcp.sh of the vendor.               *)
VendorScript(w) ==
  /\ pc[w] = "v_run"
  /\ supplicant' \in {"none", supplicant} \cup (IF primary = "saved" THEN {"primary"} ELSE {})
  /\ Exit(w)
  /\ UNCHANGED <<ap, files, conf, wd, events>>

(* hotspot.sh scan holds the lock for up to eight seconds.                 *)
BeginScan(w) ==
  /\ pc[w] = "locked" /\ role[w] = "scan"
  /\ IF state \in ApStates THEN Exit(w) ELSE Goto(w, "c_scan")
  /\ UNCHANGED <<files, conf, radio, wd, events>>

Scan(w) ==
  /\ pc[w] = "c_scan"
  /\ Exit(w)
  /\ UNCHANGED <<files, conf, radio, wd, events>>

(* wifi.sh action=save: validation, then one rename of system.conf.        *)
BeginSave(w) ==
  /\ pc[w] = "locked" /\ role[w] = "save"
  /\ Goto(w, "c_save") \/ Exit(w)
  /\ UNCHANGED <<files, conf, radio, wd, events>>

SaveSettings(w) ==
  /\ pc[w] = "c_save"
  /\ mode' \in Modes /\ password' \in {"set", "unset"}
  /\ Exit(w)
  /\ UNCHANGED <<primary, files, radio, wd, events>>

-----------------------------------------------------------------------------
(* wd.sh: one pass is hotspot.sh poll, then check_wifi.                    *)

(* Mutant: only requests and dead helpers call for work.                   *)
NeedWorkUnlessHalfDone == Queued \/ (state = "active" /\ ~(HelpersAlive /\ "master" \in ap))

NeedWork ==
  \/ Queued
  \/ state \in {"starting", "stopping"}
  \/ state = "active" /\ ~(HelpersAlive /\ "master" \in ap)

Poll ==
  /\ wdpc = "poll"
  /\ IF NeedWork THEN Spawn("apply") ELSE UNCHANGED procs
  /\ wdpc' = "check"
  /\ UNCHANGED <<fails, lost, mfails, files, conf, radio, events>>

(* Mutant: the counter has no limit.                                       *)
BumpForever(n, limit) == n + 1

(* The next pass begins ten seconds later: a running outage grows.         *)
Bump(n, limit) == IF n < limit THEN n + 1 ELSE n

NextPass == wdpc' = "poll"

(* AP states silence the station checks and restart the outage count;      *)
(* queued requests only silence them.                                      *)
CheckOwned ==
  /\ wdpc = "check"
  /\ \/ /\ state \in ApStates
        /\ fails' = 0 /\ lost' = 0
     \/ /\ state \notin ApStates /\ Queued
        /\ fails' = fails
        /\ lost' = IF lost = 0 THEN 0 ELSE Bump(lost, Grace + 1)
  /\ NextPass
  /\ UNCHANGED <<mfails, procs, files, conf, radio, events>>

(* MAINT_STATE has been read; the association is looked at next.           *)
CheckMaintenance ==
  /\ wdpc = "check" /\ MayTouchStation /\ maint # "none"
  /\ wdpc' = "maint"
  /\ lost' = IF lost = 0 THEN 0 ELSE Bump(lost, Grace + 1)
  /\ UNCHANGED <<fails, mfails, procs, files, conf, radio, events>>

(* wifi_station_connected can only succeed for the profile that runs.      *)
MaintenanceConnected ==
  /\ wdpc = "maint" /\ supplicant = "maintenance"
  /\ wdpc' = "confirm"
  /\ UNCHANGED <<fails, lost, mfails, procs, files, conf, radio, events>>

(* echo maintenance > /tmp/wifi_maintenance_active, without the lock.      *)
ConfirmMaintenance ==
  /\ wdpc = "confirm"
  /\ maint' = "maintenance"
  /\ mfails' = 0
  /\ NextPass
  /\ UNCHANGED <<fails, lost, procs, state, request, pending, conf, radio, events>>

MaintenanceLost ==
  /\ wdpc = "maint"
  /\ \/ mode # "maintenance" /\ Spawn("recover") /\ mfails' = mfails
     \/ /\ mode = "maintenance"
        /\ mfails' = Bump(mfails, CheckLimit)
        /\ Spawn(IF mfails' >= CheckLimit THEN "reboot" ELSE "failover")
  /\ NextPass
  /\ UNCHANGED <<fails, lost, files, conf, radio, events>>

PrimaryConnected ==
  /\ wdpc = "check" /\ MayTouchStation /\ maint = "none" /\ supplicant = "primary"
  /\ fails' = 0 /\ lost' = 0
  /\ NextPass
  /\ UNCHANGED <<mfails, procs, files, conf, radio, events>>

PrimaryLost ==
  /\ wdpc = "check" /\ MayTouchStation /\ maint = "none"
  /\ fails' = Bump(fails, CheckLimit)
  /\ lost' = Bump(lost, Grace + 1)
  /\ Spawn(IF lost' > Grace /\ fails' >= CheckLimit
           THEN IF mode = "maintenance" THEN "failover" ELSE "recover"
           ELSE "reconnect")
  /\ NextPass
  /\ UNCHANGED <<mfails, files, conf, radio, events>>

Watchdog ==
  \/ Poll \/ CheckOwned \/ CheckMaintenance \/ MaintenanceConnected
  \/ ConfirmMaintenance \/ MaintenanceLost \/ PrimaryConnected \/ PrimaryLost

-----------------------------------------------------------------------------
(* The environment: people, the vendor's broker, and faults.               *)

(* The web page, the rear button and hotspot.sh start|stop replace the     *)
(* request file by one rename.                                             *)
UserRequest ==
  /\ Event
  /\ request' \in Requests
  /\ UNCHANGED <<state, pending, maint, conf, radio, procs, wd>>

(* dispatch retries its station setup; the page scans or saves.            *)
ExternalCall ==
  /\ Event
  /\ \E r \in {"vendor", "scan", "save"} : Spawn(r)
  /\ UNCHANGED <<files, conf, radio, wd>>

(* service_guard's deadline: TERM, then KILL of the whole process group,   *)
(* in which a udhcpd that this worker started still is; hostapd and        *)
(* wpa_supplicant are daemons and survive.  Of a process that has not got  *)
(* as far as the lock this is also a yi_lock that fails for another reason *)
(* than contention.                                                        *)
Kill(w) ==
  /\ Fault("kill")
  /\ pc[w] # "idle"
  /\ EndProcess(w, IF holder = w THEN None ELSE holder)
  /\ ap' \in {ap} \cup (IF role[w] \in HotspotRoles THEN {ap \ {"udhcpd"}} ELSE {})
  /\ UNCHANGED <<supplicant, files, conf, wd>>

(* A daemon dies, or the driver leaves AP mode under a living hostapd.     *)
HelperFault ==
  /\ Fault("helper")
  /\ \/ /\ ap' \in {ap \ {"hostapd", "master"}, ap \ {"udhcpd"}, ap \ {"master"}}
        /\ ap' # ap
        /\ UNCHANGED supplicant
     \/ /\ supplicant # "none" /\ supplicant' = "none"
        /\ UNCHANGED ap
  /\ UNCHANGED <<files, conf, procs, wd>>

Environment == UserRequest \/ ExternalCall \/ HelperFault

ApplyStep(w) ==
  \/ BeginApply(w) \/ BeginRecover(w) \/ Claim(w) \/ ClearPassword(w) \/ Decide(w)
  \/ MarkFailed(w) \/ DropPending(w)

RestoreStep(w) ==
  \/ RestoreState(w) \/ RestoreTeardown(w) \/ RestoreMarker(w)
  \/ RestoreSupplicant(w) \/ RestoreDhcp(w) \/ RestoreDone(w)

StartStep(w) ==
  \/ StartCheck(w) \/ StartState(w) \/ StartTakeover(w) \/ StartHostapd(w)
  \/ StartReady(w) \/ StartUdhcpd(w) \/ StartActive(w) \/ StartFailed(w)

StationStep(w) ==
  \/ BeginFailover(w) \/ FailoverMarker(w) \/ FailoverKill(w)
  \/ FailoverSupplicant(w) \/ Reboot(w)
  \/ BeginReconnect(w) \/ Reconnect(w) \/ BeginVendor(w) \/ VendorScript(w)

CallStep(w) == BeginScan(w) \/ Scan(w) \/ BeginSave(w) \/ SaveSettings(w)

WorkerStep(w) ==
  \/ AcquireLock(w) \/ LockBusy(w)
  \/ ApplyStep(w) \/ RestoreStep(w) \/ StartStep(w) \/ StationStep(w) \/ CallStep(w)

Next ==
  \/ Watchdog
  \/ Environment
  \/ \E w \in Workers : WorkerStep(w) \/ Kill(w)

Spec == Init /\ [][Next]_vars

(* The watchdog loops for ever and a process that can run does run; people *)
(* and faults owe nothing.                                                 *)
Fairness == WF_vars(Watchdog) /\ \A w \in Workers : WF_vars(WorkerStep(w))

FairSpec == Spec /\ Fairness

-----------------------------------------------------------------------------
(* Types, one group of variables at a time.                                *)
FilesOK == /\ state \in HotspotStates
           /\ request \in Requests \cup {"none"}
           /\ pending \in Requests \cup {"none"}
           /\ maint \in MaintStates

ConfOK == mode \in Modes /\ password \in {"set", "unset"} /\ primary \in {"saved", "empty"}

RadioOK == supplicant \in Profiles \cup {"none"} /\ ap \subseteq {"hostapd", "udhcpd", "master"}

ProcsOK == /\ pc \in [Workers -> Steps]
           /\ role \in [Workers -> Roles \cup {"none"}]
           /\ act \in [Workers -> {"start", "stop", "none"}]
           /\ fresh \subseteq Workers
           /\ holder \in Workers \cup {None}

WdOK == /\ wdpc \in {"poll", "check", "maint", "confirm"}
        /\ fails \in 0..CheckLimit /\ lost \in 0..(Grace + 1) /\ mfails \in 0..CheckLimit

(* Type correctness: every file, process and counter holds a value that    *)
(* its readers know, and no counter of the watchdog passes its limit.      *)
TypeOK == FilesOK /\ ConfOK /\ RadioOK /\ ProcsOK /\ WdOK /\ events \in 0..MaxEvents

(* The radio never has two masters: hostapd and a wpa_supplicant are never *)
(* alive together, whatever the watchdog saw before it started a worker    *)
(* and wherever the previous worker was killed.  (hotspot.sh stops one     *)
(* before it starts the other; the station scripts recheck the hotspot's   *)
(* state under the lock.)                                                  *)
RadioSingleOwner == ~("hostapd" \in ap /\ supplicant # "none")

(* An access point never runs behind the back of the state file: every     *)
(* station script, and the watchdog, decide from that file alone whether   *)
(* they may touch the radio.                                               *)
HotspotIsVisible == ap # {} => state \in ApStates

(* What makes the two inductive.  The lock: exactly the worker past it     *)
(* holds it.  Where a worker is tells what the state file says and what is *)
(* left of the radio.                                                      *)
LockInv == \A w \in Workers : pc[w] \notin {"idle", "spawned"} <=> holder = w

PhaseInv(w) ==
  /\ pc[w] \in {"r_teardown", "r_marker", "r_wpa", "r_dhcp", "r_station"} => state = "stopping"
  /\ pc[w] \in {"s_takeover", "s_hostapd", "s_ready", "s_udhcpd", "s_active"} => state = "starting"
  /\ pc[w] \in StationSteps => state \notin ApStates
  /\ pc[w] \in {"r_marker", "r_wpa", "r_dhcp", "r_station", "fail"} => ap = {}
  /\ pc[w] \in {"s_hostapd", "s_ready", "s_udhcpd", "s_active"} => supplicant = "none"

(* The state file, the radio and the position of the lock's holder agree,  *)
(* at every step of every script and after every kill.                     *)
RadioInv == LockInv /\ (\A w \in Workers : PhaseInv(w)) /\ RadioSingleOwner /\ HotspotIsVisible

(* What a worker under way may rely on about the work it claimed.          *)
IntentInv(w) ==
  /\ \/ pc[w] \in {"clear", "decide"} /\ act[w] = "start"
     \/ pc[w] \in {"s_check", "s_state"}
     => pending \in Starts \/ (pending = "none" /\ state = "active")
  /\ pc[w] \in StartSteps \cup {"startfail"} => pending \in Starts \cup {"none"}
  /\ (pc[w] = "decide" /\ act[w] = "start") \/ pc[w] \in StartSteps
     => pending # "start-open" \/ password = "unset"
  /\ pc[w] = "clear" => act[w] = "start"
  /\ pc[w] = "done" /\ pending = "stop" => ap = {} /\ state \in {"", "station", "failed"}

(* The claimed work on disk and the position of the lock's holder agree:   *)
(* nobody else replaces pending or the settings while a transition runs.   *)
WorkInv == \A w \in Workers : IntentInv(w)

(* What a person asked for is not lost: the request file is only emptied   *)
(* by claiming it (or by a reboot), and claimed work is only replaced by a *)
(* newer request, never by automatic recovery.                             *)
KeepsRequests ==
  /\ (request # "none" /\ request' = "none")
       => (pending' = request \/ \E w \in Workers : pc[w] = "f_reboot")
  /\ (pending # "none" /\ pending' \notin {"none", pending}) => pending' = request

(* Work marked stop is dropped only when the hotspot is really gone        *)
(* (apply_locked removes pending after restore_station, or when there is   *)
(* nothing to restore).                                                    *)
HonoursStop ==
  pending = "stop" /\ pending' = "none" => ap = {} /\ state \in {"", "station", "failed"}

(* Nobody's stop turns into a start: a transition into the hotspot is made *)
(* for a start that is pending, or to bring back the dead helpers of an    *)
(* active hotspot.                                                         *)
StartsWanted ==
  state' = "starting" /\ state # "starting"
    => pending \in Starts \/ (pending = "none" /\ state = "active")

(* The hotspot that answers the rear button has no password, even if the   *)
(* worker was killed on the way and settings were saved in between.        *)
OpensForButton ==
  state' = "active" /\ state # "active" /\ pending = "start-open" => password = "unset"

(* The four together: a request is neither lost, nor inverted, nor served  *)
(* with settings that it did not ask for.                                  *)
RequestsHonoured ==
  [][KeepsRequests /\ HonoursStop /\ StartsWanted /\ OpensForButton]_<<request, pending, state>>

(* A transition cut short by the death of its worker does not stay half    *)
(* done: the watchdog's next polls finish or undo it.                      *)
TransitionsEnd ==
  state \in {"starting", "stopping"} ~> state \notin {"starting", "stopping"}

(* Every queued request is eventually dealt with.                          *)
RequestsServed == (request # "none" \/ pending # "none") ~> (request = "none" /\ pending = "none")

(* Once the radio is back on the primary profile and nobody is working on  *)
(* it, the maintenance marker is gone: otherwise primary recovery stays    *)
(* switched off and the watchdog escalates away from the primary network.  *)
MarkerMatchesRadio ==
  holder = None /\ state \in {"", "station"} /\ supplicant = "primary"
    => maint = "none"

(* A pending start is only dropped by a worker that tried to start.        *)
StartsAreReplayed ==
  [][(pending \in Starts /\ pending' = "none")
       => (\E w \in Workers : pc[w] = "done" /\ act[w] = "start")]_pending
=============================================================================
