--------------------------- MODULE WifiRadioProofs ---------------------------
(***************************************************************************)
(* Proofs about WifiRadio, for any number of workers and any bounds.       *)
(***************************************************************************)
EXTENDS WifiRadio, TLAPS

-----------------------------------------------------------------------------
(* Type correctness.  The first lemmas are about the operators that the    *)
(* actions share.                                                          *)

LEMMA GotoType ==
  ASSUME ProcsOK, NEW w \in Workers, NEW step \in Steps, Goto(w, step)
  PROVE  ProcsOK'
  BY DEF ProcsOK, Goto

LEMMA EndType ==
  ASSUME ProcsOK, NEW w \in Workers, NEW owner \in Workers \cup {None}, EndProcess(w, owner)
  PROVE  ProcsOK'
<1>1. "idle" \in Steps
  BY DEF Steps
<1> QED
  BY <1>1 DEF ProcsOK, EndProcess

LEMMA ExitType ==
  ASSUME ProcsOK, NEW w \in Workers, Exit(w)
  PROVE  ProcsOK'
  BY EndType DEF Exit

LEMMA SpawnType ==
  ASSUME ProcsOK, NEW r \in Roles, Spawn(r)
  PROVE  ProcsOK'
<1>1. "spawned" \in Steps
  BY DEF Steps
<1> QED
  BY <1>1 DEF ProcsOK, Spawn

LEMMA EventType == events \in 0..MaxEvents /\ Event => events' \in 0..MaxEvents
  BY BoundsAssumption DEF Event

LEMMA FaultType ==
  ASSUME events \in 0..MaxEvents, NEW kind, Fault(kind)
  PROVE  events' \in 0..MaxEvents
  BY EventType DEF Fault

LEMMA BumpType == \A l \in Nat : \A n \in 0..l : Bump(n, l) \in 0..l
  BY DEF Bump

LEMMA SetStateType ==
  ASSUME ProcsOK, events \in 0..MaxEvents, state \in HotspotStates,
         NEW w \in Workers, NEW new \in HotspotStates, NEW next \in Steps, NEW onError \in Steps,
         SetState(w, new, next, onError)
  PROVE  ProcsOK' /\ events' \in 0..MaxEvents /\ state' \in HotspotStates
  BY GotoType, FaultType DEF SetState

(* A group of variables that a step leaves alone keeps its type.           *)
LEMMA UnchangedTypes ==
  /\ FilesOK /\ UNCHANGED files => FilesOK'
  /\ ConfOK /\ UNCHANGED conf => ConfOK'
  /\ RadioOK /\ UNCHANGED radio => RadioOK'
  /\ ProcsOK /\ UNCHANGED procs => ProcsOK'
  /\ WdOK /\ UNCHANGED wd => WdOK'
  BY DEF FilesOK, ConfOK, RadioOK, ProcsOK, WdOK, files, conf, radio, procs, wd

LEMMA StepNames ==
  /\ {"idle", "spawned", "locked", "claim", "clear", "decide"} \subseteq Steps
  /\ {"startfail", "fail", "done", "r_state", "r_teardown", "r_marker"} \subseteq Steps
  /\ {"r_wpa", "r_dhcp", "r_station", "s_check", "s_state", "s_takeover"} \subseteq Steps
  /\ {"s_hostapd", "s_ready", "s_udhcpd", "s_active", "f_reboot", "f_marker"} \subseteq Steps
  /\ {"f_kill", "f_wpa", "p_wpa", "v_run", "c_scan", "c_save"} \subseteq Steps
  BY DEF Steps, Critical, ApplySteps, RestoreSteps, StartSteps, StationSteps, OtherSteps

LEMMA RoleNames ==
  {"apply", "recover", "failover", "reboot", "reconnect", "vendor", "scan", "save"} \subseteq Roles
  BY DEF Roles, HotspotRoles, StationRoles, OtherRoles

LEMMA BootRequestsType == \A p, q : BootRequests(p, q) \subseteq Requests \cup {"none"}
  BY DEF BootRequests, Requests, Starts

LEMMA TypeInit == Init => TypeOK
<1> SUFFICES ASSUME Init PROVE TypeOK
    OBVIOUS
<1>1. ConfOK
  BY ConfigsAssumption DEF Init, ConfOK, Modes
<1>2. FilesOK
  BY BootRequestsType DEF Init, FilesOK, HotspotStates, MaintStates
<1>3. RadioOK
  BY DEF Init, RadioOK, Profiles
<1>4. ProcsOK
  BY StepNames DEF Init, ProcsOK
<1>5. wdpc = "poll" /\ fails = 0 /\ lost = 0 /\ mfails = 0 /\ events = 0
  BY DEF Init
<1>6. WdOK /\ events \in 0..MaxEvents
  BY <1>5, BoundsAssumption DEF WdOK
<1> QED
  BY <1>1, <1>2, <1>3, <1>4, <1>6 DEF TypeOK

LEMMA TypeStep == TypeOK /\ [Next]_vars => TypeOK'
<1> SUFFICES ASSUME TypeOK, [Next]_vars PROVE TypeOK'
    OBVIOUS
<1> USE UnchangedTypes DEF TypeOK
<1>1. ASSUME Poll PROVE TypeOK'
  BY <1>1, SpawnType, RoleNames DEF Poll, wd, WdOK
<1>2. ASSUME CheckOwned PROVE TypeOK'
  BY <1>2, BumpType, BoundsAssumption DEF CheckOwned, wd, WdOK, NextPass
<1>3. ASSUME CheckMaintenance PROVE TypeOK'
  BY <1>3, BumpType, BoundsAssumption DEF CheckMaintenance, wd, WdOK
<1>4. ASSUME MaintenanceConnected PROVE TypeOK'
  BY <1>4 DEF MaintenanceConnected, wd, WdOK
<1>5. ASSUME ConfirmMaintenance PROVE TypeOK'
  BY <1>5, BoundsAssumption DEF ConfirmMaintenance, wd, WdOK, files, FilesOK,
     MaintStates, NextPass
<1>6. ASSUME MaintenanceLost PROVE TypeOK'
  BY <1>6, SpawnType, RoleNames, BumpType, BoundsAssumption DEF MaintenanceLost, wd,
     WdOK, NextPass
<1>7. ASSUME PrimaryConnected PROVE TypeOK'
  BY <1>7, BoundsAssumption DEF PrimaryConnected, wd, WdOK, NextPass
<1>8. ASSUME PrimaryLost PROVE TypeOK'
  BY <1>8, SpawnType, RoleNames, BumpType, BoundsAssumption DEF PrimaryLost, wd, WdOK,
     NextPass
<1>9. ASSUME UserRequest PROVE TypeOK'
  BY <1>9, EventType DEF UserRequest, files, FilesOK
<1>10. ASSUME ExternalCall PROVE TypeOK'
  BY <1>10, EventType, SpawnType, RoleNames DEF ExternalCall
<1>11. ASSUME HelperFault PROVE TypeOK'
  BY <1>11, FaultType DEF HelperFault, radio, RadioOK, Profiles
<1>12. ASSUME NEW w \in Workers, AcquireLock(w) PROVE TypeOK'
  BY <1>12, StepNames DEF AcquireLock, ProcsOK, procs
<1>13. ASSUME NEW w \in Workers, LockBusy(w) PROVE TypeOK'
  BY <1>13, EndType DEF LockBusy, ProcsOK
<1>14. ASSUME NEW w \in Workers, BeginApply(w) PROVE TypeOK'
  BY <1>14, GotoType, StepNames DEF BeginApply
<1>15. ASSUME NEW w \in Workers, BeginRecover(w) PROVE TypeOK'
  BY <1>15, GotoType, ExitType, StepNames DEF BeginRecover, files, FilesOK, Requests,
     Starts
<1>16. ASSUME NEW w \in Workers, Claim(w) PROVE TypeOK'
  BY <1>16, ExitType, StepNames DEF Claim, files, FilesOK, Requests, Starts, ProcsOK
<1>17. ASSUME NEW w \in Workers, ClearPassword(w) PROVE TypeOK'
  BY <1>17, GotoType, ExitType, FaultType, StepNames DEF ClearPassword, conf, ConfOK
<1>18. ASSUME NEW w \in Workers, Decide(w) PROVE TypeOK'
  BY <1>18, StepNames DEF Decide, ProcsOK
<1>19. ASSUME NEW w \in Workers, MarkFailed(w) PROVE TypeOK'
  BY <1>19, SetStateType, StepNames DEF MarkFailed, files, FilesOK, HotspotStates
<1>20. ASSUME NEW w \in Workers, DropPending(w) PROVE TypeOK'
  BY <1>20, ExitType DEF DropPending, files, FilesOK
<1>21. ASSUME NEW w \in Workers, RestoreState(w) PROVE TypeOK'
  BY <1>21, SetStateType, StepNames DEF RestoreState, files, FilesOK, HotspotStates
<1>22. ASSUME NEW w \in Workers, RestoreTeardown(w) PROVE TypeOK'
  BY <1>22, GotoType, StepNames DEF RestoreTeardown, RadioOff, radio, RadioOK
<1>23. ASSUME NEW w \in Workers, RestoreMarker(w) PROVE TypeOK'
  BY <1>23, GotoType, StepNames DEF RestoreMarker, files, FilesOK, MaintStates
<1>24. ASSUME NEW w \in Workers, RestoreSupplicant(w) PROVE TypeOK'
  BY <1>24, GotoType, StepNames DEF RestoreSupplicant, radio, RadioOK, Profiles
<1>25. ASSUME NEW w \in Workers, RestoreDhcp(w) PROVE TypeOK'
  BY <1>25, GotoType, StepNames DEF RestoreDhcp
<1>26. ASSUME NEW w \in Workers, RestoreDone(w) PROVE TypeOK'
  BY <1>26, SetStateType, StepNames DEF RestoreDone, files, FilesOK, HotspotStates
<1>27. ASSUME NEW w \in Workers, StartCheck(w) PROVE TypeOK'
  BY <1>27, GotoType, StepNames DEF StartCheck
<1>28. ASSUME NEW w \in Workers, StartState(w) PROVE TypeOK'
  BY <1>28, SetStateType, StepNames DEF StartState, files, FilesOK, HotspotStates
<1>29. ASSUME NEW w \in Workers, StartTakeover(w) PROVE TypeOK'
  BY <1>29, GotoType, StepNames DEF StartTakeover, RadioOff, radio, RadioOK
<1>30. ASSUME NEW w \in Workers, StartHostapd(w) PROVE TypeOK'
  BY <1>30, GotoType, StepNames DEF StartHostapd, radio, RadioOK
<1>31. ASSUME NEW w \in Workers, StartReady(w) PROVE TypeOK'
  BY <1>31, GotoType, StepNames DEF StartReady
<1>32. ASSUME NEW w \in Workers, StartUdhcpd(w) PROVE TypeOK'
  BY <1>32, GotoType, StepNames DEF StartUdhcpd, radio, RadioOK
<1>33. ASSUME NEW w \in Workers, StartActive(w) PROVE TypeOK'
  BY <1>33, SetStateType, StepNames DEF StartActive, files, FilesOK, HotspotStates
<1>34. ASSUME NEW w \in Workers, StartFailed(w) PROVE TypeOK'
  BY <1>34, GotoType, StepNames DEF StartFailed
<1>35. ASSUME NEW w \in Workers, BeginFailover(w) PROVE TypeOK'
  BY <1>35, GotoType, ExitType, StepNames DEF BeginFailover
<1>36. ASSUME NEW w \in Workers, FailoverMarker(w) PROVE TypeOK'
  BY <1>36, GotoType, StepNames DEF FailoverMarker, files, FilesOK, MaintStates
<1>37. ASSUME NEW w \in Workers, FailoverKill(w) PROVE TypeOK'
  BY <1>37, GotoType, StepNames DEF FailoverKill, radio, RadioOK
<1>38. ASSUME NEW w \in Workers, FailoverSupplicant(w) PROVE TypeOK'
  BY <1>38, ExitType DEF FailoverSupplicant, radio, RadioOK, Profiles
<1>39. ASSUME NEW w \in Workers, Reboot(w) PROVE TypeOK'
  <2>1. FilesOK'
    BY <1>39, BootRequestsType DEF Reboot, FilesOK, HotspotStates, MaintStates
  <2>2. RadioOK'
    BY <1>39 DEF Reboot, RadioOK, Profiles
  <2>3. ProcsOK'
    BY <1>39, StepNames DEF Reboot, ProcsOK
  <2>4. wdpc' = "poll" /\ fails' = 0 /\ lost' = 0 /\ mfails' = 0
    BY <1>39 DEF Reboot
  <2>5. WdOK'
    BY <2>4, BoundsAssumption DEF WdOK
  <2> QED
    BY <1>39, <2>1, <2>2, <2>3, <2>5 DEF Reboot
<1>40. ASSUME NEW w \in Workers, BeginReconnect(w) PROVE TypeOK'
  BY <1>40, GotoType, ExitType, StepNames DEF BeginReconnect
<1>41. ASSUME NEW w \in Workers, Reconnect(w) PROVE TypeOK'
  BY <1>41, ExitType DEF Reconnect, radio, RadioOK, Profiles
<1>42. ASSUME NEW w \in Workers, BeginVendor(w) PROVE TypeOK'
  BY <1>42, GotoType, ExitType, StepNames DEF BeginVendor
<1>43. ASSUME NEW w \in Workers, VendorScript(w) PROVE TypeOK'
  BY <1>43, ExitType DEF VendorScript, radio, RadioOK, Profiles
<1>44. ASSUME NEW w \in Workers, BeginScan(w) PROVE TypeOK'
  BY <1>44, GotoType, ExitType, StepNames DEF BeginScan
<1>45. ASSUME NEW w \in Workers, Scan(w) PROVE TypeOK'
  BY <1>45, ExitType DEF Scan
<1>46. ASSUME NEW w \in Workers, BeginSave(w) PROVE TypeOK'
  BY <1>46, GotoType, ExitType, StepNames DEF BeginSave
<1>47. ASSUME NEW w \in Workers, SaveSettings(w) PROVE TypeOK'
  BY <1>47, ExitType DEF SaveSettings, conf, ConfOK
<1>48. ASSUME NEW w \in Workers, Kill(w) PROVE TypeOK'
  <2>1. ProcsOK'
    <3> DEFINE owner == IF holder = w THEN None ELSE holder
    <3>1. owner \in Workers \cup {None}
      BY DEF ProcsOK
    <3>2. EndProcess(w, owner)
      BY <1>48 DEF Kill
    <3> QED
      BY <3>1, <3>2, EndType
  <2>2. RadioOK'
    BY <1>48 DEF Kill, RadioOK
  <2> QED
    BY <1>48, <2>1, <2>2, FaultType DEF Kill
<1>49. CASE UNCHANGED vars
  BY <1>49 DEF vars
<1> QED
  BY <1>1, <1>2, <1>3, <1>4, <1>5, <1>6, <1>7, <1>8, <1>9, <1>10, <1>11, <1>12, <1>13,
     <1>14, <1>15, <1>16, <1>17, <1>18, <1>19, <1>20, <1>21, <1>22, <1>23, <1>24,
     <1>25, <1>26, <1>27, <1>28, <1>29, <1>30, <1>31, <1>32, <1>33, <1>34, <1>35,
     <1>36, <1>37, <1>38, <1>39, <1>40, <1>41, <1>42, <1>43, <1>44, <1>45, <1>46,
     <1>47, <1>48, <1>49 DEF Next, Watchdog, Environment, WorkerStep, ApplyStep,
     RestoreStep, StartStep, StationStep, CallStep

(* In every reachable state the files, settings, processes and counters    *)
(* hold values of their types, for any number of workers and any bounds.   *)
THEOREM TypeCorrect == Spec => []TypeOK
  BY TypeInit, TypeStep, PTL DEF Spec

-----------------------------------------------------------------------------
(* One owner of the radio.  RadioInv is inductive as long as the tmpfs     *)
(* takes the state file's writes.                                          *)

Outside == {"idle", "spawned"}

LEMMA GotoAt ==
  ASSUME ProcsOK, NEW w \in Workers, NEW step, Goto(w, step)
  PROVE  pc'[w] = step /\ act' = act /\ \A v \in Workers \ {w} : pc'[v] = pc[v]
  BY DEF ProcsOK, Goto

LEMMA EndAt ==
  ASSUME ProcsOK, NEW w \in Workers, NEW owner, EndProcess(w, owner)
  PROVE  pc'[w] = "idle" /\ holder' = owner /\ \A v \in Workers \ {w} : pc'[v] = pc[v]
  BY DEF ProcsOK, EndProcess

(* A process outside the critical section relies on nothing.               *)
LEMMA OutsidePhase == \A v \in Workers : pc[v] \in Outside => PhaseInv(v)
  BY DEF PhaseInv, StationSteps, Outside

LEMMA OutsidePhasePrime == \A v \in Workers : pc'[v] \in Outside => PhaseInv(v)'
  BY DEF PhaseInv, StationSteps, Outside

(* While w holds the lock, nobody else is past it.                         *)
LEMMA OthersOutside ==
  ASSUME LockInv, NEW w \in Workers, pc[w] \notin Outside
  PROVE  holder = w /\ \A v \in Workers \ {w} : pc[v] \in Outside
  BY DEF LockInv, Outside

(* A step of the holder: what it leaves for itself is all that counts.     *)
LEMMA GotoRadio ==
  ASSUME ProcsOK, LockInv, NEW w \in Workers, pc[w] \notin Outside,
         NEW step \in Steps \ Outside, Goto(w, step),
         PhaseInv(w)', RadioSingleOwner', HotspotIsVisible'
  PROVE  RadioInv'
<1>1. holder = w /\ \A v \in Workers \ {w} : pc[v] \in Outside
  BY OthersOutside
<1>2. pc'[w] = step /\ \A v \in Workers \ {w} : pc'[v] = pc[v]
  BY GotoAt
<1>3. holder' = w
  BY <1>1 DEF Goto
<1>4. LockInv'
  BY <1>1, <1>2, <1>3 DEF LockInv, Outside
<1>5. \A v \in Workers : PhaseInv(v)'
  BY <1>1, <1>2, OutsidePhasePrime
<1> QED
  BY <1>4, <1>5 DEF RadioInv

LEMMA ExitRadio ==
  ASSUME ProcsOK, LockInv, NEW w \in Workers, pc[w] \notin Outside, Exit(w),
         RadioSingleOwner', HotspotIsVisible'
  PROVE  RadioInv'
<1>1. holder = w /\ \A v \in Workers \ {w} : pc[v] \in Outside
  BY OthersOutside
<1>2. pc'[w] = "idle" /\ holder' = None /\ \A v \in Workers \ {w} : pc'[v] = pc[v]
  BY EndAt DEF Exit
<1>3. \A v \in Workers : pc'[v] \in Outside
  BY <1>1, <1>2 DEF Outside
<1>4. LockInv'
  BY <1>2, <1>3, WorkersAssumption DEF LockInv, Outside
<1>5. \A v \in Workers : PhaseInv(v)'
  BY <1>3, OutsidePhasePrime
<1> QED
  BY <1>4, <1>5 DEF RadioInv

(* A process that has not got past the lock comes or goes.                 *)
LEMMA OutsideRadio ==
  ASSUME RadioInv, NEW w \in Workers, pc[w] \in Outside, pc'[w] \in Outside,
         \A v \in Workers \ {w} : pc'[v] = pc[v],
         holder' = holder, state' = state, radio' = radio
  PROVE  RadioInv'
<1>1. LockInv'
  BY DEF RadioInv, LockInv, Outside
<1>2. ASSUME NEW v \in Workers PROVE PhaseInv(v)'
  <2>1. CASE v = w
    BY <2>1, OutsidePhasePrime
  <2>2. CASE v # w
    BY <2>2 DEF RadioInv, PhaseInv, radio
  <2> QED
    BY <2>1, <2>2
<1>3. RadioSingleOwner' /\ HotspotIsVisible'
  BY DEF RadioInv, RadioSingleOwner, HotspotIsVisible, radio
<1> QED
  BY <1>1, <1>2, <1>3 DEF RadioInv

LEMMA SpawnRadio ==
  ASSUME ProcsOK, RadioInv, NEW r, Spawn(r), state' = state, radio' = radio
  PROVE  RadioInv'
<1>1. PICK w \in Workers : pc[w] = "idle" /\ pc' = [pc EXCEPT ![w] = "spawned"] /\ holder' = holder
  BY DEF Spawn
<1>2. pc'[w] \in Outside /\ \A v \in Workers \ {w} : pc'[v] = pc[v]
  BY <1>1 DEF ProcsOK, Outside
<1>3. pc[w] \in Outside
  BY <1>1 DEF Outside
<1> QED
  BY <1>1, <1>2, <1>3, OutsideRadio

(* Nothing that RadioInv mentions changes.                                 *)
LEMMA SameRadio ==
  ASSUME RadioInv, pc' = pc, holder' = holder, state' = state, radio' = radio
  PROVE  RadioInv'
  BY DEF RadioInv, LockInv, PhaseInv, RadioSingleOwner, HotspotIsVisible, radio

LEMMA RadioInit == Init => RadioInv
<1> SUFFICES ASSUME Init PROVE RadioInv
    OBVIOUS
<1>1. \A w \in Workers : pc[w] = "idle"
  BY DEF Init
<1>2. holder = None /\ ap = {}
  BY DEF Init
<1>3. LockInv
  BY <1>1, <1>2, WorkersAssumption DEF LockInv
<1>4. \A w \in Workers : PhaseInv(w)
  BY <1>1, OutsidePhase DEF Outside
<1> QED
  BY <1>2, <1>3, <1>4 DEF RadioInv, RadioSingleOwner, HotspotIsVisible

LEMMA RadioStep == TypeOK /\ RadioInv /\ "tmpfs" \notin Faults /\ [Next]_vars => RadioInv'
<1> SUFFICES ASSUME TypeOK, RadioInv, "tmpfs" \notin Faults, [Next]_vars PROVE RadioInv'
    OBVIOUS
<1> USE DEF TypeOK
<1>a. LockInv /\ RadioSingleOwner /\ HotspotIsVisible /\ \A w \in Workers : PhaseInv(w)
  BY DEF RadioInv
<1>1. ASSUME Poll PROVE RadioInv'
  BY <1>1, SpawnRadio, SameRadio DEF Poll, files, procs
<1>2. ASSUME CheckOwned PROVE RadioInv'
  BY <1>2, SameRadio DEF CheckOwned, files, procs
<1>3. ASSUME CheckMaintenance PROVE RadioInv'
  BY <1>3, SameRadio DEF CheckMaintenance, files, procs
<1>4. ASSUME MaintenanceConnected PROVE RadioInv'
  BY <1>4, SameRadio DEF MaintenanceConnected, files, procs
<1>5. ASSUME ConfirmMaintenance PROVE RadioInv'
  BY <1>5, SameRadio DEF ConfirmMaintenance, files, procs
<1>6. ASSUME MaintenanceLost PROVE RadioInv'
  BY <1>6, SpawnRadio DEF MaintenanceLost, files
<1>7. ASSUME PrimaryConnected PROVE RadioInv'
  BY <1>7, SameRadio DEF PrimaryConnected, files, procs
<1>8. ASSUME PrimaryLost PROVE RadioInv'
  BY <1>8, SpawnRadio DEF PrimaryLost, files
<1>9. ASSUME UserRequest PROVE RadioInv'
  BY <1>9, SameRadio DEF UserRequest, files, procs
<1>10. ASSUME ExternalCall PROVE RadioInv'
  BY <1>10, SpawnRadio DEF ExternalCall, files
<1>11. ASSUME HelperFault PROVE RadioInv'
  <2>1. pc' = pc /\ holder' = holder /\ state' = state
    BY <1>11 DEF HelperFault, procs, files
  <2>2. ap' \subseteq ap /\ supplicant' \in {supplicant, "none"}
    BY <1>11 DEF HelperFault
  <2>3. LockInv'
    BY <1>a, <2>1 DEF LockInv
  <2>4. \A v \in Workers : PhaseInv(v)'
    BY <1>a, <2>1, <2>2 DEF PhaseInv
  <2>5. RadioSingleOwner' /\ HotspotIsVisible'
    BY <1>a, <2>1, <2>2 DEF RadioSingleOwner, HotspotIsVisible
  <2> QED
    BY <2>3, <2>4, <2>5 DEF RadioInv
<1>12. ASSUME NEW w \in Workers, AcquireLock(w) PROVE RadioInv'
  <2>1. \A v \in Workers : pc[v] \in Outside
    BY <1>12, <1>a, WorkersAssumption DEF AcquireLock, LockInv, Outside
  <2>2. pc'[w] = "locked" /\ holder' = w /\ \A v \in Workers \ {w} : pc'[v] = pc[v]
    BY <1>12 DEF AcquireLock, ProcsOK
  <2>3. state' = state /\ radio' = radio
    BY <1>12 DEF AcquireLock, files
  <2>4. LockInv'
    BY <2>1, <2>2 DEF LockInv, Outside
  <2>5. PhaseInv(w)'
    BY <2>2 DEF PhaseInv, StationSteps
  <2>6. \A v \in Workers : PhaseInv(v)'
    BY <2>1, <2>2, <2>5, OutsidePhasePrime
  <2>7. RadioSingleOwner' /\ HotspotIsVisible'
    BY <1>a, <2>3 DEF RadioSingleOwner, HotspotIsVisible, radio
  <2> QED
    BY <2>4, <2>6, <2>7 DEF RadioInv
<1>13. ASSUME NEW w \in Workers, LockBusy(w) PROVE RadioInv'
  <2>1. pc'[w] = "idle" /\ holder' = holder /\ \A v \in Workers \ {w} : pc'[v] = pc[v]
    BY <1>13, EndAt DEF LockBusy
  <2>2. state' = state /\ radio' = radio /\ pc[w] = "spawned"
    BY <1>13 DEF LockBusy, files
  <2> QED
    BY <2>1, <2>2, OutsideRadio DEF Outside
<1>14. ASSUME NEW w \in Workers, BeginApply(w) PROVE RadioInv'
  BY <1>14, GotoAt, GotoRadio, StepNames, <1>a DEF BeginApply, Outside, PhaseInv,
     StationSteps, ApStates, RadioSingleOwner, HotspotIsVisible, files, radio
<1>15. ASSUME NEW w \in Workers, BeginRecover(w) PROVE RadioInv'
  BY <1>15, GotoAt, GotoRadio, StepNames, <1>a, ExitRadio DEF BeginRecover, Outside,
     PhaseInv, StationSteps, ApStates, RadioSingleOwner, HotspotIsVisible, files,
     radio
<1>16. ASSUME NEW w \in Workers, Claim(w) PROVE RadioInv'
  <2>1. state' = state /\ radio' = radio /\ pc[w] = "claim"
    BY <1>16 DEF Claim
  <2>2. RadioSingleOwner' /\ HotspotIsVisible'
    BY <1>a, <2>1 DEF RadioSingleOwner, HotspotIsVisible, radio
  <2>3. CASE Exit(w)
    BY <1>a, <2>1, <2>2, <2>3, ExitRadio DEF Outside
  <2>4. CASE ~Exit(w)
    <3>1. holder' = holder /\ pc'[w] \in {"clear", "decide"}
      BY <1>16, <2>4 DEF Claim, ProcsOK
    <3>2. \A v \in Workers \ {w} : pc'[v] = pc[v]
      BY <1>16, <2>4 DEF Claim, ProcsOK
    <3>3. LockInv'
      BY <1>a, <2>1, <3>1, <3>2 DEF LockInv
    <3>4. PhaseInv(w)'
      BY <3>1 DEF PhaseInv, StationSteps
    <3>5. \A v \in Workers \ {w} : pc'[v] \in Outside
      BY <1>a, <2>1, <3>2, OthersOutside DEF Outside
    <3> QED
      BY <2>2, <3>3, <3>4, <3>5, OutsidePhasePrime DEF RadioInv
  <2> QED
    BY <2>3, <2>4
<1>17. ASSUME NEW w \in Workers, ClearPassword(w) PROVE RadioInv'
  BY <1>17, GotoAt, GotoRadio, StepNames, <1>a, ExitRadio DEF ClearPassword, Outside,
     PhaseInv, StationSteps, ApStates, RadioSingleOwner, HotspotIsVisible, files,
     radio
<1>18. ASSUME NEW w \in Workers, Decide(w) PROVE RadioInv'
  <2>1. state' = state /\ radio' = radio /\ pc[w] = "decide" /\ holder' = holder
    BY <1>18 DEF Decide, files
  <2>2. RadioSingleOwner' /\ HotspotIsVisible'
    BY <1>a, <2>1 DEF RadioSingleOwner, HotspotIsVisible, radio
  <2>3. pc'[w] \in {"s_check", "done", "r_state"}
    BY <1>18 DEF Decide, ProcsOK
  <2>4. \A v \in Workers \ {w} : pc'[v] = pc[v]
    BY <1>18 DEF Decide, ProcsOK
  <2>5. LockInv'
    BY <1>a, <2>1, <2>3, <2>4 DEF LockInv
  <2>6. PhaseInv(w)'
    BY <2>3 DEF PhaseInv, StationSteps
  <2>7. \A v \in Workers \ {w} : pc'[v] \in Outside
    BY <1>a, <2>1, <2>4, OthersOutside DEF Outside
  <2> QED
    BY <2>2, <2>5, <2>6, <2>7, OutsidePhasePrime DEF RadioInv
<1>19. ASSUME NEW w \in Workers, MarkFailed(w) PROVE RadioInv'
  BY <1>19, GotoAt, GotoRadio, StepNames, <1>a DEF MarkFailed, Outside, PhaseInv,
     StationSteps, ApStates, RadioSingleOwner, HotspotIsVisible, files, radio,
     SetState, Fault
<1>20. ASSUME NEW w \in Workers, DropPending(w) PROVE RadioInv'
  BY <1>20, ExitRadio, <1>a DEF DropPending, Outside, RadioSingleOwner,
     HotspotIsVisible, files, radio
<1>21. ASSUME NEW w \in Workers, RestoreState(w) PROVE RadioInv'
  BY <1>21, GotoAt, GotoRadio, StepNames, <1>a DEF RestoreState, Outside, PhaseInv,
     StationSteps, ApStates, RadioSingleOwner, HotspotIsVisible, files, radio,
     SetState, Fault
<1>22. ASSUME NEW w \in Workers, RestoreTeardown(w) PROVE RadioInv'
  BY <1>22, GotoAt, GotoRadio, StepNames, <1>a DEF RestoreTeardown, Outside, PhaseInv,
     StationSteps, ApStates, RadioSingleOwner, HotspotIsVisible, files, radio,
     RadioOff
<1>23. ASSUME NEW w \in Workers, RestoreMarker(w) PROVE RadioInv'
  BY <1>23, GotoAt, GotoRadio, StepNames, <1>a DEF RestoreMarker, Outside, PhaseInv,
     StationSteps, ApStates, RadioSingleOwner, HotspotIsVisible, files, radio
<1>24. ASSUME NEW w \in Workers, RestoreSupplicant(w) PROVE RadioInv'
  BY <1>24, GotoAt, GotoRadio, StepNames, <1>a DEF RestoreSupplicant, Outside,
     PhaseInv, StationSteps, ApStates, RadioSingleOwner, HotspotIsVisible, files,
     radio
<1>25. ASSUME NEW w \in Workers, RestoreDhcp(w) PROVE RadioInv'
  BY <1>25, GotoAt, GotoRadio, StepNames, <1>a DEF RestoreDhcp, Outside, PhaseInv,
     StationSteps, ApStates, RadioSingleOwner, HotspotIsVisible, files, radio
<1>26. ASSUME NEW w \in Workers, RestoreDone(w) PROVE RadioInv'
  BY <1>26, GotoAt, GotoRadio, StepNames, <1>a DEF RestoreDone, Outside, PhaseInv,
     StationSteps, ApStates, RadioSingleOwner, HotspotIsVisible, files, radio,
     SetState, Fault
<1>27. ASSUME NEW w \in Workers, StartCheck(w) PROVE RadioInv'
  BY <1>27, GotoAt, GotoRadio, StepNames, <1>a DEF StartCheck, Outside, PhaseInv,
     StationSteps, ApStates, RadioSingleOwner, HotspotIsVisible, files, radio
<1>28. ASSUME NEW w \in Workers, StartState(w) PROVE RadioInv'
  BY <1>28, GotoAt, GotoRadio, StepNames, <1>a DEF StartState, Outside, PhaseInv,
     StationSteps, ApStates, RadioSingleOwner, HotspotIsVisible, files, radio,
     SetState, Fault
<1>29. ASSUME NEW w \in Workers, StartTakeover(w) PROVE RadioInv'
  BY <1>29, GotoAt, GotoRadio, StepNames, <1>a DEF StartTakeover, Outside, PhaseInv,
     StationSteps, ApStates, RadioSingleOwner, HotspotIsVisible, files, radio,
     RadioOff
<1>30. ASSUME NEW w \in Workers, StartHostapd(w) PROVE RadioInv'
  BY <1>30, GotoAt, GotoRadio, StepNames, <1>a DEF StartHostapd, Outside, PhaseInv,
     StationSteps, ApStates, RadioSingleOwner, HotspotIsVisible, files, radio
<1>31. ASSUME NEW w \in Workers, StartReady(w) PROVE RadioInv'
  BY <1>31, GotoAt, GotoRadio, StepNames, <1>a DEF StartReady, Outside, PhaseInv,
     StationSteps, ApStates, RadioSingleOwner, HotspotIsVisible, files, radio
<1>32. ASSUME NEW w \in Workers, StartUdhcpd(w) PROVE RadioInv'
  BY <1>32, GotoAt, GotoRadio, StepNames, <1>a DEF StartUdhcpd, Outside, PhaseInv,
     StationSteps, ApStates, RadioSingleOwner, HotspotIsVisible, files, radio
<1>33. ASSUME NEW w \in Workers, StartActive(w) PROVE RadioInv'
  BY <1>33, GotoAt, GotoRadio, StepNames, <1>a DEF StartActive, Outside, PhaseInv,
     StationSteps, ApStates, RadioSingleOwner, HotspotIsVisible, files, radio,
     SetState, Fault
<1>34. ASSUME NEW w \in Workers, StartFailed(w) PROVE RadioInv'
  BY <1>34, GotoAt, GotoRadio, StepNames, <1>a DEF StartFailed, Outside, PhaseInv,
     StationSteps, ApStates, RadioSingleOwner, HotspotIsVisible, files, radio
<1>35. ASSUME NEW w \in Workers, BeginFailover(w) PROVE RadioInv'
  BY <1>35, GotoAt, GotoRadio, StepNames, <1>a, ExitRadio DEF BeginFailover, Outside,
     PhaseInv, StationSteps, ApStates, RadioSingleOwner, HotspotIsVisible, files,
     radio, MayTouchStation
<1>36. ASSUME NEW w \in Workers, FailoverMarker(w) PROVE RadioInv'
  BY <1>36, GotoAt, GotoRadio, StepNames, <1>a DEF FailoverMarker, Outside, PhaseInv,
     StationSteps, ApStates, RadioSingleOwner, HotspotIsVisible, files, radio
<1>37. ASSUME NEW w \in Workers, FailoverKill(w) PROVE RadioInv'
  BY <1>37, GotoAt, GotoRadio, StepNames, <1>a DEF FailoverKill, Outside, PhaseInv,
     StationSteps, ApStates, RadioSingleOwner, HotspotIsVisible, files, radio
<1>38. ASSUME NEW w \in Workers, FailoverSupplicant(w) PROVE RadioInv'
  BY <1>38, ExitRadio, <1>a DEF FailoverSupplicant, Outside, RadioSingleOwner,
     HotspotIsVisible, files, radio, PhaseInv, StationSteps, ApStates
<1>39. ASSUME NEW w \in Workers, Reboot(w) PROVE RadioInv'
  <2>1. \A v \in Workers : pc'[v] = "idle"
    BY <1>39 DEF Reboot
  <2>2. holder' = None /\ ap' = {}
    BY <1>39 DEF Reboot
  <2>3. LockInv'
    BY <2>1, <2>2, WorkersAssumption DEF LockInv
  <2>4. \A v \in Workers : PhaseInv(v)'
    BY <2>1, OutsidePhasePrime DEF Outside
  <2> QED
    BY <2>2, <2>3, <2>4 DEF RadioInv, RadioSingleOwner, HotspotIsVisible
<1>40. ASSUME NEW w \in Workers, BeginReconnect(w) PROVE RadioInv'
  BY <1>40, GotoAt, GotoRadio, StepNames, <1>a, ExitRadio DEF BeginReconnect, Outside,
     PhaseInv, StationSteps, ApStates, RadioSingleOwner, HotspotIsVisible, files,
     radio, MayTouchStation
<1>41. ASSUME NEW w \in Workers, Reconnect(w) PROVE RadioInv'
  BY <1>41, ExitRadio, <1>a DEF Reconnect, Outside, RadioSingleOwner,
     HotspotIsVisible, files, radio, PhaseInv, StationSteps, ApStates
<1>42. ASSUME NEW w \in Workers, BeginVendor(w) PROVE RadioInv'
  BY <1>42, GotoAt, GotoRadio, StepNames, <1>a, ExitRadio DEF BeginVendor, Outside,
     PhaseInv, StationSteps, ApStates, RadioSingleOwner, HotspotIsVisible, files,
     radio, MayTouchStation
<1>43. ASSUME NEW w \in Workers, VendorScript(w) PROVE RadioInv'
  BY <1>43, ExitRadio, <1>a DEF VendorScript, Outside, RadioSingleOwner,
     HotspotIsVisible, files, radio, PhaseInv, StationSteps, ApStates
<1>44. ASSUME NEW w \in Workers, BeginScan(w) PROVE RadioInv'
  BY <1>44, GotoAt, GotoRadio, StepNames, <1>a, ExitRadio DEF BeginScan, Outside,
     PhaseInv, StationSteps, ApStates, RadioSingleOwner, HotspotIsVisible, files,
     radio
<1>45. ASSUME NEW w \in Workers, Scan(w) PROVE RadioInv'
  BY <1>45, ExitRadio, <1>a DEF Scan, Outside, RadioSingleOwner, HotspotIsVisible,
     files, radio
<1>46. ASSUME NEW w \in Workers, BeginSave(w) PROVE RadioInv'
  BY <1>46, GotoAt, GotoRadio, StepNames, <1>a, ExitRadio DEF BeginSave, Outside,
     PhaseInv, StationSteps, ApStates, RadioSingleOwner, HotspotIsVisible, files,
     radio
<1>47. ASSUME NEW w \in Workers, SaveSettings(w) PROVE RadioInv'
  BY <1>47, ExitRadio, <1>a DEF SaveSettings, Outside, RadioSingleOwner,
     HotspotIsVisible, files, radio
<1>48. ASSUME NEW w \in Workers, Kill(w) PROVE RadioInv'
  <2> DEFINE owner == IF holder = w THEN None ELSE holder
  <2>1. EndProcess(w, owner) /\ state' = state /\ ap' \subseteq ap /\ supplicant' = supplicant
    BY <1>48 DEF Kill, files
  <2>2. pc'[w] = "idle" /\ holder' = owner /\ \A v \in Workers \ {w} : pc'[v] = pc[v]
    BY <2>1, EndAt
  <2>3. LockInv'
    BY <1>a, <2>2, WorkersAssumption DEF LockInv
  <2>4. ASSUME NEW v \in Workers \ {w} PROVE PhaseInv(v)'
    BY <1>a, <2>1, <2>2 DEF PhaseInv
  <2>5. PhaseInv(w)'
    BY <2>2, OutsidePhasePrime DEF Outside
  <2>6. RadioSingleOwner' /\ HotspotIsVisible'
    BY <1>a, <2>1 DEF RadioSingleOwner, HotspotIsVisible
  <2> QED
    BY <2>3, <2>4, <2>5, <2>6 DEF RadioInv
<1>49. CASE UNCHANGED vars
  BY <1>49, SameRadio DEF vars, files, procs
<1> QED
  BY <1>1, <1>2, <1>3, <1>4, <1>5, <1>6, <1>7, <1>8, <1>9, <1>10, <1>11, <1>12, <1>13,
     <1>14, <1>15, <1>16, <1>17, <1>18, <1>19, <1>20, <1>21, <1>22, <1>23, <1>24,
     <1>25, <1>26, <1>27, <1>28, <1>29, <1>30, <1>31, <1>32, <1>33, <1>34, <1>35,
     <1>36, <1>37, <1>38, <1>39, <1>40, <1>41, <1>42, <1>43, <1>44, <1>45, <1>46,
     <1>47, <1>48, <1>49 DEF Next, Watchdog, Environment, WorkerStep, ApplyStep,
     RestoreStep, StartStep, StationStep, CallStep

(* The radio has one owner and the state file never hides a hotspot, for   *)
(* any number of workers, requests and kills, as long as the tmpfs takes   *)
(* the state file's writes.                                                *)
THEOREM RadioSafe ==
  ASSUME "tmpfs" \notin Faults
  PROVE  Spec => [](RadioSingleOwner /\ HotspotIsVisible)
<1>1. Init => TypeOK /\ RadioInv
  BY TypeInit, RadioInit
<1>2. TypeOK /\ RadioInv /\ [Next]_vars => (TypeOK /\ RadioInv)'
  BY TypeStep, RadioStep
<1>3. RadioInv => RadioSingleOwner /\ HotspotIsVisible
  BY DEF RadioInv
<1> QED
  BY <1>1, <1>2, <1>3, PTL DEF Spec

-----------------------------------------------------------------------------
(* What becomes of the requests.  WorkInv says what the holder of the lock *)
(* may rely on; the same argument as for RadioInv shows that it is kept.   *)

(* Only these positions rely on anything about the claimed work.           *)
Relying == StartSteps \cup {"clear", "decide", "startfail", "done"}

LEMMA FreeIntentPrime == \A v \in Workers : pc'[v] \notin Relying => IntentInv(v)'
  BY DEF IntentInv, StartSteps, Relying

LEMMA OutsideIntentPrime == \A v \in Workers : pc'[v] \in Outside => IntentInv(v)'
  BY FreeIntentPrime DEF Outside, Relying, StartSteps

LEMMA GotoWork ==
  ASSUME ProcsOK, LockInv, NEW w \in Workers, pc[w] \notin Outside,
         NEW step, Goto(w, step), IntentInv(w)'
  PROVE  WorkInv'
<1>1. \A v \in Workers \ {w} : pc[v] \in Outside
  BY OthersOutside
<1>2. \A v \in Workers \ {w} : pc'[v] = pc[v]
  BY GotoAt
<1> QED
  BY <1>1, <1>2, OutsideIntentPrime DEF WorkInv

LEMMA ExitWork ==
  ASSUME ProcsOK, LockInv, NEW w \in Workers, pc[w] \notin Outside, Exit(w)
  PROVE  WorkInv'
<1>1. \A v \in Workers \ {w} : pc[v] \in Outside
  BY OthersOutside
<1>2. pc'[w] = "idle" /\ \A v \in Workers \ {w} : pc'[v] = pc[v]
  BY EndAt DEF Exit
<1> QED
  BY <1>1, <1>2, OutsideIntentPrime DEF WorkInv, Outside

(* One process comes or goes, or none, and helpers may die.                *)
LEMMA OutsideWork ==
  ASSUME WorkInv, NEW w \in Workers, pc'[w] \in Outside,
         \A v \in Workers \ {w} : pc'[v] = pc[v] /\ act'[v] = act[v],
         state' = state, pending' = pending, password' = password, ap' \subseteq ap
  PROVE  WorkInv'
<1>1. ASSUME NEW v \in Workers PROVE IntentInv(v)'
  <2>1. CASE v = w
    BY <2>1, OutsideIntentPrime
  <2>2. CASE v # w
    BY <2>2 DEF WorkInv, IntentInv
  <2> QED
    BY <2>1, <2>2
<1> QED
  BY <1>1 DEF WorkInv

LEMMA SameWork ==
  ASSUME WorkInv, pc' = pc, act' = act,
         state' = state, pending' = pending, password' = password, ap' \subseteq ap
  PROVE  WorkInv'
  BY DEF WorkInv, IntentInv

LEMMA SpawnWork ==
  ASSUME ProcsOK, WorkInv, NEW r, Spawn(r),
         state' = state, pending' = pending, password' = password, ap' \subseteq ap
  PROVE  WorkInv'
<1>1. PICK w \in Workers : pc' = [pc EXCEPT ![w] = "spawned"] /\ act' = act
  BY DEF Spawn
<1>2. pc'[w] \in Outside /\ \A v \in Workers \ {w} : pc'[v] = pc[v]
  BY <1>1 DEF ProcsOK, Outside
<1> QED
  BY <1>1, <1>2, OutsideWork

LEMMA WorkInit == Init => WorkInv
<1> SUFFICES ASSUME Init PROVE WorkInv
    OBVIOUS
<1>1. \A w \in Workers : pc[w] = "idle"
  BY DEF Init
<1> QED
  BY <1>1 DEF WorkInv, IntentInv, StartSteps

LEMMA WorkStep ==
  TypeOK /\ RadioInv /\ WorkInv /\ "tmpfs" \notin Faults /\ [Next]_vars => WorkInv'
<1> SUFFICES ASSUME TypeOK, RadioInv, WorkInv, "tmpfs" \notin Faults, [Next]_vars
             PROVE  WorkInv'
    OBVIOUS
<1> USE DEF TypeOK
<1>a. LockInv /\ HotspotIsVisible /\ \A w \in Workers : PhaseInv(w) /\ IntentInv(w)
  BY DEF RadioInv, WorkInv
<1>1. ASSUME Poll PROVE WorkInv'
  BY <1>1, SpawnWork, SameWork DEF Poll, files, conf, radio, procs
<1>2. ASSUME CheckOwned PROVE WorkInv'
  BY <1>2, SameWork DEF CheckOwned, files, conf, radio, procs
<1>3. ASSUME CheckMaintenance PROVE WorkInv'
  BY <1>3, SameWork DEF CheckMaintenance, files, conf, radio, procs
<1>4. ASSUME MaintenanceConnected PROVE WorkInv'
  BY <1>4, SameWork DEF MaintenanceConnected, files, conf, radio, procs
<1>5. ASSUME ConfirmMaintenance PROVE WorkInv'
  BY <1>5, SameWork DEF ConfirmMaintenance, files, conf, radio, procs
<1>6. ASSUME MaintenanceLost PROVE WorkInv'
  BY <1>6, SpawnWork DEF MaintenanceLost, files, conf, radio
<1>7. ASSUME PrimaryConnected PROVE WorkInv'
  BY <1>7, SameWork DEF PrimaryConnected, files, conf, radio, procs
<1>8. ASSUME PrimaryLost PROVE WorkInv'
  BY <1>8, SpawnWork DEF PrimaryLost, files, conf, radio
<1>9. ASSUME UserRequest PROVE WorkInv'
  BY <1>9, SameWork DEF UserRequest, files, conf, radio, procs
<1>10. ASSUME ExternalCall PROVE WorkInv'
  BY <1>10, SpawnWork DEF ExternalCall, files, conf, radio
<1>11. ASSUME HelperFault PROVE WorkInv'
  BY <1>11, SameWork DEF HelperFault, files, conf, radio, procs
<1>12. ASSUME NEW w \in Workers, AcquireLock(w) PROVE WorkInv'
  <2>1. \A v \in Workers : pc[v] \in Outside
    BY <1>12, <1>a, WorkersAssumption DEF AcquireLock, LockInv, Outside
  <2>2. pc'[w] = "locked" /\ \A v \in Workers \ {w} : pc'[v] = pc[v]
    BY <1>12 DEF AcquireLock, ProcsOK
  <2>3. IntentInv(w)'
    BY <2>2 DEF IntentInv, StartSteps
  <2> QED
    BY <2>1, <2>2, <2>3, OutsideIntentPrime DEF WorkInv
<1>13. ASSUME NEW w \in Workers, LockBusy(w) PROVE WorkInv'
  <2>1. pc'[w] = "idle" /\ \A v \in Workers \ {w} : pc'[v] = pc[v] /\ act'[v] = act[v]
    BY <1>13 DEF LockBusy, EndProcess, ProcsOK
  <2> QED
    BY <1>13, <2>1, OutsideWork DEF LockBusy, Outside, files, conf, radio
<1>14. ASSUME NEW w \in Workers, BeginApply(w) PROVE WorkInv'
  BY <1>14, GotoAt, GotoWork, <1>a, FreeIntentPrime DEF BeginApply, Outside, Relying,
     StartSteps
<1>15. ASSUME NEW w \in Workers, BeginRecover(w) PROVE WorkInv'
  BY <1>15, GotoAt, GotoWork, <1>a, FreeIntentPrime, ExitWork DEF BeginRecover,
     Outside, Relying, StartSteps
<1>16. ASSUME NEW w \in Workers, Claim(w) PROVE WorkInv'
  <2>1. CASE Exit(w)
    BY <1>16, <2>1, ExitWork, <1>a DEF Claim, Outside
  <2>2. CASE ~Exit(w)
    <3> DEFINE work == IF request # "none" THEN request ELSE pending
               todo == IF work # "none" THEN work ELSE IdleAction
    <3>1. /\ todo # "none" /\ pending' = work /\ state' = state
          /\ pc' = [pc EXCEPT ![w] = IF todo = "start-open" THEN "clear" ELSE "decide"]
          /\ act' = [act EXCEPT ![w] = IF todo = "stop" THEN "stop" ELSE "start"]
      BY <1>16, <2>2 DEF Claim
    <3>2. \A v \in Workers \ {w} : pc'[v] = pc[v] /\ pc[v] \in Outside
      BY <1>16, <1>a, <3>1, OthersOutside DEF Claim, ProcsOK, Outside
    <3>3. pc'[w] = (IF todo = "start-open" THEN "clear" ELSE "decide")
      BY <3>1 DEF ProcsOK
    <3>4. act'[w] = (IF todo = "stop" THEN "stop" ELSE "start")
      BY <3>1 DEF ProcsOK
    <3>5. work \in Requests \cup {"none"}
      BY DEF FilesOK
    <3>6. IdleAction = "start" => state = "active"
      BY DEF IdleAction
    <3>7. IdleAction \in {"start", "stop", "none"}
      BY DEF IdleAction
    <3> HIDE DEF todo
    <3>8. work = "none" => todo = IdleAction
      BY DEF todo
    <3>9. work # "none" => todo = work
      BY DEF todo
    <3> HIDE DEF work
    <3>10. act'[w] = "start" => pending' \in Starts \/ (pending' = "none" /\ state' = "active")
      <4>1. CASE work = "none"
        BY <4>1, <3>1, <3>4, <3>6, <3>7, <3>8
      <4>2. CASE work # "none"
        BY <4>2, <3>1, <3>4, <3>5, <3>9 DEF Requests, Starts
      <4> QED
        BY <4>1, <4>2
    <3>11. pc'[w] = "decide" => pending' # "start-open"
      BY <3>1, <3>3, <3>9
    <3>12. pc'[w] = "clear" => act'[w] = "start"
      BY <3>3, <3>4
    <3>13. IntentInv(w)'
      BY <3>3, <3>10, <3>11, <3>12 DEF IntentInv, StartSteps
    <3> QED
      BY <3>2, <3>13, OutsideIntentPrime DEF WorkInv
  <2> QED
    BY <2>1, <2>2
<1>17. ASSUME NEW w \in Workers, ClearPassword(w) PROVE WorkInv'
  <2>1. CASE Exit(w)
    BY <1>17, <2>1, ExitWork, <1>a DEF ClearPassword, Outside
  <2>2. CASE password' = "unset" /\ Goto(w, "decide")
    <3>1. pc'[w] = "decide" /\ act' = act /\ pending' = pending /\ state' = state
      BY <1>17, <2>2, GotoAt DEF ClearPassword, files, Goto
    <3>2. IntentInv(w)'
      BY <1>17, <1>a, <2>2, <3>1 DEF ClearPassword, IntentInv, StartSteps
    <3> QED
      BY <1>17, <1>a, <2>2, <3>2, GotoWork DEF ClearPassword, Outside
  <2> QED
    BY <1>17, <2>1, <2>2 DEF ClearPassword
<1>18. ASSUME NEW w \in Workers, Decide(w) PROVE WorkInv'
  <2>1. \A v \in Workers \ {w} : pc'[v] = pc[v] /\ pc[v] \in Outside
    BY <1>18, <1>a, OthersOutside DEF Decide, ProcsOK, Outside
  <2>2. pc'[w] \in {"s_check", "done", "r_state"}
    BY <1>18 DEF Decide, ProcsOK
  <2>3. pc'[w] = "s_check" => act[w] = "start"
    BY <1>18 DEF Decide, ProcsOK
  <2>4. pc'[w] = "done" => state \in {"", "station"}
    BY <1>18 DEF Decide, ProcsOK
  <2>5. state' = state /\ pending' = pending /\ password' = password /\ ap' = ap /\ pc[w] = "decide"
    BY <1>18 DEF Decide, files, conf, radio
  <2>6. state \in {"", "station"} => ap = {}
    BY <1>a DEF HotspotIsVisible, ApStates
  <2>7. IntentInv(w)'
    BY <1>a, <2>2, <2>3, <2>4, <2>5, <2>6 DEF IntentInv, StartSteps, Starts
  <2> QED
    BY <2>1, <2>7, OutsideIntentPrime DEF WorkInv
<1>19. ASSUME NEW w \in Workers, MarkFailed(w) PROVE WorkInv'
  <2>1. pc'[w] \in {"done"} /\ pending' = pending /\ password' = password
    BY <1>19, GotoAt DEF MarkFailed, files, conf, SetState, Fault, radio
  <2>2. pc[w] = "fail" /\ state' = "failed" /\ ap' = ap
    BY <1>19 DEF MarkFailed, files, conf, SetState, Fault, radio
  <2>3. IntentInv(w)'
    BY <1>a, <2>1, <2>2 DEF IntentInv, StartSteps, Starts, PhaseInv
  <2> QED
    BY <1>19, <1>a, <2>3, GotoWork DEF MarkFailed, Outside, SetState, Fault, radio
<1>20. ASSUME NEW w \in Workers, DropPending(w) PROVE WorkInv'
  BY <1>20, ExitWork, <1>a DEF DropPending, Outside
<1>21. ASSUME NEW w \in Workers, RestoreState(w) PROVE WorkInv'
  BY <1>21, GotoAt, GotoWork, <1>a, FreeIntentPrime DEF RestoreState, Outside,
     Relying, StartSteps, SetState, Fault
<1>22. ASSUME NEW w \in Workers, RestoreTeardown(w) PROVE WorkInv'
  BY <1>22, GotoAt, GotoWork, <1>a, FreeIntentPrime DEF RestoreTeardown, Outside,
     Relying, StartSteps
<1>23. ASSUME NEW w \in Workers, RestoreMarker(w) PROVE WorkInv'
  BY <1>23, GotoAt, GotoWork, <1>a, FreeIntentPrime DEF RestoreMarker, Outside,
     Relying, StartSteps
<1>24. ASSUME NEW w \in Workers, RestoreSupplicant(w) PROVE WorkInv'
  BY <1>24, GotoAt, GotoWork, <1>a, FreeIntentPrime DEF RestoreSupplicant, Outside,
     Relying, StartSteps
<1>25. ASSUME NEW w \in Workers, RestoreDhcp(w) PROVE WorkInv'
  BY <1>25, GotoAt, GotoWork, <1>a, FreeIntentPrime DEF RestoreDhcp, Outside, Relying,
     StartSteps
<1>26. ASSUME NEW w \in Workers, RestoreDone(w) PROVE WorkInv'
  <2>1. pc'[w] \in {"done", "fail"} /\ pending' = pending /\ password' = password
    BY <1>26, GotoAt DEF RestoreDone, files, conf, SetState, Fault, radio
  <2>2. pc[w] = "r_station" /\ state' = "station" /\ ap' = ap
    BY <1>26 DEF RestoreDone, files, conf, SetState, Fault, radio
  <2>3. IntentInv(w)'
    BY <1>a, <2>1, <2>2 DEF IntentInv, StartSteps, Starts, PhaseInv
  <2> QED
    BY <1>26, <1>a, <2>3, GotoWork DEF RestoreDone, Outside, SetState, Fault, radio
<1>27. ASSUME NEW w \in Workers, StartCheck(w) PROVE WorkInv'
  <2>1. pc'[w] \in {"s_state", "startfail"} /\ pending' = pending /\ password' = password
    BY <1>27, GotoAt DEF StartCheck, files, conf
  <2>2. pc[w] = "s_check" /\ state' = state
    BY <1>27 DEF StartCheck, files, conf
  <2>3. IntentInv(w)'
    BY <1>a, <2>1, <2>2 DEF IntentInv, StartSteps, Starts
  <2> QED
    BY <1>27, <1>a, <2>3, GotoWork DEF StartCheck, Outside
<1>28. ASSUME NEW w \in Workers, StartState(w) PROVE WorkInv'
  <2>1. pc'[w] \in {"s_takeover"} /\ pending' = pending /\ password' = password
    BY <1>28, GotoAt DEF StartState, files, conf, SetState, Fault
  <2>2. pc[w] = "s_state"
    BY <1>28 DEF StartState, files, conf, SetState, Fault
  <2>3. IntentInv(w)'
    BY <1>a, <2>1, <2>2 DEF IntentInv, StartSteps, Starts
  <2> QED
    BY <1>28, <1>a, <2>3, GotoWork DEF StartState, Outside, SetState, Fault
<1>29. ASSUME NEW w \in Workers, StartTakeover(w) PROVE WorkInv'
  <2>1. pc'[w] \in {"s_hostapd", "startfail"} /\ pending' = pending /\ password' = password
    BY <1>29, GotoAt DEF StartTakeover, files, conf
  <2>2. pc[w] = "s_takeover" /\ state' = state
    BY <1>29 DEF StartTakeover, files, conf
  <2>3. IntentInv(w)'
    BY <1>a, <2>1, <2>2 DEF IntentInv, StartSteps, Starts
  <2> QED
    BY <1>29, <1>a, <2>3, GotoWork DEF StartTakeover, Outside
<1>30. ASSUME NEW w \in Workers, StartHostapd(w) PROVE WorkInv'
  <2>1. pc'[w] \in {"s_ready", "startfail"} /\ pending' = pending /\ password' = password
    BY <1>30, GotoAt DEF StartHostapd, files, conf
  <2>2. pc[w] = "s_hostapd" /\ state' = state
    BY <1>30 DEF StartHostapd, files, conf
  <2>3. IntentInv(w)'
    BY <1>a, <2>1, <2>2 DEF IntentInv, StartSteps, Starts
  <2> QED
    BY <1>30, <1>a, <2>3, GotoWork DEF StartHostapd, Outside
<1>31. ASSUME NEW w \in Workers, StartReady(w) PROVE WorkInv'
  <2>1. pc'[w] \in {"s_udhcpd", "startfail"} /\ pending' = pending /\ password' = password
    BY <1>31, GotoAt DEF StartReady, files, conf
  <2>2. pc[w] = "s_ready" /\ state' = state
    BY <1>31 DEF StartReady, files, conf
  <2>3. IntentInv(w)'
    BY <1>a, <2>1, <2>2 DEF IntentInv, StartSteps, Starts
  <2> QED
    BY <1>31, <1>a, <2>3, GotoWork DEF StartReady, Outside
<1>32. ASSUME NEW w \in Workers, StartUdhcpd(w) PROVE WorkInv'
  <2>1. pc'[w] \in {"s_active", "startfail"} /\ pending' = pending /\ password' = password
    BY <1>32, GotoAt DEF StartUdhcpd, files, conf
  <2>2. pc[w] = "s_udhcpd" /\ state' = state
    BY <1>32 DEF StartUdhcpd, files, conf
  <2>3. IntentInv(w)'
    BY <1>a, <2>1, <2>2 DEF IntentInv, StartSteps, Starts
  <2> QED
    BY <1>32, <1>a, <2>3, GotoWork DEF StartUdhcpd, Outside
<1>33. ASSUME NEW w \in Workers, StartActive(w) PROVE WorkInv'
  <2>1. pc'[w] \in {"done"} /\ pending' = pending /\ password' = password
    BY <1>33, GotoAt DEF StartActive, files, conf, SetState, Fault
  <2>2. pc[w] = "s_active"
    BY <1>33 DEF StartActive, files, conf, SetState, Fault
  <2>3. IntentInv(w)'
    BY <1>a, <2>1, <2>2 DEF IntentInv, StartSteps, Starts
  <2> QED
    BY <1>33, <1>a, <2>3, GotoWork DEF StartActive, Outside, SetState, Fault
<1>34. ASSUME NEW w \in Workers, StartFailed(w) PROVE WorkInv'
  <2>1. pc'[w] \in {"r_state", "done", "fail"} /\ pending' = pending /\ password' = password
    BY <1>34, GotoAt DEF StartFailed, files, conf
  <2>2. pc[w] = "startfail" /\ state' = state
    BY <1>34 DEF StartFailed, files, conf
  <2>3. IntentInv(w)'
    BY <1>a, <2>1, <2>2 DEF IntentInv, StartSteps, Starts
  <2> QED
    BY <1>34, <1>a, <2>3, GotoWork DEF StartFailed, Outside
<1>35. ASSUME NEW w \in Workers, BeginFailover(w) PROVE WorkInv'
  BY <1>35, GotoAt, GotoWork, <1>a, FreeIntentPrime, ExitWork DEF BeginFailover,
     Outside, Relying, StartSteps
<1>36. ASSUME NEW w \in Workers, FailoverMarker(w) PROVE WorkInv'
  BY <1>36, GotoAt, GotoWork, <1>a, FreeIntentPrime DEF FailoverMarker, Outside,
     Relying, StartSteps
<1>37. ASSUME NEW w \in Workers, FailoverKill(w) PROVE WorkInv'
  BY <1>37, GotoAt, GotoWork, <1>a, FreeIntentPrime DEF FailoverKill, Outside,
     Relying, StartSteps
<1>38. ASSUME NEW w \in Workers, FailoverSupplicant(w) PROVE WorkInv'
  BY <1>38, ExitWork, <1>a DEF FailoverSupplicant, Outside
<1>39. ASSUME NEW w \in Workers, Reboot(w) PROVE WorkInv'
  <2>1. \A v \in Workers : pc'[v] \in Outside
    BY <1>39 DEF Reboot, Outside
  <2> QED
    BY <2>1, OutsideIntentPrime DEF WorkInv
<1>40. ASSUME NEW w \in Workers, BeginReconnect(w) PROVE WorkInv'
  BY <1>40, GotoAt, GotoWork, <1>a, FreeIntentPrime, ExitWork DEF BeginReconnect,
     Outside, Relying, StartSteps
<1>41. ASSUME NEW w \in Workers, Reconnect(w) PROVE WorkInv'
  BY <1>41, ExitWork, <1>a DEF Reconnect, Outside
<1>42. ASSUME NEW w \in Workers, BeginVendor(w) PROVE WorkInv'
  BY <1>42, GotoAt, GotoWork, <1>a, FreeIntentPrime, ExitWork DEF BeginVendor,
     Outside, Relying, StartSteps
<1>43. ASSUME NEW w \in Workers, VendorScript(w) PROVE WorkInv'
  BY <1>43, ExitWork, <1>a DEF VendorScript, Outside
<1>44. ASSUME NEW w \in Workers, BeginScan(w) PROVE WorkInv'
  BY <1>44, GotoAt, GotoWork, <1>a, FreeIntentPrime, ExitWork DEF BeginScan, Outside,
     Relying, StartSteps
<1>45. ASSUME NEW w \in Workers, Scan(w) PROVE WorkInv'
  BY <1>45, ExitWork, <1>a DEF Scan, Outside
<1>46. ASSUME NEW w \in Workers, BeginSave(w) PROVE WorkInv'
  BY <1>46, GotoAt, GotoWork, <1>a, FreeIntentPrime, ExitWork DEF BeginSave, Outside,
     Relying, StartSteps
<1>47. ASSUME NEW w \in Workers, SaveSettings(w) PROVE WorkInv'
  BY <1>47, ExitWork, <1>a DEF SaveSettings, Outside
<1>48. ASSUME NEW w \in Workers, Kill(w) PROVE WorkInv'
  <2>1. pc'[w] = "idle" /\ \A v \in Workers \ {w} : pc'[v] = pc[v] /\ act'[v] = act[v]
    BY <1>48 DEF Kill, EndProcess, ProcsOK
  <2>2. state' = state /\ pending' = pending /\ password' = password /\ ap' \subseteq ap
    BY <1>48 DEF Kill, files, conf
  <2> QED
    BY <2>1, <2>2, OutsideWork DEF Outside
<1>49. CASE UNCHANGED vars
  BY <1>49, SameWork DEF vars, files, conf, radio, procs
<1> QED
  BY <1>1, <1>2, <1>3, <1>4, <1>5, <1>6, <1>7, <1>8, <1>9, <1>10, <1>11, <1>12, <1>13,
     <1>14, <1>15, <1>16, <1>17, <1>18, <1>19, <1>20, <1>21, <1>22, <1>23, <1>24,
     <1>25, <1>26, <1>27, <1>28, <1>29, <1>30, <1>31, <1>32, <1>33, <1>34, <1>35,
     <1>36, <1>37, <1>38, <1>39, <1>40, <1>41, <1>42, <1>43, <1>44, <1>45, <1>46,
     <1>47, <1>48, <1>49 DEF Next, Watchdog, Environment, WorkerStep, ApplyStep,
     RestoreStep, StartStep, StationStep, CallStep

-----------------------------------------------------------------------------
(* Who writes the three files that the action properties are about.        *)

StateWriter(w) == \/ MarkFailed(w) \/ RestoreState(w) \/ RestoreDone(w)
                  \/ StartState(w) \/ StartActive(w) \/ Reboot(w)

PendingWriter(w) == BeginRecover(w) \/ Claim(w) \/ DropPending(w) \/ Reboot(w)

Writers ==
  /\ state' = state \/ \E w \in Workers : StateWriter(w)
  /\ pending' = pending \/ \E w \in Workers : PendingWriter(w)
  /\ request' = request \/ UserRequest \/ \E w \in Workers : Claim(w) \/ Reboot(w)

LEMMA FileWriters == [Next]_vars => Writers
<1> SUFFICES ASSUME [Next]_vars PROVE Writers
    OBVIOUS
<1>1. ASSUME Poll PROVE Writers
  BY <1>1 DEF Poll, files, Writers
<1>2. ASSUME CheckOwned PROVE Writers
  BY <1>2 DEF CheckOwned, files, Writers
<1>3. ASSUME CheckMaintenance PROVE Writers
  BY <1>3 DEF CheckMaintenance, files, Writers
<1>4. ASSUME MaintenanceConnected PROVE Writers
  BY <1>4 DEF MaintenanceConnected, files, Writers
<1>5. ASSUME ConfirmMaintenance PROVE Writers
  BY <1>5 DEF ConfirmMaintenance, files, Writers
<1>6. ASSUME MaintenanceLost PROVE Writers
  BY <1>6 DEF MaintenanceLost, files, Writers
<1>7. ASSUME PrimaryConnected PROVE Writers
  BY <1>7 DEF PrimaryConnected, files, Writers
<1>8. ASSUME PrimaryLost PROVE Writers
  BY <1>8 DEF PrimaryLost, files, Writers
<1>9. ASSUME UserRequest PROVE Writers
  BY <1>9 DEF Writers, UserRequest
<1>10. ASSUME ExternalCall PROVE Writers
  BY <1>10 DEF ExternalCall, files, Writers
<1>11. ASSUME HelperFault PROVE Writers
  BY <1>11 DEF HelperFault, files, Writers
<1>12. ASSUME NEW w \in Workers, AcquireLock(w) PROVE Writers
  BY <1>12 DEF AcquireLock, files, Writers
<1>13. ASSUME NEW w \in Workers, LockBusy(w) PROVE Writers
  BY <1>13 DEF LockBusy, files, Writers
<1>14. ASSUME NEW w \in Workers, BeginApply(w) PROVE Writers
  BY <1>14 DEF BeginApply, files, Writers
<1>15. ASSUME NEW w \in Workers, BeginRecover(w) PROVE Writers
  BY <1>15 DEF Writers, PendingWriter, BeginRecover
<1>16. ASSUME NEW w \in Workers, Claim(w) PROVE Writers
  BY <1>16 DEF Writers, PendingWriter, Claim
<1>17. ASSUME NEW w \in Workers, ClearPassword(w) PROVE Writers
  BY <1>17 DEF ClearPassword, files, Writers
<1>18. ASSUME NEW w \in Workers, Decide(w) PROVE Writers
  BY <1>18 DEF Decide, files, Writers
<1>19. ASSUME NEW w \in Workers, MarkFailed(w) PROVE Writers
  BY <1>19 DEF Writers, StateWriter, MarkFailed
<1>20. ASSUME NEW w \in Workers, DropPending(w) PROVE Writers
  BY <1>20 DEF Writers, PendingWriter, DropPending
<1>21. ASSUME NEW w \in Workers, RestoreState(w) PROVE Writers
  BY <1>21 DEF Writers, StateWriter, RestoreState
<1>22. ASSUME NEW w \in Workers, RestoreTeardown(w) PROVE Writers
  BY <1>22 DEF RestoreTeardown, files, Writers
<1>23. ASSUME NEW w \in Workers, RestoreMarker(w) PROVE Writers
  BY <1>23 DEF RestoreMarker, files, Writers
<1>24. ASSUME NEW w \in Workers, RestoreSupplicant(w) PROVE Writers
  BY <1>24 DEF RestoreSupplicant, files, Writers
<1>25. ASSUME NEW w \in Workers, RestoreDhcp(w) PROVE Writers
  BY <1>25 DEF RestoreDhcp, files, Writers
<1>26. ASSUME NEW w \in Workers, RestoreDone(w) PROVE Writers
  BY <1>26 DEF Writers, StateWriter, RestoreDone
<1>27. ASSUME NEW w \in Workers, StartCheck(w) PROVE Writers
  BY <1>27 DEF StartCheck, files, Writers
<1>28. ASSUME NEW w \in Workers, StartState(w) PROVE Writers
  BY <1>28 DEF Writers, StateWriter, StartState
<1>29. ASSUME NEW w \in Workers, StartTakeover(w) PROVE Writers
  BY <1>29 DEF StartTakeover, files, Writers
<1>30. ASSUME NEW w \in Workers, StartHostapd(w) PROVE Writers
  BY <1>30 DEF StartHostapd, files, Writers
<1>31. ASSUME NEW w \in Workers, StartReady(w) PROVE Writers
  BY <1>31 DEF StartReady, files, Writers
<1>32. ASSUME NEW w \in Workers, StartUdhcpd(w) PROVE Writers
  BY <1>32 DEF StartUdhcpd, files, Writers
<1>33. ASSUME NEW w \in Workers, StartActive(w) PROVE Writers
  BY <1>33 DEF Writers, StateWriter, StartActive
<1>34. ASSUME NEW w \in Workers, StartFailed(w) PROVE Writers
  BY <1>34 DEF StartFailed, files, Writers
<1>35. ASSUME NEW w \in Workers, BeginFailover(w) PROVE Writers
  BY <1>35 DEF BeginFailover, files, Writers
<1>36. ASSUME NEW w \in Workers, FailoverMarker(w) PROVE Writers
  BY <1>36 DEF FailoverMarker, files, Writers
<1>37. ASSUME NEW w \in Workers, FailoverKill(w) PROVE Writers
  BY <1>37 DEF FailoverKill, files, Writers
<1>38. ASSUME NEW w \in Workers, FailoverSupplicant(w) PROVE Writers
  BY <1>38 DEF FailoverSupplicant, files, Writers
<1>39. ASSUME NEW w \in Workers, Reboot(w) PROVE Writers
  BY <1>39 DEF Writers, StateWriter, PendingWriter
<1>40. ASSUME NEW w \in Workers, BeginReconnect(w) PROVE Writers
  BY <1>40 DEF BeginReconnect, files, Writers
<1>41. ASSUME NEW w \in Workers, Reconnect(w) PROVE Writers
  BY <1>41 DEF Reconnect, files, Writers
<1>42. ASSUME NEW w \in Workers, BeginVendor(w) PROVE Writers
  BY <1>42 DEF BeginVendor, files, Writers
<1>43. ASSUME NEW w \in Workers, VendorScript(w) PROVE Writers
  BY <1>43 DEF VendorScript, files, Writers
<1>44. ASSUME NEW w \in Workers, BeginScan(w) PROVE Writers
  BY <1>44 DEF BeginScan, files, Writers
<1>45. ASSUME NEW w \in Workers, Scan(w) PROVE Writers
  BY <1>45 DEF Scan, files, Writers
<1>46. ASSUME NEW w \in Workers, BeginSave(w) PROVE Writers
  BY <1>46 DEF BeginSave, files, Writers
<1>47. ASSUME NEW w \in Workers, SaveSettings(w) PROVE Writers
  BY <1>47 DEF SaveSettings, files, Writers
<1>48. ASSUME NEW w \in Workers, Kill(w) PROVE Writers
  BY <1>48 DEF Kill, files, Writers
<1>49. CASE UNCHANGED vars
  BY <1>49 DEF vars, files, Writers
<1> QED
  BY <1>1, <1>2, <1>3, <1>4, <1>5, <1>6, <1>7, <1>8, <1>9, <1>10, <1>11, <1>12, <1>13,
     <1>14, <1>15, <1>16, <1>17, <1>18, <1>19, <1>20, <1>21, <1>22, <1>23, <1>24,
     <1>25, <1>26, <1>27, <1>28, <1>29, <1>30, <1>31, <1>32, <1>33, <1>34, <1>35,
     <1>36, <1>37, <1>38, <1>39, <1>40, <1>41, <1>42, <1>43, <1>44, <1>45, <1>46,
     <1>47, <1>48, <1>49 DEF Next, Watchdog, Environment, WorkerStep, ApplyStep,
     RestoreStep, StartStep, StationStep, CallStep

LEMMA RequestSteps ==
  TypeOK /\ RadioInv /\ WorkInv /\ "tmpfs" \notin Faults /\ [Next]_vars
    => KeepsRequests /\ HonoursStop /\ StartsWanted /\ OpensForButton
<1> SUFFICES ASSUME TypeOK, RadioInv, WorkInv, "tmpfs" \notin Faults, [Next]_vars
             PROVE  KeepsRequests /\ HonoursStop /\ StartsWanted /\ OpensForButton
    OBVIOUS
<1>a. HotspotIsVisible /\ \A w \in Workers : PhaseInv(w) /\ IntentInv(w)
  BY DEF RadioInv, WorkInv
<1>b. Writers
  BY FileWriters
<1>c. FilesOK
  BY DEF TypeOK
<1>1. KeepsRequests
  <2>1. CASE UNCHANGED <<request, pending>>
    BY <2>1 DEF KeepsRequests
  <2>2. CASE UserRequest
    <3>1. request' # "none" /\ pending' = pending
      BY <2>2 DEF UserRequest, Requests, Starts
    <3> QED
      BY <3>1 DEF KeepsRequests
  <2>3. ASSUME NEW w \in Workers, Claim(w) PROVE KeepsRequests
    BY <2>3 DEF KeepsRequests, Claim
  <2>4. ASSUME NEW w \in Workers, BeginRecover(w) PROVE KeepsRequests
    BY <2>4 DEF KeepsRequests, BeginRecover, MayRecover, Queued
  <2>5. ASSUME NEW w \in Workers, DropPending(w) PROVE KeepsRequests
    BY <2>5 DEF KeepsRequests, DropPending
  <2>6. ASSUME NEW w \in Workers, Reboot(w) PROVE KeepsRequests
    BY <2>6 DEF KeepsRequests, Reboot
  <2> QED
    BY <1>b, <2>1, <2>2, <2>3, <2>4, <2>5, <2>6 DEF Writers, PendingWriter
<1>2. HonoursStop
  <2>1. CASE pending' = pending
    BY <2>1 DEF HonoursStop
  <2>2. ASSUME NEW w \in Workers, Claim(w) PROVE HonoursStop
    BY <2>2 DEF HonoursStop, Claim
  <2>3. ASSUME NEW w \in Workers, BeginRecover(w) PROVE HonoursStop
    BY <2>3 DEF HonoursStop, BeginRecover
  <2>4. ASSUME NEW w \in Workers, DropPending(w) PROVE HonoursStop
    BY <1>a, <2>4 DEF HonoursStop, DropPending, IntentInv
  <2>5. ASSUME NEW w \in Workers, Reboot(w) PROVE HonoursStop
    <3>1. state \notin ApStates
      BY <1>a, <2>5 DEF Reboot, PhaseInv, StationSteps
    <3> QED
      BY <1>a, <1>c, <3>1 DEF HonoursStop, HotspotIsVisible, FilesOK, HotspotStates, ApStates
  <2> QED
    BY <1>b, <2>1, <2>2, <2>3, <2>4, <2>5 DEF Writers, PendingWriter
<1>3. StartsWanted /\ OpensForButton
  <2>1. CASE state' = state
    BY <2>1 DEF StartsWanted, OpensForButton
  <2>2. ASSUME NEW w \in Workers, StartState(w) PROVE StartsWanted /\ OpensForButton
    BY <1>a, <2>2 DEF StartsWanted, OpensForButton, StartState, SetState, Fault, IntentInv
  <2>3. ASSUME NEW w \in Workers, StartActive(w) PROVE StartsWanted /\ OpensForButton
    BY <1>a, <2>3 DEF StartsWanted, OpensForButton, StartActive, SetState, Fault, IntentInv,
       StartSteps
  <2>4. ASSUME NEW w \in Workers, MarkFailed(w) PROVE StartsWanted /\ OpensForButton
    BY <2>4 DEF StartsWanted, OpensForButton, MarkFailed, SetState, Fault
  <2>5. ASSUME NEW w \in Workers, RestoreState(w) PROVE StartsWanted /\ OpensForButton
    BY <2>5 DEF StartsWanted, OpensForButton, RestoreState, SetState, Fault
  <2>6. ASSUME NEW w \in Workers, RestoreDone(w) PROVE StartsWanted /\ OpensForButton
    BY <2>6 DEF StartsWanted, OpensForButton, RestoreDone, SetState, Fault
  <2>7. ASSUME NEW w \in Workers, Reboot(w) PROVE StartsWanted /\ OpensForButton
    BY <2>7 DEF StartsWanted, OpensForButton, Reboot
  <2> QED
    BY <1>b, <2>1, <2>2, <2>3, <2>4, <2>5, <2>6, <2>7 DEF Writers, StateWriter
<1> QED
  BY <1>1, <1>2, <1>3

(* For any number of workers, requests and kills, and a tmpfs that takes   *)
(* the writes: no request is lost or overridden by automatic recovery, a   *)
(* stop is dropped only when the hotspot is gone, a start is made only for *)
(* a start, and the button's hotspot is open.                              *)
THEOREM RequestsSafe ==
  ASSUME "tmpfs" \notin Faults
  PROVE  Spec => RequestsHonoured
<1>1. Init => TypeOK /\ RadioInv /\ WorkInv
  BY TypeInit, RadioInit, WorkInit
<1>2. TypeOK /\ RadioInv /\ WorkInv /\ [Next]_vars => (TypeOK /\ RadioInv /\ WorkInv)'
  BY TypeStep, RadioStep, WorkStep
<1>3. TypeOK /\ RadioInv /\ WorkInv /\ [Next]_vars
        => [KeepsRequests /\ HonoursStop /\ StartsWanted /\ OpensForButton]_<<request, pending, state>>
  BY RequestSteps
<1> QED
  BY <1>1, <1>2, <1>3, PTL DEF Spec, RequestsHonoured
=============================================================================
