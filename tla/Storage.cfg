SPECIFICATION Spec
CONSTANTS
    Tools = {t1, t2}
    MaxAttempts = 3
    MaxLosses = 3
    MaxRestarts = 1
    ConfigRequests = {r1, r2, r3}
    r1 = r1
    r2 = r2
    Releases = {1, 2}
    Slots = {0, 1}
    MaxEdits = 1
    MaxBroken = 1
    CutSlots = {0}
    CutTriggers = {0, 1}
    CutFresh = {2}
    MaxCutEdits = 0
    MaxCutFaults = 2
    Keys = {"key"}
    MaxChanges = 2
    MaxKills = 4
    MaxStartCuts = 3
    Credentials = {1, 2}
    MaxProvisions = 2
    MaxPowerCuts = 2
    MaxFailures = 1
INVARIANTS AlwaysRecoverable UpgradeSafe LockSound
PROPERTIES CommittedStays WorkEnds SettingsKept CredentialsKept
CHECK_DEADLOCK FALSE
