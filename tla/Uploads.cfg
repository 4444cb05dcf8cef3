SPECIFICATION Spec
CONSTANTS
    p1 = p1
    Hours = {1}
    Names = {"a", "b"}
    Size = 1
    BadNames = {}
    Dests = {A, B}
    First = A
    Workers = {p1}
    Modes = {"cron"}
    MaxFails = 1
    MaxChanges = 2
    MaxKills = 1
    Procs = {p1, p2}
    MaxStops = 2
INVARIANTS NothingLost OneWorker
PROPERTIES StopHonoured ClipsArrive
CHECK_DEADLOCK FALSE
