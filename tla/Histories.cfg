SPECIFICATION Spec
CONSTANTS
    r1 = r1
    r2 = r2
    LevelCapacity = 2
    Slack = 2
    Steps = {4}
    MaxLog = 4
    LevelTime = 3
    EventTime = 5
    EventCapacity = 2
    MaxSame = 2
    MaxMsg = 2
    MaxEvents = 5
    MaxRestarts = 2
    Threads = {t1, t2}
    Recordings = {c1, c2}
    Others = {old}
    RECORD_FDS = 2
    MaxFd = 2
    MaxFaults = 2
INVARIANTS SnapshotsSound LevelsTrue EventsTrue AlarmTrue ClipsSound
PROPERTIES ReaderEnds
CHECK_DEADLOCK FALSE
