SPECIFICATION Spec
CONSTANTS
    Hold = 2
    Settle = 3
    MaxTime = 14
    MaxErrors = 3
    Many = {c1, c2}
    One = {c1}
    wd = wd
    ManyOps = 2
    FewOps = 1
    MaxKills = 1
INVARIANTS GuardSound Singletons
PROPERTIES ButtonSound AskedEnds ServicesRestored
CHECK_DEADLOCK FALSE
