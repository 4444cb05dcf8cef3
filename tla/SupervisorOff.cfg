SPECIFICATION Spec
CONSTANTS
    Pages = {p1, p2}
    Switch = {TRUE, FALSE}
    MaxVersion = 4
    MaxFaults = 1
    MaxStarters = 2
PROPERTY Supervised
CHECK_DEADLOCK FALSE
