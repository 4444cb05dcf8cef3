SPECIFICATION Spec
CONSTANTS
    Requests = {r1}
    Releases = {1, 2}
    Slots = {0, 1}
    Triggers = {0}
    Fresh = {}
    Faults = {}
    EditsAlways = FALSE
    MaxEdits = 0
    MaxFaults = 0
PROPERTIES CopiesPreserved
CHECK_DEADLOCK FALSE
