SPECIFICATION Spec
CONSTANTS
  Workers = {w1, w2}
  None = None
  BootConfigs <- AllConfigs
  Faults = {"kill", "helper", "sysconf"}
  MaxEvents = 2
  CheckLimit = 1
  Grace = 1
SYMMETRY WorkerSymmetry
INVARIANTS TypeOK RadioSingleOwner
PROPERTIES RequestsHonoured
