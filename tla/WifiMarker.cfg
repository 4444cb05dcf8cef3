SPECIFICATION Spec
CONSTANTS
  Workers = {w1, w2}
  None = None
  BootConfigs <- AllConfigs
  Faults = {}
  MaxEvents = 1
  CheckLimit = 1
  Grace = 0
INVARIANT MarkerMatchesRadio
