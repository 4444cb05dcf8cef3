SPECIFICATION FairSpec
CONSTANTS
  Workers = {w1, w2}
  None = None
  BootConfigs <- DefaultConfig
  Faults = {"kill", "helper", "sysconf", "tmpfs"}
  MaxEvents = 2
  CheckLimit = 1
  Grace = 0
PROPERTIES TransitionsEnd RequestsServed
