SPECIFICATION FairSpec
CONSTANTS
  Confirm = 2
  Quiet = 2
  Stale = 1
  AllKey = 2
  Grace = 2
  VeRetry = 2
  VePressure = 1
  Second = 2
  MaxGap = 2
  MaxFaults = 1
INVARIANTS NotBlinded
PROPERTIES QuietBeforeStop FileFollows
