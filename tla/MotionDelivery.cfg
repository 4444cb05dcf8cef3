SPECIFICATION FairDelivery
CONSTANTS
  Cap = 2
  Interval = 2
  MinMotion = 1
  ShutdownTries = 3
  MaxBreaks = 3
INVARIANTS NoDoubleStart
PROPERTIES SignalSpec RecorderFollows ShortMotionKept
