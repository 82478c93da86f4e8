SPECIFICATION FairSpec
CONSTANTS
  Events = {e1}
  Kinds <- SyncKinds
  Ops = {"stop"}
  NoEvent = NoEvent
  MaxClock = 1
PROPERTY ShutdownEnds
\* Everything stops once the scheduler has ended and nsmain has given up waiting.
CHECK_DEADLOCK FALSE
