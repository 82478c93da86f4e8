\* The scheduler stops when it is shut down, and time when it is out.
SPECIFICATION FairSpec
CONSTANTS
  Events = {e1, e2}
  Kinds <- MixedKinds
  Ops = {"cancel", "pause", "resume", "stop"}
  NoEvent = NoEvent
  MaxClock = 2
INVARIANT BooksAgree
INVARIANT EventsOwned
PROPERTY DueRuns
PROPERTY ShutdownEndsUnlessMissed
CHECK_DEADLOCK FALSE
