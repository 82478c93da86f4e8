\* All requests may be done, and the queue stopped: then nothing happens.
SPECIFICATION FairSpec
CONSTANTS
  Tasks = {t1, t2}
  NoTask = NoTask
  Ops = {"cancel", "run", "stop"}
INVARIANT ListsSound
INVARIANT NoneUnseen
INVARIANT DoneIsComplete
PROPERTY WaitsEnd
CHECK_DEADLOCK FALSE
