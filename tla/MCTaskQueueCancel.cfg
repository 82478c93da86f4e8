\* All requests may be done: then nothing happens.
SPECIFICATION Spec
CONSTANTS
  Tasks = {t1, t2}
  NoTask = NoTask
  Ops = {"cancel", "cancelLate"}
SYMMETRY TaskSymmetry
INVARIANT ListsLive
CHECK_DEADLOCK FALSE
