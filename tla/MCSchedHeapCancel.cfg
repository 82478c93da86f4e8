SPECIFICATION Spec
CONSTANTS
  Times = {0, 1, 2, 3, 4}
  MaxQueue = 7
  MaxCancel = 7
INVARIANT EarliestFirst
