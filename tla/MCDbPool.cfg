SPECIFICATION FairSpec
CONSTANTS
  Threads = {t1, t2}
  Checker = checker
  Handles = {h1, h2}
  NoHandle = none
  MaxBounce = 1
INVARIANT HandlesSound
INVARIANT TurnsKept
INVARIANT BounceSeen
PROPERTY GrantedOpen
PROPERTY GatheringEnds
