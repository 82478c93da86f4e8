SPECIFICATION AllSpec
CONSTANTS
  Threads = {t1, t2, t3, t4, t5}
  MaxDepth = 3
  Starts = {0, 1, 2}
  Posts = {1, 2, 3}
  MaxPosted = 5
  Times = {0, 1, 2, 3, 4}
  MaxQueue = 7
  MaxCancel = 5
  PoolThreads = {p1, p2, p3}
  DriverThreads = {d1}
  Main = main
  Conns = {c1, c2}
  Polls = {c2}
  NoConn = noconn
  Nobody = nobody
  MinThreads = 0
  MaxThreads = 1
  MaxConns = 1
  Quotas = {1, 2}
INVARIANT LockSound
INVARIANT OthersSound
INVARIANT EarliestFirst
PROPERTY IsLock
PROPERTY CsIsLock
PROPERTY WritersFirst
PROPERTY AllServed
PROPERTY OthersKept
PROPERTY ConnsServed
PROPERTY PoolStops
\* Once MaxPosted is posted and taken, every thread may be waiting, and the
\* pool comes to rest once the finitely many connections are served.
CHECK_DEADLOCK FALSE
