CONSTANTS
    Threads = {t1, t2, t3}
    DriverThreads = {d1, d2}
    Main = main
    Conns = {c1, c2, c3}
    Polls = {c3}
    NoConn = noconn
    Nobody = nobody
    MinThreads = 0
    MaxThreads = 2
    MaxConns = 1
    Quotas = {2}
SPECIFICATION StatsSpec
INVARIANT PoolSound
INVARIANT WorkSeen
INVARIANT AnswerSound
\* The pool comes to rest once the finitely many connections are served.
CHECK_DEADLOCK FALSE
