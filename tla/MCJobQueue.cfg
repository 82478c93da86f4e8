SPECIFICATION FairSpec
CONSTANTS
    Clients = {c1, c2}
    Workers = {w1, w2}
    Jobs = {j1, j2}
    Queues = {q1}
    Limits = {1, 2}
    MaxLimit = 2
    NoJob = nojob
INVARIANT JobsSound
INVARIANT NobodyForgotten
PROPERTY JobsEnd
\* Two clients may block each other (Stuck), and after the stop the threads
\* are gone and clients wait.
CHECK_DEADLOCK FALSE
