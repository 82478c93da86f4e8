CONSTANTS
    Socks = {s1, s2}
    Readers = {r1}
    Queriers = {q1, q2}
    Others = {o1}
    Setters = {c1}
    Nothing = Nothing
    Word = 4
    Limit <- RunOrWait
    Modes <- Scenes
SPECIFICATION FairSpec
PROPERTY ShutdownEnds
CHECK_DEADLOCK FALSE
