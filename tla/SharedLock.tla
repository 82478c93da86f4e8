----------------------------- MODULE SharedLock -----------------------------
(***************************************************************************)
(* What a lock of nsthread promises, whatever it is made of: at any time   *)
(* many threads may hold it to read, or one to write, never both.          *)
(***************************************************************************)
CONSTANTS Threads

VARIABLE held   \* how each thread holds the lock

Modes == {"none", "read", "write"}

AllFree == \A t \in Threads : held[t] = "none"
NoWriter == \A t \in Threads : held[t] /= "write"

Init == held = [t \in Threads |-> "none"]

Read(t) ==
    /\ held[t] = "none" /\ NoWriter
    /\ held' = [held EXCEPT ![t] = "read"]

Write(t) ==
    /\ held[t] = "none" /\ AllFree
    /\ held' = [held EXCEPT ![t] = "write"]

Release(t) ==
    /\ held[t] /= "none"
    /\ held' = [held EXCEPT ![t] = "none"]

Next == \E t \in Threads : Read(t) \/ Write(t) \/ Release(t)

Spec == Init /\ [][Next]_held
=============================================================================
