------------------------------- MODULE CsLock -------------------------------
(***************************************************************************)
(* The critical section of nsthread/cslock.c, which a thread may enter     *)
(* again while it is inside, and the master lock of nsthread/master.c that *)
(* is one of them.  What a thread does under the mutex is one action;      *)
(* Ns_CondWait splits Ns_CsEnter in two.                                   *)
(***************************************************************************)
EXTENDS Integers

CONSTANTS
    Threads,
    MaxDepth    \* bounds how often a thread enters again

VARIABLES
    tid,        \* the owner; not set before the first Ns_CsEnter
    count,      \* how often the owner has entered
    pc,         \* where each thread is: in Ns_CondWait or not
    depth       \* how often each thread has entered and not left

vars == <<tid, count, pc, depth>>

At(p) == {t \in Threads : pc[t] = p}

\* Ns_CsInit leaves the memory of tid as malloc returns it.
Init ==
    /\ tid \in Threads
    /\ count = 0
    /\ pc = [t \in Threads |-> "free"]
    /\ depth = [t \in Threads |-> 0]

\* Mutant: an off-by-one lets a second thread in.
FaultyOwnedOnce(t) == count > 1 /\ tid /= t

Owned(t) == count > 0 /\ tid /= t

Own(t) ==
    /\ tid' = t /\ count' = count + 1
    /\ pc' = [pc EXCEPT ![t] = "free"]
    /\ depth' = [depth EXCEPT ![t] = @ + 1]

Sleep(t) ==
    /\ pc' = [pc EXCEPT ![t] = "wait"]
    /\ UNCHANGED <<tid, count, depth>>

Enter(t) ==
    /\ pc[t] = "free" /\ depth[t] < MaxDepth
    /\ IF Owned(t) THEN Sleep(t) ELSE Own(t)

Wake(t) ==
    /\ pc[t] = "woken"
    /\ IF Owned(t) THEN Sleep(t) ELSE Own(t)

Signal ==
    \/ At("wait") = {} /\ UNCHANGED pc
    \/ \E w \in At("wait") : pc' = [pc EXCEPT ![w] = "woken"]

Leave(t) ==
    /\ pc[t] = "free" /\ depth[t] > 0
    /\ count' = count - 1
    /\ depth' = [depth EXCEPT ![t] = @ - 1]
    /\ IF count' = 0 THEN Signal ELSE UNCHANGED pc
    /\ UNCHANGED tid

\* pthread_cond_wait may return with no signal.
Spurious(t) ==
    /\ pc[t] = "wait"
    /\ pc' = [pc EXCEPT ![t] = "woken"]
    /\ UNCHANGED <<tid, count, depth>>

ThreadStep(t) == Enter(t) \/ Wake(t) \/ Leave(t) \/ Spurious(t)

Next == \E t \in Threads : ThreadStep(t)

Spec == Init /\ [][Next]_vars

\* A woken thread gets the mutex.
Fairness == \A t \in Threads : WF_vars(Wake(t))

FairSpec == Spec /\ Fairness

-----------------------------------------------------------------------------
TypeOK ==
    /\ tid \in Threads
    /\ count \in 0 .. MaxDepth
    /\ pc \in [Threads -> {"free", "wait", "woken"}]
    /\ depth \in [Threads -> 0 .. MaxDepth]

(* The critical section is a lock: from the first Enter of a thread to the *)
(* matching Leave nobody else is inside.                                   *)
Held == [t \in Threads |-> IF depth[t] > 0 THEN "write" ELSE "none"]

Abstract == INSTANCE SharedLock WITH held <- Held

IsLock == Abstract!Spec

(* The count is the nesting of the owner and nobody else is inside: the    *)
(* inner Leave of nested uses does not open the section.                   *)
CountIsDepth == \A t \in Threads : depth[t] = IF t = tid THEN count ELSE 0

(* While a thread sleeps at a free section, another has been woken.        *)
NoLostWakeup == count = 0 /\ At("wait") /= {} => At("woken") /= {}

(* While threads wait the section does not stay free.                      *)
SectionUsed ==
    count = 0 /\ At("wait") \cup At("woken") /= {} ~> count > 0
=============================================================================
