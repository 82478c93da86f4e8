-------------------------------- MODULE Sema --------------------------------
(***************************************************************************)
(* The counting semaphore of nsthread/sema.c, a mutex, a condition and a   *)
(* count.  What a thread does under the mutex is one action; Ns_CondWait   *)
(* splits Ns_SemaWait in two.                                              *)
(***************************************************************************)
EXTENDS Integers, FiniteSets

CONSTANTS
    Threads,
    Starts,     \* the counts Ns_SemaInit may be given, from 0 on
    Posts,      \* the counts Ns_SemaPost may be given, from 1 on
    MaxPosted   \* bounds what is posted altogether

VARIABLES
    count,
    pc,         \* where each thread is: in Ns_CondWait or not
    granted,    \* what Ns_SemaInit and Ns_SemaPost have given so far
    taken       \* how many Ns_SemaWait have returned

vars == <<count, pc, granted, taken>>

At(p) == {t \in Threads : pc[t] = p}

Init ==
    /\ count \in Starts
    /\ pc = [t \in Threads |-> "running"]
    /\ granted = count /\ taken = 0

TakeOrSleep(t) ==
    /\ IF count = 0
       THEN /\ pc' = [pc EXCEPT ![t] = "wait"]
            /\ UNCHANGED <<count, taken>>
       ELSE /\ count' = count - 1 /\ taken' = taken + 1
            /\ pc' = [pc EXCEPT ![t] = "running"]
    /\ UNCHANGED granted

SemaWait(t) == pc[t] = "running" /\ TakeOrSleep(t)

Wake(t) == pc[t] = "woken" /\ TakeOrSleep(t)

Signal ==
    \/ At("wait") = {} /\ UNCHANGED pc
    \/ \E w \in At("wait") : pc' = [pc EXCEPT ![w] = "woken"]

Broadcast == pc' = [t \in Threads |-> IF pc[t] = "wait" THEN "woken" ELSE pc[t]]

\* Mutant: one thread is signalled for a post of many.
FaultyPost(n) ==
    /\ granted + n <= MaxPosted
    /\ count' = count + n /\ granted' = granted + n
    /\ Signal
    /\ UNCHANGED taken

Post(n) ==
    /\ granted + n <= MaxPosted
    /\ count' = count + n /\ granted' = granted + n
    /\ IF n = 1 THEN Signal ELSE Broadcast
    /\ UNCHANGED taken

\* pthread_cond_wait may return with no signal.
Spurious(t) ==
    /\ pc[t] = "wait"
    /\ pc' = [pc EXCEPT ![t] = "woken"]
    /\ UNCHANGED <<count, granted, taken>>

Next ==
    \/ \E t \in Threads : SemaWait(t) \/ Wake(t) \/ Spurious(t)
    \/ \E n \in Posts : Post(n)

Spec == Init /\ [][Next]_vars

\* A woken thread gets the mutex; nobody need post.
Fairness == \A t \in Threads : WF_vars(Wake(t))

FairSpec == Spec /\ Fairness

-----------------------------------------------------------------------------
TypeOK ==
    /\ count \in Nat /\ granted \in Nat /\ taken \in Nat
    /\ pc \in [Threads -> {"running", "wait", "woken"}]

(* No more waits return than were granted, and none of what was granted is *)
(* lost: the count is the difference.                                      *)
NothingLost == count = granted - taken

(* While a thread sleeps, as many have been woken as could be served, also *)
(* when a newcomer takes what a woken thread was signalled for.            *)
NoLostWakeup == At("wait") /= {} => count <= Cardinality(At("woken"))

(* What is granted is used: no thread waits for ever at a positive count.  *)
Served ==
    \A t \in Threads :
        pc[t] \in {"wait", "woken"} /\ count > 0 ~> count = 0 \/ pc[t] = "running"
=============================================================================
