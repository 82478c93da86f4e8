------------------------------- MODULE RWLock -------------------------------
(***************************************************************************)
(* The read/write lock of nsthread/rwlock.c: a mutex, a condition for      *)
(* readers, one for writers, and three counters.  What a thread does       *)
(* between taking and leaving the mutex is one action; Ns_CondWait splits  *)
(* an operation in two, and other threads may run in between, also between *)
(* a signal and the moment the woken thread has the mutex again.           *)
(***************************************************************************)
EXTENDS Integers, FiniteSets

CONSTANTS
    Threads

ASSUME RWLockAssumption == IsFiniteSet(Threads)

VARIABLES
    lockcnt,    \* readers inside, or -1 for a writer
    nreaders,   \* readers inside Ns_CondWait, woken or not
    nwriters,   \* writers inside Ns_CondWait, woken or not
    pc          \* where each thread is

vars == <<lockcnt, nreaders, nwriters, pc>>

Places == {"idle", "rwait", "rwake", "wwait", "wwake", "reading", "writing"}

At(p) == {t \in Threads : pc[t] = p}

Init ==
    /\ lockcnt = 0 /\ nreaders = 0 /\ nwriters = 0
    /\ pc = [t \in Threads |-> "idle"]

-----------------------------------------------------------------------------
(* Ns_RWLockRdLock: the loop test, then the wait or the lock.              *)

\* Mutant: readers overtake the writers that wait.
FaultyMayRead == lockcnt >= 0

MayRead == lockcnt >= 0 /\ nwriters = 0

RdLock(t) ==
    /\ pc[t] = "idle"
    /\ IF MayRead
       THEN /\ lockcnt' = lockcnt + 1
            /\ pc' = [pc EXCEPT ![t] = "reading"]
            /\ UNCHANGED nreaders
       ELSE /\ nreaders' = nreaders + 1
            /\ pc' = [pc EXCEPT ![t] = "rwait"]
            /\ UNCHANGED lockcnt
    /\ UNCHANGED nwriters

RdWake(t) ==
    /\ pc[t] = "rwake"
    /\ IF MayRead
       THEN /\ lockcnt' = lockcnt + 1 /\ nreaders' = nreaders - 1
            /\ pc' = [pc EXCEPT ![t] = "reading"]
       ELSE /\ pc' = [pc EXCEPT ![t] = "rwait"]
            /\ UNCHANGED <<lockcnt, nreaders>>
    /\ UNCHANGED nwriters

(* Ns_RWLockWrLock *)

WrLock(t) ==
    /\ pc[t] = "idle"
    /\ IF lockcnt = 0
       THEN /\ lockcnt' = -1
            /\ pc' = [pc EXCEPT ![t] = "writing"]
            /\ UNCHANGED nwriters
       ELSE /\ nwriters' = nwriters + 1
            /\ pc' = [pc EXCEPT ![t] = "wwait"]
            /\ UNCHANGED lockcnt
    /\ UNCHANGED nreaders

\* Mutant: the woken writer does not test again.
FaultyWrWake(t) ==
    /\ pc[t] = "wwake"
    /\ lockcnt' = -1 /\ nwriters' = nwriters - 1
    /\ pc' = [pc EXCEPT ![t] = "writing"]
    /\ UNCHANGED nreaders

WrWake(t) ==
    /\ pc[t] = "wwake"
    /\ IF lockcnt = 0
       THEN /\ lockcnt' = -1 /\ nwriters' = nwriters - 1
            /\ pc' = [pc EXCEPT ![t] = "writing"]
       ELSE /\ pc' = [pc EXCEPT ![t] = "wwait"]
            /\ UNCHANGED <<lockcnt, nwriters>>
    /\ UNCHANGED nreaders

-----------------------------------------------------------------------------
(* Ns_RWLockUnlock: one counter serves readers and the writer, so the      *)
(* decrement of -1 is set back to 0.                                       *)

\* Mutant: the signal is forgotten.
FaultySignalWriter(t) ==
    /\ nwriters > 0
    /\ pc' = [pc EXCEPT ![t] = "idle"]

SignalWriter(t) ==
    /\ nwriters > 0
    /\ \/ /\ At("wwait") = {}
          /\ pc' = [pc EXCEPT ![t] = "idle"]
       \/ \E w \in At("wwait") :
             pc' = [pc EXCEPT ![t] = "idle", ![w] = "wwake"]

\* Mutant: one of the readers is woken, not all.
FaultyBroadcastReaders(t) ==
    /\ nwriters = 0
    /\ \/ /\ At("rwait") = {}
          /\ pc' = [pc EXCEPT ![t] = "idle"]
       \/ \E r \in At("rwait") :
             pc' = [pc EXCEPT ![t] = "idle", ![r] = "rwake"]

BroadcastReaders(t) ==
    /\ nwriters = 0
    /\ pc' = [u \in Threads |->
                 IF u = t THEN "idle"
                 ELSE IF pc[u] = "rwait" /\ nreaders > 0 THEN "rwake" ELSE pc[u]]

Unlock(t) ==
    /\ pc[t] \in {"reading", "writing"}
    /\ lockcnt' = IF lockcnt - 1 < 0 THEN 0 ELSE lockcnt - 1
    /\ SignalWriter(t) \/ BroadcastReaders(t)
    /\ UNCHANGED <<nreaders, nwriters>>

\* pthread_cond_wait may return with no signal.
Spurious(t) ==
    /\ pc[t] \in {"rwait", "wwait"}
    /\ pc' = [pc EXCEPT ![t] = IF pc[t] = "rwait" THEN "rwake" ELSE "wwake"]
    /\ UNCHANGED <<lockcnt, nreaders, nwriters>>

ThreadStep(t) ==
    RdLock(t) \/ RdWake(t) \/ WrLock(t) \/ WrWake(t) \/ Unlock(t) \/ Spurious(t)

Next == \E t \in Threads : ThreadStep(t)

Spec == Init /\ [][Next]_vars

\* A holder lets go, and a woken thread gets the mutex; nobody need lock.
Fairness == \A t \in Threads : WF_vars(RdWake(t) \/ WrWake(t) \/ Unlock(t))

FairSpec == Spec /\ Fairness

-----------------------------------------------------------------------------
TypeOK ==
    /\ lockcnt \in Nat \cup {-1} /\ nreaders \in Nat /\ nwriters \in Nat
    /\ pc \in [Threads -> Places]

(* rwlock.c is a lock: seen through who is inside, every step of it is a   *)
(* step of SharedLock or changes nothing.                                  *)
Held == [t \in Threads |-> CASE pc[t] = "reading" -> "read"
                             [] pc[t] = "writing" -> "write"
                             [] OTHER -> "none"]

Abstract == INSTANCE SharedLock WITH held <- Held

IsLock == Abstract!Spec

(* The three counters say who is inside and who waits, also across the     *)
(* decrement that Unlock clamps and the window between a signal and the    *)
(* woken thread's own decrement.                                           *)
Inside == IF At("writing") = {} THEN Cardinality(At("reading")) ELSE -1

CountersAgree ==
    /\ lockcnt = Inside
    /\ nreaders = Cardinality(At("rwait") \cup At("rwake"))
    /\ nwriters = Cardinality(At("wwait") \cup At("wwake"))

(* No wakeup is lost: while a writer sleeps, somebody holds the lock (and  *)
(* will signal) or another writer has been signalled; while a reader       *)
(* sleeps, there is a writer, inside or waiting, it has to sleep for.      *)
NoLostWakeup ==
    /\ At("wwait") /= {} => lockcnt /= 0 \/ At("wwake") /= {}
    /\ At("rwait") /= {} => lockcnt < 0 \/ nwriters > 0

(* Readers do not overtake: none gets in while a writer waits, woken or    *)
(* not.                                                                    *)
WritersFirst ==
    [][\A t \in Threads : pc'[t] = "reading" /\ pc[t] /= "reading"
           => At("wwait") \cup At("wwake") = {}]_vars

(* While a writer waits, a writer gets in, once holders let go.            *)
WriterServed ==
    At("wwait") \cup At("wwake") /= {} ~> At("writing") /= {}

(* Once writers stop coming, every reader that waits gets in.              *)
ReadersServed ==
    <>[](At("wwait") \cup At("wwake") \cup At("writing") = {})
        => \A t \in Threads : pc[t] \in {"rwait", "rwake"} ~> pc[t] = "reading"

(* The lock keeps its books and wakes whom it should.                      *)
LockSound == TypeOK /\ CountersAgree /\ NoLostWakeup
=============================================================================
