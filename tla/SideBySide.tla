----------------------------- MODULE SideBySide -----------------------------
(***************************************************************************)
(* Small parts side by side, each with its own variables: of nsthread, the *)
(* read/write lock, a critical section and a semaphore, used by the same   *)
(* threads; and the heap of the scheduler.                                 *)
(***************************************************************************)
EXTENDS RWLock

CONSTANTS
    MaxDepth,                       \* of CsLock
    Starts, Posts, MaxPosted,       \* of Sema
    Times, MaxQueue, MaxCancel      \* of SchedHeap

\* Ns_SemaPost of 0 would broadcast to nobody; the code posts 1 or more.
ASSUME LocksAssumption ==
    /\ MaxDepth \in Nat \ {0}
    /\ Starts \subseteq Nat /\ Posts \subseteq Nat \ {0}

ASSUME HeapAssumption == Times \subseteq Int /\ MaxQueue \in Nat /\ MaxCancel \in Nat

VARIABLES
    csTid, csCount, csPc, csDepth,      \* the critical section
    smCount, smPc, smGranted, smTaken,  \* the semaphore
    heap                                \* the queue of the scheduler

csVars == <<csTid, csCount, csPc, csDepth>>
smVars == <<smCount, smPc, smGranted, smTaken>>

Cs == INSTANCE CsLock WITH tid <- csTid, count <- csCount, pc <- csPc, depth <- csDepth

Sm == INSTANCE Sema WITH count <- smCount, pc <- smPc, granted <- smGranted, taken <- smTaken

Heap == INSTANCE SchedHeap WITH queue <- heap

(* The critical section opens at the outermost Leave only, the semaphore   *)
(* gives out what was posted, and neither loses a wakeup.                  *)
OthersSound ==
    /\ Cs!TypeOK /\ Cs!CountIsDepth /\ Cs!NoLostWakeup
    /\ Sm!TypeOK /\ Sm!NothingLost /\ Sm!NoLostWakeup

(* From a first Enter to its last Leave a thread is alone inside, whatever *)
(* the owner that Ns_CsInit left uninitialized says.                       *)
CsIsLock == Cs!IsLock

(* Whoever waits is served: writers while holders let go, readers once     *)
(* writers stop coming, a free section is used and a posted semaphore too. *)
AllServed == WriterServed /\ ReadersServed /\ Cs!SectionUsed /\ Sm!Served

(* SchedThread looks at the top of the heap alone, and it is the earliest  *)
(* event of all.                                                           *)
EarliestFirst == Heap!EarliestFirst

(* Entering and leaving the heap loses and duplicates no other event.      *)
OthersKept == Heap!NoneLost
=============================================================================
