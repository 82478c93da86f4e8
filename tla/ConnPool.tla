------------------------------ MODULE ConnPool ------------------------------
(***************************************************************************)
(* A connection thread pool (nsd/queue.c, nsd/pools.c): driver threads     *)
(* append connections to the pool's wait queue and create connection       *)
(* threads on demand; connection threads wait on the pool's condition      *)
(* variable, run connections and exit after a timeout or a quota of        *)
(* connections; the main thread starts the pool and stops it.              *)
(*                                                                         *)
(* Every section of code between Ns_MutexLock and Ns_MutexUnlock of        *)
(* poolPtr->lock is either one action, whose guard is LockFree, or a chain *)
(* of actions of the thread recorded in "lock".                            *)
(***************************************************************************)
EXTENDS Integers, Sequences, FiniteSets

CONSTANTS
    Threads,        \* slots for connection threads (ConnData structures)
    DriverThreads,  \* the callers of NsQueueConn
    Main,           \* the thread of nsmain: NsStartPools, NsStopPools
    Conns,          \* the connections that may be queued
    NoConn,         \* a thread's connPtr == NULL
    Nobody,         \* the pool lock is not held across actions
    MinThreads,     \* threads.min
    MaxThreads,     \* threads.max
    MaxConns,       \* threads.maxconns, 0: a thread never exits for its quota
    Quotas          \* what round(maxconns * spread) may be

Creators == DriverThreads \cup {Main}
Procs    == Threads \cup Creators

ASSUME PoolAssumption ==
    /\ IsFiniteSet(Threads) /\ IsFiniteSet(DriverThreads)
    /\ Main \notin DriverThreads /\ Creators \cap Threads = {}
    /\ Nobody \notin Procs /\ NoConn \notin Conns
    /\ MinThreads \in Nat /\ MaxThreads \in Nat \ {0} /\ MinThreads <= MaxThreads
    /\ MaxConns \in Nat /\ Quotas \subseteq Nat /\ Quotas # {}

VARIABLES
    pc,          \* where each thread is
    lock,        \* the thread inside a critical section of several actions
    waitq,       \* queue.wait, in the order of nextPtr
    stage,       \* of a connection: fresh, queued, active (on queue.active), freed
    current, idle, waiting, starting,   \* the counters of poolPtr->threads
    conn,        \* connPtr of a connection thread
    quota,       \* ncons of a connection thread
    timed,       \* timePtr # NULL
    expired,     \* status = NS_TIMEOUT
    joinList,    \* joinPtr: threads that await Ns_ThreadJoin
    toJoin,      \* firstPtr of a running NsJoinConnThreads
    shutdown     \* poolPtr->shutdown

vars == <<pc, lock, waitq, stage, current, idle, waiting, starting, conn,
          quota, timed, expired, joinList, toJoin, shutdown>>

counters == <<current, idle, waiting, starting>>
locals   == <<conn, quota, timed, expired>>
reaping  == <<joinList, toJoin>>

ThreadPC  == {"none", "born", "top", "check", "waiting", "woken", "run",
              "ran", "freeing", "leave", "respawn", "gone"}
CreatorPC == {"idle", "start", "reap", "join", "spawn",
              "waitpool", "waiting", "woken", "reapall", "joinall", "stopped"}

LockFree == lock = Nobody
Goto(p, s) == pc' = [pc EXCEPT ![p] = s]

\* Processes blocked in Ns_CondTimedWait on poolPtr->cond.
Waiters == {p \in Threads \cup {Main} : pc[p] = "waiting"}

Init ==
    /\ pc = [p \in Procs |-> IF p \in Threads THEN "none"
                             ELSE IF p = Main THEN "start" ELSE "idle"]
    /\ lock = Nobody
    /\ waitq = <<>>
    /\ stage = [c \in Conns |-> "fresh"]
    /\ current = 0 /\ idle = 0 /\ waiting = 0 /\ starting = 0
    /\ conn = [t \in Threads |-> NoConn]
    /\ quota = [t \in Threads |-> 0]
    /\ timed = [p \in Threads |-> FALSE]
    /\ expired = [p \in Threads \cup {Main} |-> FALSE]
    /\ joinList = {}
    /\ toJoin = [p \in Creators |-> {}]
    /\ shutdown = FALSE

\* Definitions named Faulty... are plausible bugs.  No action uses them: each
\* stands next to the definition it could replace, and breaks a property.

-----------------------------------------------------------------------------
(* Ns_CondSignal, as the last thing p does before it goes on at s: one     *)
(* waiter, if there is one, will return from its wait.                     *)

FaultySignal(p, s) == Goto(p, s)     \* the signal is lost

SignalAndGoto(p, s) ==
    \/ /\ Waiters = {}
       /\ Goto(p, s)
    \/ \E w \in Waiters : pc' = [pc EXCEPT ![w] = "woken", ![p] = s]

(* NsQueueConn: append the connection, then create a thread, or signal a   *)
(* waiting one, or rely on a busy thread to find the connection.           *)

Enqueue(c) ==
    /\ stage[c] = "fresh"
    /\ stage' = [stage EXCEPT ![c] = "queued"]
    /\ waitq' = Append(waitq, c)

FaultyNeedThread == waiting = 0 /\ current <= MaxThreads
NeedThread == waiting = 0 /\ current < MaxThreads

NsQueueConn(d, c) ==
    /\ pc[d] = "idle" /\ LockFree
    /\ Enqueue(c)
    /\ \/ /\ NeedThread
          /\ current' = current + 1
          /\ Goto(d, "reap")
       \/ /\ ~NeedThread /\ waiting > 0
          /\ SignalAndGoto(d, "idle")
          /\ UNCHANGED current
       \/ /\ ~NeedThread /\ waiting = 0
          /\ UNCHANGED <<pc, current>>
    /\ UNCHANGED <<lock, idle, waiting, starting, locals, reaping, shutdown>>

-----------------------------------------------------------------------------
(* NsCreateConnThread and NsJoinConnThreads.  A creator first takes the    *)
(* list of exited threads and joins each of them, outside every lock.      *)

JoinExited(p) ==
    /\ toJoin' = [toJoin EXCEPT ![p] = joinList]
    /\ joinList' = {}

Reap(p) ==
    /\ pc[p] = "reap"
    /\ JoinExited(p)
    /\ Goto(p, "join")
    /\ UNCHANGED <<lock, waitq, stage, counters, locals, shutdown>>

\* Ns_ThreadJoin returns once the thread has ended; its ConnData is freed.
JoinOne(p) ==
    /\ pc[p] \in {"join", "joinall"}
    /\ \E t \in toJoin[p] :
         /\ pc[t] = "gone"
         /\ Goto(t, "none")
         /\ toJoin' = [toJoin EXCEPT ![p] = @ \ {t}]
    /\ UNCHANGED <<lock, waitq, stage, counters, locals, joinList, shutdown>>

JoinedAll(p) ==
    /\ pc[p] = "join" /\ toJoin[p] = {}
    /\ Goto(p, "spawn")
    /\ UNCHANGED <<lock, waitq, stage, counters, locals, reaping, shutdown>>

\* Count the new thread as starting, create it, and go on at s.
CreateThread(p, s) ==
    /\ LockFree
    /\ starting' = starting + 1
    /\ \E u \in Threads :
         /\ pc[u] = "none"
         /\ pc' = [pc EXCEPT ![u] = "born", ![p] = s]

Spawn(p) ==
    /\ pc[p] = "spawn"
    /\ CreateThread(p, IF p = Main THEN "start" ELSE "idle")
    /\ UNCHANGED <<lock, waitq, stage, current, idle, waiting, locals,
                   reaping, shutdown>>

-----------------------------------------------------------------------------
(* NsConnThread. *)

\* The new thread draws its quota and enters the pool as an idle thread.
ThreadBegin(t) ==
    /\ pc[t] = "born" /\ LockFree
    /\ \E n \in Quotas : quota' = [quota EXCEPT ![t] = n]
    /\ starting' = starting - 1
    /\ idle' = idle + 1
    /\ lock' = t
    /\ Goto(t, "top")
    /\ UNCHANGED <<waitq, stage, current, waiting, conn, timed, expired,
                   reaping, shutdown>>

QuotaLeft(t) == MaxConns = 0 \/ quota[t] > 0

\* while (maxconns <= 0 || ncons-- > 0): a thread in excess of MinThreads waits
\* with a timeout.
LoopTop(t) ==
    /\ pc[t] = "top"
    /\ IF QuotaLeft(t)
       THEN /\ quota' = [quota EXCEPT ![t] = IF MaxConns = 0 THEN @ ELSE @ - 1]
            /\ timed' = [timed EXCEPT ![t] = current > MinThreads]
            /\ expired' = [expired EXCEPT ![t] = FALSE]
            /\ Goto(t, "check")
       ELSE /\ Goto(t, "leave")
            /\ UNCHANGED <<quota, timed, expired>>
    /\ UNCHANGED <<lock, waitq, stage, counters, conn, reaping, shutdown>>

WaitForConn(t) ==
    /\ pc[t] = "check"
    /\ ~shutdown /\ ~expired[t] /\ waitq = <<>>
    /\ waiting' = waiting + 1
    /\ lock' = Nobody
    /\ Goto(t, "waiting")
    /\ UNCHANGED <<waitq, stage, current, idle, starting, locals, reaping,
                   shutdown>>

\* Ns_CondTimedWait may time out, and may return without a signal.
Timeout(p) ==
    /\ p \in Waiters
    /\ p \in Threads => timed[p]
    /\ expired' = [expired EXCEPT ![p] = TRUE]
    /\ Goto(p, "woken")
    /\ UNCHANGED <<lock, waitq, stage, counters, conn, quota, timed, reaping,
                   shutdown>>

SpuriousWakeup(p) ==
    /\ p \in Waiters
    /\ Goto(p, "woken")
    /\ UNCHANGED <<lock, waitq, stage, counters, locals, reaping, shutdown>>

Reacquire(t) ==
    /\ pc[t] = "woken" /\ LockFree
    /\ lock' = t
    /\ waiting' = waiting - 1
    /\ Goto(t, "check")
    /\ UNCHANGED <<waitq, stage, current, idle, starting, locals, reaping,
                   shutdown>>

GiveUp(t) ==
    /\ pc[t] = "check"
    /\ waitq = <<>> /\ (shutdown \/ expired[t])
    /\ Goto(t, "leave")
    /\ UNCHANGED <<lock, waitq, stage, counters, locals, reaping, shutdown>>

\* Move the first waiting connection to the active list and run it.
TakeConn(t) ==
    /\ pc[t] = "check"
    /\ waitq # <<>>
    /\ conn' = [conn EXCEPT ![t] = Head(waitq)]
    /\ waitq' = Tail(waitq)
    /\ stage' = [stage EXCEPT ![Head(waitq)] = "active"]
    /\ idle' = idle - 1
    /\ lock' = Nobody
    /\ Goto(t, "run")
    /\ UNCHANGED <<current, waiting, starting, quota, timed, expired, reaping,
                   shutdown>>

\* ConnRun, which module ConnRun details, touches no state of the pool.
ConnRun(t) ==
    /\ pc[t] = "run"
    /\ Goto(t, "ran")
    /\ UNCHANGED <<lock, waitq, stage, counters, locals, reaping, shutdown>>

\* Unlink the connection from the active list; then, outside the lock,
\* NsFreeConn recycles it.
FinishConn(t) ==
    /\ pc[t] = "ran" /\ LockFree
    /\ stage' = [stage EXCEPT ![conn[t]] = "freed"]
    /\ conn' = [conn EXCEPT ![t] = NoConn]
    /\ idle' = idle + 1
    /\ Goto(t, "freeing")
    /\ UNCHANGED <<lock, waitq, current, waiting, starting, quota, timed,
                   expired, reaping, shutdown>>

NextConn(t) ==
    /\ pc[t] = "freeing" /\ LockFree
    /\ lock' = t
    /\ Goto(t, "top")
    /\ UNCHANGED <<waitq, stage, counters, locals, reaping, shutdown>>

\* The exit: go on the join list, then replace this thread when connections
\* wait and no thread is idle or starting or when fewer than MinThreads are left,
\* or else wake a waiting thread for a connection that waits.
FaultyNeedReplacement == current - 1 < MinThreads /\ ~shutdown

NeedReplacement ==
    /\ \/ waitq # <<>> /\ idle' = 0 /\ starting = 0
       \/ current - 1 < MinThreads
    /\ ~shutdown

Leave(t) ==
    /\ pc[t] = "leave"
    /\ joinList' = joinList \cup {t}
    /\ idle' = idle - 1
    /\ \/ /\ NeedReplacement
          /\ current' = (current - 1) + 1
          /\ Goto(t, "respawn")
       \/ /\ ~NeedReplacement
          /\ current' = current - 1
          /\ IF waitq # <<>> /\ waiting > 0
             THEN SignalAndGoto(t, "gone")
             ELSE Goto(t, "gone")
    /\ lock' = Nobody
    /\ UNCHANGED <<waitq, stage, waiting, starting, locals, toJoin, shutdown>>

\* NsCreateConnThread(poolPtr, 0): no join, the list holds this thread.
Respawn(t) ==
    /\ pc[t] = "respawn"
    /\ CreateThread(t, "gone")
    /\ UNCHANGED <<lock, waitq, stage, current, idle, waiting, locals,
                   reaping, shutdown>>

-----------------------------------------------------------------------------
(* The main thread: StartPool, StopPool, WaitPool, NsJoinConnThreads. *)

\* StartPool counts without the lock: no connection is queued before the
\* drivers start, which they do after the pools.
StartOne ==
    /\ pc[Main] = "start" /\ current < MinThreads
    /\ current' = current + 1
    /\ Goto(Main, "reap")
    /\ UNCHANGED <<lock, waitq, stage, idle, waiting, starting, locals,
                   reaping, shutdown>>

Started ==
    /\ pc[Main] = "start" /\ current = MinThreads
    /\ Goto(Main, "idle")
    /\ UNCHANGED <<lock, waitq, stage, counters, locals, reaping, shutdown>>

FaultyStopPool ==                   \* no broadcast
    /\ pc[Main] = "idle" /\ LockFree
    /\ shutdown' = TRUE
    /\ Goto(Main, "waitpool")
    /\ UNCHANGED <<lock, waitq, stage, counters, locals, reaping>>

\* Ns_CondBroadcast wakes every waiter.
StopPool ==
    /\ pc[Main] = "idle" /\ LockFree
    /\ shutdown' = TRUE
    /\ pc' = [p \in Procs |-> IF p = Main THEN "waitpool"
                              ELSE IF p \in Waiters THEN "woken" ELSE pc[p]]
    /\ UNCHANGED <<lock, waitq, stage, counters, locals, reaping>>

WaitPool ==
    /\ pc[Main] \in {"waitpool", "woken"} /\ LockFree
    /\ Goto(Main, IF waitq = <<>> \/ current = 0 \/ expired[Main]
                  THEN "reapall" ELSE "waiting")
    /\ UNCHANGED <<lock, waitq, stage, counters, locals, reaping, shutdown>>

ReapAll ==
    /\ pc[Main] = "reapall"
    /\ JoinExited(Main)
    /\ Goto(Main, "joinall")
    /\ UNCHANGED <<lock, waitq, stage, counters, locals, shutdown>>

NsStopPools ==
    /\ pc[Main] = "joinall" /\ toJoin[Main] = {}
    /\ Goto(Main, "stopped")
    /\ UNCHANGED <<lock, waitq, stage, counters, locals, reaping, shutdown>>

-----------------------------------------------------------------------------
DriverStarted == pc[Main] # "start" /\ ~(pc[Main] \in {"reap", "join", "spawn"})

Queueing(d) == DriverStarted /\ \E c \in Conns : NsQueueConn(d, c)

Creating(p) == Reap(p) \/ JoinOne(p) \/ JoinedAll(p) \/ Spawn(p)

ThreadStep(t) ==
    \/ ThreadBegin(t) \/ LoopTop(t) \/ WaitForConn(t) \/ Reacquire(t)
    \/ GiveUp(t) \/ TakeConn(t) \/ ConnRun(t) \/ FinishConn(t)
    \/ NextConn(t) \/ Leave(t) \/ Respawn(t)

MainStep == StartOne \/ Started \/ WaitPool \/ ReapAll \/ NsStopPools

Next ==
    \/ \E d \in DriverThreads : Queueing(d)
    \/ \E p \in Creators : Creating(p)
    \/ \E t \in Threads : ThreadStep(t)
    \/ \E p \in Threads \cup {Main} : Timeout(p) \/ SpuriousWakeup(p)
    \/ MainStep
    \/ StopPool

Spec == Init /\ [][Next]_vars

\* Threads run and get the lock when they want it, and request handlers
\* return (ConnRun); connections need not arrive, nobody need stop the
\* server, and a wait ends for a timeout or without cause only if it likes.
Fairness ==
    /\ \A p \in Creators : SF_vars(Creating(p))
    /\ \A t \in Threads : SF_vars(ThreadStep(t))
    /\ SF_vars(MainStep)

FairSpec == Spec /\ Fairness

-----------------------------------------------------------------------------
TypeOK ==
    /\ pc \in [Procs -> ThreadPC \cup CreatorPC]
    /\ \A t \in Threads : pc[t] \in ThreadPC
    /\ \A p \in Creators : pc[p] \in CreatorPC
    /\ lock \in Threads \cup {Nobody}
    /\ waitq \in Seq(Conns)
    /\ stage \in [Conns -> {"fresh", "queued", "active", "freed"}]
    /\ current \in Int /\ idle \in Int /\ waiting \in Int /\ starting \in Int
    /\ conn \in [Threads -> Conns \cup {NoConn}]
    /\ quota \in [Threads -> Nat]
    /\ timed \in [Threads -> BOOLEAN]
    /\ expired \in [Threads \cup {Main} -> BOOLEAN]
    /\ joinList \subseteq Threads
    /\ toJoin \in [Creators -> SUBSET Threads]
    /\ shutdown \in BOOLEAN

-----------------------------------------------------------------------------
(* Who is where. *)

In(S) == {t \in Threads : pc[t] \in S}

IdlePC == {"top", "check", "waiting", "woken", "freeing", "leave"}
LivePC == IdlePC \cup {"born", "run", "ran"}

Live     == In(LivePC)
IdleSet  == In(IdlePC)
Sleeping == In({"waiting"})
Busy     == In({"run", "ran"})

\* Creations that are counted in threads.current but not yet in starting.
Making  == {p \in Creators : pc[p] \in {"reap", "join", "spawn"}}
Pending == Making \cup In({"respawn"})

\* Threads that will look at the wait queue before they wait, and the
\* creations that will produce such a thread.
OnItsWay == In((IdlePC \ {"waiting"}) \cup {"born"}) \cup Pending

(* The four counters, which decide about creating, replacing and waking    *)
(* threads, always equal the number of threads they count (NsQueueConn,    *)
(* NsConnThread, NsCreateConnThread update them in different sections).    *)
CountersAgree ==
    /\ current = Cardinality(Live) + Cardinality(Pending)
    /\ idle = Cardinality(IdleSet)
    /\ waiting = Cardinality(In({"waiting", "woken"}))
    /\ starting = Cardinality(In({"born"}))

(* nsd.h:650, "the current number of threads remains within that range":   *)
(* never more than MaxThreads threads, and once the pool has started and until it *)
(* stops never fewer than MinThreads, whichever threads time out or reach their   *)
(* quota together.                                                         *)
CurrentInRange ==
    /\ current <= MaxThreads
    /\ (DriverStarted /\ ~shutdown) => current >= MinThreads

(* A connection is on the wait queue, or with exactly one thread, or done: *)
(* the unlinking in NsConnThread neither loses one nor runs one twice.     *)
ServedOnce ==
    /\ \A i, j \in 1..Len(waitq) : waitq[i] = waitq[j] => i = j
    /\ \A c \in Conns :
         /\ stage[c] = "queued" <=> \E i \in 1..Len(waitq) : waitq[i] = c
         /\ stage[c] = "active" <=> \E t \in Busy : conn[t] = c
    /\ \A t, u \in Busy : conn[t] = conn[u] => t = u

(* No wakeup is lost: while a thread sleeps on the condition variable,     *)
(* each connection that waits has a thread of its own on its way to it.    *)
WorkConserving ==
    Sleeping # {} => Len(waitq) <= Cardinality(OnItsWay)

(* Until the pool stops, connections that wait are never left to nobody:   *)
(* some thread runs, is on its way or is being created.                    *)
NotAbandoned ==
    (waitq # <<>> /\ ~shutdown) => Busy \cup OnItsWay # {}

(* Every queued connection is served, unless the pool is stopped first.    *)
QueuedServed ==
    \A c \in Conns : stage[c] = "queued" ~> (stage[c] = "freed" \/ shutdown)

(* A creator that joins exited threads is never kept waiting for good.     *)
JoinsEnd == \A p \in Creators : pc[p] = "join" ~> pc[p] = "spawn"

(* After StopPool every connection thread exits.                           *)
ThreadsExit == shutdown ~> \A t \in Threads : pc[t] \in {"none", "gone"}

(* The pool keeps its books: whichever drivers and threads pass each other *)
(* between their sections under the lock, the four counters are what they  *)
(* count, the number of threads stays in its range, and no connection is   *)
(* lost or run twice.                                                      *)
PoolSound == TypeOK /\ CountersAgree /\ CurrentInRange /\ ServedOnce

(* A connection on the wait queue is always somebody's business: no thread *)
(* sleeps beside it, and the last thread does not leave it behind.         *)
WorkSeen == WorkConserving /\ NotAbandoned

(* NsStopPools ends: exited threads are joined, and every thread exits.    *)
StopCompletes == JoinsEnd /\ ThreadsExit
=============================================================================
