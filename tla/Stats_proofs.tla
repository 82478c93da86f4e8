---------------------------- MODULE Stats_proofs ----------------------------
(***************************************************************************)
(* Proofs about what the statistics are of, how they are read and how they *)
(* are shown: about the connection pool, for any number of threads,        *)
(* drivers and connections and any limits; about stats-api.js inside the   *)
(* server it reports on, any of the connections being polls; and about the *)
(* dashboard, for any answers, any number of polls, any length of the      *)
(* history and whatever tabs and fragments the user opens.                 *)
(***************************************************************************)
EXTENDS StatsApi, Dashboard, Lemmas

-----------------------------------------------------------------------------
(* Types. *)

PcTyped(f) ==
    /\ f \in [Procs -> ThreadPC \cup CreatorPC]
    /\ \A t \in Threads : f[t] \in ThreadPC
    /\ \A p \in Creators : f[p] \in CreatorPC

DataTyped ==
    /\ lock \in Threads \cup {Nobody}
    /\ waitq \in Seq(Conns)
    /\ stage \in [Conns -> {"fresh", "queued", "active", "freed"}]
    /\ current \in Int /\ idle \in Int /\ waiting \in Int /\ starting \in Int
    /\ conn \in [Threads -> Conns \cup {NoConn}]
    /\ quota \in [Threads -> Nat]
    /\ timed \in [Threads -> BOOLEAN]
    /\ expired \in [Threads \cup {Main} -> BOOLEAN]
    /\ joinList \subseteq Threads
    /\ toJoin \in [Creators -> SUBSET Threads]
    /\ shutdown \in BOOLEAN

LEMMA TypeParts ==
    /\ TypeOK <=> PcTyped(pc) /\ DataTyped
    /\ TypeOK' <=> PcTyped(pc') /\ DataTyped'
BY DEF TypeOK, PcTyped, DataTyped

LEMMA Kinds ==
    /\ \A t \in Threads : t \in Procs /\ t \notin Creators
    /\ \A p \in Creators : p \in Procs /\ p \notin Threads
    /\ \A d \in DriverThreads : d \in Creators /\ d # Main
    /\ Main \in Creators
    /\ \A p \in Procs : p \in Threads \/ p \in Creators
BY PoolAssumption DEF Creators, Procs

(* A thread, or a creator, goes on at a place of its own kind.             *)
LEMMA ThreadGoes ==
    ASSUME NEW f, PcTyped(f), NEW t \in Threads, NEW s \in ThreadPC,
           NEW g, g = [f EXCEPT ![t] = s]
    PROVE  PcTyped(g)
BY Kinds DEF PcTyped

LEMMA CreatorGoes ==
    ASSUME NEW f, PcTyped(f), NEW p \in Creators, NEW s \in CreatorPC,
           NEW g, g = [f EXCEPT ![p] = s]
    PROVE  PcTyped(g)
BY Kinds DEF PcTyped

(* Whoever returns from the condition variable goes on at "woken".         *)
LEMMA WakeGoes ==
    ASSUME NEW f, PcTyped(f), NEW w \in Threads \cup {Main},
           NEW g, g = [f EXCEPT ![w] = "woken"]
    PROVE  PcTyped(g)
BY Kinds, ThreadGoes, CreatorGoes DEF ThreadPC, CreatorPC

(* A process that signals goes on at s, and the waiter it wakes goes on.   *)
LEMMA SignalType ==
    ASSUME PcTyped(pc), NEW p, NEW s,
           \/ p \in Threads /\ s \in ThreadPC
           \/ p \in Creators /\ s \in CreatorPC,
           SignalAndGoto(p, s)
    PROVE  PcTyped(pc')
PROOF
<1>1. CASE Goto(p, s)
  BY <1>1, ThreadGoes, CreatorGoes DEF Goto
<1>2. ASSUME NEW w \in Waiters, pc' = [pc EXCEPT ![w] = "woken", ![p] = s]
      PROVE  PcTyped(pc')
  <2> DEFINE g == [pc EXCEPT ![w] = "woken"]
  <2>1. PcTyped(g)
    BY WakeGoes DEF Waiters
  <2>2. pc' = [g EXCEPT ![p] = s]
    BY <1>2
  <2> HIDE DEF g
  <2> QED
    BY <2>1, <2>2, ThreadGoes, CreatorGoes
<1> QED
  BY <1>1, <1>2 DEF SignalAndGoto

(* A process that makes a thread goes on at s, and the thread is born.     *)
LEMMA CreateType ==
    ASSUME PcTyped(pc), NEW p, NEW s,
           \/ p \in Threads /\ s \in ThreadPC
           \/ p \in Creators /\ s \in CreatorPC,
           CreateThread(p, s)
    PROVE  PcTyped(pc')
PROOF
<1>1. PICK u \in Threads : pc' = [pc EXCEPT ![u] = "born", ![p] = s]
  BY DEF CreateThread
<1> DEFINE g == [pc EXCEPT ![u] = "born"]
<1>2. PcTyped(g)
  BY ThreadGoes DEF ThreadPC
<1>3. pc' = [g EXCEPT ![p] = s]
  BY <1>1
<1> HIDE DEF g
<1> QED
  BY <1>2, <1>3, ThreadGoes, CreatorGoes

LEMMA TypeInit == Init => TypeOK
PROOF
<1> SUFFICES ASSUME Init PROVE PcTyped(pc) /\ DataTyped
  BY TypeParts
<1>1. PcTyped(pc)
  BY Kinds DEF Init, PcTyped, ThreadPC, CreatorPC
<1>2. DataTyped
  <2>1. waitq \in Seq(Conns)
    BY DEF Init
  <2>2. toJoin \in [Creators -> SUBSET Threads]
    BY DEF Init
  <2>3. stage \in [Conns -> {"fresh", "queued", "active", "freed"}]
    BY DEF Init
  <2>4. conn \in [Threads -> Conns \cup {NoConn}] /\ quota \in [Threads -> Nat]
    BY DEF Init
  <2>5. /\ timed \in [Threads -> BOOLEAN]
        /\ expired \in [Threads \cup {Main} -> BOOLEAN]
    BY DEF Init
  <2>6. /\ lock \in Threads \cup {Nobody} /\ joinList \subseteq Threads
        /\ current \in Int /\ idle \in Int /\ waiting \in Int /\ starting \in Int
    BY DEF Init
  <2>7. shutdown \in BOOLEAN
    BY DEF Init
  <2> QED
    BY <2>1, <2>2, <2>3, <2>4, <2>5, <2>6, <2>7 DEF DataTyped
<1> QED
  BY <1>1, <1>2

(* The places of the processes, for every kind of step.                    *)
LEMMA PcNext == PcTyped(pc) /\ DataTyped /\ [Next]_vars => PcTyped(pc')
PROOF
<1> SUFFICES ASSUME PcTyped(pc), DataTyped, [Next]_vars PROVE PcTyped(pc')
  OBVIOUS
<1> USE DEF Goto
<1>1. CASE UNCHANGED vars
  BY <1>1 DEF vars
<1>2. ASSUME NEW d \in DriverThreads, NEW c \in Conns, NsQueueConn(d, c)
      PROVE  PcTyped(pc')
  <2>1. /\ {"reap", "idle"} \subseteq CreatorPC
        /\ d \in Creators
    BY Kinds DEF CreatorPC
  <2> QED
    BY <1>2, <2>1, CreatorGoes, SignalType DEF NsQueueConn
<1>3. ASSUME NEW p \in Creators, Creating(p)
      PROVE  PcTyped(pc')
  <2>1. CASE Reap(p)
    BY <2>1, CreatorGoes DEF Reap, CreatorPC
  <2>2. CASE JoinOne(p)
    <3>1. toJoin[p] \subseteq Threads
      BY DEF DataTyped
    <3> QED
      BY <2>2, <3>1, ThreadGoes DEF JoinOne, ThreadPC
  <2>3. CASE JoinedAll(p)
    BY <2>3, CreatorGoes DEF JoinedAll, CreatorPC
  <2>4. CASE Spawn(p)
    BY <2>4, CreateType DEF Spawn, CreatorPC
  <2> QED
    BY <1>3, <2>1, <2>2, <2>3, <2>4 DEF Creating
<1>4. ASSUME NEW t \in Threads, ThreadStep(t)
      PROVE  PcTyped(pc')
  <2> USE DEF ThreadPC
  <2>1. CASE ThreadBegin(t)
    BY <2>1, ThreadGoes DEF ThreadBegin
  <2>2. CASE LoopTop(t)
    BY <2>2, ThreadGoes DEF LoopTop
  <2>3. CASE WaitForConn(t)
    BY <2>3, ThreadGoes DEF WaitForConn
  <2>4. CASE Reacquire(t)
    BY <2>4, ThreadGoes DEF Reacquire
  <2>5. CASE GiveUp(t)
    BY <2>5, ThreadGoes DEF GiveUp
  <2>6. CASE TakeConn(t)
    BY <2>6, ThreadGoes DEF TakeConn
  <2>7. CASE ConnRun(t)
    BY <2>7, ThreadGoes DEF ConnRun
  <2>8. CASE FinishConn(t)
    BY <2>8, ThreadGoes DEF FinishConn
  <2>9. CASE NextConn(t)
    BY <2>9, ThreadGoes DEF NextConn
  <2>10. CASE Leave(t)
    BY <2>10, ThreadGoes, SignalType DEF Leave
  <2>11. CASE Respawn(t)
    BY <2>11, CreateType DEF Respawn
  <2> QED
    BY <1>4, <2>1, <2>2, <2>3, <2>4, <2>5, <2>6, <2>7, <2>8, <2>9, <2>10,
       <2>11 DEF ThreadStep
<1>5. ASSUME NEW p \in Threads \cup {Main}, Timeout(p) \/ SpuriousWakeup(p)
      PROVE  PcTyped(pc')
  BY <1>5, WakeGoes DEF Timeout, SpuriousWakeup
<1>6. CASE MainStep
  <2>1. \E s \in CreatorPC : pc' = [pc EXCEPT ![Main] = s]
    BY <1>6
    DEF MainStep, StartOne, Started, WaitPool, ReapAll, NsStopPools, CreatorPC
  <2> QED
    BY <2>1, Kinds, CreatorGoes
<1>7. CASE StopPool
  <2>1. /\ DOMAIN pc' = Procs
        /\ \A p \in Procs : \/ p = Main /\ pc'[p] = "waitpool"
                            \/ p \in Waiters /\ pc'[p] = "woken"
                            \/ pc'[p] = pc[p]
    BY <1>7 DEF StopPool
  <2>2. \A p \in Procs : pc'[p] \in ThreadPC \cup CreatorPC
    BY <2>1 DEF PcTyped, ThreadPC, CreatorPC
  <2>3. \A t \in Threads : pc'[t] \in ThreadPC
    BY <2>1, Kinds DEF PcTyped, ThreadPC
  <2>4. \A p \in Creators : pc'[p] \in CreatorPC
    BY <2>1, Kinds DEF PcTyped, CreatorPC
  <2> QED
    BY <1>7, <2>2, <2>3, <2>4 DEF StopPool, PcTyped
<1> QED
  BY <1>1, <1>2, <1>3, <1>4, <1>5, <1>6, <1>7 DEF Next, Queueing

(* The other variables.                                                    *)
LEMMA DataNext == DataTyped /\ [Next]_vars => DataTyped'
PROOF
<1> SUFFICES ASSUME DataTyped, [Next]_vars PROVE DataTyped'
  OBVIOUS
<1> USE DEF DataTyped, counters, locals, reaping
<1>1. CASE UNCHANGED vars
  BY <1>1 DEF vars
<1>2. ASSUME NEW d \in DriverThreads, NEW c \in Conns, NsQueueConn(d, c)
      PROVE  DataTyped'
  BY <1>2 DEF NsQueueConn, Enqueue
<1>3. ASSUME NEW p \in Creators, Creating(p)
      PROVE  DataTyped'
  <2>1. CASE Reap(p) \/ JoinedAll(p)
    BY <2>1 DEF Reap, JoinExited, JoinedAll
  <2>2. CASE JoinOne(p)
    BY <2>2 DEF JoinOne
  <2>3. CASE Spawn(p)
    BY <2>3 DEF Spawn, CreateThread
  <2> QED
    BY <1>3, <2>1, <2>2, <2>3 DEF Creating
<1>4. ASSUME NEW t \in Threads, ThreadStep(t)
      PROVE  DataTyped'
  <2>1. CASE ThreadBegin(t)
    BY <2>1, PoolAssumption DEF ThreadBegin
  <2>2. CASE LoopTop(t)
    <3>1. CASE QuotaLeft(t)
      <4>1. PICK n : quota' = [quota EXCEPT ![t] = n] /\ n \in Nat
        BY <2>2, <3>1 DEF LoopTop, QuotaLeft
      <4>2. /\ timed' = [timed EXCEPT ![t] = current > MinThreads]
            /\ expired' = [expired EXCEPT ![t] = FALSE]
        BY <2>2, <3>1 DEF LoopTop
      <4>3. quota' \in [Threads -> Nat]
        BY <4>1
      <4>4. timed' \in [Threads -> BOOLEAN]
        BY <4>2
      <4>5. expired' \in [Threads \cup {Main} -> BOOLEAN]
        BY <4>2
      <4> QED
        BY <2>2, <4>3, <4>4, <4>5 DEF LoopTop
    <3>2. CASE ~QuotaLeft(t)
      BY <2>2, <3>2 DEF LoopTop
    <3> QED
      BY <3>1, <3>2
  <2>3. CASE WaitForConn(t) \/ Reacquire(t) \/ GiveUp(t) \/ NextConn(t)
    BY <2>3 DEF WaitForConn, Reacquire, GiveUp, NextConn
  <2>4. CASE TakeConn(t)
    <3>1. Head(waitq) \in Conns /\ Tail(waitq) \in Seq(Conns)
      BY <2>4 DEF TakeConn
    <3> QED
      BY <2>4, <3>1 DEF TakeConn
  <2>5. CASE ConnRun(t)
    BY <2>5 DEF ConnRun
  <2>8. CASE FinishConn(t)
    <3>1. stage' \in [Conns -> {"fresh", "queued", "active", "freed"}]
      BY <2>8 DEF FinishConn
    <3>2. conn' \in [Threads -> Conns \cup {NoConn}]
      BY <2>8 DEF FinishConn
    <3> QED
      BY <2>8, <3>1, <3>2 DEF FinishConn
  <2>6. CASE Leave(t)
    BY <2>6 DEF Leave
  <2>7. CASE Respawn(t)
    BY <2>7 DEF Respawn, CreateThread
  <2> QED
    BY <1>4, <2>1, <2>2, <2>3, <2>4, <2>5, <2>6, <2>7, <2>8 DEF ThreadStep
<1>5. ASSUME NEW p \in Threads \cup {Main}, Timeout(p) \/ SpuriousWakeup(p)
      PROVE  DataTyped'
  BY <1>5 DEF Timeout, SpuriousWakeup
<1>6. CASE MainStep
  <2>1. CASE ReapAll
    BY <2>1 DEF ReapAll, JoinExited
  <2>2. CASE StartOne \/ Started \/ WaitPool \/ NsStopPools
    BY <2>2 DEF StartOne, Started, WaitPool, NsStopPools
  <2> QED
    BY <1>6, <2>1, <2>2 DEF MainStep
<1>7. CASE StopPool
  BY <1>7 DEF StopPool
<1> QED
  BY <1>1, <1>2, <1>3, <1>4, <1>5, <1>6, <1>7 DEF Next, Queueing

LEMMA TypeNext == TypeOK /\ [Next]_vars => TypeOK'
BY TypeParts, PcNext, DataNext

(* Every variable keeps its type: a thread's remaining quota never goes    *)
(* below zero, and only connection threads hold the lock across steps.     *)
THEOREM TypeCorrect == Spec => []TypeOK
BY TypeInit, TypeNext, PTL DEF Spec

-----------------------------------------------------------------------------
(* Counting.  Places of connection threads fall in disjoint groups; the    *)
(* counters of the pool are sums of the sizes of groups.                   *)

BusyPC   == {"run", "ran"}
ReadyPC  == {"top", "check", "freeing", "leave"}
MakingPC == {"reap", "join", "spawn"}
StopPC   == {"waitpool", "waiting", "woken", "reapall", "joinall", "stopped"}
FirstPC  == {"start", "reap", "join", "spawn"}

BusyN(f)  == Count(f, Threads, BusyPC)
ReadyN(f) == Count(f, Threads, ReadyPC)
SleepN(f) == Count(f, Threads, {"waiting"})
WokenN(f) == Count(f, Threads, {"woken"})
BornN(f)  == Count(f, Threads, {"born"})
HeirN(f)  == Count(f, Threads, {"respawn"})
MakeN(f)  == Count(f, Creators, MakingPC)

OnWayN(f) == ReadyN(f) + WokenN(f) + BornN(f) + HeirN(f) + MakeN(f)

LEMMA CountsAreNat ==
    ASSUME NEW f
    PROVE  /\ BusyN(f) \in Nat /\ ReadyN(f) \in Nat /\ SleepN(f) \in Nat
           /\ WokenN(f) \in Nat /\ BornN(f) \in Nat /\ HeirN(f) \in Nat
           /\ MakeN(f) \in Nat
PROOF
<1>1. IsFiniteSet(Threads)
  BY PoolAssumption
<1>2. IsFiniteSet(Creators)
  BY PoolAssumption, FS_AddElement DEF Creators
<1> QED
  BY <1>1, <1>2, CountType
  DEF BusyN, ReadyN, SleepN, WokenN, BornN, HeirN, MakeN

(* What a thread that moves from place a to place s changes.               *)
Moved(f, g, a, s) ==
    /\ BusyN(g)  = BusyN(f)  + Here(s, BusyPC)      - Here(a, BusyPC)
    /\ ReadyN(g) = ReadyN(f) + Here(s, ReadyPC)     - Here(a, ReadyPC)
    /\ SleepN(g) = SleepN(f) + Here(s, {"waiting"}) - Here(a, {"waiting"})
    /\ WokenN(g) = WokenN(f) + Here(s, {"woken"})   - Here(a, {"woken"})
    /\ BornN(g)  = BornN(f)  + Here(s, {"born"})    - Here(a, {"born"})
    /\ HeirN(g)  = HeirN(f)  + Here(s, {"respawn"}) - Here(a, {"respawn"})
    /\ MakeN(g)  = MakeN(f)

\* And what a creator changes.
MadeMoved(f, g, a, s) ==
    /\ BusyN(g) = BusyN(f) /\ ReadyN(g) = ReadyN(f) /\ SleepN(g) = SleepN(f)
    /\ WokenN(g) = WokenN(f) /\ BornN(g) = BornN(f) /\ HeirN(g) = HeirN(f)
    /\ MakeN(g) = MakeN(f) + Here(s, MakingPC) - Here(a, MakingPC)

LEMMA ThreadMoved ==
    ASSUME NEW f, NEW g, NEW t \in Threads,
           \A u \in Procs : u # t => g[u] = f[u]
    PROVE  Moved(f, g, f[t], g[t])
PROOF
<1>1. IsFiniteSet(Threads)
  BY PoolAssumption
<1>2. \A u \in Threads : u # t => g[u] = f[u]
  BY Kinds
<1>3. \A u \in Creators : f[u] \in MakingPC <=> g[u] \in MakingPC
  BY Kinds
<1>4. MakeN(g) = MakeN(f)
  BY <1>3, CountSame DEF MakeN
<1>5. ASSUME NEW S
      PROVE  Count(g, Threads, S) =
               Count(f, Threads, S) + Here(g[t], S) - Here(f[t], S)
  BY <1>1, <1>2, CountMoved
<1> QED
  BY <1>4, <1>5 DEF Moved, BusyN, ReadyN, SleepN, WokenN, BornN, HeirN

LEMMA CreatorMoved ==
    ASSUME NEW f, NEW g, NEW p \in Creators,
           \A u \in Procs : u # p => g[u] = f[u]
    PROVE  MadeMoved(f, g, f[p], g[p])
PROOF
<1>1. IsFiniteSet(Creators)
  BY PoolAssumption, FS_AddElement DEF Creators
<1>2. \A u \in Creators : u # p => g[u] = f[u]
  BY Kinds
<1>3. \A u \in Threads : g[u] = f[u]
  BY Kinds
<1>4. MakeN(g) = MakeN(f) + Here(g[p], MakingPC) - Here(f[p], MakingPC)
  BY <1>1, <1>2, CountMoved DEF MakeN
<1>5. ASSUME NEW S PROVE Count(g, Threads, S) = Count(f, Threads, S)
  <2>1. \A u \in Threads : f[u] \in S <=> g[u] \in S
    BY <1>3
  <2> QED
    BY <2>1, CountSame
<1> QED
  BY <1>4, <1>5 DEF MadeMoved, BusyN, ReadyN, SleepN, WokenN, BornN, HeirN

Same(f, g) ==
    /\ BusyN(g) = BusyN(f) /\ ReadyN(g) = ReadyN(f) /\ SleepN(g) = SleepN(f)
    /\ WokenN(g) = WokenN(f) /\ BornN(g) = BornN(f) /\ HeirN(g) = HeirN(f)
    /\ MakeN(g) = MakeN(f)

LEMMA ThreadGoto ==
    ASSUME PcTyped(pc), NEW t \in Threads, NEW s, Goto(t, s)
    PROVE  Moved(pc, pc', pc[t], s) /\ pc'[Main] = pc[Main]
PROOF
<1>1. pc'[t] = s /\ \A u \in Procs : u # t => pc'[u] = pc[u]
  BY Kinds DEF Goto, PcTyped
<1>2. Moved(pc, pc', pc[t], pc'[t])
  BY <1>1, ThreadMoved
<1> QED
  BY <1>1, <1>2, Kinds

LEMMA CreatorGoto ==
    ASSUME PcTyped(pc), NEW p \in Creators, NEW s, Goto(p, s)
    PROVE  /\ MadeMoved(pc, pc', pc[p], s)
           /\ pc'[p] = s /\ (p # Main => pc'[Main] = pc[Main])
PROOF
<1>1. pc'[p] = s /\ \A u \in Procs : u # p => pc'[u] = pc[u]
  BY Kinds DEF Goto, PcTyped
<1>2. MadeMoved(pc, pc', pc[p], pc'[p])
  BY <1>1, CreatorMoved
<1> QED
  BY <1>1, <1>2, Kinds

(* A signal, seen before its sender goes on: it finds nobody asleep, or    *)
(* wakes main, or one sleeping thread.                                     *)
LEMMA Signalled ==
    ASSUME PcTyped(pc), NEW p \in Procs, NEW s, pc[p] # "waiting",
           SignalAndGoto(p, s)
    PROVE  \E g : /\ g[p] = pc[p] /\ pc'[p] = s
                  /\ \A u \in Procs : u # p => pc'[u] = g[u]
                  /\ \/ Same(pc, g) /\ SleepN(pc) = 0
                     \/ Same(pc, g) /\ pc[Main] = "waiting"
                     \/ Moved(pc, g, "waiting", "woken")
                  /\ g[Main] = pc[Main] \/ (g[Main] = "woken" /\ pc[Main] = "waiting")
PROOF
<1>1. CASE Waiters = {} /\ Goto(p, s)
  <2>1. \A t \in Threads : pc[t] \notin {"waiting"}
    BY <1>1 DEF Waiters
  <2>2. SleepN(pc) = 0
    BY <2>1, PoolAssumption, CountType DEF SleepN
  <2>3. /\ pc'[p] = s
        /\ \A u \in Procs : u # p => pc'[u] = pc[u]
    BY <1>1 DEF Goto, PcTyped
  <2> QED
    BY <2>2, <2>3 DEF Same
<1>2. ASSUME NEW w \in Waiters, pc' = [pc EXCEPT ![w] = "woken", ![p] = s]
      PROVE  \E g : /\ g[p] = pc[p] /\ pc'[p] = s
                    /\ \A u \in Procs : u # p => pc'[u] = g[u]
                    /\ \/ Same(pc, g) /\ SleepN(pc) = 0
                       \/ Same(pc, g) /\ pc[Main] = "waiting"
                       \/ Moved(pc, g, "waiting", "woken")
                    /\ g[Main] = pc[Main]
                          \/ (g[Main] = "woken" /\ pc[Main] = "waiting")
  <2>1. w \in Procs /\ w # p /\ pc[w] = "waiting"
    BY Kinds DEF Waiters
  <2>2. PICK g : g = [pc EXCEPT ![w] = "woken"]
    OBVIOUS
  <2>3. /\ g[w] = "woken" /\ g[p] = pc[p] /\ pc'[p] = s
        /\ \A u \in Procs : u # w => g[u] = pc[u]
        /\ \A u \in Procs : u # p => pc'[u] = g[u]
    BY <1>2, <2>1, <2>2 DEF PcTyped
  <2>4. CASE w = Main
    <3>1. MadeMoved(pc, g, pc[Main], g[Main])
      BY <2>3, <2>4, CreatorMoved, Kinds
    <3>2. Same(pc, g)
      BY <2>1, <2>3, <2>4, <3>1, CountsAreNat
      DEF MadeMoved, Same, Here, MakingPC
    <3> QED
      BY <2>1, <2>3, <2>4, <3>2
  <2>5. CASE w \in Threads
    <3>1. Moved(pc, g, pc[w], g[w])
      BY <2>3, <2>5, ThreadMoved
    <3> QED
      BY <2>1, <2>3, <2>5, <3>1, Kinds
  <2> QED
    BY <2>4, <2>5 DEF Waiters
<1> QED
  BY <1>1, <1>2 DEF SignalAndGoto

(* A process that is somewhere makes a thread, seen before it goes on.     *)
LEMMA Created ==
    ASSUME PcTyped(pc), NEW p \in Procs, NEW s, pc[p] # "none",
           CreateThread(p, s)
    PROVE  \E g : /\ g[p] = pc[p] /\ pc'[p] = s
                  /\ \A u \in Procs : u # p => pc'[u] = g[u]
                  /\ Moved(pc, g, "none", "born") /\ g[Main] = pc[Main]
PROOF
<1>1. PICK w \in Threads : /\ pc[w] = "none"
                           /\ pc' = [pc EXCEPT ![w] = "born", ![p] = s]
  BY DEF CreateThread
<1>2. PICK g : g = [pc EXCEPT ![w] = "born"]
  OBVIOUS
<1>3. /\ g[w] = "born" /\ g[p] = pc[p] /\ pc'[p] = s
      /\ \A u \in Procs : u # w => g[u] = pc[u]
      /\ \A u \in Procs : u # p => pc'[u] = g[u]
  BY <1>1, <1>2, Kinds DEF PcTyped
<1>4. Moved(pc, g, pc[w], g[w])
  BY <1>3, ThreadMoved
<1> QED
  BY <1>1, <1>3, <1>4, Kinds

-----------------------------------------------------------------------------
(* The invariant of the counters, in terms of the groups.                  *)

Tallies ==
    /\ current = BusyN(pc) + SleepN(pc) + OnWayN(pc)
    /\ idle = ReadyN(pc) + SleepN(pc) + WokenN(pc)
    /\ waiting = SleepN(pc) + WokenN(pc)
    /\ starting = BornN(pc)

\* Only main stops the pool, and no thread sleeps after it did.
StopInv ==
    /\ shutdown <=> pc[Main] \in StopPC
    /\ shutdown => SleepN(pc) = 0

RangeInv ==
    /\ current <= MaxThreads
    /\ pc[Main] \notin FirstPC /\ ~shutdown => current >= MinThreads

\* The number of connections on the wait queue.
Queued == Len(waitq)

WorkInv == SleepN(pc) > 0 => Queued <= OnWayN(pc)

AliveInv == Queued > 0 /\ ~shutdown => BusyN(pc) + OnWayN(pc) > 0

PoolInv == Tallies /\ StopInv /\ RangeInv /\ WorkInv /\ AliveInv

LEMMA PoolInit == Init => PoolInv
PROOF
<1> SUFFICES ASSUME Init PROVE PoolInv
  OBVIOUS
<1>1. /\ IsFiniteSet(Threads) /\ IsFiniteSet(Creators)
      /\ \A t \in Threads : pc[t] = "none"
      /\ \A p \in Creators : pc[p] \in {"start", "idle"}
      /\ pc[Main] = "start"
  BY PoolAssumption, Kinds, FS_AddElement DEF Init, Creators
<1>2. /\ BusyN(pc) = 0 /\ ReadyN(pc) = 0 /\ SleepN(pc) = 0
      /\ WokenN(pc) = 0 /\ BornN(pc) = 0 /\ HeirN(pc) = 0
  <2>1. ASSUME NEW S, "none" \notin S PROVE Count(pc, Threads, S) = 0
    <3>1. \A t \in Threads : pc[t] \notin S
      BY <1>1, <2>1
    <3> QED
      BY <1>1, <3>1, CountType
  <2> QED
    BY <2>1 DEF BusyN, ReadyN, SleepN, WokenN, BornN, HeirN, BusyPC, ReadyPC
<1>3. MakeN(pc) = 0
  <2>1. \A p \in Creators : pc[p] \notin MakingPC
    BY <1>1 DEF MakingPC
  <2> QED
    BY <1>1, <2>1, CountType DEF MakeN
<1> QED
  BY <1>1, <1>2, <1>3, PoolAssumption
  DEF Init, PoolInv, Tallies, StopInv, RangeInv, WorkInv, AliveInv, OnWayN,
      StopPC, FirstPC, Queued

LEMMA QueuedType ==
    ASSUME TypeOK
    PROVE  Queued \in Nat /\ (waitq = <<>> <=> Queued = 0)
BY TypeParts DEF DataTyped, Queued

(* The changes of the groups: b more threads are busy, and so on.          *)
Shift(f, g, b, r, s, w, k, h, m) ==
    /\ BusyN(g) = BusyN(f) + b /\ ReadyN(g) = ReadyN(f) + r
    /\ SleepN(g) = SleepN(f) + s /\ WokenN(g) = WokenN(f) + w
    /\ BornN(g) = BornN(f) + k /\ HeirN(g) = HeirN(f) + h
    /\ MakeN(g) = MakeN(f) + m

(* A step of a thread that signals nobody and makes no thread.             *)
LEMMA PoolNextThread ==
    ASSUME TypeOK, PoolInv, NEW t \in Threads,
           \/ ThreadBegin(t) \/ LoopTop(t) \/ WaitForConn(t) \/ Reacquire(t)
           \/ GiveUp(t) \/ TakeConn(t) \/ ConnRun(t) \/ FinishConn(t)
           \/ NextConn(t) \/ Timeout(t) \/ SpuriousWakeup(t)
    PROVE  PoolInv'
PROOF
<1>0. PcTyped(pc) /\ Queued \in Nat
  BY TypeParts, QueuedType
<1>a. /\ BusyN(pc) \in Nat /\ ReadyN(pc) \in Nat /\ SleepN(pc) \in Nat
      /\ WokenN(pc) \in Nat /\ BornN(pc) \in Nat /\ HeirN(pc) \in Nat
      /\ MakeN(pc) \in Nat
  BY CountsAreNat
<1>b. MinThreads \in Nat /\ MaxThreads \in Nat
  BY PoolAssumption
<1>c. ReadyN(pc') \in Nat /\ SleepN(pc') \in Nat
  BY CountsAreNat
<1> USE DEF PoolInv, Tallies, StopInv, RangeInv, WorkInv, AliveInv, OnWayN,
        counters
<1>1. CASE ThreadBegin(t)
  <2>1. Moved(pc, pc', "born", "top") /\ pc'[Main] = pc[Main]
    BY <1>0, <1>1, ThreadGoto DEF ThreadBegin
  <2>2. Shift(pc, pc', 0, 1, 0, 0, -1, 0, 0)
    BY <1>a, <2>1 DEF Moved, Shift, Here, BusyPC, ReadyPC
  <2>3. /\ current' = current /\ idle' = idle + 1
        /\ waiting' = waiting /\ starting' = starting - 1
        /\ Queued' = Queued
    BY <1>1 DEF ThreadBegin, Queued
  <2>4. shutdown' <=> shutdown
    BY <1>1 DEF ThreadBegin
  <2> QED
    BY <1>0, <1>a, <1>b, <2>1, <2>2, <2>3, <2>4 DEF Shift
<1>2. CASE WaitForConn(t)
  <2>1. Moved(pc, pc', "check", "waiting") /\ pc'[Main] = pc[Main]
    BY <1>0, <1>2, ThreadGoto DEF WaitForConn
  <2>2. Shift(pc, pc', 0, -1, 1, 0, 0, 0, 0)
    BY <1>a, <2>1 DEF Moved, Shift, Here, BusyPC, ReadyPC
  <2>3. /\ current' = current /\ idle' = idle
        /\ waiting' = waiting + 1 /\ starting' = starting
        /\ Queued' = Queued /\ Queued = 0 /\ ~shutdown
    BY <1>2 DEF WaitForConn, Queued
  <2>4. shutdown' <=> shutdown
    BY <1>2 DEF WaitForConn
  <2> QED
    BY <1>0, <1>a, <1>b, <1>c, <2>1, <2>2, <2>3, <2>4 DEF Shift
<1>3. CASE Reacquire(t)
  <2>1. Moved(pc, pc', "woken", "check") /\ pc'[Main] = pc[Main]
    BY <1>0, <1>3, ThreadGoto DEF Reacquire
  <2>2. Shift(pc, pc', 0, 1, 0, -1, 0, 0, 0)
    BY <1>a, <2>1 DEF Moved, Shift, Here, BusyPC, ReadyPC
  <2>3. /\ current' = current /\ idle' = idle
        /\ waiting' = waiting - 1 /\ starting' = starting
        /\ Queued' = Queued
    BY <1>3 DEF Reacquire, Queued
  <2>4. shutdown' <=> shutdown
    BY <1>3 DEF Reacquire
  <2> QED
    BY <1>0, <1>a, <1>b, <2>1, <2>2, <2>3, <2>4 DEF Shift
<1>4. CASE GiveUp(t)
  <2>1. Moved(pc, pc', "check", "leave") /\ pc'[Main] = pc[Main]
    BY <1>0, <1>4, ThreadGoto DEF GiveUp
  <2>2. Shift(pc, pc', 0, 0, 0, 0, 0, 0, 0)
    BY <1>a, <2>1 DEF Moved, Shift, Here, BusyPC, ReadyPC
  <2>3. /\ current' = current /\ idle' = idle
        /\ waiting' = waiting /\ starting' = starting
        /\ Queued' = Queued
    BY <1>4 DEF GiveUp, Queued
  <2>4. shutdown' <=> shutdown
    BY <1>4 DEF GiveUp
  <2> QED
    BY <1>0, <1>a, <1>b, <2>1, <2>2, <2>3, <2>4 DEF Shift
<1>5. CASE TakeConn(t)
  <2>1. Moved(pc, pc', "check", "run") /\ pc'[Main] = pc[Main]
    BY <1>0, <1>5, ThreadGoto DEF TakeConn
  <2>2. Shift(pc, pc', 1, -1, 0, 0, 0, 0, 0)
    BY <1>a, <2>1 DEF Moved, Shift, Here, BusyPC, ReadyPC
  <2>3. /\ current' = current /\ idle' = idle - 1
        /\ waiting' = waiting /\ starting' = starting
        /\ Queued' = Queued - 1 /\ Queued > 0
    BY <1>5, TypeParts DEF TakeConn, DataTyped, Queued
  <2>4. shutdown' <=> shutdown
    BY <1>5 DEF TakeConn
  <2> QED
    BY <1>0, <1>a, <1>b, <2>1, <2>2, <2>3, <2>4 DEF Shift
<1>6. CASE ConnRun(t)
  <2>1. Moved(pc, pc', "run", "ran") /\ pc'[Main] = pc[Main]
    BY <1>0, <1>6, ThreadGoto DEF ConnRun
  <2>2. Shift(pc, pc', 0, 0, 0, 0, 0, 0, 0)
    BY <1>a, <2>1 DEF Moved, Shift, Here, BusyPC, ReadyPC
  <2>3. /\ current' = current /\ idle' = idle
        /\ waiting' = waiting /\ starting' = starting
        /\ Queued' = Queued
    BY <1>6 DEF ConnRun, Queued
  <2>4. shutdown' <=> shutdown
    BY <1>6 DEF ConnRun
  <2> QED
    BY <1>0, <1>a, <1>b, <2>1, <2>2, <2>3, <2>4 DEF Shift
<1>7. CASE FinishConn(t)
  <2>1. Moved(pc, pc', "ran", "freeing") /\ pc'[Main] = pc[Main]
    BY <1>0, <1>7, ThreadGoto DEF FinishConn
  <2>2. Shift(pc, pc', -1, 1, 0, 0, 0, 0, 0)
    BY <1>a, <2>1 DEF Moved, Shift, Here, BusyPC, ReadyPC
  <2>3. /\ current' = current /\ idle' = idle + 1
        /\ waiting' = waiting /\ starting' = starting
        /\ Queued' = Queued
    BY <1>7 DEF FinishConn, Queued
  <2>4. shutdown' <=> shutdown
    BY <1>7 DEF FinishConn
  <2> QED
    BY <1>0, <1>a, <1>b, <2>1, <2>2, <2>3, <2>4 DEF Shift
<1>8. CASE NextConn(t)
  <2>1. Moved(pc, pc', "freeing", "top") /\ pc'[Main] = pc[Main]
    BY <1>0, <1>8, ThreadGoto DEF NextConn
  <2>2. Shift(pc, pc', 0, 0, 0, 0, 0, 0, 0)
    BY <1>a, <2>1 DEF Moved, Shift, Here, BusyPC, ReadyPC
  <2>3. /\ current' = current /\ idle' = idle
        /\ waiting' = waiting /\ starting' = starting
        /\ Queued' = Queued
    BY <1>8 DEF NextConn, Queued
  <2>4. shutdown' <=> shutdown
    BY <1>8 DEF NextConn
  <2> QED
    BY <1>0, <1>a, <1>b, <2>1, <2>2, <2>3, <2>4 DEF Shift
<1>9. CASE Timeout(t) \/ SpuriousWakeup(t)
  <2>1. Moved(pc, pc', "waiting", "woken") /\ pc'[Main] = pc[Main]
    BY <1>0, <1>9, ThreadGoto DEF Timeout, SpuriousWakeup, Waiters
  <2>2. Shift(pc, pc', 0, 0, -1, 1, 0, 0, 0)
    BY <1>a, <2>1 DEF Moved, Shift, Here, BusyPC, ReadyPC
  <2>3. /\ current' = current /\ idle' = idle
        /\ waiting' = waiting /\ starting' = starting
        /\ Queued' = Queued
    BY <1>9 DEF Timeout, SpuriousWakeup, Queued
  <2>4. shutdown' <=> shutdown
    BY <1>9 DEF Timeout, SpuriousWakeup
  <2> QED
    BY <1>0, <1>a, <1>b, <1>c, <2>1, <2>2, <2>3, <2>4 DEF Shift
<1>10. CASE LoopTop(t)
  <2>1. PICK s \in {"check", "leave"} :
          Moved(pc, pc', "top", s) /\ pc'[Main] = pc[Main]
    BY <1>0, <1>10, ThreadGoto DEF LoopTop
  <2>2. Shift(pc, pc', 0, 0, 0, 0, 0, 0, 0)
    <3>1. CASE s = "check"
      BY <1>a, <2>1, <3>1 DEF Moved, Shift, Here, BusyPC, ReadyPC
    <3>2. CASE s = "leave"
      BY <1>a, <2>1, <3>2 DEF Moved, Shift, Here, BusyPC, ReadyPC
    <3> QED
      BY <3>1, <3>2
  <2>3. /\ current' = current /\ idle' = idle
        /\ waiting' = waiting /\ starting' = starting
        /\ Queued' = Queued
    BY <1>10 DEF LoopTop, Queued
  <2>4. shutdown' <=> shutdown
    BY <1>10 DEF LoopTop
  <2> QED
    BY <1>0, <1>a, <1>b, <2>1, <2>2, <2>3, <2>4 DEF Shift
<1> QED
  BY <1>1, <1>2, <1>3, <1>4, <1>5, <1>6, <1>7, <1>8, <1>9, <1>10

(* A signal changes no group, or wakes one sleeping thread; if it changes  *)
(* none while the pool runs, no thread sleeps.                             *)
LEMMA SignalShift ==
    ASSUME PcTyped(pc), PoolInv, NEW p \in Procs, NEW s, pc[p] # "waiting",
           p = Main => FALSE, SignalAndGoto(p, s)
    PROVE  \E g : /\ g[p] = pc[p] /\ pc'[p] = s
                  /\ \A u \in Procs : u # p => pc'[u] = g[u]
                  /\ \/ Shift(pc, g, 0, 0, 0, 0, 0, 0, 0) /\ SleepN(pc) = 0
                     \/ Shift(pc, g, 0, 0, -1, 1, 0, 0, 0)
                  /\ pc'[Main] \in StopPC <=> pc[Main] \in StopPC
                  /\ pc'[Main] \in FirstPC <=> pc[Main] \in FirstPC
PROOF
<1>1. PICK g : /\ g[p] = pc[p] /\ pc'[p] = s
               /\ \A u \in Procs : u # p => pc'[u] = g[u]
               /\ \/ Same(pc, g) /\ SleepN(pc) = 0
                  \/ Same(pc, g) /\ pc[Main] = "waiting"
                  \/ Moved(pc, g, "waiting", "woken")
               /\ g[Main] = pc[Main] \/ (g[Main] = "woken" /\ pc[Main] = "waiting")
  BY Signalled
<1>2. /\ BusyN(pc) \in Nat /\ ReadyN(pc) \in Nat /\ SleepN(pc) \in Nat
      /\ WokenN(pc) \in Nat /\ BornN(pc) \in Nat /\ HeirN(pc) \in Nat
      /\ MakeN(pc) \in Nat
  BY CountsAreNat
<1>3. pc'[Main] = g[Main]
  BY <1>1, Kinds
<1>4. /\ pc'[Main] \in StopPC <=> pc[Main] \in StopPC
      /\ pc'[Main] \in FirstPC <=> pc[Main] \in FirstPC
  BY <1>1, <1>3 DEF StopPC, FirstPC
<1>5. CASE Same(pc, g)
  <2>1. Shift(pc, g, 0, 0, 0, 0, 0, 0, 0)
    BY <1>2, <1>5 DEF Same, Shift
  <2>2. pc[Main] = "waiting" => SleepN(pc) = 0
    BY DEF PoolInv, StopInv, StopPC
  <2>3. SleepN(pc) = 0 \/ Moved(pc, g, "waiting", "woken")
    BY <1>1, <2>2
  <2>4. ~Moved(pc, g, "waiting", "woken")
    BY <1>2, <1>5 DEF Same, Moved, Here
  <2> QED
    BY <1>1, <1>4, <2>1, <2>3, <2>4
<1>6. CASE Moved(pc, g, "waiting", "woken")
  <2>1. Shift(pc, g, 0, 0, -1, 1, 0, 0, 0)
    BY <1>2, <1>6 DEF Moved, Shift, Here, BusyPC, ReadyPC
  <2> QED
    BY <1>1, <1>4, <2>1
<1> QED
  BY <1>1, <1>5, <1>6

LEMMA PoolNextQueue ==
    ASSUME TypeOK, PoolInv, NEW d \in DriverThreads, NEW c \in Conns, NsQueueConn(d, c)
    PROVE  PoolInv'
PROOF
<1>0. PcTyped(pc) /\ Queued \in Nat
  BY TypeParts, QueuedType
<1>a. /\ BusyN(pc) \in Nat /\ ReadyN(pc) \in Nat /\ SleepN(pc) \in Nat
      /\ WokenN(pc) \in Nat /\ BornN(pc) \in Nat /\ HeirN(pc) \in Nat
      /\ MakeN(pc) \in Nat
  BY CountsAreNat
<1>b. MinThreads \in Nat /\ MaxThreads \in Nat \ {0} /\ MinThreads <= MaxThreads
  BY PoolAssumption
<1>c. ReadyN(pc') \in Nat /\ SleepN(pc') \in Nat /\ HeirN(pc') \in Nat
  BY CountsAreNat
<1>d. current \in Nat
  BY <1>a DEF PoolInv, Tallies, OnWayN
<1> USE DEF PoolInv, Tallies, StopInv, RangeInv, WorkInv, AliveInv, OnWayN,
        counters
<1>1. /\ Queued' = Queued + 1 /\ idle' = idle /\ waiting' = waiting
      /\ starting' = starting /\ pc[d] = "idle" /\ d \in Procs /\ d # Main
  BY Kinds, TypeParts DEF NsQueueConn, Enqueue, Queued, DataTyped
<1>2. shutdown' <=> shutdown
  BY DEF NsQueueConn
<1>3. CASE NeedThread
  <2>1. current' = current + 1 /\ waiting = 0 /\ current < MaxThreads /\ Goto(d, "reap")
    BY <1>3 DEF NsQueueConn, NeedThread
  <2>2. MadeMoved(pc, pc', "idle", "reap") /\ pc'[Main] = pc[Main]
    BY <1>0, <1>1, <2>1, CreatorGoto, Kinds
  <2>3. Shift(pc, pc', 0, 0, 0, 0, 0, 0, 1)
    BY <1>a, <2>2 DEF MadeMoved, Shift, Here, MakingPC
  <2>5. Tallies'
    BY <1>0, <1>a, <1>b, <1>1, <1>2, <2>1, <2>2, <2>3 DEF Shift
  <2>6. StopInv'
    BY <1>0, <1>a, <1>b, <1>1, <1>2, <2>1, <2>2, <2>3 DEF Shift
  <2>7. RangeInv'
    BY <1>b, <1>d, <1>2, <2>1, <2>2
  <2>8. WorkInv'
    BY <1>0, <1>a, <1>b, <1>1, <1>2, <2>1, <2>2, <2>3 DEF Shift
  <2>9. AliveInv'
    BY <1>0, <1>a, <1>b, <1>1, <1>2, <2>1, <2>2, <2>3 DEF Shift
  <2> QED
    BY <2>5, <2>6, <2>7, <2>8, <2>9
<1>4. CASE ~NeedThread /\ waiting > 0
  <2>1. SignalAndGoto(d, "idle") /\ current' = current
    BY <1>4 DEF NsQueueConn
  <2>2. PICK g : /\ g[d] = pc[d] /\ pc'[d] = "idle"
                 /\ \A u \in Procs : u # d => pc'[u] = g[u]
                 /\ \/ Shift(pc, g, 0, 0, 0, 0, 0, 0, 0) /\ SleepN(pc) = 0
                    \/ Shift(pc, g, 0, 0, -1, 1, 0, 0, 0)
                 /\ pc'[Main] \in StopPC <=> pc[Main] \in StopPC
                 /\ pc'[Main] \in FirstPC <=> pc[Main] \in FirstPC
    BY <1>0, <1>1, <2>1, SignalShift
  <2>3. MadeMoved(g, pc', "idle", "idle")
    BY <1>1, <2>2, CreatorMoved, Kinds
  <2>4. \/ Shift(pc, pc', 0, 0, 0, 0, 0, 0, 0) /\ SleepN(pc) = 0
        \/ Shift(pc, pc', 0, 0, -1, 1, 0, 0, 0)
    BY <1>a, <2>2, <2>3 DEF MadeMoved, Shift, Here, MakingPC
  <2> QED
    BY <1>0, <1>a, <1>b, <1>c, <1>1, <1>2, <1>4, <2>1, <2>2, <2>4 DEF Shift
<1>5. CASE ~NeedThread /\ waiting = 0
  <2>1. pc' = pc /\ current' = current /\ ~(current < MaxThreads)
    BY <1>5 DEF NsQueueConn, NeedThread
  <2> QED
    BY <1>0, <1>a, <1>b, <1>1, <1>2, <1>5, <2>1
<1> QED
  BY <1>1, <1>a, <1>3, <1>4, <1>5

LEMMA PoolNextLeave ==
    ASSUME TypeOK, PoolInv, NEW t \in Threads, Leave(t)
    PROVE  PoolInv'
PROOF
<1>0. PcTyped(pc) /\ Queued \in Nat
  BY TypeParts, QueuedType
<1>a. /\ BusyN(pc) \in Nat /\ ReadyN(pc) \in Nat /\ SleepN(pc) \in Nat
      /\ WokenN(pc) \in Nat /\ BornN(pc) \in Nat /\ HeirN(pc) \in Nat
      /\ MakeN(pc) \in Nat
  BY CountsAreNat
<1>b. MinThreads \in Nat /\ MaxThreads \in Nat \ {0} /\ MinThreads <= MaxThreads
  BY PoolAssumption
<1>c. ReadyN(pc') \in Nat /\ SleepN(pc') \in Nat /\ HeirN(pc') \in Nat
  BY CountsAreNat
<1>d. current \in Nat
  BY <1>a DEF PoolInv, Tallies, OnWayN
<1> USE DEF PoolInv, Tallies, StopInv, RangeInv, WorkInv, AliveInv, OnWayN,
        counters
<1>1. /\ Queued' = Queued /\ idle' = idle - 1 /\ waiting' = waiting
      /\ starting' = starting /\ pc[t] = "leave" /\ t \in Procs /\ t # Main
  BY Kinds DEF Leave, Queued
<1>2. shutdown' <=> shutdown
  BY DEF Leave
<1>3. CASE NeedReplacement
  <2>1. current' = (current - 1) + 1 /\ Goto(t, "respawn")
    BY <1>3 DEF Leave
  <2>2. Moved(pc, pc', "leave", "respawn") /\ pc'[Main] = pc[Main]
    BY <1>0, <1>1, <2>1, ThreadGoto
  <2>3. Shift(pc, pc', 0, -1, 0, 0, 0, 1, 0)
    BY <1>a, <2>2 DEF Moved, Shift, Here, BusyPC, ReadyPC
  <2> QED
    BY <1>0, <1>a, <1>b, <1>1, <1>2, <2>1, <2>2, <2>3 DEF Shift
<1>4. CASE ~NeedReplacement
  <2>0. current' = current - 1
    BY <1>4 DEF Leave
  <2>1. ~shutdown => /\ ~(current - 1 < MinThreads)
                     /\ Queued = 0 \/ idle - 1 # 0 \/ starting # 0
    <3>1. ~shutdown => /\ ~(current - 1 < MinThreads)
                       /\ waitq = <<>> \/ idle' # 0 \/ starting # 0
      BY <1>4 DEF NeedReplacement
    <3> QED
      BY <1>1, <3>1, QueuedType
  <2>2. CASE Queued > 0 /\ waiting > 0
    <3>1. SignalAndGoto(t, "gone")
      BY <1>4, <2>2, QueuedType DEF Leave
    <3>2. PICK g : /\ g[t] = pc[t] /\ pc'[t] = "gone"
                   /\ \A u \in Procs : u # t => pc'[u] = g[u]
                   /\ \/ Shift(pc, g, 0, 0, 0, 0, 0, 0, 0) /\ SleepN(pc) = 0
                      \/ Shift(pc, g, 0, 0, -1, 1, 0, 0, 0)
                   /\ pc'[Main] \in StopPC <=> pc[Main] \in StopPC
                   /\ pc'[Main] \in FirstPC <=> pc[Main] \in FirstPC
      BY <1>0, <1>1, <3>1, SignalShift
    <3>3. Moved(g, pc', "leave", "gone")
      BY <1>1, <3>2, ThreadMoved
    <3>4. \/ Shift(pc, pc', 0, -1, 0, 0, 0, 0, 0) /\ SleepN(pc) = 0
          \/ Shift(pc, pc', 0, -1, -1, 1, 0, 0, 0)
      BY <1>a, <3>2, <3>3 DEF Moved, Shift, Here, BusyPC, ReadyPC
    <3> QED
      BY <1>0, <1>a, <1>b, <1>c, <1>1, <1>2, <2>0, <2>1, <2>2, <3>2, <3>4
      DEF Shift
  <2>3. CASE ~(Queued > 0 /\ waiting > 0)
    <3>1. Goto(t, "gone")
      BY <1>4, <2>3, QueuedType DEF Leave
    <3>2. Moved(pc, pc', "leave", "gone") /\ pc'[Main] = pc[Main]
      BY <1>0, <1>1, <3>1, ThreadGoto
    <3>3. Shift(pc, pc', 0, -1, 0, 0, 0, 0, 0)
      BY <1>a, <3>2 DEF Moved, Shift, Here, BusyPC, ReadyPC
    <3>5. Tallies'
      BY <1>0, <1>a, <1>b, <1>c, <1>1, <1>2, <2>0, <2>1, <2>3, <3>2, <3>3
      DEF Shift
    <3>6. StopInv'
      BY <1>0, <1>a, <1>b, <1>c, <1>1, <1>2, <2>0, <2>1, <2>3, <3>2, <3>3
      DEF Shift
    <3>7. RangeInv'
      BY <1>b, <1>d, <1>2, <2>0, <2>1, <3>2
    <3>8. WorkInv'
      BY <1>0, <1>a, <1>b, <1>c, <1>1, <1>2, <2>0, <2>1, <2>3, <3>2, <3>3
      DEF Shift
    <3>4. Queued > 0 /\ ~shutdown => ReadyN(pc') > 0 \/ BornN(pc') > 0
      <4>1. Queued > 0 => SleepN(pc) = 0 /\ WokenN(pc) = 0
        BY <1>0, <1>a, <2>3
      <4> QED
        BY <1>0, <1>a, <1>c, <2>1, <3>3, <4>1 DEF Shift
    <3>9. AliveInv'
      BY <1>a, <1>c, <1>1, <1>2, <3>3, <3>4 DEF Shift
    <3> QED
      BY <3>5, <3>6, <3>7, <3>8, <3>9
  <2> QED
    BY <2>2, <2>3
<1> QED
  BY <1>3, <1>4

(* A process goes from place a to place s and makes a thread.              *)
LEMMA PoolNextRespawn ==
    ASSUME TypeOK, PoolInv, NEW t \in Threads, Respawn(t)
    PROVE  PoolInv'
PROOF
<1>0. PcTyped(pc) /\ Queued \in Nat
  BY TypeParts, QueuedType
<1>a. /\ BusyN(pc) \in Nat /\ ReadyN(pc) \in Nat /\ SleepN(pc) \in Nat
      /\ WokenN(pc) \in Nat /\ BornN(pc) \in Nat /\ HeirN(pc) \in Nat
      /\ MakeN(pc) \in Nat
  BY CountsAreNat
<1>b. MinThreads \in Nat /\ MaxThreads \in Nat \ {0} /\ MinThreads <= MaxThreads
  BY PoolAssumption
<1>c. ReadyN(pc') \in Nat /\ SleepN(pc') \in Nat /\ HeirN(pc') \in Nat
  BY CountsAreNat
<1>d. current \in Nat
  BY <1>a DEF PoolInv, Tallies, OnWayN
<1> USE DEF PoolInv, Tallies, StopInv, RangeInv, WorkInv, AliveInv, OnWayN,
        counters
<1>1. /\ current' = current /\ idle' = idle /\ waiting' = waiting
      /\ starting' = starting + 1 /\ Queued' = Queued
      /\ pc[t] = "respawn" /\ t \in Procs /\ t # Main
  BY Kinds DEF Respawn, CreateThread, Queued
<1>2. shutdown' <=> shutdown
  BY DEF Respawn
<1>3. PICK g : /\ g[t] = pc[t] /\ pc'[t] = "gone"
               /\ \A u \in Procs : u # t => pc'[u] = g[u]
               /\ Moved(pc, g, "none", "born") /\ g[Main] = pc[Main]
  BY <1>0, <1>1, Created DEF Respawn
<1>4. Moved(g, pc', "respawn", "gone") /\ pc'[Main] = pc[Main]
  BY <1>1, <1>3, ThreadMoved, Kinds
<1>5. Shift(pc, pc', 0, 0, 0, 0, 1, -1, 0)
  BY <1>a, <1>3, <1>4 DEF Moved, Shift, Here, BusyPC, ReadyPC
<1> QED
  BY <1>0, <1>a, <1>b, <1>d, <1>1, <1>2, <1>4, <1>5 DEF Shift

LEMMA PoolNextCreating ==
    ASSUME TypeOK, PoolInv, NEW p \in Creators, Creating(p)
    PROVE  PoolInv'
PROOF
<1>0. PcTyped(pc) /\ Queued \in Nat
  BY TypeParts, QueuedType
<1>a. /\ BusyN(pc) \in Nat /\ ReadyN(pc) \in Nat /\ SleepN(pc) \in Nat
      /\ WokenN(pc) \in Nat /\ BornN(pc) \in Nat /\ HeirN(pc) \in Nat
      /\ MakeN(pc) \in Nat
  BY CountsAreNat
<1>b. MinThreads \in Nat /\ MaxThreads \in Nat \ {0} /\ MinThreads <= MaxThreads
  BY PoolAssumption
<1>c. ReadyN(pc') \in Nat /\ SleepN(pc') \in Nat /\ HeirN(pc') \in Nat
  BY CountsAreNat
<1>d. current \in Nat
  BY <1>a DEF PoolInv, Tallies, OnWayN
<1> USE DEF PoolInv, Tallies, StopInv, RangeInv, WorkInv, AliveInv, OnWayN,
        counters
<1>1. /\ current' = current /\ idle' = idle /\ waiting' = waiting
      /\ Queued' = Queued /\ p \in Procs
  BY Kinds DEF Creating, Reap, JoinOne, JoinedAll, Spawn, Queued
<1>2. shutdown' <=> shutdown
  BY DEF Creating, Reap, JoinOne, JoinedAll, Spawn
<1>3. CASE Reap(p) \/ JoinedAll(p)
  <2>1. /\ starting' = starting
        /\ \/ pc[p] = "reap" /\ Goto(p, "join")
           \/ pc[p] = "join" /\ Goto(p, "spawn")
    BY <1>3 DEF Reap, JoinedAll
  <2>2. Shift(pc, pc', 0, 0, 0, 0, 0, 0, 0)
    BY <1>0, <1>a, <2>1, CreatorGoto DEF MadeMoved, Shift, Here, MakingPC
  <2>3. /\ pc'[Main] \in StopPC <=> pc[Main] \in StopPC
        /\ pc'[Main] \in FirstPC <=> pc[Main] \in FirstPC
    BY <1>0, <2>1, CreatorGoto DEF StopPC, FirstPC
  <2> QED
    BY <1>0, <1>a, <1>b, <1>d, <1>1, <1>2, <2>1, <2>2, <2>3 DEF Shift
<1>4. CASE JoinOne(p)
  <2>1. starting' = starting
    BY <1>4 DEF JoinOne
  <2>2. PICK t \in Threads : pc[t] = "gone" /\ Goto(t, "none")
    BY <1>4, TypeParts DEF JoinOne, DataTyped
  <2>3. Moved(pc, pc', "gone", "none") /\ pc'[Main] = pc[Main]
    BY <1>0, <2>2, ThreadGoto
  <2>4. Shift(pc, pc', 0, 0, 0, 0, 0, 0, 0)
    BY <1>a, <2>3 DEF Moved, Shift, Here, BusyPC, ReadyPC
  <2> QED
    BY <1>0, <1>a, <1>b, <1>d, <1>1, <1>2, <2>1, <2>3, <2>4 DEF Shift
<1>5. CASE Spawn(p)
  <2> DEFINE s == IF p = Main THEN "start" ELSE "idle"
  <2>1. starting' = starting + 1 /\ pc[p] = "spawn" /\ CreateThread(p, s)
    BY <1>5 DEF Spawn, CreateThread
  <2>2. PICK g : /\ g[p] = pc[p] /\ pc'[p] = s
                 /\ \A u \in Procs : u # p => pc'[u] = g[u]
                 /\ Moved(pc, g, "none", "born") /\ g[Main] = pc[Main]
    BY <1>0, <1>1, <2>1, Created
  <2>3. MadeMoved(g, pc', "spawn", s)
    BY <2>1, <2>2, CreatorMoved
  <2>4. Shift(pc, pc', 0, 0, 0, 0, 1, 0, -1)
    BY <1>a, <2>2, <2>3
    DEF Moved, MadeMoved, Shift, Here, MakingPC, BusyPC, ReadyPC
  <2>5. /\ pc'[Main] \in StopPC <=> pc[Main] \in StopPC
        /\ pc'[Main] \in FirstPC <=> pc[Main] \in FirstPC
    BY <2>1, <2>2, Kinds DEF StopPC, FirstPC
  <2> QED
    BY <1>0, <1>a, <1>b, <1>d, <1>1, <1>2, <2>1, <2>4, <2>5 DEF Shift
<1> QED
  BY <1>3, <1>4, <1>5 DEF Creating

LEMMA PoolNextMain ==
    ASSUME TypeOK, PoolInv, MainStep \/ Timeout(Main) \/ SpuriousWakeup(Main)
    PROVE  PoolInv'
PROOF
<1>0. PcTyped(pc) /\ Queued \in Nat
  BY TypeParts, QueuedType
<1>a. /\ BusyN(pc) \in Nat /\ ReadyN(pc) \in Nat /\ SleepN(pc) \in Nat
      /\ WokenN(pc) \in Nat /\ BornN(pc) \in Nat /\ HeirN(pc) \in Nat
      /\ MakeN(pc) \in Nat
  BY CountsAreNat
<1>b. MinThreads \in Nat /\ MaxThreads \in Nat \ {0} /\ MinThreads <= MaxThreads
  BY PoolAssumption
<1>c. ReadyN(pc') \in Nat /\ SleepN(pc') \in Nat /\ HeirN(pc') \in Nat
  BY CountsAreNat
<1>d. current \in Nat
  BY <1>a DEF PoolInv, Tallies, OnWayN
<1> USE DEF PoolInv, Tallies, StopInv, RangeInv, WorkInv, AliveInv, OnWayN,
        counters
<1>1. /\ idle' = idle /\ waiting' = waiting /\ starting' = starting
      /\ Queued' = Queued /\ Main \in Procs /\ Main \in Creators
  BY Kinds
  DEF MainStep, StartOne, Started, WaitPool, ReapAll, NsStopPools, Timeout,
      SpuriousWakeup, Queued
<1>2. shutdown' <=> shutdown
  BY DEF MainStep, StartOne, Started, WaitPool, ReapAll, NsStopPools, Timeout,
         SpuriousWakeup
<1>3. CASE StartOne
  <2>1. /\ pc[Main] = "start" /\ current < MinThreads /\ current' = current + 1
        /\ Goto(Main, "reap")
    BY <1>3 DEF StartOne
  <2>2. MadeMoved(pc, pc', "start", "reap") /\ pc'[Main] = "reap"
    BY <1>0, <1>1, <2>1, CreatorGoto
  <2>3. Shift(pc, pc', 0, 0, 0, 0, 0, 0, 1)
    BY <1>a, <2>2 DEF MadeMoved, Shift, Here, MakingPC
  <2>4. pc[Main] \notin StopPC /\ pc'[Main] \notin StopPC /\ pc'[Main] \in FirstPC
    BY <2>1, <2>2 DEF StopPC, FirstPC
  <2> QED
    BY <1>0, <1>a, <1>b, <1>d, <1>1, <1>2, <2>1, <2>3, <2>4 DEF Shift
<1>4. CASE Started
  <2>1. pc[Main] = "start" /\ current = MinThreads /\ current' = current /\ Goto(Main, "idle")
    BY <1>4 DEF Started
  <2>2. MadeMoved(pc, pc', "start", "idle") /\ pc'[Main] = "idle"
    BY <1>0, <1>1, <2>1, CreatorGoto
  <2>3. Shift(pc, pc', 0, 0, 0, 0, 0, 0, 0)
    BY <1>a, <2>2 DEF MadeMoved, Shift, Here, MakingPC
  <2>4. pc[Main] \notin StopPC /\ pc'[Main] \notin StopPC
    BY <2>1, <2>2 DEF StopPC
  <2> QED
    BY <1>0, <1>a, <1>b, <1>d, <1>1, <1>2, <2>1, <2>3, <2>4 DEF Shift
<1>5. CASE \/ WaitPool \/ ReapAll \/ NsStopPools
           \/ Timeout(Main) \/ SpuriousWakeup(Main)
  <2>1. /\ current' = current /\ pc[Main] \in StopPC
        /\ \E s \in StopPC : Goto(Main, s)
    BY <1>5
    DEF WaitPool, ReapAll, NsStopPools, Timeout, SpuriousWakeup, Waiters, StopPC
  <2>2. PICK s \in StopPC : MadeMoved(pc, pc', pc[Main], s) /\ pc'[Main] = s
    BY <1>0, <1>1, <2>1, CreatorGoto
  <2>3. Shift(pc, pc', 0, 0, 0, 0, 0, 0, 0)
    BY <1>a, <2>1, <2>2 DEF MadeMoved, Shift, Here, MakingPC, StopPC
  <2>4. /\ pc'[Main] \in StopPC
        /\ pc[Main] \notin FirstPC /\ pc'[Main] \notin FirstPC
    BY <2>1, <2>2 DEF StopPC, FirstPC
  <2> QED
    BY <1>0, <1>a, <1>b, <1>d, <1>1, <1>2, <2>1, <2>3, <2>4 DEF Shift
<1> QED
  BY <1>3, <1>4, <1>5 DEF MainStep

LEMMA PoolNextStop ==
    ASSUME TypeOK, PoolInv, StopPool
    PROVE  PoolInv'
PROOF
<1>0. PcTyped(pc) /\ Queued \in Nat
  BY TypeParts, QueuedType
<1>a. /\ BusyN(pc) \in Nat /\ ReadyN(pc) \in Nat /\ SleepN(pc) \in Nat
      /\ WokenN(pc) \in Nat /\ BornN(pc) \in Nat /\ HeirN(pc) \in Nat
      /\ MakeN(pc) \in Nat
  BY CountsAreNat
<1>b. MinThreads \in Nat /\ MaxThreads \in Nat \ {0} /\ MinThreads <= MaxThreads
  BY PoolAssumption
<1>c. ReadyN(pc') \in Nat /\ SleepN(pc') \in Nat /\ HeirN(pc') \in Nat
  BY CountsAreNat
<1>d. current \in Nat
  BY <1>a DEF PoolInv, Tallies, OnWayN
<1> USE DEF PoolInv, Tallies, StopInv, RangeInv, WorkInv, AliveInv, OnWayN,
        counters
<1>1. /\ current' = current /\ idle' = idle /\ waiting' = waiting
      /\ starting' = starting /\ Queued' = Queued /\ pc[Main] = "idle"
  BY DEF StopPool, Queued
<1>2. shutdown' /\ pc'[Main] = "waitpool"
  BY Kinds DEF StopPool
<1>3. \A t \in Threads : pc'[t] = IF pc[t] = "waiting" THEN "woken" ELSE pc[t]
  BY Kinds DEF StopPool, Waiters
<1>4. \A q \in Creators : q # Main => pc'[q] = pc[q]
  BY Kinds DEF StopPool, Waiters
<1>5. ASSUME NEW S, "waiting" \in S <=> "woken" \in S
      PROVE  Count(pc', Threads, S) = Count(pc, Threads, S)
  <2>1. \A t \in Threads : pc[t] \in S <=> pc'[t] \in S
    BY <1>3, <1>5
  <2> QED
    BY <2>1, CountSame
<1>6. /\ BusyN(pc') = BusyN(pc) /\ ReadyN(pc') = ReadyN(pc)
      /\ BornN(pc') = BornN(pc) /\ HeirN(pc') = HeirN(pc)
  BY <1>5 DEF BusyN, ReadyN, BornN, HeirN, BusyPC, ReadyPC
<1>7. SleepN(pc') = 0
  <2>1. \A t \in Threads : pc'[t] \notin {"waiting"}
    BY <1>3
  <2>2. IsFiniteSet(Threads)
    BY PoolAssumption
  <2>3. Count(pc', Threads, {"waiting"}) = 0
    BY <2>1, <2>2, CountType
  <2> QED
    BY <2>3 DEF SleepN
<1>8. SleepN(pc') + WokenN(pc') = SleepN(pc) + WokenN(pc)
  <2>1. Count(pc', Threads, {"waiting", "woken"}) =
          Count(pc, Threads, {"waiting", "woken"})
    BY <1>5
  <2>2. ASSUME NEW f
        PROVE  Count(f, Threads, {"waiting", "woken"}) = SleepN(f) + WokenN(f)
    <3>1. {"waiting", "woken"} = {"waiting"} \cup {"woken"}
      OBVIOUS
    <3>2. {"waiting"} \cap {"woken"} = {}
      OBVIOUS
    <3> QED
      BY <3>1, <3>2, PoolAssumption, CountUnion DEF SleepN, WokenN
  <2> QED
    BY <2>1, <2>2
<1>9. MakeN(pc') = MakeN(pc)
  <2>1. \A q \in Creators : pc[q] \in MakingPC <=> pc'[q] \in MakingPC
    BY <1>1, <1>2, <1>4 DEF MakingPC
  <2> QED
    BY <2>1, CountSame DEF MakeN
<1>10. WokenN(pc') \in Nat /\ pc'[Main] \in StopPC
  BY <1>2, CountsAreNat DEF StopPC
<1> QED
  BY <1>a, <1>b, <1>d, <1>1, <1>2, <1>6, <1>7, <1>8, <1>9, <1>10

LEMMA PoolNext == TypeOK /\ PoolInv /\ [Next]_vars => PoolInv'
PROOF
<1> SUFFICES ASSUME TypeOK, PoolInv, [Next]_vars PROVE PoolInv'
  OBVIOUS
<1>1. CASE UNCHANGED vars
  BY <1>1
  DEF vars, PoolInv, Tallies, StopInv, RangeInv, WorkInv, AliveInv, OnWayN,
      Queued
<1>2. ASSUME NEW t \in Threads, ThreadStep(t)
      PROVE  PoolInv'
  BY <1>2, PoolNextThread, PoolNextLeave, PoolNextRespawn DEF ThreadStep
<1>3. ASSUME NEW p \in Threads \cup {Main}, Timeout(p) \/ SpuriousWakeup(p)
      PROVE  PoolInv'
  BY <1>3, PoolNextThread, PoolNextMain
<1>4. ASSUME NEW d \in DriverThreads, Queueing(d)
      PROVE  PoolInv'
  BY <1>4, PoolNextQueue DEF Queueing
<1> QED
  BY <1>1, <1>2, <1>3, <1>4, PoolNextCreating, PoolNextMain, PoolNextStop
  DEF Next

-----------------------------------------------------------------------------
(* The sets of the specification are unions of the groups.                 *)

LEMMA Sizes ==
    /\ Cardinality(IdleSet) = ReadyN(pc) + SleepN(pc) + WokenN(pc)
    /\ Cardinality(Live) =
         BusyN(pc) + ReadyN(pc) + SleepN(pc) + WokenN(pc) + BornN(pc)
    /\ Cardinality(In({"waiting", "woken"})) = SleepN(pc) + WokenN(pc)
    /\ Cardinality(In({"born"})) = BornN(pc)
    /\ Cardinality(Pending) = HeirN(pc) + MakeN(pc)
    /\ Cardinality(OnItsWay) = OnWayN(pc)
    /\ Sleeping = {} <=> SleepN(pc) = 0
    /\ Busy = {} <=> BusyN(pc) = 0
    /\ IsFiniteSet(OnItsWay)
PROOF
<1>1. IsFiniteSet(Threads) /\ IsFiniteSet(Creators)
  BY PoolAssumption, FS_AddElement DEF Creators
<1>a. /\ BusyN(pc) \in Nat /\ ReadyN(pc) \in Nat /\ SleepN(pc) \in Nat
      /\ WokenN(pc) \in Nat /\ BornN(pc) \in Nat /\ HeirN(pc) \in Nat
      /\ MakeN(pc) \in Nat
  BY CountsAreNat
<1> DEFINE N(S) == Count(pc, Threads, S)
<1>2. ASSUME NEW S PROVE Cardinality(In(S)) = N(S) /\ IsFiniteSet(In(S))
  BY <1>1, CountType DEF In, Count
<1>3. ASSUME NEW S1, NEW S2, S1 \cap S2 = {} PROVE N(S1 \cup S2) = N(S1) + N(S2)
  BY <1>1, <1>3, CountUnion
<1> HIDE DEF N
<1>4. /\ N(BusyPC) = BusyN(pc) /\ N(ReadyPC) = ReadyN(pc)
      /\ N({"waiting"}) = SleepN(pc) /\ N({"woken"}) = WokenN(pc)
      /\ N({"born"}) = BornN(pc) /\ N({"respawn"}) = HeirN(pc)
  BY DEF N, BusyN, ReadyN, SleepN, WokenN, BornN, HeirN
<1>5. N({"waiting", "woken"}) = SleepN(pc) + WokenN(pc)
  <2>1. /\ {"waiting", "woken"} = {"waiting"} \cup {"woken"}
        /\ {"waiting"} \cap {"woken"} = {}
    OBVIOUS
  <2> QED
    BY <1>3, <1>4, <2>1
<1>6. N(IdlePC) = ReadyN(pc) + SleepN(pc) + WokenN(pc)
  <2>1. /\ IdlePC = ReadyPC \cup {"waiting", "woken"}
        /\ ReadyPC \cap {"waiting", "woken"} = {}
    BY DEF IdlePC, ReadyPC
  <2>2. N(IdlePC) = N(ReadyPC) + N({"waiting", "woken"})
    BY <1>3, <2>1
  <2> QED
    BY <1>a, <1>4, <1>5, <2>2
<1>7. N(LivePC) = BusyN(pc) + ReadyN(pc) + SleepN(pc) + WokenN(pc) + BornN(pc)
  <2>1. /\ LivePC = IdlePC \cup ({"born"} \cup BusyPC)
        /\ IdlePC \cap ({"born"} \cup BusyPC) = {}
        /\ {"born"} \cap BusyPC = {}
    BY DEF LivePC, IdlePC, BusyPC
  <2>2. N(LivePC) = N(IdlePC) + N({"born"} \cup BusyPC)
    BY <1>3, <2>1
  <2>3. N({"born"} \cup BusyPC) = N({"born"}) + N(BusyPC)
    BY <1>3, <2>1
  <2> QED
    BY <1>a, <1>4, <1>6, <2>2, <2>3
<1>8. /\ IsFiniteSet(Making) /\ Cardinality(Making) = MakeN(pc)
  <2>1. Making = {p \in Creators : pc[p] \in MakingPC}
    BY DEF Making, MakingPC
  <2>2. IsFiniteSet({p \in Creators : pc[p] \in MakingPC})
    BY <1>1, CountType
  <2> QED
    BY <2>1, <2>2 DEF MakeN, Count
<1>9. /\ IsFiniteSet(Pending) /\ Cardinality(Pending) = HeirN(pc) + MakeN(pc)
  <2>1. Making \cap In({"respawn"}) = {}
    BY Kinds DEF Making, In
  <2>2. /\ IsFiniteSet(Making \cup In({"respawn"}))
        /\ Cardinality(Making \cup In({"respawn"})) =
             Cardinality(Making) + Cardinality(In({"respawn"}))
    BY <1>2, <1>8, <2>1, CountDisjoint
  <2> QED
    BY <1>2, <1>4, <1>8, <1>a, <2>2 DEF Pending
<1>10. IsFiniteSet(OnItsWay) /\ Cardinality(OnItsWay) = OnWayN(pc)
  <2> DEFINE Soon == (IdlePC \ {"waiting"}) \cup {"born"}
  <2>1. /\ Soon = (ReadyPC \cup {"woken"}) \cup {"born"}
        /\ (ReadyPC \cup {"woken"}) \cap {"born"} = {}
        /\ ReadyPC \cap {"woken"} = {}
        /\ "respawn" \notin Soon
    BY DEF IdlePC, ReadyPC
  <2>2. N((ReadyPC \cup {"woken"}) \cup {"born"}) =
          N(ReadyPC \cup {"woken"}) + N({"born"})
    BY <1>3, <2>1
  <2>3. N(ReadyPC \cup {"woken"}) = N(ReadyPC) + N({"woken"})
    BY <1>3, <2>1
  <2>4. N(Soon) = ReadyN(pc) + WokenN(pc) + BornN(pc)
    BY <1>4, <2>1, <2>2, <2>3
  <2>5. In(Soon) \cap Pending = {}
    BY <2>1, Kinds DEF In, Pending, Making
  <2>6. /\ IsFiniteSet(In(Soon) \cup Pending)
        /\ Cardinality(In(Soon) \cup Pending) =
             Cardinality(In(Soon)) + Cardinality(Pending)
    BY <1>2, <1>9, <2>5, CountDisjoint
  <2>7. Cardinality(In(Soon)) = N(Soon)
    BY <1>2
  <2>8. OnItsWay = In(Soon) \cup Pending
    BY DEF OnItsWay
  <2> HIDE DEF Soon
  <2> QED
    BY <1>9, <1>a, <2>4, <2>6, <2>7, <2>8 DEF OnWayN
<1>11. /\ Sleeping = {} <=> SleepN(pc) = 0
       /\ Busy = {} <=> BusyN(pc) = 0
  <2>1. SleepN(pc) = 0 <=> \A t \in Threads : pc[t] \notin {"waiting"}
    BY <1>1, CountType DEF SleepN
  <2>2. BusyN(pc) = 0 <=> \A t \in Threads : pc[t] \notin {"run", "ran"}
    <3>1. BusyN(pc) = 0 <=> \A t \in Threads : pc[t] \notin BusyPC
      BY <1>1, CountType DEF BusyN
    <3> QED
      BY <3>1 DEF BusyPC
  <2>3. Sleeping = {} <=> \A t \in Threads : pc[t] \notin {"waiting"}
    BY DEF Sleeping, In
  <2>4. Busy = {} <=> \A t \in Threads : pc[t] \notin {"run", "ran"}
    BY DEF Busy, In
  <2> QED
    BY <2>1, <2>2, <2>3, <2>4
<1> QED
  BY <1>2, <1>4, <1>5, <1>6, <1>7, <1>9, <1>10, <1>11 DEF IdleSet, Live

THEOREM PoolInvariant == Spec => [](TypeOK /\ PoolInv)
PROOF
<1>1. Init => TypeOK /\ PoolInv
  BY TypeInit, PoolInit
<1>2. TypeOK /\ PoolInv /\ [Next]_vars => (TypeOK /\ PoolInv)'
  BY TypeNext, PoolNext
<1> QED
  BY <1>1, <1>2, PTL DEF Spec

(* The four counters of the pool equal the number of threads they count.   *)
THEOREM CountersCorrect == Spec => []CountersAgree
PROOF
<1>1. TypeOK /\ PoolInv => CountersAgree
  BY Sizes, CountsAreNat DEF PoolInv, Tallies, OnWayN, CountersAgree
<1> QED
  BY <1>1, PoolInvariant, PTL

(* The number of threads stays between MinThreads and MaxThreads, whichever threads time *)
(* out, reach their quota or are replaced together.                        *)
THEOREM RangeCorrect == Spec => []CurrentInRange
PROOF
<1>1. TypeOK /\ PoolInv => CurrentInRange
  BY DEF PoolInv, RangeInv, CurrentInRange, DriverStarted, FirstPC
<1> QED
  BY <1>1, PoolInvariant, PTL

(* No wakeup is lost: while a thread sleeps, every waiting connection has  *)
(* a thread of its own on its way to it.                                   *)
THEOREM WorkConservingCorrect == Spec => []WorkConserving
PROOF
<1>1. TypeOK /\ PoolInv => WorkConserving
  <2> SUFFICES ASSUME PoolInv, Sleeping # {}
               PROVE  Len(waitq) <= Cardinality(OnItsWay)
    BY DEF WorkConserving
  <2>1. SleepN(pc) > 0
    BY Sizes, CountsAreNat
  <2>2. Queued <= OnWayN(pc)
    BY <2>1 DEF PoolInv, WorkInv
  <2> QED
    BY <2>2, Sizes DEF Queued
<1> QED
  BY <1>1, PoolInvariant, PTL

(* Connections that wait are never left to nobody while the pool runs.     *)
THEOREM NotAbandonedCorrect == Spec => []NotAbandoned
PROOF
<1>1. TypeOK /\ PoolInv => NotAbandoned
  <2> SUFFICES ASSUME TypeOK, PoolInv, waitq # <<>>, ~shutdown,
                      Busy = {}, OnItsWay = {}
               PROVE  FALSE
    BY DEF NotAbandoned
  <2>1. Queued > 0
    BY QueuedType
  <2>2. BusyN(pc) + OnWayN(pc) > 0
    BY <2>1 DEF PoolInv, AliveInv
  <2>3. BusyN(pc) = 0 /\ OnWayN(pc) = 0
    BY Sizes, FS_EmptySet
  <2> QED
    BY <2>2, <2>3
<1> QED
  BY <1>1, PoolInvariant, PTL

-----------------------------------------------------------------------------
(* Where the connections are. *)

ServedInv == ServedOnce /\ \A t \in Busy : conn[t] \in Conns

(* A signal wakes a process that is not busy.                              *)
LEMMA SignalBusy ==
    ASSUME PcTyped(pc), NEW p \in Procs, NEW s, pc[p] \notin BusyPC,
           s \notin BusyPC, SignalAndGoto(p, s)
    PROVE  \A t \in Threads : pc'[t] \in BusyPC <=> pc[t] \in BusyPC
PROOF
<1>1. CASE Goto(p, s)
  BY <1>1, Kinds DEF Goto, PcTyped
<1>2. ASSUME NEW w \in Waiters, pc' = [pc EXCEPT ![w] = "woken", ![p] = s]
      PROVE  \A t \in Threads : pc'[t] \in BusyPC <=> pc[t] \in BusyPC
  <2>1. pc[w] = "waiting" /\ pc[w] \notin BusyPC /\ "woken" \notin BusyPC
    BY DEF Waiters, BusyPC
  <2>2. \A t \in Threads : pc'[t] = pc[t] \/ (t = p /\ pc'[t] = s)
                             \/ (t = w /\ pc'[t] = "woken")
    BY <1>2, Kinds DEF PcTyped
  <2>3. pc'[p] = s
    BY <1>2 DEF PcTyped
  <2> QED
    BY <2>1, <2>2, <2>3
<1> QED
  BY <1>1, <1>2 DEF SignalAndGoto

LEMMA CreateBusy ==
    ASSUME PcTyped(pc), NEW p \in Procs, NEW s, pc[p] \notin BusyPC,
           s \notin BusyPC, CreateThread(p, s)
    PROVE  \A t \in Threads : pc'[t] \in BusyPC <=> pc[t] \in BusyPC
PROOF
<1>1. PICK u \in Threads : /\ pc[u] = "none"
                           /\ pc' = [pc EXCEPT ![u] = "born", ![p] = s]
  BY DEF CreateThread
<1>2. pc[u] \notin BusyPC /\ "born" \notin BusyPC
  BY <1>1 DEF BusyPC
<1>3. \A t \in Threads : pc'[t] = pc[t] \/ (t = p /\ pc'[t] = s)
                           \/ (t = u /\ pc'[t] = "born")
  BY <1>1, Kinds DEF PcTyped
<1>4. pc'[p] = s
  BY <1>1 DEF PcTyped
<1> QED
  BY <1>2, <1>3, <1>4

(* Only queueing, taking and finishing a connection move one.              *)
LEMMA OthersKeep ==
    ASSUME TypeOK, [Next]_vars
    PROVE  \/ \E d \in DriverThreads, c \in Conns : NsQueueConn(d, c)
           \/ \E t \in Threads : TakeConn(t) \/ FinishConn(t)
           \/ /\ UNCHANGED <<waitq, stage, conn>>
              /\ \A t \in Threads : pc'[t] \in BusyPC <=> pc[t] \in BusyPC
PROOF
<1>0. PcTyped(pc) /\ \A p \in Creators : toJoin[p] \subseteq Threads
  BY TypeParts DEF DataTyped
<1> DEFINE Keep == /\ UNCHANGED <<waitq, stage, conn>>
                   /\ \A t \in Threads : pc'[t] \in BusyPC <=> pc[t] \in BusyPC
<1>1. CASE UNCHANGED vars
  BY <1>1 DEF vars
<1>2. ASSUME NEW p \in Creators, Creating(p)
      PROVE  Keep
  <2> USE Kinds DEF BusyPC, Goto, PcTyped, locals
  <2>1. CASE Reap(p) \/ JoinedAll(p)
    BY <1>0, <2>1 DEF Reap, JoinedAll
  <2>2. CASE JoinOne(p)
    <3>1. PICK t \in Threads : pc[t] = "gone" /\ pc' = [pc EXCEPT ![t] = "none"]
      BY <1>0, <2>2 DEF JoinOne
    <3> QED
      BY <1>0, <2>2, <3>1 DEF JoinOne
  <2>3. CASE Spawn(p)
    BY <1>0, <2>3, CreateBusy DEF Spawn
  <2> QED
    BY <1>2, <2>1, <2>2, <2>3 DEF Creating
<1>3. ASSUME NEW t \in Threads, ThreadStep(t), ~TakeConn(t), ~FinishConn(t)
      PROVE  Keep
  <2> USE Kinds DEF BusyPC, Goto, locals
  <2>1. CASE \/ ThreadBegin(t) \/ LoopTop(t) \/ WaitForConn(t) \/ Reacquire(t)
             \/ GiveUp(t) \/ ConnRun(t) \/ NextConn(t)
    BY <1>0, <2>1 DEF ThreadBegin, LoopTop, WaitForConn, Reacquire, GiveUp,
         ConnRun, NextConn, PcTyped
  <2>2. CASE Leave(t)
    <3>1. pc[t] \notin BusyPC /\ "gone" \notin BusyPC
      BY <2>2 DEF Leave
    <3>2. CASE SignalAndGoto(t, "gone")
      BY <1>0, <2>2, <3>1, <3>2, SignalBusy DEF Leave
    <3>3. CASE Goto(t, "gone") \/ Goto(t, "respawn")
      BY <1>0, <2>2, <3>1, <3>3 DEF Leave, PcTyped
    <3> QED
      BY <2>2, <3>2, <3>3 DEF Leave
  <2>3. CASE Respawn(t)
    BY <1>0, <2>3, CreateBusy DEF Respawn
  <2> QED
    BY <1>3, <2>1, <2>2, <2>3 DEF ThreadStep
<1>4. ASSUME NEW p \in Threads \cup {Main}, Timeout(p) \/ SpuriousWakeup(p)
      PROVE  Keep
  BY <1>0, <1>4, Kinds
  DEF Timeout, SpuriousWakeup, Waiters, Goto, BusyPC, PcTyped, locals
<1>5. CASE MainStep
  BY <1>0, <1>5, Kinds
  DEF MainStep, StartOne, Started, WaitPool, ReapAll, NsStopPools, Goto,
      PcTyped, locals
<1>6. CASE StopPool
  BY <1>6, Kinds DEF StopPool, Waiters, BusyPC, locals
<1> QED
  BY <1>1, <1>2, <1>3, <1>4, <1>5, <1>6 DEF Next, Queueing

LEMMA ServedQueue ==
    ASSUME TypeOK, ServedInv, NEW d \in DriverThreads, NEW c \in Conns, NsQueueConn(d, c)
    PROVE  ServedInv'
PROOF
<1>1. /\ stage \in [Conns -> {"fresh", "queued", "active", "freed"}]
      /\ waitq \in Seq(Conns) /\ PcTyped(pc)
  BY TypeParts DEF DataTyped
<1>2. /\ stage[c] = "fresh" /\ stage' = [stage EXCEPT ![c] = "queued"]
      /\ waitq' = Append(waitq, c) /\ conn' = conn
  BY DEF NsQueueConn, Enqueue, locals
<1>3. Busy' = Busy
  <2>1. pc[d] \notin BusyPC /\ {"idle", "reap"} \cap BusyPC = {} /\ d \in Procs
    BY Kinds DEF NsQueueConn, BusyPC
  <2>2. \A t \in Threads : pc'[t] \in BusyPC <=> pc[t] \in BusyPC
    <3>1. CASE SignalAndGoto(d, "idle")
      BY <1>1, <2>1, <3>1, SignalBusy
    <3>2. CASE Goto(d, "reap") \/ pc' = pc
      BY <1>1, <3>2, Kinds DEF Goto, PcTyped
    <3> QED
      BY <3>1, <3>2 DEF NsQueueConn
  <2> QED
    BY <2>2 DEF Busy, In, BusyPC
<1> DEFINE n == Len(waitq)
<1>4. /\ n \in Nat /\ Len(waitq') = n + 1 /\ waitq'[n + 1] = c
      /\ \A i \in 1..n : waitq'[i] = waitq[i] /\ waitq[i] \in Conns
  BY <1>1, <1>2
<1>5. \A i \in 1..n : waitq[i] # c
  BY <1>1, <1>2, <1>4 DEF ServedInv, ServedOnce
<1>6. \A i \in 1..(n + 1) : i \in 1..n \/ i = n + 1
  BY <1>4
<1> HIDE DEF n
<1>7. \A i, j \in 1..Len(waitq') : waitq'[i] = waitq'[j] => i = j
  BY <1>4, <1>5, <1>6 DEF ServedInv, ServedOnce, n
<1>8. \A e \in Conns : stage'[e] = "queued" <=> \E i \in 1..Len(waitq') : waitq'[i] = e
  <2> SUFFICES ASSUME NEW e \in Conns
               PROVE  stage'[e] = "queued" <=> \E i \in 1..Len(waitq') : waitq'[i] = e
    OBVIOUS
  <2>1. n + 1 \in 1..(n + 1) /\ 1..n \subseteq 1..(n + 1)
    BY <1>4
  <2>2. CASE e = c
    BY <1>1, <1>2, <1>4, <2>1, <2>2
  <2>3. CASE e # c
    <3>1. stage'[e] = stage[e]
      BY <1>1, <1>2, <2>3
    <3>2. stage[e] = "queued" <=> \E i \in 1..n : waitq[i] = e
      BY DEF ServedInv, ServedOnce, n
    <3> QED
      BY <1>4, <1>6, <2>1, <2>3, <3>1, <3>2
  <2> QED
    BY <2>2, <2>3
<1>9. \A e \in Conns : stage'[e] = "active" <=> \E t \in Busy' : conn'[t] = e
  BY <1>1, <1>2, <1>3 DEF ServedInv, ServedOnce
<1> QED
  BY <1>2, <1>3, <1>7, <1>8, <1>9 DEF ServedInv, ServedOnce

LEMMA ServedTake ==
    ASSUME TypeOK, ServedInv, NEW t \in Threads, TakeConn(t)
    PROVE  ServedInv'
PROOF
<1>1. /\ stage \in [Conns -> {"fresh", "queued", "active", "freed"}]
      /\ waitq \in Seq(Conns) /\ PcTyped(pc)
      /\ conn \in [Threads -> Conns \cup {NoConn}]
  BY TypeParts DEF DataTyped
<1> DEFINE h == Head(waitq)
           n == Len(waitq)
<1>2. /\ waitq # <<>> /\ waitq' = Tail(waitq) /\ conn' = [conn EXCEPT ![t] = h]
      /\ stage' = [stage EXCEPT ![h] = "active"]
      /\ pc[t] = "check" /\ Goto(t, "run")
  BY DEF TakeConn
<1>3. /\ n \in Nat /\ n > 0 /\ Len(waitq') = n - 1 /\ h = waitq[1] /\ h \in Conns
      /\ \A i \in 1..(n - 1) : waitq'[i] = waitq[i + 1]
  BY <1>1, <1>2
<1>4. t \notin Busy /\ Busy' = Busy \cup {t}
  BY <1>1, <1>2, Kinds DEF Busy, In, Goto, PcTyped
<1>5. stage[h] = "queued"
  BY <1>3 DEF ServedInv, ServedOnce
<1>6. \A u \in Busy : conn[u] # h /\ conn'[u] = conn[u] /\ u # t
  BY <1>1, <1>2, <1>3, <1>4, <1>5 DEF ServedInv, ServedOnce, Busy, In
<1>7. conn'[t] = h
  BY <1>1, <1>2
<1> HIDE DEF h, n
<1>8. \A i \in 1..(n - 1) : i \in 1..n /\ i + 1 \in 1..n /\ i + 1 # 1
  BY <1>3
<1>9. \A i, j \in 1..Len(waitq') : waitq'[i] = waitq'[j] => i = j
  <2> SUFFICES ASSUME NEW i \in 1..(n - 1), NEW j \in 1..(n - 1),
                      waitq[i + 1] = waitq[j + 1]
               PROVE  i = j
    BY <1>3
  <2>1. i + 1 = j + 1
    BY <1>8 DEF ServedInv, ServedOnce, n
  <2> QED
    BY <1>3, <2>1
<1>10. \A e \in Conns : stage'[e] = "queued" <=> \E i \in 1..Len(waitq') : waitq'[i] = e
  <2> SUFFICES ASSUME NEW e \in Conns
               PROVE  stage'[e] = "queued" <=> \E i \in 1..(n - 1) : waitq'[i] = e
    BY <1>3
  <2>1. CASE e = h
    <3>1. stage'[e] = "active"
      BY <1>1, <1>2, <1>3, <2>1
    <3>2. \A i \in 1..(n - 1) : waitq[i + 1] # h
      <4>1. 1 \in 1..n
        BY <1>3
      <4>2. \A i \in 1..(n - 1) : waitq[i + 1] # waitq[1]
        BY <1>8, <4>1 DEF ServedInv, ServedOnce, n
      <4> QED
        BY <1>3, <4>2
    <3> QED
      BY <1>3, <2>1, <3>1, <3>2
  <2>2. CASE e # h
    <3>1. stage'[e] = stage[e]
      BY <1>1, <1>2, <2>2
    <3>2. stage[e] = "queued" <=> \E i \in 1..n : waitq[i] = e
      BY DEF ServedInv, ServedOnce, n
    <3>3. ASSUME NEW i \in 1..n, waitq[i] = e
          PROVE  \E j \in 1..(n - 1) : waitq'[j] = e
      <4>1. i # 1
        BY <1>3, <2>2, <3>3
      <4>2. i - 1 \in 1..(n - 1) /\ (i - 1) + 1 = i
        BY <1>3, <4>1
      <4> QED
        BY <1>3, <3>3, <4>2
    <3>4. ASSUME NEW i \in 1..(n - 1), waitq'[i] = e
          PROVE  \E j \in 1..n : waitq[j] = e
      BY <1>3, <1>8, <3>4
    <3> QED
      BY <3>1, <3>2, <3>3, <3>4
  <2> QED
    BY <2>1, <2>2
<1>11. \A e \in Conns : stage'[e] = "active" <=> \E u \in Busy' : conn'[u] = e
  BY <1>1, <1>2, <1>3, <1>4, <1>6, <1>7 DEF ServedInv, ServedOnce
<1>12. \A u, v \in Busy' : conn'[u] = conn'[v] => u = v
  BY <1>4, <1>6, <1>7 DEF ServedInv, ServedOnce
<1>13. \A u \in Busy' : conn'[u] \in Conns
  BY <1>3, <1>4, <1>6, <1>7 DEF ServedInv
<1> QED
  BY <1>9, <1>10, <1>11, <1>12, <1>13 DEF ServedInv, ServedOnce

LEMMA ServedFinish ==
    ASSUME TypeOK, ServedInv, NEW t \in Threads, FinishConn(t)
    PROVE  ServedInv'
PROOF
<1>1. /\ stage \in [Conns -> {"fresh", "queued", "active", "freed"}]
      /\ conn \in [Threads -> Conns \cup {NoConn}] /\ PcTyped(pc)
  BY TypeParts DEF DataTyped
<1> DEFINE c == conn[t]
<1>2. /\ stage' = [stage EXCEPT ![c] = "freed"] /\ conn' = [conn EXCEPT ![t] = NoConn]
      /\ waitq' = waitq /\ pc[t] = "ran" /\ Goto(t, "freeing")
  BY DEF FinishConn
<1>3. t \in Busy /\ Busy' = Busy \ {t} /\ Busy \subseteq Threads
  BY <1>1, <1>2, Kinds DEF Busy, In, Goto, PcTyped
<1>4. c \in Conns /\ stage[c] = "active"
  BY <1>3 DEF ServedInv, ServedOnce
<1>5. \A u \in Busy' : u \in Busy /\ conn'[u] = conn[u] /\ conn[u] # c
  BY <1>1, <1>2, <1>3 DEF ServedInv, ServedOnce
<1> HIDE DEF c
<1>6. \A e \in Conns : stage'[e] = IF e = c THEN "freed" ELSE stage[e]
  BY <1>1, <1>2
<1>7. \A e \in Conns : stage'[e] = "queued" <=> \E i \in 1..Len(waitq') : waitq'[i] = e
  BY <1>2, <1>4, <1>6 DEF ServedInv, ServedOnce
<1>8. \A e \in Conns : stage'[e] = "active" <=> \E u \in Busy' : conn'[u] = e
  <2> SUFFICES ASSUME NEW e \in Conns
               PROVE  stage'[e] = "active" <=> \E u \in Busy' : conn'[u] = e
    OBVIOUS
  <2>1. CASE e = c
    BY <1>5, <1>6, <2>1
  <2>2. CASE e # c
    <3>1. stage[e] = "active" <=> \E u \in Busy : conn[u] = e
      BY DEF ServedInv, ServedOnce
    <3> QED
      BY <1>3, <1>5, <1>6, <2>2, <3>1 DEF c
  <2> QED
    BY <2>1, <2>2
<1> QED
  BY <1>2, <1>3, <1>5, <1>7, <1>8 DEF ServedInv, ServedOnce

LEMMA ServedNext == TypeOK /\ ServedInv /\ [Next]_vars => ServedInv'
PROOF
<1> SUFFICES ASSUME TypeOK, ServedInv, [Next]_vars PROVE ServedInv'
  OBVIOUS
<1>1. CASE /\ UNCHANGED <<waitq, stage, conn>>
           /\ \A t \in Threads : pc'[t] \in BusyPC <=> pc[t] \in BusyPC
  <2>1. Busy' = Busy
    BY <1>1 DEF Busy, In, BusyPC
  <2> QED
    BY <1>1, <2>1 DEF ServedInv, ServedOnce
<1> QED
  BY <1>1, OthersKeep, ServedQueue, ServedTake, ServedFinish

(* A connection is queued once, or with exactly one thread, or done: it is *)
(* neither lost nor run twice.                                             *)
THEOREM ServedOnceCorrect == Spec => []ServedOnce
PROOF
<1>1. Init => ServedInv
  <2> SUFFICES ASSUME Init PROVE ServedInv
    OBVIOUS
  <2>1. Busy = {}
    BY Kinds DEF Init, Busy, In
  <2>2. /\ waitq = <<>> /\ 1..Len(waitq) = {}
        /\ \A c \in Conns : stage[c] = "fresh"
    BY DEF Init
  <2> QED
    BY <2>1, <2>2 DEF ServedInv, ServedOnce
<1>2. TypeOK /\ ServedInv /\ [Next]_vars => ServedInv'
  BY ServedNext
<1>3. ServedInv => ServedOnce
  BY DEF ServedInv
<1> QED
  BY <1>1, <1>2, <1>3, TypeCorrect, PTL DEF Spec

-----------------------------------------------------------------------------
(* The books of the pool agree in every state, for any number of           *)
(* connections, threads and drivers and any limits (NsQueueConn,           *)
(* NsConnThread and StartPool update them in different sections).          *)
THEOREM PoolSoundCorrect == Spec => []PoolSound
PROOF
<1>1. TypeOK /\ CountersAgree /\ CurrentInRange /\ ServedOnce => PoolSound
  BY DEF PoolSound
<1> QED
  BY <1>1, TypeCorrect, CountersCorrect, RangeCorrect, ServedOnceCorrect, PTL

(* No connection waits while nobody is on the way to it: NsQueueConn       *)
(* signals or creates, and NsConnThread replaces a thread that leaves.     *)
THEOREM WorkSeenCorrect == Spec => []WorkSeen
PROOF
<1>1. WorkConserving /\ NotAbandoned => WorkSeen
  BY DEF WorkSeen
<1> QED
  BY <1>1, WorkConservingCorrect, NotAbandonedCorrect, PTL

-----------------------------------------------------------------------------
(* The polls of stats-api.js. *)

(* A poll is one more request: with polls the pool does what it does       *)
(* without, and what is proved of the pool holds of it.                    *)
LEMMA PoolInside == StatsSpec => Spec
<1>1. StatsInit => Init  BY DEF StatsInit
<1>2. [StatsNext]_<<vars, api>> => [Next]_vars
  BY DEF StatsNext, PoolStep, PollStep, vars, api
<1> QED  BY <1>1, <1>2, PTL DEF StatsSpec, Spec

-----------------------------------------------------------------------------
(* What the pool guarantees at the moment of each call.                    *)

LEMMA ThreadsInBooks ==
  ASSUME PoolSound, NEW t \in Threads, pc[t] = "run"
  PROVE  /\ current \in Int /\ idle \in Int
         /\ 1 <= current - idle /\ current - idle <= current /\ current <= MaxThreads
<1>1. IsFiniteSet(Threads) /\ IsFiniteSet(Creators) /\ MaxThreads \in Nat
  BY PoolAssumption, FS_AddElement DEF Creators
<1>2. /\ IsFiniteSet(Live) /\ IsFiniteSet(Pending) /\ IsFiniteSet(IdleSet)
      /\ Cardinality(Live) \in Nat /\ Cardinality(Pending) \in Nat /\ Cardinality(IdleSet) \in Nat
  <2>1. Live \subseteq Threads /\ IdleSet \subseteq Threads /\ In({"respawn"}) \subseteq Threads
        /\ Making \subseteq Creators
    BY DEF Live, IdleSet, In, Making
  <2>2. IsFiniteSet(Live) /\ IsFiniteSet(IdleSet) /\ IsFiniteSet(In({"respawn"}))
        /\ IsFiniteSet(Making)
    BY <1>1, <2>1, FS_Subset
  <2>3. IsFiniteSet(Pending)
    BY <2>2, FS_Union DEF Pending
  <2> QED  BY <2>2, <2>3, FS_CardinalityType
<1>3. Cardinality(IdleSet) + 1 <= Cardinality(Live)
  <2>1. t \notin IdleSet /\ IdleSet \cup {t} \subseteq Live
    BY DEF IdleSet, Live, In, IdlePC, LivePC
  <2>2. Cardinality(IdleSet \cup {t}) = Cardinality(IdleSet) + 1
    BY <1>2, <2>1, FS_AddElement
  <2>3. Cardinality(IdleSet \cup {t}) <= Cardinality(Live)
    BY <1>2, <2>1, FS_Subset
  <2> QED  BY <2>2, <2>3
<1>4. /\ current = Cardinality(Live) + Cardinality(Pending)
      /\ idle = Cardinality(IdleSet) /\ current <= MaxThreads
  BY DEF PoolSound, CountersAgree, CurrentInRange
<1> QED  BY <1>1, <1>2, <1>3, <1>4

(* The running connections: each has a thread of its own.                  *)
LEMMA ActiveInBooks ==
  ASSUME PoolSound, NEW t \in Threads, pc[t] = "run", conn[t] \in Conns
  PROVE  LET n == Cardinality({c \in Conns : stage[c] = "active"})
         IN  n \in Int /\ 1 <= n /\ n <= MaxThreads
<1> DEFINE A == {c \in Conns : stage[c] = "active"}
           f == [u \in Busy |-> conn[u]]
<1>1. IsFiniteSet(Threads) /\ IsFiniteSet(Creators) /\ MaxThreads \in Nat
  BY PoolAssumption, FS_AddElement DEF Creators
<1>2. Busy \subseteq Live /\ Live \subseteq Threads /\ t \in Busy
  BY DEF Busy, Live, In, LivePC
<1>3. IsFiniteSet(Live) /\ IsFiniteSet(Busy)
  BY <1>1, <1>2, FS_Subset
<1>4. \A c \in Conns : stage[c] = "active" <=> \E u \in Busy : conn[u] = c
  BY DEF PoolSound, ServedOnce
<1>5. conn[t] \in A
  BY <1>2, <1>4
<1>6. IsFiniteSet(A) /\ Cardinality(A) <= Cardinality(Busy)
  <2> DEFINE B == {u \in Busy : conn[u] \in A}
             g == [u \in B |-> conn[u]]
  <2>1. g \in Surjection(B, A)
    BY <1>4 DEF Surjection
  <2>2. IsFiniteSet(B) /\ Cardinality(B) <= Cardinality(Busy)
    BY <1>3, FS_Subset
  <2>3. IsFiniteSet(A) /\ Cardinality(A) <= Cardinality(B)
    <3> HIDE DEF A, B, g
    <3> QED  BY <2>1, <2>2, FS_Surjection
  <2>4. Cardinality(A) \in Nat /\ Cardinality(B) \in Nat /\ Cardinality(Busy) \in Nat
    BY <1>3, <2>2, <2>3, FS_CardinalityType
  <2> QED  BY <2>2, <2>3, <2>4
<1>7. Cardinality(A) \in Nat /\ Cardinality(A) /= 0
  BY <1>5, <1>6, FS_CardinalityType, FS_EmptySet
<1>8. Cardinality(Busy) <= Cardinality(Live)
  BY <1>2, <1>3, FS_Subset
<1>9. Cardinality(Live) <= MaxThreads
  <2>1. current = Cardinality(Live) + Cardinality(Pending) /\ current <= MaxThreads
    BY DEF PoolSound, CountersAgree, CurrentInRange
  <2>2. IsFiniteSet(Pending)
    <3>1. In({"respawn"}) \subseteq Threads /\ Making \subseteq Creators
      BY DEF In, Making
    <3>2. IsFiniteSet(In({"respawn"})) /\ IsFiniteSet(Making)
      BY <1>1, <3>1, FS_Subset
    <3> QED  BY <3>2, FS_Union DEF Pending
  <2>3. Cardinality(Pending) \in Nat /\ Cardinality(Live) \in Nat
    BY <1>3, <2>2, FS_CardinalityType
  <2> QED  BY <1>1, <2>1, <2>3
<1>10. Cardinality(Busy) \in Nat /\ Cardinality(Live) \in Nat
  BY <1>3, FS_CardinalityType
<1> QED  BY <1>1, <1>6, <1>7, <1>8, <1>9, <1>10

-----------------------------------------------------------------------------
(* What a poll has read so far is possible.                                *)

Numbers == [current : Int, idle : Int, active : Int, waiting : Int]

ThreadsRead(c) ==
    /\ 1 <= data[c].current - data[c].idle
    /\ data[c].current - data[c].idle <= data[c].current
    /\ data[c].current <= MaxThreads

ActiveRead(c) == 1 <= data[c].active /\ data[c].active <= MaxThreads

ApiInv ==
    /\ at \in [Polls -> Steps] /\ data \in [Polls -> Numbers]
    /\ \A c \in Polls : at[c] \in {"active", "waiting", "ok"} => ThreadsRead(c)
    /\ \A c \in Polls : at[c] \in {"waiting", "ok"} => ActiveRead(c)

LEMMA ApiPoll ==
  ASSUME ApiInv, PoolSound, NEW t \in Threads, PollStep(t)
  PROVE  ApiInv'
<1> DEFINE c == conn[t]
<1>1. c \in Polls /\ c \in Conns /\ pc[t] = "run"
  BY PollsAssumption DEF PollStep, CheckAuth, ReadThreads, ReadActive, ReadWaiting, Polling
<1>2. CASE CheckAuth(t)
  <2>1. PICK s \in {"threads", "denied"} : at' = [at EXCEPT ![c] = s] /\ data' = data
    BY <1>2 DEF CheckAuth
  <2>2. at' \in [Polls -> Steps]
    BY <1>1, <2>1 DEF ApiInv, Steps
  <2>3. \A d \in Polls : at'[d] \in {"active", "waiting", "ok"} => at'[d] = at[d]
    BY <1>1, <2>1 DEF ApiInv
  <2> QED  BY <2>1, <2>2, <2>3 DEF ApiInv, ThreadsRead, ActiveRead
<1>3. CASE ReadThreads(t)
  <2>1. /\ data' = [data EXCEPT ![c].current = current, ![c].idle = idle]
        /\ at' = [at EXCEPT ![c] = "active"]
    BY <1>3 DEF ReadThreads
  <2>2. /\ current \in Int /\ idle \in Int
        /\ 1 <= current - idle /\ current - idle <= current /\ current <= MaxThreads
    BY <1>1, ThreadsInBooks
  <2>3. at' \in [Polls -> Steps] /\ data' \in [Polls -> Numbers]
    BY <1>1, <2>1, <2>2 DEF ApiInv, Steps, Numbers
  <2>4. data'[c].current = current /\ data'[c].idle = idle /\ at'[c] = "active"
    BY <1>1, <2>1 DEF ApiInv, Numbers
  <2>5. \A d \in Polls \ {c} : data'[d] = data[d] /\ at'[d] = at[d]
    BY <1>1, <2>1 DEF ApiInv
  <2> HIDE DEF c
  <2>6. \A d \in Polls : at'[d] \in {"active", "waiting", "ok"} => ThreadsRead(d)'
    BY <2>2, <2>4, <2>5 DEF ApiInv, ThreadsRead
  <2>7. \A d \in Polls : at'[d] \in {"waiting", "ok"} => ActiveRead(d)'
    BY <2>4, <2>5 DEF ApiInv, ActiveRead
  <2> QED  BY <2>3, <2>6, <2>7 DEF ApiInv
<1>4. CASE ReadActive(t)
  <2> DEFINE n == Cardinality({d \in Conns : stage[d] = "active"})
  <2>1. /\ at[c] = "active"
        /\ data' = [data EXCEPT ![c].active = n]
        /\ at' = [at EXCEPT ![c] = "waiting"]
    BY <1>4 DEF ReadActive
  <2>2. n \in Int /\ 1 <= n /\ n <= MaxThreads
    BY <1>1, ActiveInBooks
  <2> HIDE DEF n
  <2>3. at' \in [Polls -> Steps] /\ data' \in [Polls -> Numbers]
    BY <1>1, <2>1, <2>2 DEF ApiInv, Steps, Numbers
  <2>4. /\ data'[c].current = data[c].current /\ data'[c].idle = data[c].idle
        /\ data'[c].active = n /\ at'[c] = "waiting"
    BY <1>1, <2>1 DEF ApiInv, Numbers
  <2>5. \A d \in Polls \ {c} : data'[d] = data[d] /\ at'[d] = at[d]
    BY <1>1, <2>1 DEF ApiInv
  <2> HIDE DEF c
  <2>6. \A d \in Polls : at'[d] \in {"active", "waiting", "ok"} => ThreadsRead(d)'
    BY <1>1, <2>1, <2>4, <2>5 DEF ApiInv, ThreadsRead
  <2>7. \A d \in Polls : at'[d] \in {"waiting", "ok"} => ActiveRead(d)'
    BY <2>2, <2>4, <2>5 DEF ApiInv, ActiveRead
  <2> QED  BY <2>3, <2>6, <2>7 DEF ApiInv
<1>5. CASE ReadWaiting(t)
  <2>1. /\ at[c] = "waiting"
        /\ data' = [data EXCEPT ![c].waiting = Len(waitq)]
        /\ at' = [at EXCEPT ![c] = "ok"]
    BY <1>5 DEF ReadWaiting
  <2>2. Len(waitq) \in Int
    BY DEF PoolSound, TypeOK
  <2>3. at' \in [Polls -> Steps] /\ data' \in [Polls -> Numbers]
    BY <1>1, <2>1, <2>2 DEF ApiInv, Steps, Numbers
  <2>4. /\ data'[c].current = data[c].current /\ data'[c].idle = data[c].idle
        /\ data'[c].active = data[c].active /\ at'[c] = "ok"
    BY <1>1, <2>1 DEF ApiInv, Numbers
  <2>5. \A d \in Polls \ {c} : data'[d] = data[d] /\ at'[d] = at[d]
    BY <1>1, <2>1 DEF ApiInv
  <2> HIDE DEF c
  <2>6. \A d \in Polls : at'[d] \in {"active", "waiting", "ok"} => ThreadsRead(d)'
    BY <1>1, <2>1, <2>4, <2>5 DEF ApiInv, ThreadsRead
  <2>7. \A d \in Polls : at'[d] \in {"waiting", "ok"} => ActiveRead(d)'
    BY <1>1, <2>1, <2>4, <2>5 DEF ApiInv, ActiveRead
  <2> QED  BY <2>3, <2>6, <2>7 DEF ApiInv
<1> QED  BY <1>2, <1>3, <1>4, <1>5 DEF PollStep

LEMMA ApiNext == ApiInv /\ PoolSound /\ [StatsNext]_<<vars, api>> => ApiInv'
<1> SUFFICES ASSUME ApiInv, PoolSound, [StatsNext]_<<vars, api>> PROVE ApiInv'
  OBVIOUS
<1>1. CASE UNCHANGED api
  BY <1>1 DEF api, ApiInv, ThreadsRead, ActiveRead
<1>2. CASE \E t \in Threads : PollStep(t)
  BY <1>2, ApiPoll
<1> QED  BY <1>1, <1>2 DEF StatsNext, PoolStep, api

(* The numbers of an answer are possible ones although stats-api.js reads  *)
(* them in several sections of the lock: each section finds the poll's own *)
(* thread busy and its own connection running.                             *)
THEOREM AnswerSoundCorrect == StatsSpec => []AnswerSound
<1>1. StatsInit => ApiInv
  BY DEF StatsInit, ApiInit, ApiInv, Steps, Numbers
<1>2. ApiInv /\ PoolSound /\ [StatsNext]_<<vars, api>> => ApiInv'
  BY ApiNext
<1>3. ApiInv => AnswerSound
  BY DEF ApiInv, ThreadsRead, ActiveRead, AnswerSound, Answered, BusyShown
<1> QED  BY <1>1, <1>2, <1>3, PoolInside, PoolSoundCorrect, PTL DEF StatsSpec

-----------------------------------------------------------------------------
(* The dashboard: its views.  A part's name tells whether it is a chart,   *)
(* or a table, on whatever tab and for whatever answer: this is what lets  *)
(* a chart, or the sort of a table, that stays be found again by its name. *)

ChartNames == {"Request History", "Connection History", "Thread Pool History",
               "Size Classes", "Memory Over Time"}

KindOf(name, kind) ==
    /\ kind = "chart" <=> name \in ChartNames
    /\ kind = "table" <=> name \in TableNames

Named(v) == \A name \in DOMAIN v : KindOf(name, v[name].kind)

(* Views put together from named parts are named. *)
LEMMA NamedEmpty == Named(Empty)
BY DEF Named, Empty

LEMMA NamedPart ==
  ASSUME NEW name, NEW kind, NEW body, KindOf(name, kind)
  PROVE  Named(Part(name, kind, body))
BY DEF Named, Part

LEMMA NamedMerge ==
  ASSUME NEW v, NEW w, Named(v), Named(w)
  PROVE  Named(v ++ w)
BY DEF Named, ++

LEMMA NamedWhen ==
  ASSUME NEW condition, NEW v, Named(v)
  PROVE  Named(When(condition, v))
BY NamedEmpty DEF When

LEMMA NamedChart ==
  ASSUME NEW name \in ChartNames, NEW hist
  PROVE  Named(HistoryChart(name, hist))
<1>1. KindOf(name, "chart")
  BY DEF KindOf, ChartNames, TableNames, TablesOf
<1> QED  BY <1>1, NamedPart, NamedWhen DEF HistoryChart

LEMMA NamedTable ==
  ASSUME NEW name \in TableNames, NEW rows
  PROVE  Named(TableIf(name, rows))
<1>1. KindOf(name, "table")
  BY DEF KindOf, ChartNames, TableNames, TablesOf
<1> QED  BY <1>1, NamedPart, NamedWhen DEF TableIf

(* Each tab of its own. *)
LEMMA NamedOverview == ASSUME NEW d PROVE Named(Overview(d))
BY NamedPart, NamedMerge, NamedWhen DEF Overview, Card, KindOf, ChartNames, TableNames, TablesOf

LEMMA NamedJsEngine == ASSUME NEW d, NEW hist PROVE Named(JsEngine(d, hist))
<1>1. Named(Card("JS Engine") ++ Card("Script Cache"))
  BY NamedPart, NamedMerge DEF Card, KindOf, ChartNames, TableNames, TablesOf
<1>2. Named(HistoryChart("Request History", hist))
  BY NamedChart DEF ChartNames
<1> QED  BY <1>1, <1>2, NamedMerge, NamedWhen DEF JsEngine

LEMMA NamedServerStats == ASSUME NEW d, NEW hist PROVE Named(ServerStats(d, hist))
<1>1. Named(ThreadPool)
  BY NamedPart, NamedMerge DEF ThreadPool, Card, KindOf, ChartNames, TableNames, TablesOf
<1>2. Named(Totals(d.server))
  <2>1. Named(Card("Total Connections")) /\ Named(Card("Connection Pools"))
    BY NamedPart DEF Card, KindOf, ChartNames, TableNames, TablesOf
  <2> QED  BY <2>1, NamedWhen, NamedMerge DEF Totals
<1>3. Named(ConnectionHistory(hist)) /\ Named(ThreadHistory(hist))
  BY NamedChart DEF ConnectionHistory, ThreadHistory, ChartNames
<1>4. Named(UrlStats(d.server)) /\ Named(RunningThreads(d))
  BY NamedTable DEF UrlStats, RunningThreads, TableNames, TablesOf
<1>5. Named(ThreadLocks(d)) /\ Named(ScheduledProcs(d))
  BY NamedTable DEF ThreadLocks, ScheduledProcs, TableNames, TablesOf
<1> DEFINE v1 == ThreadPool ++ Totals(d.server)
           v2 == v1 ++ ConnectionHistory(hist)
           v3 == v2 ++ ThreadHistory(hist)
           v4 == v3 ++ UrlStats(d.server)
           v5 == v4 ++ RunningThreads(d)
           v6 == v5 ++ ThreadLocks(d)
<1>6. Named(v1)  BY <1>1, <1>2, NamedMerge
<1>7. Named(v3)  BY <1>6, <1>3, NamedMerge
<1>8. Named(v5)  BY <1>7, <1>4, NamedMerge
<1>9. Named(v6 ++ ScheduledProcs(d))  BY <1>8, <1>5, NamedMerge
<1> QED  BY <1>9, NamedWhen DEF ServerStats

LEMMA NamedMemory == ASSUME NEW d, NEW hist PROVE Named(Memory(d, hist))
<1>1. Named(Card("Memory")) /\ Named(Card("tcmalloc Internal Caches"))
  BY NamedPart DEF Card, KindOf, ChartNames, TableNames, TablesOf
<1>2. Named(HeapUtilization(d.memory))
  BY NamedPart, NamedWhen DEF HeapUtilization, Card, KindOf, ChartNames, TableNames, TablesOf
<1>3. Named(SizeClasses(d))
  BY NamedPart DEF SizeClasses, Message, KindOf, ChartNames, TableNames, TablesOf
<1>4. Named(HistoryChart("Memory Over Time", hist))
  BY NamedChart DEF ChartNames
<1>5. Named(Message("tcmalloc stats not available"))
  BY NamedPart DEF Message, KindOf, ChartNames, TableNames, TablesOf
<1> DEFINE v1 == Card("Memory") ++ HeapUtilization(d.memory)
           v2 == v1 ++ Card("tcmalloc Internal Caches")
<1>6. Named(v2)  BY <1>1, <1>2, NamedMerge
<1>7. Named(v2 ++ SizeClasses(d) ++ HistoryChart("Memory Over Time", hist))
  BY <1>6, <1>3, <1>4, NamedMerge
<1> QED  BY <1>5, <1>7, NamedEmpty DEF Memory

LEMMA NamedCaches == ASSUME NEW d PROVE Named(Caches(d))
<1>1. Named(Message("No named caches configured."))
  BY NamedPart DEF Message, KindOf, ChartNames, TableNames, TablesOf
<1>2. Named(TableIf("Caches", d.caches))
  <2>1. "Caches" \in TableNames
    BY DEF TableNames, TablesOf
  <2> QED  BY <2>1, NamedTable
<1> QED  BY <1>1, <1>2 DEF Caches

LEMMA NamedDrivers == ASSUME NEW d PROVE Named(Drivers(d))
<1>1. /\ Named(Card("Network Drivers")) /\ Named(Card("HTTP/2")) /\ Named(Card("HTTP/3"))
      /\ Named(Message("No drivers or HTTP/2/3 stats reported."))
  BY NamedPart DEF Card, Message, KindOf, ChartNames, TableNames, TablesOf
<1> QED  BY <1>1, NamedMerge, NamedWhen DEF Drivers

LEMMA NamedAdpCache == ASSUME NEW d PROVE Named(AdpCache(d))
<1>1. Named(Message("No ADP pages cached."))
  BY NamedPart DEF Message, KindOf, ChartNames, TableNames, TablesOf
<1>2. Named(TableIf("ADP Page Cache", d.adpStats))
  <2>1. "ADP Page Cache" \in TableNames
    BY DEF TableNames, TablesOf
  <2> QED  BY <2>1, NamedTable
<1> QED  BY <1>1, <1>2 DEF AdpCache

LEMMA NamedLog == ASSUME NEW d PROVE Named(Log(d))
BY NamedPart DEF Log, KindOf, ChartNames, TableNames, TablesOf

(* The content of any tab, and of the page before its first render. *)
LEMMA NamedView ==
  ASSUME NEW i \in TabIndexes, NEW props
  PROVE  Named(View(i, props))
<1>1. i \in 1 .. 8  BY DEF TabIndexes, TabHashes
<1>2. \A d, hist : Named(Content(i, d, hist))
  BY <1>1, NamedOverview, NamedJsEngine, NamedServerStats, NamedMemory, NamedCaches,
     NamedDrivers, NamedAdpCache, NamedLog DEF Content
<1> QED  BY <1>2, NamedEmpty DEF View

-----------------------------------------------------------------------------
(* The tables of a view: of those in T each whose list has rows, and no    *)
(* other, and what it is given to show.                                    *)

BodyOf(d, name) ==
    [i \in DOMAIN RowsOf(d, name) |-> Cells(name, RowsOf(d, name)[i])]

HasTables(v, T, d) ==
    \A name \in TableNames :
        /\ name \in DOMAIN v <=> name \in T /\ RowsOf(d, name) # <<>>
        /\ name \in DOMAIN v => v[name].body = BodyOf(d, name)

LEMMA NoTablesEmpty == ASSUME NEW d PROVE HasTables(Empty, {}, d)
BY DEF HasTables, Empty

LEMMA NoTablesPart ==
  ASSUME NEW name, name \notin TableNames, NEW kind, NEW body, NEW d
  PROVE  HasTables(Part(name, kind, body), {}, d)
BY DEF HasTables, Part

LEMMA NoTablesCard ==
  ASSUME NEW name, name \notin TableNames, NEW d
  PROVE  HasTables(Card(name), {}, d) /\ HasTables(Message(name), {}, d)
BY NoTablesPart DEF Card, Message

LEMMA NoTablesWhen ==
  ASSUME NEW condition, NEW v, NEW d, HasTables(v, {}, d)
  PROVE  HasTables(When(condition, v), {}, d)
BY NoTablesEmpty DEF When

LEMMA NoTablesChart ==
  ASSUME NEW name, name \notin TableNames, NEW hist, NEW d
  PROVE  HasTables(HistoryChart(name, hist), {}, d)
BY NoTablesPart, NoTablesWhen DEF HistoryChart

LEMMA TablesMerge ==
  ASSUME NEW v, NEW w, NEW T, NEW U, NEW d, HasTables(v, T, d), HasTables(w, U, d)
  PROVE  HasTables(v ++ w, T \cup U, d)
<1>1. DOMAIN (v ++ w) = DOMAIN v \cup DOMAIN w
  BY DEF ++
<1>2. \A name \in DOMAIN v \cup DOMAIN w :
        (v ++ w)[name] = IF name \in DOMAIN v THEN v[name] ELSE w[name]
  BY DEF ++
<1> SUFFICES ASSUME NEW name \in TableNames
             PROVE  /\ name \in DOMAIN (v ++ w) <=> name \in T \cup U /\ RowsOf(d, name) # <<>>
                    /\ name \in DOMAIN (v ++ w) => (v ++ w)[name].body = BodyOf(d, name)
  BY DEF HasTables
<1>3. name \in DOMAIN (v ++ w) <=> name \in T \cup U /\ RowsOf(d, name) # <<>>
  BY <1>1 DEF HasTables
<1>4. CASE name \in DOMAIN v
  BY <1>1, <1>2, <1>3, <1>4 DEF HasTables
<1>5. CASE name \notin DOMAIN v
  BY <1>1, <1>2, <1>3, <1>5 DEF HasTables
<1> QED  BY <1>4, <1>5

LEMMA NoTablesMerge ==
  ASSUME NEW v, NEW w, NEW d, HasTables(v, {}, d), HasTables(w, {}, d)
  PROVE  HasTables(v ++ w, {}, d)
<1>1. HasTables(v ++ w, {} \cup {}, d)
  BY TablesMerge
<1> QED  BY <1>1

LEMMA TableIfHas ==
  ASSUME NEW name \in TableNames, NEW d
  PROVE  HasTables(TableIf(name, RowsOf(d, name)), {name}, d)
BY DEF HasTables, TableIf, When, Part, Empty, BodyOf

(* Each tab. *)
LEMMA TablesOverview == ASSUME NEW d PROVE HasTables(Overview(d), {}, d)
<1>1. HasTables(Card("Overview"), {}, d) /\ HasTables(Card("Server Info"), {}, d)
  BY NoTablesCard DEF TableNames, TablesOf
<1> QED  BY <1>1, NoTablesMerge, NoTablesWhen DEF Overview

LEMMA TablesJsEngine == ASSUME NEW d, NEW hist PROVE HasTables(JsEngine(d, hist), {}, d)
<1>1. HasTables(Card("JS Engine"), {}, d) /\ HasTables(Card("Script Cache"), {}, d)
  BY NoTablesCard DEF TableNames, TablesOf
<1>2. HasTables(HistoryChart("Request History", hist), {}, d)
  BY NoTablesChart DEF TableNames, TablesOf
<1> QED  BY <1>1, <1>2, NoTablesMerge, NoTablesWhen DEF JsEngine

LEMMA TablesServerStats ==
  ASSUME NEW d, NEW hist, Has(d, "server")
  PROVE  HasTables(ServerStats(d, hist), TablesOf(3), d)
<1>1. HasTables(ThreadPool, {}, d)
  <2>1. HasTables(Card("Connections"), {}, d) /\ HasTables(Card("Thread Pool"), {}, d)
    BY NoTablesCard DEF TableNames, TablesOf
  <2> QED  BY <2>1, NoTablesMerge DEF ThreadPool
<1>2. HasTables(Totals(d.server), {}, d)
  <2>1. HasTables(Card("Total Connections"), {}, d) /\ HasTables(Card("Connection Pools"), {}, d)
    BY NoTablesCard DEF TableNames, TablesOf
  <2> QED  BY <2>1, NoTablesMerge, NoTablesWhen DEF Totals
<1>3. HasTables(ConnectionHistory(hist), {}, d) /\ HasTables(ThreadHistory(hist), {}, d)
  BY NoTablesChart DEF ConnectionHistory, ThreadHistory, TableNames, TablesOf
<1>4. TablesOf(3) \subseteq TableNames
  BY DEF TableNames, TablesOf
<1>5. HasTables(UrlStats(d.server), {"URL Stats"}, d)
  <2>1. HasTables(TableIf("URL Stats", RowsOf(d, "URL Stats")), {"URL Stats"}, d)
    BY <1>4, TableIfHas DEF TablesOf
  <2> QED  BY <2>1 DEF UrlStats, RowsOf
<1>6. HasTables(RunningThreads(d), {"Running Threads"}, d)
  <2>1. HasTables(TableIf("Running Threads", RowsOf(d, "Running Threads")), {"Running Threads"}, d)
    BY <1>4, TableIfHas DEF TablesOf
  <2> QED  BY <2>1 DEF RunningThreads, RowsOf
<1>7. HasTables(ThreadLocks(d), {"Thread Locks"}, d)
  <2>1. HasTables(TableIf("Thread Locks", RowsOf(d, "Thread Locks")), {"Thread Locks"}, d)
    BY <1>4, TableIfHas DEF TablesOf
  <2> QED  BY <2>1 DEF ThreadLocks, RowsOf
<1>8. HasTables(ScheduledProcs(d), {"Scheduled Procedures"}, d)
  <2>1. HasTables(TableIf("Scheduled Procedures", RowsOf(d, "Scheduled Procedures")),
                  {"Scheduled Procedures"}, d)
    BY <1>4, TableIfHas DEF TablesOf
  <2> QED  BY <2>1 DEF ScheduledProcs, RowsOf
<1> DEFINE v1 == ThreadPool ++ Totals(d.server)
           v2 == v1 ++ ConnectionHistory(hist)
           v3 == v2 ++ ThreadHistory(hist)
           v4 == v3 ++ UrlStats(d.server)
           v5 == v4 ++ RunningThreads(d)
           v6 == v5 ++ ThreadLocks(d)
           v7 == v6 ++ ScheduledProcs(d)
<1>9. HasTables(v3, {}, d)
  <2>1. HasTables(v1, {}, d)  BY <1>1, <1>2, NoTablesMerge
  <2>2. HasTables(v2, {}, d)  BY <1>3, <2>1, NoTablesMerge
  <2> QED  BY <1>3, <2>2, NoTablesMerge
<1>10. HasTables(v5, {} \cup {"URL Stats"} \cup {"Running Threads"}, d)
  <2>1. HasTables(v4, {} \cup {"URL Stats"}, d)  BY <1>5, <1>9, TablesMerge
  <2> QED  BY <1>6, <2>1, TablesMerge
<1>11. HasTables(v7, {} \cup {"URL Stats"} \cup {"Running Threads"} \cup {"Thread Locks"}
                       \cup {"Scheduled Procedures"}, d)
  <2>1. HasTables(v6, {} \cup {"URL Stats"} \cup {"Running Threads"} \cup {"Thread Locks"}, d)
    BY <1>7, <1>10, TablesMerge
  <2> QED  BY <1>8, <2>1, TablesMerge
<1>12. {} \cup {"URL Stats"} \cup {"Running Threads"} \cup {"Thread Locks"}
         \cup {"Scheduled Procedures"} = TablesOf(3)
  BY DEF TablesOf
<1>13. ServerStats(d, hist) = v7
  BY DEF ServerStats, When
<1> QED  BY <1>11, <1>12, <1>13

LEMMA TablesMemory == ASSUME NEW d, NEW hist PROVE HasTables(Memory(d, hist), {}, d)
<1>1. /\ HasTables(Card("Memory"), {}, d) /\ HasTables(Card("tcmalloc Internal Caches"), {}, d)
      /\ HasTables(Card("Heap Utilization"), {}, d)
      /\ HasTables(Message("tcmalloc stats not available"), {}, d)
      /\ HasTables(Message("Size class data unavailable."), {}, d)
  BY NoTablesCard DEF TableNames, TablesOf
<1>2. HasTables(HeapUtilization(d.memory), {}, d)
  BY <1>1, NoTablesWhen DEF HeapUtilization
<1>3. HasTables(SizeClasses(d), {}, d)
  <2>1. \A body : HasTables(Part("Size Classes", "chart", body), {}, d)
    BY NoTablesPart DEF TableNames, TablesOf
  <2> QED  BY <1>1, <2>1 DEF SizeClasses
<1>4. HasTables(HistoryChart("Memory Over Time", hist), {}, d)
  BY NoTablesChart DEF TableNames, TablesOf
<1> DEFINE v1 == Card("Memory") ++ HeapUtilization(d.memory)
           v2 == v1 ++ Card("tcmalloc Internal Caches")
           v3 == v2 ++ SizeClasses(d)
<1>5. HasTables(v1, {}, d)  BY <1>1, <1>2, NoTablesMerge
<1>6. HasTables(v2, {}, d)  BY <1>1, <1>5, NoTablesMerge
<1>7. HasTables(v3, {}, d)  BY <1>3, <1>6, NoTablesMerge
<1>8. HasTables(v3 ++ HistoryChart("Memory Over Time", hist), {}, d)
  BY <1>4, <1>7, NoTablesMerge
<1> QED  BY <1>1, <1>8, NoTablesEmpty DEF Memory

LEMMA TablesCaches == ASSUME NEW d PROVE HasTables(Caches(d), TablesOf(5), d)
<1>1. RowsOf(d, "Caches") = List(d, "caches")
  BY DEF RowsOf
<1>2. TablesOf(5) = {"Caches"}
  BY DEF TablesOf
<1>3. CASE List(d, "caches") = <<>>
  <2>1. HasTables(Message("No named caches configured."), {}, d)
    BY NoTablesCard DEF TableNames, TablesOf
  <2>2. HasTables(Message("No named caches configured."), {"Caches"}, d)
    BY <1>1, <1>3, <2>1 DEF HasTables
  <2> QED  BY <1>2, <1>3, <2>2 DEF Caches
<1>4. CASE List(d, "caches") # <<>>
  <2>1. Caches(d) = TableIf("Caches", RowsOf(d, "Caches"))
    BY <1>1, <1>4 DEF Caches, List
  <2>2. "Caches" \in TableNames
    BY DEF TableNames, TablesOf
  <2> QED  BY <1>2, <2>1, <2>2, TableIfHas
<1> QED  BY <1>3, <1>4

LEMMA TablesDrivers == ASSUME NEW d PROVE HasTables(Drivers(d), {}, d)
<1>1. /\ HasTables(Card("Network Drivers"), {}, d) /\ HasTables(Card("HTTP/2"), {}, d)
      /\ HasTables(Card("HTTP/3"), {}, d)
      /\ HasTables(Message("No drivers or HTTP/2/3 stats reported."), {}, d)
  BY NoTablesCard DEF TableNames, TablesOf
<1> QED  BY <1>1, NoTablesMerge, NoTablesWhen DEF Drivers

LEMMA TablesAdpCache == ASSUME NEW d PROVE HasTables(AdpCache(d), TablesOf(7), d)
<1>1. RowsOf(d, "ADP Page Cache") = List(d, "adpStats")
  BY DEF RowsOf
<1>2. TablesOf(7) = {"ADP Page Cache"}
  BY DEF TablesOf
<1>3. CASE List(d, "adpStats") = <<>>
  <2>1. HasTables(Message("No ADP pages cached."), {}, d)
    BY NoTablesCard DEF TableNames, TablesOf
  <2>2. HasTables(Message("No ADP pages cached."), {"ADP Page Cache"}, d)
    BY <1>1, <1>3, <2>1 DEF HasTables
  <2> QED  BY <1>2, <1>3, <2>2 DEF AdpCache
<1>4. CASE List(d, "adpStats") # <<>>
  <2>1. AdpCache(d) = TableIf("ADP Page Cache", RowsOf(d, "ADP Page Cache"))
    BY <1>1, <1>4 DEF AdpCache, List
  <2>2. "ADP Page Cache" \in TableNames
    BY DEF TableNames, TablesOf
  <2> QED  BY <1>2, <2>1, <2>2, TableIfHas
<1> QED  BY <1>3, <1>4

LEMMA TablesLog == ASSUME NEW d PROVE HasTables(Log(d), {}, d)
BY NoTablesPart DEF Log, TableNames, TablesOf

(* The content of any tab. *)
LEMMA TablesView ==
  ASSUME NEW i \in TabIndexes, NEW props, props.up, Has(Fields[props.data], "server")
  PROVE  HasTables(View(i, props), TablesOf(i), Fields[props.data])
<1>1. i \in 1 .. 8  BY DEF TabIndexes, TabHashes
<1>2. /\ TablesOf(1) = {} /\ TablesOf(2) = {} /\ TablesOf(4) = {} /\ TablesOf(6) = {}
      /\ TablesOf(8) = {}
  BY DEF TablesOf
<1>3. \A d, hist : Has(d, "server") => HasTables(Content(i, d, hist), TablesOf(i), d)
  BY <1>1, <1>2, TablesOverview, TablesJsEngine, TablesServerStats, TablesMemory, TablesCaches,
     TablesDrivers, TablesAdpCache, TablesLog DEF Content
<1> QED  BY <1>3 DEF View

-----------------------------------------------------------------------------
(* Effects. *)

IsFunction(f) == f = [x \in DOMAIN f |-> f[x]]

LEMMA FlushNothing ==
  ASSUME NEW c, IsFunction(c)
  PROVE  Flushed(c, NoEffects) = c
BY DEF Flushed, NoEffects, Empty, IsFunction

LEMMA FlushedIsFunction == ASSUME NEW c, NEW e PROVE IsFunction(Flushed(c, e))
BY DEF Flushed, IsFunction

(* When the charts are those of a view, the effects of rendering another   *)
(* in its place make them those of the other, whatever stays mounted.      *)
LEMMA FlushRender ==
  ASSUME NEW old, NEW new, Named(old), Named(new),
         NEW kept \in SUBSET (DOMAIN old \cap DOMAIN new),
         NEW e, LET chart == ChartEffects(old, new, kept)
                IN  e.dispose = chart.dispose /\ e.init = chart.init /\ e.draw = chart.draw
  PROVE  Flushed(Options(old), e) = Options(new)
<1>1. /\ DOMAIN Options(old) = DOMAIN old \cap ChartNames
      /\ DOMAIN Options(new) = DOMAIN new \cap ChartNames
  BY DEF Options, PartsOf, Named, KindOf
<1>2. /\ e.dispose = DOMAIN Options(old) \ kept
      /\ e.init = DOMAIN Options(new) \ kept
      /\ e.draw = Options(new)
  BY DEF ChartEffects
<1>3. (DOMAIN Options(old) \ e.dispose) \cup e.init = DOMAIN Options(new)
  BY <1>1, <1>2
<1>4. Flushed(Options(old), e) = [name \in DOMAIN Options(new) |-> Options(new)[name]]
  BY <1>2, <1>3 DEF Flushed
<1>5. IsFunction(Options(new))  BY DEF Options, IsFunction
<1> QED  BY <1>4, <1>5 DEF IsFunction

-----------------------------------------------------------------------------
(* The fragments name the tabs. *)

LEMMA TabNamed ==
  ASSUME NEW i \in TabIndexes
  PROVE  TabOf(TabHashes[i]) = i
<1>1. \A j \in TabIndexes : TabHashes[j] = TabHashes[i] => j = i
  BY DEF TabIndexes, TabHashes
<1>2. TabHashes[i] \in Range(TabHashes)
  BY DEF Range, TabIndexes
<1> QED  BY <1>1, <1>2 DEF TabOf

LEMMA TabOfType == ASSUME NEW h PROVE TabOf(h) \in TabIndexes
<1>1. CASE h \in Range(TabHashes)
  <2>1. \E i \in TabIndexes : TabHashes[i] = h  BY <1>1 DEF Range, TabIndexes
  <2> QED  BY <1>1, <2>1 DEF TabOf
<1>2. CASE h \notin Range(TabHashes)
  BY <1>2 DEF TabOf, TabIndexes, TabHashes
<1> QED  BY <1>1, <1>2

-----------------------------------------------------------------------------
(* The history. *)

(* How many elements are not kept of a sequence of length m. *)
Dropped(m) == IF m > MaxHistory THEN m - MaxHistory ELSE 0

LEMMA LastOfIs ==
  ASSUME NEW S, NEW s \in Seq(S)
  PROVE  /\ Abstract!LastOf(MaxHistory, s) \in Seq(S)
         /\ Len(Abstract!LastOf(MaxHistory, s)) = Len(s) - Dropped(Len(s))
         /\ \A i \in 1 .. Len(s) - Dropped(Len(s)) :
                Abstract!LastOf(MaxHistory, s)[i] = s[Dropped(Len(s)) + i]
<1>1. PICK n \in Nat : n = Len(s)
  OBVIOUS
<1>2. MaxHistory \in Nat \ {0}
  BY DashboardAssumption
<1>3a. PICK d : d = Dropped(n)
  OBVIOUS
<1>3. d \in Nat /\ d <= n
  BY <1>1, <1>2, <1>3a DEF Dropped
<1>4. Abstract!LastOf(MaxHistory, s) = SubSeq(s, d + 1, n)
  BY <1>1, <1>2, <1>3a DEF Abstract!LastOf, Dropped
<1>5. SubSeq(s, d + 1, n) \in Seq(S) /\ Len(SubSeq(s, d + 1, n)) = n - d
  BY <1>1, <1>3
<1>6. \A i \in 1 .. n - d : SubSeq(s, d + 1, n)[i] = s[d + i]
  <2> TAKE i \in 1 .. n - d
  <2>1. SubSeq(s, d + 1, n)[i] = s[d + 1 + i - 1]  BY <1>1, <1>3
  <2>2. d + 1 + i - 1 = d + i                      BY <1>3
  <2> QED  BY <2>1, <2>2
<1> QED  BY <1>1, <1>3a, <1>4, <1>5, <1>6

LEMMA AppendIs ==
  ASSUME NEW S, NEW s \in Seq(S), NEW a \in S, NEW n \in Nat, n = Len(s)
  PROVE  /\ Append(s, a) \in Seq(S) /\ Len(Append(s, a)) = n + 1
         /\ (\A i \in 1 .. n : Append(s, a)[i] = s[i]) /\ Append(s, a)[n + 1] = a
OBVIOUS

Answers == [data : Payloads, point : Nat]

LEMMA PointsOfIs ==
  ASSUME NEW s \in Seq(Answers)
  PROVE  /\ Abstract!PointsOf(s) \in Seq(Nat) /\ Len(Abstract!PointsOf(s)) = Len(s)
         /\ \A i \in 1 .. Len(s) : Abstract!PointsOf(s)[i] = s[i].point
<1> DEFINE n == Len(s)
           p == [i \in 1 .. n |-> s[i].point]
<1>1. n \in Nat /\ DOMAIN s = 1 .. n
  OBVIOUS
<1>2. \A i \in 1 .. n : s[i].point \in Nat
  <2> TAKE i \in 1 .. n
  <2>1. s[i] \in Answers  BY <1>1
  <2> QED  BY <2>1 DEF Answers
<1>3. Abstract!PointsOf(s) = p
  BY <1>1 DEF Abstract!PointsOf
<1>4. p \in [1 .. n -> Nat]
  BY <1>2
<1> HIDE DEF n
<1>5. p \in Seq(Nat) /\ Len(p) = n
  BY <1>1, <1>4
<1> QED  BY <1>3, <1>5 DEF n

LEMMA SliceIsLast ==
  ASSUME NEW s \in Seq(Nat)
  PROVE  Slice(s) = Abstract!LastOf(MaxHistory, s)
BY DEF Slice, Abstract!LastOf

LEMMA DroppedAgain ==
  ASSUME NEW n \in Nat
  PROVE  /\ Dropped(n) \in Nat /\ Dropped(n) <= n
         /\ Dropped(n - Dropped(n) + 1) \in Nat
         /\ Dropped(n - Dropped(n) + 1) <= n - Dropped(n) + 1
         /\ Dropped(n + 1) = Dropped(n) + Dropped(n - Dropped(n) + 1)
BY DashboardAssumption DEF Dropped

LEMMA SameSequence ==
  ASSUME NEW s \in Seq(Nat), NEW t \in Seq(Nat), Len(s) = Len(t),
         \A i \in 1 .. Len(s) : s[i] = t[i]
  PROVE  s = t
OBVIOUS

(* Keeping the last points of the points kept and a new one is keeping the *)
(* last points of all.                                                     *)
LEMMA HistoryGrows ==
  ASSUME NEW s \in Seq(Answers),
         NEW a \in Answers
  PROVE  Slice(Append(Abstract!PointsOf(Abstract!LastOf(MaxHistory, s)), a.point))
         = Abstract!PointsOf(Abstract!LastOf(MaxHistory, Append(s, a)))
<1>1. PICK n \in Nat : n = Len(s)
  OBVIOUS
<1>2a. PICK t : t = Append(s, a)
  OBVIOUS
<1>2. /\ t \in Seq(Answers) /\ Len(t) = n + 1
      /\ (\A i \in 1 .. n : t[i] = s[i]) /\ t[n + 1] = a
  BY <1>2a, <1>1, AppendIs
<1>3a. PICK d, f, e : d = Dropped(n) /\ f = Dropped(n - d + 1) /\ e = Dropped(n + 1)
  OBVIOUS
<1>3b. /\ d \in Nat /\ d <= n /\ f \in Nat /\ f <= n - d + 1
       /\ Dropped(n + 1) = d + f
  BY <1>3a, DroppedAgain
<1>3. /\ d \in Nat /\ d <= n /\ f \in Nat /\ f <= n - d + 1 /\ e = d + f
      /\ n - d + 1 \in Nat /\ n + 1 \in Nat /\ e \in Nat
  BY <1>3a, <1>3b
<1>4a. PICK kept : kept = Abstract!LastOf(MaxHistory, s)
  OBVIOUS
<1>4. /\ kept \in Seq(Answers) /\ Len(kept) = n - d
      /\ \A i \in 1 .. n - d : kept[i] = s[d + i]
  BY <1>4a, <1>1, <1>3a, LastOfIs
<1>5a. PICK h : h = Abstract!PointsOf(kept)
  OBVIOUS
<1>5. /\ h \in Seq(Nat) /\ Len(h) = n - d
      /\ \A i \in 1 .. n - d : h[i] = kept[i].point
  BY <1>5a, <1>4, PointsOfIs
<1>6. a.point \in Nat
  BY DEF Answers
<1>7a. PICK g : g = Append(h, a.point)
  OBVIOUS
<1>7. /\ g \in Seq(Nat) /\ Len(g) = n - d + 1
      /\ (\A i \in 1 .. n - d : g[i] = h[i]) /\ g[n - d + 1] = a.point
  BY <1>7a, <1>5, <1>6, AppendIs
<1>8. \A i \in 1 .. n - d + 1 : g[i] = t[d + i].point
  <2> TAKE i \in 1 .. n - d + 1
  <2>1. CASE i = n - d + 1
    <3>1. d + i = n + 1  BY <2>1, <1>3
    <3> QED  BY <3>1, <2>1, <1>2, <1>7
  <2>2. CASE i \in 1 .. n - d
    <3>1. d + i \in 1 .. n  BY <2>2, <1>3
    <3>2. g[i] = s[d + i].point  BY <2>2, <1>4, <1>5, <1>7
    <3> QED  BY <3>1, <3>2, <1>2
  <2> QED  BY <2>1, <2>2, <1>3
<1>9a. PICK lhs : lhs = Abstract!LastOf(MaxHistory, g)
  OBVIOUS
<1>9. /\ lhs \in Seq(Nat) /\ Len(lhs) = n - d + 1 - f
      /\ \A i \in 1 .. n - d + 1 - f : lhs[i] = g[f + i]
  <2>1. Dropped(Len(g)) = f  BY <1>3a, <1>7
  <2>2. g \in Seq(Nat)  BY <1>7
  <2>3. /\ lhs \in Seq(Nat) /\ Len(lhs) = Len(g) - Dropped(Len(g))
        /\ \A i \in 1 .. Len(g) - Dropped(Len(g)) : lhs[i] = g[Dropped(Len(g)) + i]
    BY <2>2, <1>9a, LastOfIs
  <2>4. Len(g) - Dropped(Len(g)) = n - d + 1 - f  BY <2>1, <1>3, <1>7
  <2>5. \A i \in 1 .. n - d + 1 - f : lhs[i] = g[f + i]
    <3> TAKE i \in 1 .. n - d + 1 - f
    <3> QED  BY <2>1, <2>3, <2>4
  <2> QED  BY <2>3, <2>4, <2>5
<1>10a. PICK last : last = Abstract!LastOf(MaxHistory, t)
  OBVIOUS
<1>10. /\ last \in Seq(Answers) /\ Len(last) = n + 1 - e
      /\ \A i \in 1 .. n + 1 - e : last[i] = t[e + i]
  <2>1. Dropped(Len(t)) = e  BY <1>3a, <1>2
  <2>2. t \in Seq(Answers)  BY <1>2
  <2>3. /\ last \in Seq(Answers) /\ Len(last) = Len(t) - Dropped(Len(t))
        /\ \A i \in 1 .. Len(t) - Dropped(Len(t)) : last[i] = t[Dropped(Len(t)) + i]
    BY <2>2, <1>10a, LastOfIs
  <2>4. Len(t) - Dropped(Len(t)) = n + 1 - e  BY <2>1, <1>3, <1>2
  <2>5. \A i \in 1 .. n + 1 - e : last[i] = t[e + i]
    <3> TAKE i \in 1 .. n + 1 - e
    <3> QED  BY <2>1, <2>3, <2>4
  <2> QED  BY <2>3, <2>4, <2>5
<1>11a. PICK rhs : rhs = Abstract!PointsOf(last)
  OBVIOUS
<1>11. /\ rhs \in Seq(Nat) /\ Len(rhs) = n + 1 - e
      /\ \A i \in 1 .. n + 1 - e : rhs[i] = last[i].point
  BY <1>11a, <1>10, PointsOfIs
<1>12. Len(lhs) = Len(rhs)
  BY <1>3, <1>9, <1>11
<1>13. \A i \in 1 .. Len(lhs) : lhs[i] = rhs[i]
  <2> TAKE i \in 1 .. Len(lhs)
  <2>1. i \in 1 .. n - d + 1 - f /\ i \in 1 .. n + 1 - e /\ f + i \in 1 .. n - d + 1
    BY <1>3, <1>9
  <2>2. lhs[i] = t[d + (f + i)].point  BY <2>1, <1>8, <1>9
  <2>3. rhs[i] = t[e + i].point        BY <2>1, <1>10, <1>11
  <2>4. d + (f + i) = e + i            BY <1>3, <2>1
  <2> QED  BY <2>2, <2>3, <2>4
<1>14. lhs = rhs
  <2>1. lhs \in Seq(Nat) /\ rhs \in Seq(Nat)  BY <1>9, <1>11
  <2> QED  BY <2>1, <1>12, <1>13, SameSequence
<1>15. Slice(g) = lhs
  BY <1>7, <1>9a, SliceIsLast
<1> QED  BY <1>2a, <1>4a, <1>5a, <1>7a, <1>9a, <1>10a, <1>11a, <1>14, <1>15

-----------------------------------------------------------------------------
(* Places in an order, and an element put at one. *)

(* A strict total order of the places 1 .. n, as a set of pairs. *)
Orders(R, n) ==
    /\ \A i \in 1 .. n : <<i, i>> \notin R
    /\ \A i, j, k \in 1 .. n : <<i, j>> \in R /\ <<j, k>> \in R => <<i, k>> \in R
    /\ \A i, j \in 1 .. n : i # j => <<i, j>> \in R \/ <<j, i>> \in R

Ahead(R, n, i) == {j \in 1 .. n : <<j, i>> \in R}
PlaceIn(R, n, i) == Cardinality(Ahead(R, n, i))

LEMMA AheadIs ==
    ASSUME NEW n \in Nat, NEW R, NEW i
    PROVE  IsFiniteSet(Ahead(R, n, i)) /\ PlaceIn(R, n, i) \in 0 .. n
<1>1. IsFiniteSet(1 .. n) /\ Cardinality(1 .. n) = n
  BY FS_Interval
<1>2. Ahead(R, n, i) \in SUBSET (1 .. n)
  BY DEF Ahead
<1>3. IsFiniteSet(Ahead(R, n, i)) /\ Cardinality(Ahead(R, n, i)) <= n
  BY <1>1, <1>2, FS_Subset
<1>4. Cardinality(Ahead(R, n, i)) \in Nat
  BY <1>3, FS_CardinalityType
<1> QED  BY <1>3, <1>4 DEF PlaceIn

(* What is ahead of i is ahead of k too when i itself is. *)
LEMMA PlaceLess ==
    ASSUME NEW n \in Nat, NEW R, NEW N \in Nat, n <= N, Orders(R, N),
           NEW i \in 1 .. n, NEW k \in 1 .. N, <<i, k>> \in R
    PROVE  PlaceIn(R, n, i) < PlaceIn(R, n, k)
<1>0. \A j \in 1 .. n : j \in 1 .. N
  OBVIOUS
<1>1. Ahead(R, n, i) \subseteq Ahead(R, n, k)
  BY <1>0 DEF Ahead, Orders
<1>2. i \in Ahead(R, n, k) /\ i \notin Ahead(R, n, i)
  BY <1>0 DEF Ahead, Orders
<1>3. IsFiniteSet(Ahead(R, n, k)) /\ PlaceIn(R, n, k) \in 0 .. n
  BY AheadIs
<1>4. PlaceIn(R, n, i) \in 0 .. n
  BY AheadIs
<1>5. PlaceIn(R, n, i) <= PlaceIn(R, n, k) /\ PlaceIn(R, n, i) # PlaceIn(R, n, k)
  BY <1>1, <1>2, <1>3, FS_Subset DEF PlaceIn
<1> QED  BY <1>3, <1>4, <1>5

(* The n places are taken, each by one of the n. *)
LEMMA PlaceIs ==
    ASSUME NEW n \in Nat, NEW R, Orders(R, n)
    PROVE  /\ \A i \in 1 .. n : 1 + PlaceIn(R, n, i) \in 1 .. n
           /\ \A i, k \in 1 .. n : PlaceIn(R, n, i) = PlaceIn(R, n, k) => i = k
           /\ \A m \in 1 .. n : \E i \in 1 .. n : m = 1 + PlaceIn(R, n, i)
<1>1. IsFiniteSet(1 .. n) /\ Cardinality(1 .. n) = n
  BY FS_Interval
<1>2. ASSUME NEW i \in 1 .. n PROVE 1 + PlaceIn(R, n, i) \in 1 .. n
  <2>1. Ahead(R, n, i) \in SUBSET (1 .. n) /\ i \notin Ahead(R, n, i)
    BY DEF Ahead, Orders
  <2>2. PlaceIn(R, n, i) # n
    BY <1>1, <2>1, FS_Subset DEF PlaceIn
  <2>3. PlaceIn(R, n, i) \in 0 .. n
    BY AheadIs
  <2> QED  BY <2>2, <2>3
<1>3. ASSUME NEW i \in 1 .. n, NEW k \in 1 .. n, i # k
      PROVE  PlaceIn(R, n, i) # PlaceIn(R, n, k)
  <2>1. <<i, k>> \in R \/ <<k, i>> \in R
    BY <1>3 DEF Orders
  <2>2. n <= n
    OBVIOUS
  <2>3. PlaceIn(R, n, i) \in Int /\ PlaceIn(R, n, k) \in Int
    BY AheadIs
  <2>4. CASE <<i, k>> \in R
    <3>1. PlaceIn(R, n, i) < PlaceIn(R, n, k)
      BY <2>2, <2>4, PlaceLess
    <3> QED  BY <2>3, <3>1
  <2>5. CASE <<k, i>> \in R
    <3>1. PlaceIn(R, n, k) < PlaceIn(R, n, i)
      BY <2>2, <2>5, PlaceLess
    <3> QED  BY <2>3, <3>1
  <2> QED  BY <2>1, <2>4, <2>5
<1> DEFINE p == [i \in 1 .. n |-> 1 + PlaceIn(R, n, i)]
<1>4. p \in Injection(1 .. n, 1 .. n)
  <2>1. p \in [1 .. n -> 1 .. n]
    BY <1>2
  <2>2. \A i, k \in 1 .. n : 1 + PlaceIn(R, n, i) = 1 + PlaceIn(R, n, k) => i = k
    <3> SUFFICES ASSUME NEW i \in 1 .. n, NEW k \in 1 .. n,
                        1 + PlaceIn(R, n, i) = 1 + PlaceIn(R, n, k)
                 PROVE  i = k
      OBVIOUS
    <3>1. PlaceIn(R, n, i) \in Int /\ PlaceIn(R, n, k) \in Int
      BY AheadIs
    <3>2. PlaceIn(R, n, i) = PlaceIn(R, n, k)
      BY <3>1
    <3> QED  BY <1>3, <3>2
  <2> QED  BY <2>1, <2>2 DEF Injection, IsInjective
<1>5. p \in Surjection(1 .. n, 1 .. n)
  <2> HIDE DEF p
  <2> QED  BY <1>1, <1>4, FS_Injection
<1>6. \A m \in 1 .. n : \E i \in 1 .. n : m = 1 + PlaceIn(R, n, i)
  BY <1>5 DEF Surjection
<1> QED  BY <1>2, <1>3, <1>6

(* u is t, of length n, with e put behind its first k. *)
PutBehind(u, t, n, k, e) ==
    /\ Len(u) = n + 1 /\ u[1 + k] = e
    /\ \A i \in 1 .. n : i <= k => u[i] = t[i]
    /\ \A i \in 1 .. n : i > k => u[i + 1] = t[i]

LEMMA InsertAtIs ==
    ASSUME NEW T, NEW t \in Seq(T), NEW e \in T, NEW n \in Nat, Len(t) = n, NEW k \in 0 .. n
    PROVE  /\ InsertAt(t, 1 + k, e) \in Seq(T)
           /\ PutBehind(InsertAt(t, 1 + k, e), t, n, k, e)
<1> DEFINE a == SubSeq(t, 1, 1 + k - 1)
           b == SubSeq(t, 1 + k, n)
           c == a \o <<e>>
<1>1. /\ a \in Seq(T) /\ Len(a) = k /\ b \in Seq(T) /\ Len(b) = n - k /\ k \in Nat
      /\ \A i \in 1 .. k : a[i] = t[i]
      /\ \A i \in 1 .. n - k : b[i] = t[k + i]
  OBVIOUS
<1>2. InsertAt(t, 1 + k, e) = c \o b
  BY DEF InsertAt
<1>3. /\ c \in Seq(T) /\ Len(c) = k + 1 /\ c[k + 1] = e
      /\ \A i \in 1 .. k : c[i] = a[i]
  <2> HIDE DEF a
  <2> QED  BY <1>1
<1> HIDE DEF a, b, c
<1>4. /\ c \o b \in Seq(T) /\ Len(c \o b) = n + 1
      /\ \A i \in 1 .. k + 1 : (c \o b)[i] = c[i]
  <2>1. c \in Seq(T) /\ Len(c) = k + 1 /\ b \in Seq(T) /\ Len(b) = n - k
    BY <1>1, <1>3
  <2>2. \A i \in 1 .. Len(c) : (c \o b)[i] = c[i]
    BY <2>1
  <2>3. Len(c \o b) = Len(c) + Len(b) /\ c \o b \in Seq(T)
    BY <2>1
  <2> QED  BY <1>1, <2>1, <2>2, <2>3
<1>5. ASSUME NEW i \in 1 .. n, i > k PROVE (c \o b)[i + 1] = t[i]
  <2>1. i - k \in 1 .. n - k /\ i + 1 \in 1 .. Len(c) + Len(b) /\ i + 1 > Len(c)
        /\ i + 1 - Len(c) = i - k /\ k + (i - k) = i
    BY <1>1, <1>3, <1>5
  <2>2. (c \o b)[i + 1] = b[i + 1 - Len(c)]
    BY <1>1, <1>3, <2>1
  <2> QED  BY <1>1, <2>1, <2>2
<1>6. ASSUME NEW i \in 1 .. n, i <= k PROVE (c \o b)[i] = t[i]
  <2>1. i \in 1 .. k /\ i \in 1 .. k + 1
    BY <1>1, <1>6
  <2> QED  BY <1>1, <1>3, <1>4, <2>1
<1>7. (c \o b)[1 + k] = e
  <2>1. 1 + k = k + 1 /\ k + 1 \in 1 .. k + 1
    BY <1>1
  <2> QED  BY <1>3, <1>4, <2>1
<1> QED  BY <1>2, <1>4, <1>5, <1>6, <1>7 DEF PutBehind

-----------------------------------------------------------------------------
(* A table is sorted. *)

Placed(R, n, t, rows) == \A i \in 1 .. n : t[1 + PlaceIn(R, n, i)] = rows[i]

(* One row more, put behind as many as are to come before it. *)
LEMMA OneMorePlaced ==
    ASSUME NEW T, NEW n \in Nat, NEW R, Orders(R, n + 1), NEW rows, rows[n + 1] \in T,
           NEW t \in Seq(T), Len(t) = n, Placed(R, n, t, rows),
           NEW k, k = PlaceIn(R, n, n + 1)
    PROVE  /\ InsertAt(t, 1 + k, rows[n + 1]) \in Seq(T)
           /\ Len(InsertAt(t, 1 + k, rows[n + 1])) = n + 1
           /\ Placed(R, n + 1, InsertAt(t, 1 + k, rows[n + 1]), rows)
<1> DEFINE u == InsertAt(t, 1 + k, rows[n + 1])
<1>1. k \in 0 .. n
  BY AheadIs
<1>2. /\ u \in Seq(T) /\ Len(u) = n + 1 /\ u[1 + k] = rows[n + 1]
      /\ \A i \in 1 .. n : i <= k => u[i] = t[i]
      /\ \A i \in 1 .. n : i > k => u[i + 1] = t[i]
  <2>1. u \in Seq(T) /\ PutBehind(u, t, n, k, rows[n + 1])
    BY <1>1, InsertAtIs
  <2> QED  BY <2>1 DEF PutBehind
<1> HIDE DEF u
<1>3. /\ Orders(R, n) /\ n + 1 \in 1 .. n + 1 /\ n + 1 \in Nat /\ n <= n + 1
      /\ \A i \in 1 .. n : i \in 1 .. n + 1 /\ i # n + 1
  <2>1. \A i \in 1 .. n : i \in 1 .. n + 1 /\ i # n + 1
    OBVIOUS
  <2>2. Orders(R, n)
    BY <2>1 DEF Orders
  <2> QED  BY <2>1, <2>2
<1>4. u[1 + PlaceIn(R, n + 1, n + 1)] = rows[n + 1]
  <2>1. Ahead(R, n + 1, n + 1) = Ahead(R, n, n + 1)
    <3>1. <<n + 1, n + 1>> \notin R
      BY <1>3 DEF Orders
    <3>2. \A j \in 1 .. n + 1 : j \in 1 .. n \/ j = n + 1
      OBVIOUS
    <3> QED  BY <1>3, <3>1, <3>2 DEF Ahead
  <2> QED  BY <1>2, <2>1 DEF PlaceIn
<1>5. ASSUME NEW i \in 1 .. n PROVE u[1 + PlaceIn(R, n + 1, i)] = rows[i]
  <2> DEFINE a == PlaceIn(R, n, i)
  <2>1. 1 + a \in 1 .. n /\ t[1 + a] = rows[i] /\ a \in Nat
    <3>1. 1 + a \in 1 .. n
      BY <1>3, PlaceIs
    <3>2. a \in Nat
      BY AheadIs
    <3> QED  BY <3>1, <3>2 DEF Placed
  <2>2. <<n + 1, i>> \in R \/ <<i, n + 1>> \in R
    BY <1>3 DEF Orders
  <2>3. CASE <<n + 1, i>> \in R
    <3>1. k <= a
      <4>1. Ahead(R, n, n + 1) \subseteq Ahead(R, n, i)
        BY <1>3, <2>3 DEF Ahead, Orders
      <4>2. IsFiniteSet(Ahead(R, n, i))
        BY AheadIs
      <4> QED  BY <4>1, <4>2, FS_Subset DEF PlaceIn
    <3>2. PlaceIn(R, n + 1, i) = a + 1
      <4>1. Ahead(R, n + 1, i) = Ahead(R, n, i) \cup {n + 1} /\ n + 1 \notin Ahead(R, n, i)
        <5>1. \A j \in 1 .. n + 1 : j \in 1 .. n \/ j = n + 1
          OBVIOUS
        <5> QED  BY <1>3, <2>3, <5>1 DEF Ahead
      <4>2. IsFiniteSet(Ahead(R, n, i))
        BY AheadIs
      <4> QED  BY <4>1, <4>2, FS_AddElement DEF PlaceIn
    <3> HIDE DEF a
    <3>3. u[(1 + a) + 1] = t[1 + a] /\ 1 + (a + 1) = (1 + a) + 1
      BY <1>1, <1>2, <2>1, <3>1
    <3> QED  BY <2>1, <3>2, <3>3
  <2>4. CASE <<i, n + 1>> \in R
    <3>1. a < k
      BY <1>3, <2>4, PlaceLess
    <3>2. PlaceIn(R, n + 1, i) = a
      <4>1. <<n + 1, i>> \notin R
        BY <1>3, <2>4 DEF Orders
      <4>2. Ahead(R, n + 1, i) = Ahead(R, n, i)
        <5>1. \A j \in 1 .. n + 1 : j \in 1 .. n \/ j = n + 1
          OBVIOUS
        <5> QED  BY <1>3, <4>1, <5>1 DEF Ahead
      <4> QED  BY <4>2 DEF PlaceIn
    <3> HIDE DEF a
    <3>3. u[1 + a] = t[1 + a]
      BY <1>1, <1>2, <2>1, <3>1
    <3> QED  BY <2>1, <3>2, <3>3
  <2> QED  BY <2>2, <2>3, <2>4
<1>6. \A i \in 1 .. n + 1 : i \in 1 .. n \/ i = n + 1
  OBVIOUS
<1> QED  BY <1>2, <1>4, <1>5, <1>6 DEF Placed, u

(* How many of the rows that are placed a new one is not smaller than: as  *)
(* many as come before it.                                                 *)
Behind(t, row, s) == {i \in DOMAIN t : Compare(row, t[i], s) >= 0}

LEMMA BehindIs ==
    ASSUME NEW n \in Nat, NEW R, Orders(R, n), NEW rows, NEW t, Len(t) = n,
           DOMAIN t = 1 .. n, Placed(R, n, t, rows), NEW s, NEW row, NEW m,
           \A j \in 1 .. n : Compare(row, rows[j], s) >= 0 <=> <<j, m>> \in R
    PROVE  Cardinality(Behind(t, row, s)) = PlaceIn(R, n, m)
<1> DEFINE P(i) == 1 + PlaceIn(R, n, i)
           J == Ahead(R, n, m)
           M == {i \in DOMAIN t : Compare(row, t[i], s) >= 0}
           f == [j \in J |-> P(j)]
<1>1. /\ \A i \in 1 .. n : P(i) \in 1 .. n
      /\ \A i, k \in 1 .. n : P(i) = P(k) => i = k
      /\ \A i \in 1 .. n : \E k \in 1 .. n : i = P(k)
  <2>1. \A i \in 1 .. n : PlaceIn(R, n, i) \in Int
    BY AheadIs
  <2>2. \A i, k \in 1 .. n : P(i) = P(k) => PlaceIn(R, n, i) = PlaceIn(R, n, k)
    BY <2>1
  <2>3. \A i, k \in 1 .. n : PlaceIn(R, n, i) = PlaceIn(R, n, k) => i = k
    BY PlaceIs
  <2>4. \A i \in 1 .. n : P(i) \in 1 .. n
    BY PlaceIs
  <2>5. \A i \in 1 .. n : \E k \in 1 .. n : i = P(k)
    BY PlaceIs
  <2> QED  BY <2>2, <2>3, <2>4, <2>5
<1>2. \A i \in 1 .. n : t[P(i)] = rows[i]
  BY DEF Placed
<1>3. IsFiniteSet(J) /\ J \subseteq 1 .. n
  BY AheadIs DEF Ahead
<1>4. \A i \in 1 .. n : P(i) \in M <=> i \in J
  BY <1>1, <1>2 DEF Ahead
<1>5. \A i \in M : \E k \in J : i = P(k)
  BY <1>1, <1>4
<1> HIDE DEF P, J, M
<1>6. f \in Bijection(J, M)
  BY <1>1, <1>3, <1>4, <1>5 DEF Bijection, Injection, Surjection, IsInjective
<1>7. ExistsBijection(J, M)
  BY <1>6 DEF ExistsBijection
<1>8. Cardinality(M) = Cardinality(J)
  BY <1>3, <1>7, FS_Bijection
<1> QED  BY <1>8 DEF J, M, PlaceIn, Behind

(* The order of the rows of a table by a column that all of them have.     *)
Cell == Int \cup {Null}
Earlier(rows, s) ==
    {p \in (1 .. Len(rows)) \X (1 .. Len(rows)) : Before(rows, s, p[1], p[2])}

LEMMA EarlierOrders ==
    ASSUME NEW C, NEW rows \in Seq([C -> Cell]), NEW s, s.col \in C, s.col # Null
    PROVE  /\ Orders(Earlier(rows, s), Len(rows))
           /\ \A i, j \in 1 .. Len(rows) :
                j < i => (Compare(rows[i], rows[j], s) >= 0 <=> <<j, i>> \in Earlier(rows, s))
<1> DEFINE N == Len(rows)
           c == s.col
           B(i, j) == Before(rows, s, i, j)
<1>1. \A i \in 1 .. N : rows[i][c] \in Cell
  OBVIOUS
<1>2. N \in Nat /\ Null \notin Int
  BY RowsAssumption
<1>3. \A i, j \in 1 .. N : <<i, j>> \in Earlier(rows, s) <=> B(i, j)
  BY DEF Earlier
<1>4. \A i, j : B(i, j) <=>
          \/ rows[i][c] = rows[j][c] /\ i < j
          \/ rows[i][c] # rows[j][c] /\ rows[j][c] = Null
          \/ /\ rows[i][c] # rows[j][c] /\ rows[i][c] # Null
             /\ IF s.asc THEN rows[i][c] < rows[j][c] ELSE rows[i][c] > rows[j][c]
  BY DEF Before
<1>5. \A i, j : Compare(rows[i], rows[j], s) =
          IF rows[i][c] = Null THEN 1
          ELSE IF rows[j][c] = Null THEN -1
          ELSE IF s.asc THEN rows[i][c] - rows[j][c] ELSE rows[j][c] - rows[i][c]
  BY DEF Compare
<1> HIDE DEF B, N, c
<1>6. \A i \in 1 .. N : ~B(i, i)
  BY <1>1, <1>2, <1>4 DEF Cell
<1>7. \A i, j \in 1 .. N : i # j => B(i, j) \/ B(j, i)
  <2> SUFFICES ASSUME NEW i \in 1 .. N, NEW j \in 1 .. N, i # j PROVE B(i, j) \/ B(j, i)
    OBVIOUS
  <2>1. i \in Int /\ j \in Int
    BY <1>2
  <2> QED  BY <1>1, <1>2, <1>4, <2>1 DEF Cell
<1>8. \A i, j, k \in 1 .. N : B(i, j) /\ B(j, k) => B(i, k)
  <2> SUFFICES ASSUME NEW i \in 1 .. N, NEW j \in 1 .. N, NEW k \in 1 .. N, B(i, j), B(j, k)
               PROVE  B(i, k)
    OBVIOUS
  <2>1. i \in Int /\ j \in Int /\ k \in Int
    BY <1>2
  <2>2. rows[i][c] \in Cell /\ rows[j][c] \in Cell /\ rows[k][c] \in Cell
    BY <1>1
  <2> QED  BY <1>2, <1>4, <2>1, <2>2 DEF Cell
<1>9. \A i, j \in 1 .. N : j < i => (Compare(rows[i], rows[j], s) >= 0 <=> B(j, i))
  <2> SUFFICES ASSUME NEW i \in 1 .. N, NEW j \in 1 .. N, j < i
               PROVE  Compare(rows[i], rows[j], s) >= 0 <=> B(j, i)
    OBVIOUS
  <2>1. rows[i][c] \in Cell /\ rows[j][c] \in Cell
    BY <1>1
  <2>2. CASE rows[i][c] = Null
    <3>1. Compare(rows[i], rows[j], s) = 1
      BY <1>5, <2>2
    <3>2. B(j, i)
      BY <1>4, <2>2
    <3> QED  BY <3>1, <3>2
  <2>3. CASE rows[i][c] # Null /\ rows[j][c] = Null
    <3>1. Compare(rows[i], rows[j], s) = -1
      BY <1>5, <2>3
    <3>2. ~B(j, i)
      BY <1>4, <2>3
    <3> QED  BY <3>1, <3>2
  <2>4. CASE rows[i][c] # Null /\ rows[j][c] # Null
    <3>1. rows[i][c] \in Int /\ rows[j][c] \in Int
      BY <2>1, <2>4 DEF Cell
    <3>2. Compare(rows[i], rows[j], s) =
            IF s.asc THEN rows[i][c] - rows[j][c] ELSE rows[j][c] - rows[i][c]
      BY <1>5, <2>4
    <3>3. B(j, i) <=> IF s.asc THEN rows[j][c] <= rows[i][c] ELSE rows[j][c] >= rows[i][c]
      BY <1>4, <2>4, <3>1
    <3> QED  BY <3>1, <3>2, <3>3
  <2> QED  BY <2>2, <2>3, <2>4
<1> QED  BY <1>3, <1>6, <1>7, <1>8, <1>9 DEF Orders, N

(* DataTable inserts the rows one after the other: its recursive function  *)
(* exists.                                                                 *)
LEMMA InsertsRows ==
    ASSUME NEW rows, NEW s, s.col # Null
    PROVE  \E t : /\ t[0] = <<>>
                  /\ \A n \in Nat : n # 0 => t[n] = InsertRow(t[n - 1], rows[n], s)
                  /\ DataTable(rows, s) = t[Len(rows)]
<1> DEFINE Next1(a, n) == InsertRow(a, rows[n], s)
           IsTable(f) == f = [n \in Nat |-> IF n = 0 THEN <<>> ELSE Next1(f[n - 1], n)]
           Upto(g, n) == g[0] = <<>> /\ \A i \in 1 .. n : g[i] = Next1(g[i - 1], i)
           F == CHOOSE f : IsTable(f)
<1>0. DataTable(rows, s) = F[Len(rows)]
  BY DEF DataTable
<1> HIDE DEF Next1
<1>1. \A n \in Nat : \E g : Upto(g, n)
  <2> DEFINE Bad == {n \in Nat : ~\E g : Upto(g, n)}
  <2>1. SUFFICES ASSUME Bad # {} PROVE FALSE
    OBVIOUS
  <2>2. PICK m \in Bad : \A n \in Bad : m <= n
    <3> HIDE DEF Bad
    <3>1. Bad \in SUBSET Nat
      BY DEF Bad
    <3> QED  BY <2>1, <3>1, LeastNat
  <2>3. m # 0
    <3>1. Upto([i \in Nat |-> <<>>], 0)
      OBVIOUS
    <3> QED  BY <3>1
  <2>4. m \in Nat /\ m - 1 \in Nat /\ m - 1 \notin Bad
    <3>1. m \in Nat
      BY <2>2
    <3> HIDE DEF Bad
    <3> QED  BY <2>2, <2>3, <3>1
  <2>5. PICK g : Upto(g, m - 1)
    BY <2>4
  <2> DEFINE h == [i \in Nat |-> IF i = m THEN Next1(g[m - 1], m) ELSE g[i]]
  <2>6. Upto(h, m)
    <3>1. h[0] = <<>>
      BY <2>3, <2>5
    <3>2. ASSUME NEW i \in 1 .. m PROVE h[i] = Next1(h[i - 1], i)
      <4>1. CASE i = m
        BY <2>4, <4>1
      <4>2. CASE i # m
        <5>1. i \in 1 .. m - 1 /\ i - 1 \in Nat /\ i \in Nat /\ i - 1 # m
          BY <2>4, <4>2
        <5> QED  BY <2>5, <4>2, <5>1
      <4> QED  BY <4>1, <4>2
    <3> QED  BY <3>1, <3>2
  <2> QED  BY <2>2, <2>6
<1>2. ASSUME NEW g, NEW h, NEW m \in Nat, NEW n \in Nat, m <= n, Upto(g, m), Upto(h, n)
      PROVE  g[m] = h[m]
  <2> DEFINE Bad == {i \in 0 .. m : g[i] # h[i]}
  <2>1. SUFFICES ASSUME Bad # {} PROVE FALSE
    BY <1>2
  <2>2. PICK i \in Bad : \A j \in Bad : i <= j
    <3> HIDE DEF Bad
    <3>1. Bad \in SUBSET Nat
      BY DEF Bad
    <3> QED  BY <2>1, <3>1, LeastNat
  <2>3. i # 0
    BY <1>2, <2>2
  <2>4. i \in 1 .. m /\ i \in 1 .. n /\ i - 1 \in 0 .. m /\ i - 1 \notin Bad
    BY <1>2, <2>2, <2>3
  <2>5. g[i - 1] = h[i - 1]
    BY <2>4
  <2>6. g[i] = h[i]
    BY <1>2, <2>4, <2>5
  <2> QED  BY <2>2, <2>6
<1> HIDE DEF Upto
<1> DEFINE G(n) == CHOOSE g : Upto(g, n)
           f == [n \in Nat |-> G(n)[n]]
<1>3. \A n \in Nat : Upto(G(n), n)
  BY <1>1
<1> HIDE DEF G
<1>4. f[0] = <<>>
  <2>1. Upto(G(0), 0)
    BY <1>3
  <2> QED  BY <2>1 DEF Upto
<1>5. ASSUME NEW n \in Nat, n # 0 PROVE f[n] = Next1(f[n - 1], n)
  <2>1. n - 1 \in Nat /\ n \in 1 .. n /\ n - 1 <= n
    BY <1>5
  <2>2. Upto(G(n), n) /\ Upto(G(n - 1), n - 1)
    BY <1>3, <2>1
  <2>3. G(n)[n] = Next1(G(n)[n - 1], n)
    BY <2>1, <2>2 DEF Upto
  <2>4. G(n - 1)[n - 1] = G(n)[n - 1]
    BY <1>2, <2>1, <2>2
  <2>5. f[n] = G(n)[n] /\ f[n - 1] = G(n - 1)[n - 1]
    BY <2>1
  <2> QED  BY <2>3, <2>4, <2>5
<1>6. IsTable(f)
  <2> HIDE DEF f
  <2>1. \A n \in Nat : f[n] = IF n = 0 THEN <<>> ELSE Next1(f[n - 1], n)
    BY <1>4, <1>5
  <2>2. DOMAIN f = Nat /\ f = [n \in DOMAIN f |-> f[n]]
    BY DEF f
  <2> QED  BY <2>1, <2>2
<1>7. IsTable(F)
  BY <1>6
<1>8. F[0] = <<>> /\ \A n \in Nat : n # 0 => F[n] = Next1(F[n - 1], n)
  <2> HIDE DEF F
  <2> QED  BY <1>7
<1> QED  BY <1>0, <1>8 DEF Next1

(* A table that is sorted has each row at the place that is as far down as *)
(* there are rows to come before it.                                       *)
LEMMA TableSorted ==
    ASSUME NEW C, NEW rows \in Seq([C -> Cell]), NEW s, s.col \in C, s.col # Null
    PROVE  /\ Len(DataTable(rows, s)) = Len(rows)
           /\ \A i \in 1 .. Len(rows) :
                DataTable(rows, s)[1 + PlaceIn(Earlier(rows, s), Len(rows), i)] = rows[i]
<1> DEFINE N == Len(rows)
           R == Earlier(rows, s)
           T == [C -> Cell]
<1>1. PICK t : /\ t[0] = <<>>
               /\ \A n \in Nat : n # 0 => t[n] = InsertRow(t[n - 1], rows[n], s)
               /\ DataTable(rows, s) = t[N]
  BY InsertsRows
<1>2. /\ Orders(R, N)
      /\ \A i, j \in 1 .. N : j < i => (Compare(rows[i], rows[j], s) >= 0 <=> <<j, i>> \in R)
  BY EarlierOrders
<1>3. N \in Nat /\ \A i \in 1 .. N : rows[i] \in T
  OBVIOUS
<1> DEFINE Right(n) == t[n] \in Seq(T) /\ Len(t[n]) = n /\ Placed(R, n, t[n], rows)
           Bad == {n \in 0 .. N : ~Right(n)}
<1> HIDE DEF N, R, T
<1>4. Right(0)
  <2>1. t[0] \in Seq(T) /\ Len(t[0]) = 0
    BY <1>1
  <2>2. Placed(R, 0, t[0], rows)
    BY DEF Placed
  <2> QED  BY <2>1, <2>2
<1>5. ASSUME NEW n \in Nat, n + 1 <= N, Right(n) PROVE Right(n + 1)
  <2> DEFINE u == t[n]
             row == rows[n + 1]
             k == PlaceIn(R, n, n + 1)
  <2>1. n + 1 \in 1 .. N /\ (\A j \in 1 .. n : j \in 1 .. N /\ j < n + 1)
    BY <1>3, <1>5
  <2>2. Orders(R, n) /\ Orders(R, n + 1)
    <3>1. \A j \in 1 .. n + 1 : j \in 1 .. N
      BY <1>3, <1>5
    <3>2. \A j \in 1 .. n : j \in 1 .. N
      BY <2>1
    <3> QED  BY <1>2, <3>1, <3>2 DEF Orders
  <2>3. \A j \in 1 .. n : Compare(row, rows[j], s) >= 0 <=> <<j, n + 1>> \in R
    BY <1>2, <2>1
  <2>4. u \in Seq(T) /\ Len(u) = n /\ DOMAIN u = 1 .. n /\ Placed(R, n, u, rows)
    BY <1>5
  <2>5. t[n + 1] = InsertRow(u, row, s)
    <3>1. n + 1 \in Nat /\ n + 1 # 0 /\ n + 1 - 1 = n
      OBVIOUS
    <3>2. t[n + 1] = InsertRow(t[n + 1 - 1], rows[n + 1], s)
      BY <1>1, <3>1
    <3> QED  BY <3>1, <3>2
  <2> HIDE DEF u
  <2>6. Cardinality(Behind(u, row, s)) = k
    <3>1. PICK m : m = n + 1
      OBVIOUS
    <3>2. \A j \in 1 .. n : Compare(row, rows[j], s) >= 0 <=> <<j, m>> \in R
      BY <2>3, <3>1
    <3> HIDE DEF row
    <3>3. Cardinality(Behind(u, row, s)) = PlaceIn(R, n, m)
      BY <2>2, <2>4, <3>2, BehindIs
    <3> QED  BY <3>1, <3>3
  <2>7. t[n + 1] = InsertAt(u, 1 + k, row)
    BY <2>5, <2>6 DEF InsertRow, Behind
  <2>8. rows[n + 1] \in T
    BY <1>3, <2>1
  <2>9. /\ InsertAt(u, 1 + k, row) \in Seq(T) /\ Len(InsertAt(u, 1 + k, row)) = n + 1
        /\ Placed(R, n + 1, InsertAt(u, 1 + k, row), rows)
    <3> HIDE DEF k
    <3> QED  BY <2>2, <2>4, <2>8, OneMorePlaced DEF k
  <2> QED  BY <2>7, <2>9
<1>6. Bad = {}
  <2>1. SUFFICES ASSUME Bad # {} PROVE FALSE
    OBVIOUS
  <2>2. PICK m \in Bad : \A n \in Bad : m <= n
    <3>1. Bad \in SUBSET Nat
      OBVIOUS
    <3> HIDE DEF Bad
    <3> QED  BY <2>1, <3>1, LeastNat
  <2> HIDE DEF Right
  <2>3. m \in 0 .. N /\ ~Right(m) /\ m # 0
    BY <1>4, <2>2
  <2>4. m - 1 \in 0 .. N /\ m - 1 \in Nat /\ m - 1 < m /\ m - 1 + 1 = m /\ m <= N
    BY <1>3, <2>3
  <2>5. Right(m - 1)
    BY <2>2, <2>4
  <2> QED  BY <1>5, <2>3, <2>4, <2>5
<1>7. Right(N)
  <2>1. N \in 0 .. N
    BY <1>3
  <2> HIDE DEF Right
  <2> QED  BY <1>6, <2>1
<1> QED  BY <1>1, <1>7 DEF N, R, Placed

-----------------------------------------------------------------------------
(* Division, and numerals. *)

LEMMA DivIs ==
    ASSUME NEW x \in Nat, NEW y \in Nat \ {0}
    PROVE  /\ x \div y \in Nat
           /\ y * (x \div y) <= x /\ x < y * (x \div y) + y
OBVIOUS

LEMMA TimesGrows ==
    ASSUME NEW a \in Int, NEW b \in Int, NEW c \in Nat, a <= b
    PROVE  c * a <= c * b
OBVIOUS

(* r is n / den, rounded to a whole number. *)
Nearest(r, n, den) == r \in Nat /\ 2 * (r * den) <= 2 * n + den /\ 2 * n < 2 * (r * den) + den

LEMMA ToFixedIs ==
    ASSUME NEW num \in Nat, NEW den \in Nat \ {0}, NEW scale \in Nat
    PROVE  Nearest(ToFixed(num, den, scale), num * scale, den)
<1>1. PICK n \in Nat : n = num * scale
  OBVIOUS
<1>2. PICK x \in Nat, y \in Nat \ {0} : x = 2 * n + den /\ y = 2 * den
  BY <1>1
<1>3. PICK r : r = x \div y
  OBVIOUS
<1>4. r \in Nat /\ y * r <= x /\ x < y * r + y
  BY <1>2, <1>3, DivIs
<1>5. PICK p \in Int : p = r * den
  BY <1>4
<1>6. y * r = 2 * p
  BY <1>2, <1>4, <1>5
<1>7. 2 * p <= 2 * n + den /\ 2 * n < 2 * p + den
  BY <1>1, <1>2, <1>4, <1>5, <1>6
<1>8. Nearest(r, n, den)
  BY <1>4, <1>5, <1>7 DEF Nearest
<1>9. ToFixed(num, den, scale) = r
  <2>1. 2 * num * scale + den = x
    BY <1>1, <1>2
  <2> QED  BY <2>1, <1>2, <1>3 DEF ToFixed
<1> QED  BY <1>1, <1>8, <1>9

LEMMA NearestGrows ==
    ASSUME NEW n \in Nat, NEW m \in Nat, n <= m, NEW den \in Nat \ {0},
           NEW r, NEW q, Nearest(r, n, den), Nearest(q, m, den)
    PROVE  r <= q
<1>1. r \in Nat /\ q \in Nat
  BY DEF Nearest
<1>2. PICK x \in Int, y \in Int : x = den * r /\ y = den * q
  BY <1>1
<1>3. 2 * x <= 2 * n + den /\ 2 * m < 2 * y + den
  BY <1>1, <1>2 DEF Nearest
<1>4. ASSUME q + 1 <= r PROVE FALSE
  <2>1. den * (q + 1) <= den * r
    BY <1>1, <1>4, TimesGrows
  <2>2. den * (q + 1) = y + den
    BY <1>1, <1>2
  <2> QED  BY <1>2, <1>3, <2>1, <2>2
<1> QED  BY <1>1, <1>4

LEMMA NearestMost ==
    ASSUME NEW n \in Nat, NEW den \in Nat \ {0}, NEW m \in Nat, n <= m * den,
           NEW r, Nearest(r, n, den)
    PROVE  r <= m
<1>1. m * den \in Nat
  OBVIOUS
<1>2. Nearest(m, m * den, den)
  <2>1. PICK p \in Nat : p = m * den
    BY <1>1
  <2>2. 2 * p <= 2 * p + den /\ 2 * p < 2 * p + den
    BY <2>1
  <2> QED  BY <2>1, <2>2 DEF Nearest
<1> QED  BY <1>1, <1>2, NearestGrows

(* The unit and the scale of an amount. *)
UnitOf(b, k) ==
    IF b >= k * k * k THEN k * k * k ELSE IF b >= k * k THEN k * k ELSE IF b >= k THEN k ELSE 1
ScaleOf(b, k) == IF b >= k * k THEN 100 ELSE IF b >= k THEN 10 ELSE 1

LEMMA Powers ==
    ASSUME NEW k \in Nat \ {0, 1}
    PROVE  /\ k * k \in Nat /\ k * k * k \in Nat /\ k * (k * k) = k * k * k
           /\ 1 < k /\ k < k * k /\ k * k < k * k * k
<1>1. 1 < k
  OBVIOUS
<1>2. PICK j \in Nat : j = k * k
  OBVIOUS
<1>3. k < j
  <2>1. k * 2 <= k * k
    BY <1>1, TimesGrows
  <2> QED  BY <1>1, <1>2, <2>1
<1>4. PICK i \in Nat : i = j * k
  BY <1>2
<1>5. j < i
  <2>1. j * 2 <= j * k
    BY <1>1, <1>2, TimesGrows
  <2> QED  BY <1>1, <1>2, <1>3, <1>4, <2>1
<1>6. k * j = i
  BY <1>2, <1>4
<1> QED  BY <1>1, <1>2, <1>3, <1>4, <1>5, <1>6

LEMMA PrintedIs ==
    ASSUME NEW k \in Nat \ {0, 1}, NEW b \in Nat
    PROVE  /\ fmtBytes(b, k).unit = UnitOf(b, k) /\ UnitOf(b, k) \in Nat \ {0}
           /\ fmtBytes(b, k).scale = ScaleOf(b, k) /\ ScaleOf(b, k) \in {1, 10, 100}
           /\ Nearest(fmtBytes(b, k).n, b * ScaleOf(b, k), UnitOf(b, k))
           /\ UnitOf(b, k) = 1 => fmtBytes(b, k).n = b
<1>1. PICK k2 \in Nat, k3 \in Nat : /\ k2 = k * k /\ k3 = k * k * k
                                    /\ 1 < k /\ k < k2 /\ k2 < k3
  BY Powers
<1>2. fmtBytes(b, k) =
        IF b >= k3 THEN Printed(ToFixed(b, k3, 100), 100, k3)
        ELSE IF b >= k2 THEN Printed(ToFixed(b, k2, 100), 100, k2)
        ELSE IF b >= k THEN Printed(ToFixed(b, k, 10), 10, k)
        ELSE Printed(b, 1, 1)
  BY <1>1 DEF fmtBytes
<1>3. /\ UnitOf(b, k) = IF b >= k3 THEN k3 ELSE IF b >= k2 THEN k2 ELSE IF b >= k THEN k ELSE 1
      /\ ScaleOf(b, k) = IF b >= k2 THEN 100 ELSE IF b >= k THEN 10 ELSE 1
  BY <1>1 DEF UnitOf, ScaleOf
<1>4. \A n, sc, u : LET p == Printed(n, sc, u) IN p.n = n /\ p.scale = sc /\ p.unit = u
  BY DEF Printed
<1>5. CASE b >= k3
  <2>1. Nearest(ToFixed(b, k3, 100), b * 100, k3)
    BY <1>1, ToFixedIs
  <2>2. fmtBytes(b, k) = Printed(ToFixed(b, k3, 100), 100, k3)
    BY <1>2, <1>5
  <2>3. UnitOf(b, k) = k3 /\ ScaleOf(b, k) = 100
    BY <1>1, <1>3, <1>5
  <2> QED  BY <1>1, <1>4, <2>1, <2>2, <2>3
<1>6. CASE b < k3 /\ b >= k2
  <2>1. Nearest(ToFixed(b, k2, 100), b * 100, k2)
    BY <1>1, ToFixedIs
  <2>2. fmtBytes(b, k) = Printed(ToFixed(b, k2, 100), 100, k2)
    BY <1>1, <1>2, <1>6
  <2>3. UnitOf(b, k) = k2 /\ ScaleOf(b, k) = 100
    BY <1>1, <1>3, <1>6
  <2> QED  BY <1>1, <1>4, <2>1, <2>2, <2>3
<1>7. CASE b < k2 /\ b >= k
  <2>1. Nearest(ToFixed(b, k, 10), b * 10, k)
    BY ToFixedIs
  <2>2. fmtBytes(b, k) = Printed(ToFixed(b, k, 10), 10, k)
    BY <1>1, <1>2, <1>7
  <2>3. UnitOf(b, k) = k /\ ScaleOf(b, k) = 10
    BY <1>1, <1>3, <1>7
  <2> QED  BY <1>1, <1>4, <2>1, <2>2, <2>3
<1>8. CASE b < k
  <2>1. Nearest(b, b * 1, 1)
    BY DEF Nearest
  <2>2. fmtBytes(b, k) = Printed(b, 1, 1)
    BY <1>1, <1>2, <1>8
  <2>3. UnitOf(b, k) = 1 /\ ScaleOf(b, k) = 1
    BY <1>1, <1>3, <1>8
  <2> QED  BY <1>1, <1>4, <2>1, <2>2, <2>3
<1> QED  BY <1>1, <1>5, <1>6, <1>7, <1>8

(* What fmtBytes prints is right, for every amount and any K.              *)
LEMMA BytesRight ==
    ASSUME NEW k \in Nat \ {0, 1}, NEW b \in Nat
    PROVE  BytesExact(b, k)
<1> DEFINE p == fmtBytes(b, k)
           q == fmtBytes(b + 1, k)
           u == UnitOf(b, k)
           c == ScaleOf(b, k)
<1>1. PICK k2 \in Nat, k3 \in Nat : /\ k2 = k * k /\ k3 = k * k * k /\ k * k2 = k3
                                    /\ 1 < k /\ k < k2 /\ k2 < k3
  BY Powers
<1>2. /\ p.unit = u /\ u \in Nat \ {0} /\ p.scale = c /\ c \in {1, 10, 100}
      /\ Nearest(p.n, b * c, u) /\ (u = 1 => p.n = b)
  BY PrintedIs
<1>3. /\ q.unit = UnitOf(b + 1, k) /\ q.scale = ScaleOf(b + 1, k)
      /\ Nearest(q.n, (b + 1) * ScaleOf(b + 1, k), UnitOf(b + 1, k))
  <2>1. b + 1 \in Nat
    OBVIOUS
  <2> QED  BY <2>1, PrintedIs
<1>4. \A a : /\ UnitOf(a, k) = IF a >= k3 THEN k3 ELSE IF a >= k2 THEN k2
                               ELSE IF a >= k THEN k ELSE 1
             /\ ScaleOf(a, k) = IF a >= k2 THEN 100 ELSE IF a >= k THEN 10 ELSE 1
  BY <1>1 DEF UnitOf, ScaleOf
<1> HIDE DEF p, q, u, c
<1>5. p.n \in Nat
  BY <1>2 DEF Nearest
<1>6. 2 * (p.n * p.unit - b * p.scale) \in -p.unit .. p.unit
  <2>1. PICK x \in Int, y \in Int : x = p.n * u /\ y = b * c
    BY <1>2, <1>5
  <2>2. 2 * x <= 2 * y + u /\ 2 * y < 2 * x + u
    BY <1>2, <2>1 DEF Nearest
  <2>3. 2 * (x - y) \in -u .. u
    BY <1>2, <2>1, <2>2
  <2> QED  BY <1>2, <2>1, <2>3
<1>7. p.unit = 1 => p.n < k
  <2>1. u = 1 => b < k
    BY <1>1, <1>4 DEF u
  <2> QED  BY <1>2, <2>1
<1>8. ASSUME p.unit \in {k, k2} PROVE p.n <= k * p.scale
  <2>1. b <= k * u
    <3>1. CASE u = k
      <4>1. b < k2
        BY <1>1, <1>4, <3>1 DEF u
      <4> QED  BY <1>1, <3>1, <4>1
    <3>2. CASE u = k2
      <4>1. b < k3
        BY <1>1, <1>4, <3>2 DEF u
      <4> QED  BY <1>1, <3>2, <4>1
    <3> QED  BY <1>2, <1>8, <3>1, <3>2
  <2>2. PICK ku \in Nat, kc \in Nat, bc \in Nat : ku = k * u /\ kc = k * c /\ bc = b * c
    BY <1>2
  <2>3. bc <= kc * u
    <3>1. c * b <= c * ku
      BY <1>2, <2>1, <2>2, TimesGrows
    <3>2. c * ku = kc * u /\ c * b = bc
      BY <1>2, <2>2
    <3> QED  BY <3>1, <3>2
  <2>4. p.n <= kc
    BY <1>2, <2>2, <2>3, NearestMost
  <2> QED  BY <1>2, <2>2, <2>4
<1>9. p.unit < q.unit \/ (p.unit = q.unit /\ p.n <= q.n)
  <2>1. u <= UnitOf(b + 1, k) /\ (u = UnitOf(b + 1, k) => c = ScaleOf(b + 1, k))
    BY <1>1, <1>4 DEF u, c
  <2>2. ASSUME u = UnitOf(b + 1, k) PROVE p.n <= q.n
    <3>1. PICK n \in Nat, m \in Nat : n = b * c /\ m = (b + 1) * c /\ n <= m
      BY <1>2
    <3>2. Nearest(p.n, n, u) /\ Nearest(q.n, m, u)
      BY <1>2, <1>3, <2>1, <2>2, <3>1
    <3> QED  BY <1>2, <3>1, <3>2, NearestGrows
  <2>3. UnitOf(b + 1, k) \in Nat
    BY <1>1, <1>4
  <2> QED  BY <1>2, <1>3, <2>1, <2>2, <2>3
<1> QED  BY <1>1, <1>6, <1>7, <1>8, <1>9 DEF BytesExact, p, q

(* What formatUptime prints is right, for every time. *)
LEMMA UptimeRight ==
    ASSUME NEW seconds \in Nat
    PROVE  UptimeExact(seconds)
<1> DEFINE d == seconds \div 86400
           h == (seconds % 86400) \div 3600
           m == (seconds % 3600) \div 60
           s == seconds % 60
           part == [u \in Units |-> CASE u = 86400 -> d [] u = 3600 -> h [] u = 60 -> m
                                      [] u = 1 -> s]
           shownUnits == {v \in Units : v = 1 \/ part[v] > 0}
           p == [u \in shownUnits |-> part[u]]
           P(u) == IF u \in DOMAIN p THEN p[u] ELSE 0
<1>1. /\ d \in Nat /\ h \in Nat /\ m \in Nat /\ s \in Nat
      /\ 3600 * h < 86400 /\ 60 * m < 3600 /\ s < 60
  OBVIOUS
<1>2. seconds = 86400 * d + 3600 * h + 60 * m + s
  OBVIOUS
<1>3. formatUptime(seconds) = p
  BY DEF formatUptime
<1> HIDE DEF d, h, m, s
<1>4. part[86400] = d /\ part[3600] = h /\ part[60] = m /\ part[1] = s
  BY DEF Units
<1>5. \A u \in Units : part[u] \in Nat
  BY <1>1, <1>4 DEF Units
<1> HIDE DEF part
<1>6. \A u \in Units : P(u) = part[u]
  BY <1>5
<1>7. P(86400) = d /\ P(3600) = h /\ P(60) = m /\ P(1) = s
  BY <1>4, <1>6 DEF Units
<1>8. \A u \in DOMAIN p : u = 1 \/ p[u] > 0
  OBVIOUS
<1> HIDE DEF p
<1> QED  BY <1>1, <1>2, <1>3, <1>7, <1>8 DEF UptimeExact

-----------------------------------------------------------------------------
(* The inductive invariant. *)

Typed ==
    /\ polls \in [PollNumbers -> [at : {"unsent", "sent", "answered", "over"}, answer : Seq(Answers)]]
    /\ \A n \in PollNumbers : polls[n].at = "answered" => polls[n].answer[1] \in Answers
    /\ taken \in Nat /\ arrived \in Seq(Answers)
    /\ active \in TabIndexes /\ events \in 0 .. MaxEvents
    /\ logAt \in {"none", "behind", "end", "user"}
    /\ shown.up \in BOOLEAN /\ listening \in BOOLEAN /\ missed \in BOOLEAN
    /\ effects.listen \in BOOLEAN

(* What waits to be rendered: the page's own data as long as nothing    *)
(* has arrived, and then the last answer with the history of that moment.  *)
Waiting ==
    \/ update = <<>>
    \/ /\ arrived = <<>> /\ shown.data = PageData /\ shown.hist = <<>>
       /\ update = <<[up |-> TRUE, data |-> PageData, hist |-> <<>>]>>
    \/ /\ arrived /= <<>>
       /\ update = <<[up |-> TRUE, data |-> arrived[Len(arrived)].data,
                      hist |-> currentHistory]>>

(* The history is kept right whether or not anything was rendered since.   *)
Recorded ==
    /\ shown.data \in Payloads \cup {PageData}
    /\ currentHistory = Abstract!PointsOf(Abstract!LastOf(MaxHistory, arrived))

Drawn ==
    /\ IsFunction(charts)
    /\ Flushed(charts, effects) = Options(View(active, shown))

Scrolled ==
    /\ LogShown(active, shown) <=> logAt /= "none"
    /\ logAt = "behind" <=> effects.scroll

(* Each table that is shown has the state of its hooks, and is sorted, if  *)
(* at all, by a column of its own, although it may have been another       *)
(* answer's rows that the user clicked on.                                 *)
ColumnsShown(name) ==
    CASE name = "URL Stats" -> {"url", "hits", "waitSec", "openSec", "closedSec"}
      [] name = "Running Threads" -> {"name", "tid", "flags", "ctime", "proc"}
      [] name = "Thread Locks" -> {"name", "owner", "nlock", "nbusy", "contention"}
      [] name = "Scheduled Procedures" -> {"proc", "id", "interval", "nextqueue", "lastend"}
      [] name = "Caches" -> {"name", "entries", "hits", "misses", "flushed", "_gauge"}
      [] name = "ADP Page Cache" ->
            {"file", "evals", "refcnt", "size", "blocks", "scripts", "mtime"}

SortState(name) == [col : {Null} \cup ColumnsShown(name), asc : BOOLEAN]

Sorts ==
    /\ DOMAIN sorts = PartsOf(View(active, shown), "table")
    /\ \A name \in DOMAIN sorts : sorts[name] \in SortState(name)

(* The inductive invariant of the dashboard. *)
PageInv ==
    Typed /\ Waiting /\ Recorded /\ Drawn /\ Scrolled /\ TabFollowsHash /\ Sorts

(* The rows of a table have its columns. *)
LEMMA CellsAre ==
    ASSUME NEW name \in TableNames, NEW row
    PROVE  Cells(name, row) = [col \in ColumnsShown(name) |-> Cells(name, row)[col]]
<1>1. /\ \A u : UrlRow(u) = [col \in ColumnsShown("URL Stats") |-> UrlRow(u)[col]]
      /\ \A th : ThreadRow(th) = [col \in ColumnsShown("Running Threads") |-> ThreadRow(th)[col]]
  BY DEF UrlRow, ThreadRow, ColumnsShown
<1>2. /\ \A lk : LockRow(lk) = [col \in ColumnsShown("Thread Locks") |-> LockRow(lk)[col]]
      /\ \A p : ScheduledRow(p)
                  = [col \in ColumnsShown("Scheduled Procedures") |-> ScheduledRow(p)[col]]
  BY DEF LockRow, ScheduledRow, ColumnsShown
<1>3. /\ \A c : CacheRow(c) = [col \in ColumnsShown("Caches") |-> CacheRow(c)[col]]
      /\ \A e : AdpRow(e) = [col \in ColumnsShown("ADP Page Cache") |-> AdpRow(e)[col]]
  BY DEF CacheRow, AdpRow, ColumnsShown
<1> QED  BY <1>1, <1>2, <1>3 DEF Cells, TableNames, TablesOf

(* What a table is given: a row for each of its list.                      *)
LEMMA RowsTyped ==
    ASSUME NEW e \in Payloads \cup {PageData}, NEW name \in TableNames
    PROVE  /\ BodyOf(Fields[e], name) \in Seq([ColumnsShown(name) -> Cell])
           /\ Len(BodyOf(Fields[e], name)) = Len(RowsOf(Fields[e], name))
           /\ Len(RowsOf(Fields[e], name)) \in Nat
           /\ DOMAIN RowsOf(Fields[e], name) = 1 .. Len(RowsOf(Fields[e], name))
<1>1. PICK rows : rows = RowsOf(Fields[e], name)
  OBVIOUS
<1>2. rows \in Seq(Range(rows))
  BY <1>1, RowsAssumption
<1> DEFINE n == Len(rows)
           cells(i) == Cells(name, rows[i])
           body == [i \in 1 .. n |-> cells(i)]
<1>3. n \in Nat /\ DOMAIN rows = 1 .. n
  BY <1>2
<1>4. ASSUME NEW i \in 1 .. n  PROVE cells(i) \in [ColumnsShown(name) -> Cell]
  <2>1. rows[i] \in Range(rows)
    BY <1>3, <1>4 DEF Range
  <2>2. \A col \in DOMAIN cells(i) : cells(i)[col] \in Cell
    BY <1>1, <2>1, RowsAssumption DEF Cell
  <2>3. cells(i) = [col \in ColumnsShown(name) |-> cells(i)[col]]
    BY CellsAre
  <2> HIDE DEF cells
  <2>4. \A col \in ColumnsShown(name) : cells(i)[col] \in Cell
    BY <2>2, <2>3
  <2> QED  BY <2>3, <2>4
<1>5. BodyOf(Fields[e], name) = body
  BY <1>1, <1>3 DEF BodyOf
<1> HIDE DEF cells
<1>6. body \in [1 .. n -> [ColumnsShown(name) -> Cell]]
  BY <1>4
<1>7. body \in Seq([ColumnsShown(name) -> Cell]) /\ Len(body) = n
  BY <1>3, <1>6
<1> QED  BY <1>1, <1>3, <1>5, <1>7

(* A table that stays mounted has a sort of its own already, and one that  *)
(* is new has none.                                                        *)
LEMMA SortsStay ==
    ASSUME Sorts, NEW new, Named(View(active, shown)), Named(new),
           NEW kept \in SUBSET (DOMAIN View(active, shown) \cap DOMAIN new)
    PROVE  /\ DOMAIN SortsAfter(new, kept) = PartsOf(new, "table")
           /\ \A name \in PartsOf(new, "table") :
                SortsAfter(new, kept)[name] \in SortState(name)
<1>1. DOMAIN SortsAfter(new, kept) = PartsOf(new, "table")
  BY DEF SortsAfter
<1>2. ASSUME NEW name \in PartsOf(new, "table")
      PROVE  SortsAfter(new, kept)[name] \in SortState(name)
  <2>1. CASE name \in kept
    <3>1. name \in TableNames
      BY <1>2 DEF Named, KindOf, PartsOf
    <3>2. name \in PartsOf(View(active, shown), "table")
      BY <2>1, <3>1 DEF Named, KindOf, PartsOf
    <3> QED  BY <1>2, <2>1, <3>2 DEF Sorts, SortsAfter
  <2>2. CASE name \notin kept
    <3>1. SortsAfter(new, kept)[name] = Unsorted
      BY <1>2, <2>2 DEF SortsAfter
    <3> QED  BY <3>1 DEF Unsorted, SortState
  <2> QED  BY <2>1, <2>2
<1> QED  BY <1>1, <1>2

LEMMA TypedOK == Typed /\ Waiting => PageTypeOK
<1> SUFFICES ASSUME Typed, Waiting PROVE PageTypeOK  OBVIOUS
<1>1. Len(update) <= 1
  <2>1. update = <<>> \/ \E p : update = <<p>>  BY DEF Waiting
  <2>2. CASE update = <<>>  BY <2>2
  <2>3. CASE \E p : update = <<p>>
    <3>1. PICK p : update = <<p>>  BY <2>3
    <3>2. Len(<<p>>) = 1  OBVIOUS
    <3> QED  BY <3>1, <3>2
  <2> QED  BY <2>1, <2>2, <2>3
<1>2. \A n \in PollNumbers : polls[n].at \in {"unsent", "sent", "answered", "over"}
  BY DEF Typed
<1> QED  BY <1>1, <1>2 DEF Typed, PageTypeOK

LEMMA PageInitInv == PageInit => PageInv
<1> SUFFICES ASSUME PageInit PROVE PageInv  OBVIOUS
<1>1. Typed
  <2>1. polls \in [PollNumbers -> [at : {"unsent", "sent", "answered", "over"}, answer : Seq(Answers)]]
    BY DEF PageInit
  <2>2. \A n \in PollNumbers : polls[n].at /= "answered"
    BY DEF PageInit
  <2>3. taken \in Nat /\ arrived \in Seq(Answers) /\ events \in 0 .. MaxEvents
    BY DashboardAssumption DEF PageInit
  <2>4. active \in TabIndexes
    BY DEF PageInit, TabIndexes, TabHashes
  <2>5. /\ logAt = "none" /\ shown.up = FALSE /\ listening = FALSE /\ missed = FALSE
        /\ effects.listen = FALSE
    BY DEF PageInit, NoEffects
  <2> QED  BY <2>1, <2>2, <2>3, <2>4, <2>5 DEF Typed
<1>2. Waiting  BY DEF PageInit, Waiting
<1>3. Recorded
  BY DashboardAssumption DEF PageInit, Recorded, Abstract!PointsOf, Abstract!LastOf
<1>4. Drawn
  <2>1. charts = Empty /\ effects = NoEffects /\ View(active, shown) = Empty
    BY DEF PageInit, View
  <2>2. IsFunction(Empty) /\ Options(Empty) = Empty
    BY DEF IsFunction, Empty, Options, PartsOf
  <2> QED  BY <2>1, <2>2, FlushNothing DEF Drawn
<1>5. Scrolled  BY DEF PageInit, Scrolled, LogShown, NoEffects
<1>6. TabFollowsHash  BY DEF PageInit, TabFollowsHash
<1>7. Sorts
  <2>1. sorts = Empty /\ View(active, shown) = Empty
    BY DEF PageInit, View
  <2> QED  BY <2>1 DEF Sorts, PartsOf, Empty
<1> QED  BY <1>1, <1>2, <1>3, <1>4, <1>5, <1>6, <1>7 DEF PageInv

-----------------------------------------------------------------------------
(* What a click and a hashchange event have in common. *)

LEMMA SetActiveStep ==
  ASSUME Typed, Drawn, Scrolled, Sorts, NEW i \in TabIndexes, SetActive(i)
  PROVE  /\ active' = i /\ shown' = shown
         /\ Drawn' /\ Scrolled' /\ Sorts'
         /\ logAt' \in {"none", "behind", "end", "user"}
         /\ listening' \in BOOLEAN /\ effects'.listen \in BOOLEAN
<1>1. CASE i = active
  <2>1. UNCHANGED screen  BY <1>1 DEF SetActive
  <2> QED  BY <1>1, <2>1 DEF screen, Typed, Drawn, Scrolled, Sorts
<1>2. CASE i /= active
  <2> DEFINE old == View(active, shown)
             new == View(i, shown)
             e == ChartEffects(old, new, {})
  <2>1. /\ active' = i /\ shown' = shown /\ effects' = NoEffects
        /\ charts' = Flushed(Flushed(charts, effects), e)
        /\ sorts' = SortsAfter(new, {})
        /\ listening' = (listening \/ effects.listen)
        /\ logAt' = IF LogShown(i, shown) THEN "end" ELSE "none"
    BY <1>2 DEF SetActive
  <2>2. Named(old) /\ Named(new)  BY NamedView DEF Typed
  <2>3. charts' = Options(new)
    <3>1. charts' = Flushed(Options(old), e)  BY <2>1 DEF Drawn
    <3> HIDE DEF old, new
    <3> QED  BY <3>1, <2>2, FlushRender
  <2>4. IsFunction(charts')  BY <2>1, FlushedIsFunction
  <2>5. Drawn'
    <3>1. Flushed(charts', NoEffects) = charts'  BY <2>4, FlushNothing
    <3> QED  BY <3>1, <2>1, <2>3, <2>4 DEF Drawn
  <2>6. Scrolled'  BY <2>1 DEF Scrolled, NoEffects
  <2>7. Sorts'
    <3>1. {} \in SUBSET (DOMAIN View(active, shown) \cap DOMAIN new)
      OBVIOUS
    <3>2. View(active', shown') = new
      BY <2>1
    <3> HIDE DEF new
    <3>3. /\ DOMAIN SortsAfter(new, {}) = PartsOf(new, "table")
          /\ \A name \in PartsOf(new, "table") : SortsAfter(new, {})[name] \in SortState(name)
      BY <2>2, <3>1, SortsStay
    <3> QED  BY <2>1, <3>2, <3>3 DEF Sorts, SortState
  <2> QED  BY <2>1, <2>5, <2>6, <2>7 DEF Typed, NoEffects
<1> QED  BY <1>1, <1>2

-----------------------------------------------------------------------------
(* What a poll does leaves the screen alone. *)

LEMMA NetworkStep ==
  ASSUME PageInv, NEW n \in PollNumbers, Tick(n) \/ Reply(n) \/ Fail(n) \/ Arrive(n)
  PROVE  PageInv'
<1> DEFINE Poll == [at : {"unsent", "sent", "answered", "over"}, answer : Seq(Answers)]
<1>1. /\ UNCHANGED <<screen, location>>
  BY DEF Tick, Reply, Fail, Arrive
<1>2. Drawn' /\ Scrolled' /\ TabFollowsHash' /\ Sorts'
  BY <1>1 DEF PageInv, Drawn, Scrolled, TabFollowsHash, Sorts, screen, location
<1>3. /\ active' \in TabIndexes /\ events' \in 0 .. MaxEvents
      /\ logAt' \in {"none", "behind", "end", "user"}
      /\ shown'.up \in BOOLEAN /\ listening' \in BOOLEAN /\ missed' \in BOOLEAN
      /\ effects'.listen \in BOOLEAN
  BY <1>1 DEF PageInv, Typed, screen, location
<1>4. polls[n] \in Poll /\ DOMAIN polls = PollNumbers
  BY DEF PageInv, Typed
<1>5. CASE Tick(n)
  <2>1. polls' = [polls EXCEPT ![n].at = "sent"] /\ UNCHANGED <<taken, arrived>>
    BY <1>5 DEF Tick
  <2>2. polls' \in [PollNumbers -> Poll]
    BY <2>1 DEF PageInv, Typed
  <2>3. \A m \in PollNumbers : polls'[m].at = "answered" => polls'[m].answer[1] \in Answers
    BY <2>1 DEF PageInv, Typed
  <2>4. Typed'  BY <1>3, <2>1, <2>2, <2>3 DEF PageInv, Typed
  <2>5. Waiting' /\ Recorded'
    BY <1>1, <1>5 DEF Tick, PageInv, Waiting, Recorded, screen
  <2> QED  BY <1>2, <2>4, <2>5 DEF PageInv
<1>6. CASE Reply(n)
  <2>1. PICK d \in Payloads :
          polls' = [polls EXCEPT ![n] = [at |-> "answered",
                                         answer |-> <<[data |-> d, point |-> taken']>>]]
    BY <1>6 DEF Reply
  <2>2. taken' \in Nat /\ arrived' = arrived
    BY <1>6 DEF Reply, PageInv, Typed
  <2> DEFINE a == [data |-> d, point |-> taken']
  <2>3. a \in Answers  BY <2>2 DEF Answers
  <2> HIDE DEF a
  <2>4. polls' = [polls EXCEPT ![n] = [at |-> "answered", answer |-> <<a>>]]
    BY <2>1 DEF a
  <2>5. [at |-> "answered", answer |-> <<a>>] \in Poll /\ <<a>>[1] = a
    BY <2>3
  <2>6. polls' \in [PollNumbers -> Poll]
    BY <2>4, <2>5 DEF PageInv, Typed
  <2>7. \A m \in PollNumbers : polls'[m].at = "answered" => polls'[m].answer[1] \in Answers
    BY <2>3, <2>4, <2>5 DEF PageInv, Typed
  <2>8. Typed'  BY <1>3, <2>2, <2>6, <2>7 DEF PageInv, Typed
  <2>9. Waiting' /\ Recorded'
    BY <1>1, <1>6 DEF Reply, PageInv, Waiting, Recorded, screen
  <2> QED  BY <1>2, <2>8, <2>9 DEF PageInv
<1>7. CASE Fail(n) \/ Arrive(n)
  <2>1. polls' = [polls EXCEPT ![n] = [at |-> "over", answer |-> <<>>]] /\ taken' = taken
    BY <1>7 DEF Fail, Arrive
  <2>2. polls' \in [PollNumbers -> Poll]
    BY <2>1 DEF PageInv, Typed
  <2>3. \A m \in PollNumbers : polls'[m].at = "answered" => polls'[m].answer[1] \in Answers
    BY <2>1 DEF PageInv, Typed
  <2>4. CASE Fail(n)
    <3>1. UNCHANGED <<arrived, currentHistory, update>>  BY <2>4 DEF Fail
    <3>2. Typed'  BY <1>3, <2>1, <2>2, <2>3, <3>1 DEF PageInv, Typed
    <3>3. Waiting' /\ Recorded'
      BY <1>1, <3>1 DEF PageInv, Waiting, Recorded, screen
    <3> QED  BY <1>2, <3>2, <3>3 DEF PageInv
  <2>5. CASE Arrive(n)
    <3>1. PICK a \in Answers : a = polls[n].answer[1]
      BY <2>5 DEF Arrive, PageInv, Typed
    <3>2. /\ arrived' = Append(arrived, a)
          /\ currentHistory' = Slice(Append(currentHistory, a.point))
          /\ update' = <<[up |-> TRUE, data |-> a.data, hist |-> currentHistory']>>
      BY <2>5, <3>1 DEF Arrive, renderWithData
    <3>3. /\ arrived' \in Seq(Answers) /\ arrived' /= <<>>
          /\ arrived'[Len(arrived')] = a
      <4>1. arrived \in Seq(Answers)
        BY DEF PageInv, Typed
      <4> QED  BY <3>2, <4>1
    <3>4. Typed'  BY <1>3, <2>1, <2>2, <2>3, <3>3 DEF PageInv, Typed
    <3>5. Waiting'
      BY <3>2, <3>3 DEF Waiting
    <3>6. Recorded'
      BY <1>1, <3>2, HistoryGrows DEF PageInv, Typed, Recorded, screen
    <3> QED  BY <1>2, <3>4, <3>5, <3>6 DEF PageInv
  <2> QED  BY <1>7, <2>4, <2>5
<1> QED  BY <1>5, <1>6, <1>7

-----------------------------------------------------------------------------
(* React. *)

LEMMA RenderRootStep ==
  ASSUME PageInv, RenderRoot
  PROVE  PageInv'
<1> DEFINE old == View(active, shown)
           new == View(active', shown')
           kept == DOMAIN old \cap DOMAIN new
           chart == ChartEffects(old, new, kept)
           scroll == /\ LogShown(active', shown')
                     /\ ~shown.up \/ LogTail(shown) /= LogTail(shown')
<1>1. /\ update /= <<>> /\ effects = NoEffects
      /\ update' = <<>> /\ shown' = update[1]
      /\ active' = IF shown.up THEN active ELSE TabOf(hash)
      /\ effects' = [dispose |-> chart.dispose, init |-> chart.init, draw |-> chart.draw,
                     listen |-> TRUE, scroll |-> scroll]
      /\ logAt' = IF scroll THEN "behind" ELSE logAt
      /\ sorts' = SortsAfter(new, kept)
      /\ UNCHANGED <<network, charts, listening, location>>
  BY DEF RenderRoot
<1>2. shown'.up = TRUE
  BY <1>1 DEF PageInv, Waiting
<1>3. active' \in TabIndexes
  BY <1>1, TabOfType DEF PageInv, Typed
<1>4. effects'.listen = TRUE /\ effects'.scroll = scroll
  BY <1>1
<1>5. Typed'
  BY <1>1, <1>2, <1>3, <1>4 DEF PageInv, Typed, network, location
<1>6. Waiting'
  BY <1>1 DEF Waiting
<1>7. Recorded'
  <2>1. shown'.data \in Payloads \cup {PageData}
    <3>1. CASE arrived = <<>>
      BY <1>1, <3>1 DEF PageInv, Waiting, Recorded
    <3>2. CASE arrived /= <<>>
      <4>1. arrived[Len(arrived)] \in Answers  BY <3>2 DEF PageInv, Typed
      <4>2. shown'.data = arrived[Len(arrived)].data  BY <1>1, <3>2 DEF PageInv, Waiting
      <4> QED  BY <4>1, <4>2 DEF Answers
    <3> QED  BY <3>1, <3>2
  <2> QED  BY <1>1, <2>1 DEF PageInv, Recorded, network
<1>8. Drawn'
  <2>1. charts = Options(old)
    BY <1>1, FlushNothing DEF PageInv, Drawn
  <2>2. Named(old) /\ Named(new)
    BY <1>3, NamedView DEF PageInv, Typed
  <2>3. LET c == ChartEffects(old, new, kept)
        IN  effects'.dispose = c.dispose /\ effects'.init = c.init /\ effects'.draw = c.draw
    BY <1>1
  <2>4. Flushed(Options(old), effects') = Options(new)
    <3> HIDE DEF old, new
    <3> QED  BY <2>2, <2>3, FlushRender
  <2>5. charts' = charts
    BY <1>1
  <2> QED  BY <2>1, <2>4, <2>5 DEF PageInv, Drawn
<1>9. Scrolled'
  <2>1. logAt /= "behind"
    BY <1>1 DEF PageInv, Scrolled, NoEffects
  <2>2. logAt' = "behind" <=> effects'.scroll
    BY <2>1, <1>1, <1>4
  <2>3. LogShown(active', shown') <=> logAt' /= "none"
    BY <1>1, <1>2 DEF PageInv, Scrolled, LogShown
  <2> QED  BY <2>2, <2>3 DEF Scrolled
<1>10. TabFollowsHash'
  BY <1>1 DEF PageInv, TabFollowsHash, location
<1>11. Sorts'
  <2>1. Named(old) /\ Named(new)
    BY <1>3, NamedView DEF PageInv, Typed
  <2>2. kept \in SUBSET (DOMAIN View(active, shown) \cap DOMAIN new)
    OBVIOUS
  <2>3. sorts' = SortsAfter(new, kept)
    BY <1>1
  <2> HIDE DEF new, kept
  <2>4. /\ DOMAIN SortsAfter(new, kept) = PartsOf(new, "table")
        /\ \A name \in PartsOf(new, "table") : SortsAfter(new, kept)[name] \in SortState(name)
    BY <2>1, <2>2, SortsStay DEF PageInv
  <2> QED  BY <2>3, <2>4 DEF Sorts, SortState, new
<1> QED  BY <1>5, <1>6, <1>7, <1>8, <1>9, <1>10, <1>11 DEF PageInv

LEMMA FlushEffectsStep ==
  ASSUME PageInv, FlushEffects
  PROVE  PageInv'
<1>1. /\ effects' = NoEffects /\ charts' = Flushed(charts, effects)
      /\ listening' = (listening \/ effects.listen)
      /\ logAt' = IF effects.scroll THEN "end" ELSE logAt
      /\ UNCHANGED <<network, update, shown, active, sorts, location>>
  BY DEF FlushEffects
<1>2. Typed'
  BY <1>1 DEF PageInv, Typed, network, location, NoEffects
<1>3. Waiting' /\ Recorded' /\ TabFollowsHash' /\ Sorts'
  BY <1>1 DEF PageInv, Waiting, Recorded, TabFollowsHash, Sorts, network, location
<1>4. Drawn'
  <2>1. IsFunction(charts')  BY <1>1, FlushedIsFunction
  <2>2. Flushed(charts', NoEffects) = charts'  BY <2>1, FlushNothing
  <2> QED  BY <1>1, <2>1, <2>2 DEF PageInv, Drawn
<1>5. Scrolled'
  BY <1>1 DEF PageInv, Scrolled, NoEffects
<1> QED  BY <1>2, <1>3, <1>4, <1>5 DEF PageInv

-----------------------------------------------------------------------------
(* The user and the events of the browser. *)

LEMMA SelectStep ==
  ASSUME PageInv, NEW i \in UserTabs, Select(i)
  PROVE  PageInv'
<1>1. i \in TabIndexes  BY DashboardAssumption
<1>2. /\ events < MaxEvents /\ hash' = TabHashes[i] /\ events' \in {events, events + 1}
      /\ SetActive(i) /\ missed' = FALSE /\ UNCHANGED <<network, update>>
  BY DEF Select, SetHash
<1>3. /\ active' = i /\ shown' = shown /\ Drawn' /\ Scrolled' /\ Sorts'
      /\ logAt' \in {"none", "behind", "end", "user"}
      /\ listening' \in BOOLEAN /\ effects'.listen \in BOOLEAN
  BY <1>1, <1>2, SetActiveStep DEF PageInv
<1>4. events' \in 0 .. MaxEvents
  BY <1>2, DashboardAssumption DEF PageInv, Typed
<1>5. Typed'
  BY <1>1, <1>2, <1>3, <1>4 DEF PageInv, Typed, network
<1>6. Waiting' /\ Recorded'
  BY <1>2, <1>3 DEF PageInv, Waiting, Recorded, network
<1>7. TabFollowsHash'
  BY <1>1, <1>2, <1>3, TabNamed DEF TabFollowsHash
<1> QED  BY <1>3, <1>5, <1>6, <1>7 DEF PageInv

LEMMA GoToStep ==
  ASSUME PageInv, NEW h \in UserHashes, GoTo(h)
  PROVE  PageInv'
<1>1. /\ events < MaxEvents /\ events' = events + 1
      /\ UNCHANGED <<network, update, screen, missed>>
  BY DEF GoTo, SetHash
<1>2. events' \in 0 .. MaxEvents /\ events' /= 0
  BY <1>1, DashboardAssumption DEF PageInv, Typed
<1>3. Typed'
  BY <1>1, <1>2 DEF PageInv, Typed, network, screen
<1>4. Waiting' /\ Recorded' /\ Drawn' /\ Scrolled' /\ Sorts'
  BY <1>1 DEF PageInv, Waiting, Recorded, Drawn, Scrolled, Sorts, network, screen
<1>5. TabFollowsHash'
  BY <1>2 DEF TabFollowsHash
<1> QED  BY <1>3, <1>4, <1>5 DEF PageInv

LEMMA HashChangeStep ==
  ASSUME PageInv, HashChange
  PROVE  PageInv'
<1>1. /\ events > 0 /\ events' = events - 1 /\ UNCHANGED <<network, update, hash>>
  BY DEF HashChange
<1>2. events' \in 0 .. MaxEvents
  BY <1>1, DashboardAssumption DEF PageInv, Typed
<1>3. CASE listening
  <2>1. SetActive(TabOf(hash)) /\ missed' = FALSE
    BY <1>3 DEF HashChange
  <2>2. /\ active' = TabOf(hash) /\ shown' = shown /\ Drawn' /\ Scrolled' /\ Sorts'
        /\ logAt' \in {"none", "behind", "end", "user"}
        /\ listening' \in BOOLEAN /\ effects'.listen \in BOOLEAN
    BY <2>1, TabOfType, SetActiveStep DEF PageInv
  <2>3. Typed'
    BY <1>1, <1>2, <2>1, <2>2, TabOfType DEF PageInv, Typed, network
  <2>4. Waiting' /\ Recorded'
    BY <1>1, <2>2 DEF PageInv, Waiting, Recorded, network
  <2>5. TabFollowsHash'
    BY <1>1, <2>2 DEF TabFollowsHash
  <2> QED  BY <2>2, <2>3, <2>4, <2>5 DEF PageInv
<1>4. CASE ~listening
  <2>1. UNCHANGED screen /\ missed' = shown.up
    BY <1>4 DEF HashChange
  <2>2. Typed'
    BY <1>1, <1>2, <2>1 DEF PageInv, Typed, network, screen
  <2>3. Waiting' /\ Recorded' /\ Drawn' /\ Scrolled' /\ Sorts'
    BY <1>1, <2>1 DEF PageInv, Waiting, Recorded, Drawn, Scrolled, Sorts, network, screen
  <2>4. TabFollowsHash'
    BY <2>1 DEF TabFollowsHash, screen
  <2> QED  BY <2>2, <2>3, <2>4 DEF PageInv
<1> QED  BY <1>3, <1>4 DEF PageInv, Typed

(* The rows that a table shows, from the answer that is shown. *)
LEMMA TableShown ==
  ASSUME PageInv, shown.up, NEW name \in TableNames
  PROVE  /\ name \in DOMAIN View(active, shown) <=>
              name \in TablesOf(active) /\ RowsOf(Fields[shown.data], name) # <<>>
         /\ name \in DOMAIN View(active, shown) =>
              View(active, shown)[name].body = BodyOf(Fields[shown.data], name)
<1>1. Has(Fields[shown.data], "server")
  BY AnswerAssumption DEF PageInv, Recorded, Has
<1>2. HasTables(View(active, shown), TablesOf(active), Fields[shown.data])
  BY <1>1, TablesView DEF PageInv, Typed
<1> QED  BY <1>2 DEF HasTables

LEMMA SortByStep ==
  ASSUME PageInv, NEW name \in DOMAIN sorts, NEW col, SortBy(name, col)
  PROVE  PageInv'
<1>1. /\ UNCHANGED <<network, update, shown, active, effects, charts, logAt, listening, location>>
      /\ sorts' = [sorts EXCEPT ![name] = handleSort(sorts[name], col)]
      /\ col \in DOMAIN View(active, shown)[name].body[1]
  BY DEF SortBy
<1>2. name \in DOMAIN View(active, shown) /\ name \in TableNames
  BY NamedView DEF PageInv, Typed, Sorts, PartsOf, Named, KindOf
<1>3. shown.up
  <2>1. DOMAIN Empty = {}
    BY DEF Empty
  <2> QED  BY <1>2, <2>1 DEF View
<1>4. col \in ColumnsShown(name)
  <2>1. PICK rows, body : /\ rows = RowsOf(Fields[shown.data], name)
                          /\ body = BodyOf(Fields[shown.data], name)
    OBVIOUS
  <2>2. rows # <<>> /\ View(active, shown)[name].body = body
    BY <1>2, <1>3, <2>1, TableShown
  <2>3. /\ body \in Seq([ColumnsShown(name) -> Cell]) /\ Len(body) = Len(rows)
        /\ Len(rows) \in Nat /\ DOMAIN rows = 1 .. Len(rows)
    BY <1>2, <2>1, RowsTyped DEF PageInv, Recorded
  <2>4. Len(rows) # 0
    <3>1. rows \in Seq(Range(rows))
      BY <1>2, <2>1, RowsAssumption DEF PageInv, Recorded
    <3> QED  BY <2>2, <3>1
  <2>5. body[1] \in [ColumnsShown(name) -> Cell]
    BY <2>2, <2>3, <2>4
  <2> QED  BY <1>1, <2>2, <2>5
<1>5. handleSort(sorts[name], col) \in SortState(name)
  <2>1. sorts[name] \in SortState(name)
    BY DEF PageInv, Sorts
  <2> QED  BY <1>4, <2>1 DEF handleSort, SortState
<1>6. Sorts'
  BY <1>1, <1>5 DEF PageInv, Sorts, SortState
<1> QED
  BY <1>1, <1>6 DEF PageInv, Typed, Waiting, Recorded, Drawn, Scrolled, TabFollowsHash, network,
     location

LEMMA ScrollLogStep ==
  ASSUME PageInv, ScrollLog
  PROVE  PageInv'
<1>1. /\ LogShown(active, shown) /\ effects = NoEffects /\ logAt' = "user"
      /\ UNCHANGED <<network, update, shown, active, sorts, effects, charts, listening, location>>
  BY DEF ScrollLog
<1>2. Typed'
  BY <1>1 DEF PageInv, Typed, network, location
<1>3. Waiting' /\ Recorded' /\ Drawn' /\ TabFollowsHash' /\ Sorts'
  BY <1>1 DEF PageInv, Waiting, Recorded, Drawn, TabFollowsHash, Sorts, network, location
<1>4. Scrolled'
  BY <1>1 DEF Scrolled, NoEffects
<1> QED  BY <1>2, <1>3, <1>4 DEF PageInv

LEMMA StutterStep ==
  ASSUME PageInv, UNCHANGED pageVars
  PROVE  PageInv'
BY DEF PageInv, Typed, Waiting, Recorded, Drawn, Scrolled, TabFollowsHash, Sorts, pageVars, network,
       screen, location

LEMMA PageNextInv == PageInv /\ [PageNext]_pageVars => PageInv'
<1> SUFFICES ASSUME PageInv, [PageNext]_pageVars PROVE PageInv'  OBVIOUS
<1>1. CASE Network
  BY <1>1, NetworkStep DEF Network
<1>2. CASE RenderRoot  BY <1>2, RenderRootStep
<1>3. CASE FlushEffects  BY <1>3, FlushEffectsStep
<1>4. CASE HashChange  BY <1>4, HashChangeStep
<1>5. CASE User
  BY <1>5, SelectStep, GoToStep, SortByStep, ScrollLogStep DEF User
<1>6. CASE UNCHANGED pageVars  BY <1>6, StutterStep
<1> QED  BY <1>1, <1>2, <1>3, <1>4, <1>5, <1>6 DEF PageNext

(* The inductive invariant of the dashboard. *)
THEOREM PageInvHolds == PageSpec => []PageInv
BY PageInitInv, PageNextInv, PTL DEF PageSpec

-----------------------------------------------------------------------------
(* What follows from it. *)

(* After every render, and whatever waits to be flushed, the charts on the *)
(* page are those the open tab declares and each shows its last option: no *)
(* chart leaks and none is stale (EChartsWrapper.jsx); the log is at its   *)
(* end unless the user scrolled it (Log.jsx).                              *)
THEOREM ScreenTrueCorrect == PageSpec => []ScreenTrue
<1>1. PageInv => ScreenTrue
  BY TypedOK DEF PageInv, Drawn, Scrolled, ScreenTrue
<1> QED  BY <1>1, PageInvHolds, PTL

(* The open tab is the one the fragment names as soon as no hashchange     *)
(* event is under way, unless the last change went unheard (Tabs.jsx).     *)
THEOREM TabFollowsHashCorrect == PageSpec => []TabFollowsHash
<1>1. PageInv => TabFollowsHash  BY DEF PageInv
<1> QED  BY <1>1, PageInvHolds, PTL

(* The table of a tab: unsorted, or sorted by a column that its rows have. *)
ShownAt(body, s, n, i) == 1 + Cardinality({j \in 1 .. n : Before(body, s, j, i)})

LEMMA TableRight ==
  ASSUME NEW C, NEW body \in Seq([C -> Cell]), NEW s, s.col = Null \/ s.col \in C, NEW n,
         n = Len(body), NEW i \in 1 .. n
  PROVE  /\ Len(DataTable(body, s)) = n
         /\ DataTable(body, s)[ShownAt(body, s, n, i)] = body[i]
<1> DEFINE A == {j \in 1 .. n : Before(body, s, j, i)}
<1>1. n \in Nat /\ i \in Int
  OBVIOUS
<1>2. CASE s.col = Null
  <2>1. DataTable(body, s) = body
    BY <1>2 DEF DataTable
  <2>2. \A j : Before(body, s, j, i) <=> j < i
    BY <1>2 DEF Before
  <2>3. A = 1 .. i - 1
    BY <1>1, <2>2
  <2>4. Cardinality(1 .. i - 1) = i - 1
    BY <1>1, FS_Interval
  <2>5. 1 + (i - 1) = i
    BY <1>1
  <2> QED  BY <2>1, <2>3, <2>4, <2>5 DEF ShownAt
<1>3. CASE s.col # Null
  <2>1. /\ Len(DataTable(body, s)) = n
        /\ DataTable(body, s)[1 + PlaceIn(Earlier(body, s), n, i)] = body[i]
    BY <1>3, TableSorted
  <2>2. A = Ahead(Earlier(body, s), n, i)
    BY DEF Ahead, Earlier
  <2> QED  BY <2>1, <2>2 DEF PlaceIn, ShownAt
<1> QED  BY <1>2, <1>3

(* A table shows each row of its list in the answer shown exactly once, in *)
(* the order the user chose, of numbers or of texts as they are shown, and *)
(* whichever answers came since: for any lists, with ties and with cells   *)
(* that are not there, and any clicks on the headers (DataTable.jsx).      *)
THEOREM TablesTrueCorrect == PageSpec => []TablesTrue
<1>1. ASSUME PageInv, shown.up, NEW name \in TablesOf(active), NEW list, NEW body,
             list = RowsOf(Fields[shown.data], name), list # <<>>,
             body = [i \in DOMAIN list |-> Cells(name, list[i])]
      PROVE  LET table == DataTable(View(active, shown)[name].body, sorts[name])
                 place(i) == Cardinality({j \in DOMAIN body : Before(body, sorts[name], j, i)})
             IN  /\ Len(table) = Len(list)
                 /\ \A i \in DOMAIN body : table[1 + place(i)] = body[i]
  <2> DEFINE n == Len(list)
             s == sorts[name]
  <2>1. name \in TableNames
    <3>1. active \in 1 .. 8
      BY <1>1 DEF PageInv, Typed, TabIndexes, TabHashes
    <3> QED  BY <1>1, <3>1 DEF TableNames, TablesOf
  <2>2. /\ name \in DOMAIN View(active, shown) /\ View(active, shown)[name].body = body
        /\ BodyOf(Fields[shown.data], name) = body
    BY <1>1, <2>1, TableShown DEF BodyOf
  <2>3. s \in SortState(name)
    <3>1. name \in PartsOf(View(active, shown), "table")
      BY <1>1, <2>1, <2>2, NamedView DEF PageInv, Typed, Named, KindOf, PartsOf
    <3> QED  BY <1>1, <3>1 DEF PageInv, Sorts
  <2>4. /\ body \in Seq([ColumnsShown(name) -> Cell]) /\ Len(body) = n
        /\ n \in Nat /\ DOMAIN list = 1 .. n
    <3>1. PICK e \in Payloads \cup {PageData} : e = shown.data
      BY <1>1 DEF PageInv, Recorded
    <3>2. RowsOf(Fields[e], name) = list /\ BodyOf(Fields[e], name) = body
      BY <1>1, <2>2, <3>1
    <3> QED  BY <2>1, <3>2, RowsTyped
  <2>5. DOMAIN body = 1 .. n /\ n # 0
    <3>1. list \in Seq(Range(list))
      BY <1>1, <2>1, RowsAssumption DEF PageInv, Recorded
    <3> QED  BY <1>1, <2>4, <3>1
  <2>6. s.col = Null \/ s.col \in ColumnsShown(name)
    BY <2>3 DEF SortState
  <2> HIDE DEF n, s
  <2>7. \A i \in 1 .. n :
          /\ Len(DataTable(body, s)) = n
          /\ DataTable(body, s)[ShownAt(body, s, n, i)] = body[i]
    <3> TAKE i \in 1 .. n
    <3>1. n = Len(body) /\ body \in Seq([ColumnsShown(name) -> Cell])
      BY <2>4
    <3> QED  BY <2>6, <3>1, TableRight
  <2>8. Len(DataTable(body, s)) = n
    <3>1. 1 \in 1 .. n
      BY <2>4, <2>5
    <3> QED  BY <2>7, <3>1
  <2> QED  BY <2>2, <2>5, <2>7, <2>8 DEF n, s, ShownAt
<1>2. PageInv => TablesTrue
  <2> SUFFICES ASSUME PageInv, shown.up, NEW name \in TablesOf(active),
                      RowsOf(Fields[shown.data], name) # <<>>
               PROVE  LET list == RowsOf(Fields[shown.data], name)
                          rows == [i \in DOMAIN list |-> Cells(name, list[i])]
                          table == DataTable(View(active, shown)[name].body, sorts[name])
                          place(i) == Cardinality({j \in DOMAIN rows :
                                                       Before(rows, sorts[name], j, i)})
                      IN  /\ Len(table) = Len(list)
                          /\ \A i \in DOMAIN rows : table[1 + place(i)] = rows[i]
    BY DEF TablesTrue
  <2>1. PICK list : list = RowsOf(Fields[shown.data], name)
    OBVIOUS
  <2>2. PICK body : body = [i \in DOMAIN list |-> Cells(name, list[i])]
    OBVIOUS
  <2> QED  BY <1>1, <2>1, <2>2
<1> QED  BY <1>2, PageInvHolds, PTL

(* The numerals of the Memory and Overview tabs say what they stand for:   *)
(* for every amount and every uptime, and K bytes to a kilobyte            *)
(* (Memory.jsx, Overview.jsx).                                             *)
THEOREM FormatsExactCorrect == PageSpec => []FormatsExact
<1>1. FormatsExact
  BY DashboardAssumption, BytesRight, UptimeRight DEF FormatsExact, NumeralsExact
<1> QED  BY <1>1, PTL

(* Whatever an answer of stats-api.js has, no tab is blank                 *)
(* (sections/*.jsx).                                                       *)
THEOREM NoTabBlankCorrect == PageSpec => []NoTabBlank
<1> DEFINE Parts(v) == \E name : name \in DOMAIN v
<1>1. \A v : Parts(v) => v /= Empty  BY DEF Empty
<1>2. \A name, kind, body : Parts(Part(name, kind, body))  BY DEF Part
<1>3. \A v, w : Parts(v) \/ Parts(w) => Parts(v ++ w)
  <2> TAKE v, w
  <2>1. DOMAIN (v ++ w) = DOMAIN v \cup DOMAIN w  BY DEF ++
  <2> QED  BY <2>1
<1> HIDE DEF Parts
<1>4. ASSUME NEW d, NEW hist, {"info", "jsStats", "server", "memory"} \subseteq DOMAIN d
      PROVE  \A i \in TabIndexes : Content(i, d, hist) /= Empty
  <2>1. /\ Has(d, "info") /\ Has(d, "jsStats") /\ Has(d, "server")
        /\ Has(d, "memory")
    BY <1>4 DEF Has
  <2>2. Parts(Overview(d))
    BY <1>2, <1>3, <2>1 DEF Overview, When, Card
  <2>3. Parts(JsEngine(d, hist))
    BY <1>2, <1>3, <2>1 DEF JsEngine, When, Card
  <2>4. Parts(ServerStats(d, hist))
    BY <1>2, <1>3, <2>1 DEF ServerStats, When, ThreadPool, Card
  <2>5. Parts(Memory(d, hist))
    BY <1>2, <1>3, <2>1 DEF Memory, Card, Message
  <2>6. Parts(Caches(d))
    BY <1>2 DEF Caches, Message, TableIf, When, List
  <2>7. Drivers(d) /= Empty
    BY <1>1, <1>2 DEF Drivers, Message
  <2>8. Parts(AdpCache(d))
    BY <1>2 DEF AdpCache, Message, TableIf, When, List
  <2>9. Parts(Log(d))
    BY <1>2 DEF Log
  <2>10. TabIndexes = 1 .. 8
    BY DEF TabIndexes, TabHashes
  <2> QED
    BY <1>1, <2>2, <2>3, <2>4, <2>5, <2>6, <2>7, <2>8, <2>9, <2>10 DEF Content
<1>5. PageInv => NoTabBlank
  <2> SUFFICES ASSUME PageInv, shown.up, NEW i \in TabIndexes
               PROVE  View(i, shown) /= Empty
    BY DEF NoTabBlank
  <2>1. {"info", "jsStats", "server", "memory"} \subseteq DOMAIN Fields[shown.data]
    BY AnswerAssumption DEF PageInv, Recorded
  <2> QED  BY <1>4, <2>1 DEF View
<1> QED  BY <1>5, PageInvHolds, PTL

(* The dashboard is the live page of LivePage: however polls overlap, fail *)
(* and come in out of order, and however renders are put off, what is      *)
(* shown is the last answer that arrived and the points of the last        *)
(* MaxHistory (client-entry.jsx).                                          *)
THEOREM IsLiveCorrect == PageSpec => IsLive
<1>1. PageInit => Abstract!Init
  BY DEF PageInit, Abstract!Init
<1>2. PageInv /\ [PageNext]_pageVars => [Abstract!Next]_<<arrived, Abstract!page>>
  <2> SUFFICES ASSUME PageInv, [PageNext]_pageVars
               PROVE  Abstract!Next \/ UNCHANGED <<arrived, shown.data, shown.hist>>
    BY DEF Abstract!page
  <2>1. CASE \E n \in PollNumbers : Arrive(n)
    <3>1. PICK n \in PollNumbers : Arrive(n)  BY <2>1
    <3>2. PICK a \in Answers : a = polls[n].answer[1]
      BY <3>1 DEF Arrive, PageInv, Typed
    <3>3. arrived' = Append(arrived, a) /\ UNCHANGED screen
      BY <3>1, <3>2 DEF Arrive
    <3>4. /\ Len(arrived') = Len(arrived) + 1
          /\ SubSeq(arrived', 1, Len(arrived)) = arrived
          /\ arrived'[Len(arrived')] = a
      BY <3>3 DEF PageInv, Typed
    <3>5. a \in [data : Payloads \cup {PageData}, point : Nat]
      BY DEF Answers
    <3> QED  BY <3>3, <3>4, <3>5 DEF Abstract!Next, Abstract!Answer, Abstract!page, screen
  <2>2. CASE RenderRoot
    <3>1. /\ update /= <<>> /\ shown' = update[1] /\ arrived' = arrived
      BY <2>2 DEF RenderRoot, network
    <3>2. CASE arrived = <<>>
      BY <3>1, <3>2 DEF PageInv, Waiting
    <3>3. CASE arrived /= <<>>
      <4>1. /\ shown'.data = arrived[Len(arrived)].data
            /\ shown'.hist = Abstract!PointsOf(Abstract!LastOf(MaxHistory, arrived))
        BY <3>1, <3>3 DEF PageInv, Waiting, Recorded
      <4> QED  BY <3>1, <3>3, <4>1 DEF Abstract!Next, Abstract!Show
    <3> QED  BY <3>2, <3>3
  <2>3. CASE \E n \in PollNumbers : Tick(n) \/ Reply(n) \/ Fail(n)
    BY <2>3 DEF Tick, Reply, Fail, screen
  <2>4. CASE FlushEffects
    BY <2>4 DEF FlushEffects, network
  <2>5. ASSUME NEW i, SetActive(i) PROVE shown' = shown
    BY <2>5 DEF SetActive, screen
  <2>6. CASE HashChange
    BY <2>5, <2>6 DEF HashChange, network, screen
  <2>7. CASE User
    BY <2>5, <2>7 DEF User, Select, GoTo, SortBy, ScrollLog, network, screen
  <2>8. CASE UNCHANGED pageVars
    BY <2>8 DEF pageVars, network, screen
  <2> QED  BY <2>1, <2>2, <2>3, <2>4, <2>6, <2>7, <2>8 DEF PageNext, Network
<1> QED  BY <1>1, <1>2, PageInvHolds, PTL DEF PageSpec, IsLive, Abstract!Spec
=============================================================================
