---------------------------- MODULE DbPool_proofs ----------------------------
(***************************************************************************)
(* Proofs about a database pool, for any finite sets of threads and        *)
(* handles and any number of bounces.                                      *)
(***************************************************************************)
EXTENDS DbPool, Lemmas

Gathering == {"getBlocked", "getWoken", "getExpired"}

AllPlaces == {"idle", "using", "put", "grab", "check"} \cup GetPlaces

(* The part of the invariant about the lock protocol: where the processes  *)
(* are, f, the flag w, and the free list l.                                *)
Typed(f, w) == f \in [Procs -> AllPlaces] /\ w \in BOOLEAN

OneAtATime(f, w) ==
    /\ \A t, u \in Threads : f[t] \in Gathering /\ f[u] \in Gathering => t = u
    /\ w <=> \E t \in Threads : f[t] \in Gathering

GatherersAwake(f, l) == (\E t \in Threads : f[t] = "getBlocked") => l = <<>>

TurnsAwake(f, w) ==
    (\E t \in Threads : f[t] = "waitBlocked") => w \/ \E t \in Threads : f[t] = "waitWoken"

Protocol ==
    /\ Typed(pc, waiting) /\ OneAtATime(pc, waiting)
    /\ GatherersAwake(pc, free) /\ TurnsAwake(pc, waiting)

(* The part about what the handles know of bounces.                        *)
HandlesTyped ==
    /\ bounces \in Nat
    /\ connected \in [Handles -> BOOLEAN] /\ stale \in [Handles -> BOOLEAN]
    /\ staleOnClose \in [Handles -> Nat] /\ openedAt \in [Handles -> Nat]

BounceInv ==
    /\ HandlesTyped
    /\ \A h \in Handles : staleOnClose[h] <= bounces
    /\ BounceSeen

-----------------------------------------------------------------------------
LEMMA ProcKinds == (\A t \in Threads : t \in Procs /\ t # Checker) /\ Checker \in Procs
BY DbAssumption DEF Procs

(* A process moves and neither it nor anybody else starts or stops         *)
(* gathering, sleeping or being woken.                                     *)
LEMMA OnlyMoves ==
    ASSUME Protocol, NEW p \in Procs, NEW q \in AllPlaces \ (Gathering \cup {"waitBlocked"}),
           pc[p] \notin Gathering \cup {"waitWoken"},
           pc' = [pc EXCEPT ![p] = q], waiting' = waiting,
           NEW l, (\E t \in Threads : pc[t] = "getBlocked") => l = free
    PROVE  /\ Typed(pc', waiting') /\ OneAtATime(pc', waiting')
           /\ GatherersAwake(pc', l) /\ TurnsAwake(pc', waiting')
PROOF
<1>1. \A u \in Threads : u # p => pc'[u] = pc[u]
  BY ProcKinds DEF Protocol, Typed
<1>2. pc'[p] = q
  BY DEF Protocol, Typed
<1>3. Typed(pc', waiting')
  BY DEF Protocol, Typed
<1>4. \A u \in Threads : pc'[u] \in Gathering <=> pc[u] \in Gathering
  BY <1>1, <1>2
<1>5. OneAtATime(pc', waiting')
  BY <1>4 DEF Protocol, OneAtATime
<1>6. \A u \in Threads :
        /\ pc'[u] = "getBlocked" => pc[u] = "getBlocked"
        /\ pc'[u] = "waitBlocked" => pc[u] = "waitBlocked"
        /\ pc[u] = "waitWoken" => pc'[u] = "waitWoken"
  BY <1>1, <1>2 DEF Gathering
<1>7. GatherersAwake(pc', l)
  BY <1>6 DEF Protocol, GatherersAwake
<1>8. TurnsAwake(pc', waiting')
  BY <1>6 DEF Protocol, TurnsAwake
<1> QED
  BY <1>3, <1>5, <1>7, <1>8

(* A process that has returned handles signals the thread that gathers.    *)
LEMMA SignalsGatherer ==
    ASSUME Protocol, NEW p \in Procs, NEW q \in {"idle", "using"},
           pc[p] \notin Gathering \cup {"waitWoken", "waitBlocked"},
           SignalGet(p, q), waiting' = waiting
    PROVE  Protocol'
PROOF
<1>1. CASE \A t \in Threads : pc[t] # "getBlocked"
  <2>1. pc' = [pc EXCEPT ![p] = q]
    BY <1>1 DEF SignalGet, SignalAndGoto, At
  <2>2. q \in AllPlaces \ (Gathering \cup {"waitBlocked"})
    BY DEF AllPlaces, Gathering
  <2> QED
    BY <1>1, <2>1, <2>2, OnlyMoves DEF Protocol
<1>2. CASE \E t \in Threads : pc[t] = "getBlocked"
  <2>1. waiting
    BY <1>2 DEF Protocol, OneAtATime, Gathering
  <2>2. PICK w \in Threads :
          pc[w] = "getBlocked" /\ pc' = [pc EXCEPT ![w] = "getWoken", ![p] = q]
    BY <1>2, <2>1 DEF SignalGet, SignalAndGoto, At
  <2>3. w # p /\ w \in Procs
    BY <2>2, ProcKinds DEF Gathering
  <2>4. pc'[w] = "getWoken" /\ pc'[p] = q
    BY <2>2, <2>3 DEF Protocol, Typed
  <2>5. \A u \in Threads : u # w /\ u # p => pc'[u] = pc[u]
    BY <2>2, ProcKinds DEF Protocol, Typed
  <2>6. Typed(pc', waiting')
    BY <2>2 DEF Protocol, Typed, AllPlaces, GetPlaces
  <2>7. \A u \in Threads : pc'[u] \in Gathering <=> pc[u] \in Gathering
    BY <2>2, <2>4, <2>5 DEF Gathering
  <2>8. OneAtATime(pc', waiting')
    BY <2>7 DEF Protocol, OneAtATime
  <2>9. \A u \in Threads : pc'[u] # "getBlocked"
    BY <2>2, <2>4, <2>5 DEF Protocol, OneAtATime, Gathering
  <2>10. TurnsAwake(pc', waiting')
    BY <2>1 DEF TurnsAwake
  <2> QED
    BY <2>6, <2>8, <2>9, <2>10 DEF Protocol, GatherersAwake
<1> QED
  BY <1>1, <1>2

(* The thread that gathered, or need not, leaves and passes the turn on.   *)
LEMMA PassesTurn ==
    ASSUME Protocol, NEW t \in Threads, NEW q \in {"connect", "fail"},
           pc[t] # "waitBlocked",
           \A u \in Threads : u # t => pc[u] \notin Gathering,
           SignalAndGoto(t, q, "waitBlocked", "waitWoken"), waiting' = FALSE
    PROVE  Protocol'
PROOF
<1>1. CASE At("waitBlocked") = {} /\ pc' = [pc EXCEPT ![t] = q]
  <2>1. \A u \in Threads : u # t => pc'[u] = pc[u]
    BY <1>1, ProcKinds DEF Protocol, Typed
  <2>2. pc'[t] = q
    BY <1>1, ProcKinds DEF Protocol, Typed
  <2>3. Typed(pc', waiting')
    BY <1>1 DEF Protocol, Typed, AllPlaces, GetPlaces
  <2>4. \A u \in Threads : pc'[u] \notin Gathering /\ pc'[u] # "waitBlocked"
    BY <1>1, <2>1, <2>2 DEF Gathering, At
  <2>5. OneAtATime(pc', waiting')
    BY <2>4 DEF OneAtATime
  <2>6. GatherersAwake(pc', free') /\ TurnsAwake(pc', waiting')
    BY <2>4 DEF GatherersAwake, TurnsAwake, Gathering
  <2> QED
    BY <2>3, <2>5, <2>6 DEF Protocol
<1>2. CASE \E w \in At("waitBlocked") : pc' = [pc EXCEPT ![w] = "waitWoken", ![t] = q]
  <2>1. PICK w \in Threads :
          pc[w] = "waitBlocked" /\ pc' = [pc EXCEPT ![w] = "waitWoken", ![t] = q]
    BY <1>2 DEF At
  <2>2. w # t
    BY <2>1
  <2>3. pc'[w] = "waitWoken" /\ pc'[t] = q
    BY <2>1, <2>2, ProcKinds DEF Protocol, Typed
  <2>4. \A u \in Threads : u # w /\ u # t => pc'[u] = pc[u]
    BY <2>1, ProcKinds DEF Protocol, Typed
  <2>5. Typed(pc', waiting')
    BY <2>1 DEF Protocol, Typed, AllPlaces, GetPlaces
  <2>6. \A u \in Threads : pc'[u] \notin Gathering
    BY <2>3, <2>4 DEF Gathering
  <2>7. OneAtATime(pc', waiting')
    BY <2>6 DEF OneAtATime
  <2>8. GatherersAwake(pc', free') /\ TurnsAwake(pc', waiting')
    BY <2>3, <2>6 DEF GatherersAwake, TurnsAwake, Gathering
  <2> QED
    BY <2>5, <2>7, <2>8 DEF Protocol
<1> QED
  BY <1>1, <1>2 DEF SignalAndGoto

(* A thread whose turn it is takes what there is, and leaves or sleeps.    *)
LEMMA Collects ==
    ASSUME Protocol, NEW t \in Threads, NEW n, NEW sofar,
           pc[t] # "waitBlocked",
           \A u \in Threads : u # t => pc[u] \notin Gathering,
           Collect(t, n, sofar)
    PROVE  Protocol'
PROOF
<1>1. CASE /\ waiting' = FALSE
           /\ SignalAndGoto(t, "connect", "waitBlocked", "waitWoken")
  BY <1>1, PassesTurn
<1>2. CASE /\ free' = <<>> /\ waiting' = TRUE
           /\ pc' = [pc EXCEPT ![t] = "getBlocked"]
  <2>1. \A u \in Threads : u # t => pc'[u] = pc[u]
    BY <1>2, ProcKinds DEF Protocol, Typed
  <2>2. pc'[t] = "getBlocked"
    BY <1>2, ProcKinds DEF Protocol, Typed
  <2>3. Typed(pc', waiting')
    BY <1>2 DEF Protocol, Typed, AllPlaces, GetPlaces
  <2>4. OneAtATime(pc', waiting')
    BY <1>2, <2>1, <2>2 DEF OneAtATime, Gathering
  <2>5. GatherersAwake(pc', free') /\ TurnsAwake(pc', waiting')
    BY <1>2 DEF GatherersAwake, TurnsAwake
  <2> QED
    BY <2>3, <2>4, <2>5 DEF Protocol
<1> QED
  BY <1>1, <1>2 DEF Collect

(* A thread goes to sleep until its turn comes.                            *)
LEMMA Sleeps ==
    ASSUME Protocol, NEW t \in Threads, pc[t] \notin Gathering, waiting,
           pc' = [pc EXCEPT ![t] = "waitBlocked"], UNCHANGED <<free, waiting>>
    PROVE  Protocol'
PROOF
<1>1. \A u \in Threads : u # t => pc'[u] = pc[u]
  BY ProcKinds DEF Protocol, Typed
<1>2. pc'[t] = "waitBlocked"
  BY ProcKinds DEF Protocol, Typed
<1>3. Typed(pc', waiting')
  BY DEF Protocol, Typed, AllPlaces, GetPlaces
<1>4. \A u \in Threads : pc'[u] \in Gathering <=> pc[u] \in Gathering
  BY <1>1, <1>2 DEF Gathering
<1>5. OneAtATime(pc', waiting')
  BY <1>4 DEF Protocol, OneAtATime
<1>6. \A u \in Threads : pc'[u] = "getBlocked" => pc[u] = "getBlocked"
  BY <1>1, <1>2
<1>7. GatherersAwake(pc', free') /\ TurnsAwake(pc', waiting')
  BY <1>6 DEF Protocol, GatherersAwake, TurnsAwake
<1> QED
  BY <1>3, <1>5, <1>7 DEF Protocol

LEMMA ProtocolInit == Init => Protocol
PROOF
<1> SUFFICES ASSUME Init PROVE Protocol
  OBVIOUS
<1>1. \A p \in Procs : pc[p] = "idle"
  BY DEF Init
<1>2. Typed(pc, waiting)
  BY DEF Init, Typed, AllPlaces
<1>3. \A t \in Threads : pc[t] = "idle"
  BY <1>1, ProcKinds
<1> QED
  BY <1>2, <1>3
     DEF Init, Protocol, OneAtATime, GatherersAwake, TurnsAwake, Gathering

LEMMA ProtocolThread ==
    ASSUME Protocol, NEW t \in Threads,
           \/ \E n \in 1 .. NHandles, limited \in BOOLEAN : Get(t, n, limited)
           \/ GetStep(t) \/ Expire(t)
           \/ Disconnect(t) \/ ReleaseDbs(t) \/ PutBack(t) \/ Bounce(t)
    PROVE  Protocol'
PROOF
<1>0. t \in Procs
  BY ProcKinds
<1>1. CASE \E n \in 1 .. NHandles, limited \in BOOLEAN : Get(t, n, limited)
  <2>1. PICK n \in 1 .. NHandles, limited \in BOOLEAN : Get(t, n, limited)
    BY <1>1
  <2>2. pc[t] \in {"idle", "using"}
    BY <2>1 DEF Get
  <2>3. CASE waiting
    <3>1. pc' = [pc EXCEPT ![t] = "waitBlocked"] /\ UNCHANGED <<free, waiting>>
      BY <2>1, <2>3 DEF Get
    <3> QED
      BY <2>2, <2>3, <3>1, Sleeps DEF Gathering
  <2>4. CASE ~waiting
    <3>1. Collect(t, n, <<>>)
      BY <2>1, <2>4 DEF Get
    <3>2. \A u \in Threads : pc[u] \notin Gathering
      BY <2>4 DEF Protocol, OneAtATime
    <3> QED
      BY <2>2, <3>1, <3>2, Collects
  <2> QED
    BY <2>3, <2>4
<1>2. CASE Turn(t)
  <2>2. pc[t] = "waitWoken"
    BY <1>2 DEF Turn
  <2>3. CASE waiting
    <3>1. pc' = [pc EXCEPT ![t] = "waitBlocked"] /\ UNCHANGED <<free, waiting>>
      BY <1>2, <2>3 DEF Turn
    <3> QED
      BY <2>2, <2>3, <3>1, Sleeps DEF Gathering
  <2>4. CASE ~waiting
    <3>1. Collect(t, nwant[t], <<>>)
      BY <1>2, <2>4 DEF Turn
    <3>2. \A u \in Threads : pc[u] \notin Gathering
      BY <2>4 DEF Protocol, OneAtATime
    <3> QED
      BY <2>2, <3>1, <3>2, Collects
  <2> QED
    BY <2>3, <2>4
<1>3. CASE GetMore(t)
  <2>1. pc[t] = "getWoken" /\ Collect(t, nwant[t], got[t])
    BY <1>3 DEF GetMore
  <2>2. \A u \in Threads : u # t => pc[u] \notin Gathering
    BY <2>1 DEF Protocol, OneAtATime, Gathering
  <2> QED
    BY <2>1, <2>2, Collects
<1>4. CASE GiveUp(t)
  <2>1. pc[t] = "getExpired" /\ waiting' = FALSE
    BY <1>4 DEF GiveUp
  <2>2. \A u \in Threads : u # t => pc[u] \notin Gathering
    BY <2>1 DEF Protocol, OneAtATime, Gathering
  <2>3. PICK q \in {"connect", "fail"} : SignalAndGoto(t, q, "waitBlocked", "waitWoken")
    BY <1>4 DEF GiveUp
  <2> QED
    BY <2>1, <2>2, <2>3, PassesTurn
<1>5. CASE Connect(t) \/ Granted(t) \/ Disconnect(t) \/ ReleaseDbs(t) \/ Bounce(t)
  <2>1. UNCHANGED <<free, waiting>>
    BY <1>5 DEF Connect, Granted, Disconnect, ReleaseDbs, Put, Bounce, poolVars
  <2>2. pc[t] \in {"connect", "using", "idle"}
    BY <1>5 DEF Connect, Granted, Disconnect, ReleaseDbs, Put, Bounce
  <2>3. \/ UNCHANGED pc
        \/ \E q \in {"fail", "using", "put", "grab"} : pc' = [pc EXCEPT ![t] = q]
    BY <1>5 DEF Connect, Granted, Disconnect, ReleaseDbs, Put, Bounce
  <2>4. CASE UNCHANGED pc
    BY <2>1, <2>4 DEF Protocol
  <2>5. CASE \E q \in {"fail", "using", "put", "grab"} : pc' = [pc EXCEPT ![t] = q]
    <3>1. PICK q \in AllPlaces \ (Gathering \cup {"waitBlocked"}) :
             pc' = [pc EXCEPT ![t] = q]
      BY <2>5 DEF AllPlaces, GetPlaces, Gathering
    <3>2. pc[t] \notin Gathering \cup {"waitWoken"}
      BY <2>2 DEF Gathering
    <3> QED
      BY <1>0, <2>1, <3>1, <3>2, OnlyMoves DEF Protocol
  <2> QED
    BY <2>3, <2>4, <2>5
<1>6. CASE Fail(t)
  <2>1. pc[t] = "fail" /\ SignalGet(t, "idle") /\ waiting' = waiting
    BY <1>6 DEF Fail
  <2> QED
    BY <1>0, <2>1, SignalsGatherer DEF Gathering
<1>7. CASE PutBack(t)
  <2>1. pc[t] = "put" /\ SignalGet(t, Rest(t)) /\ waiting' = waiting
    BY <1>7 DEF PutBack
  <2>2. Rest(t) \in {"idle", "using"}
    BY DEF Rest
  <2> QED
    BY <1>0, <2>1, <2>2, SignalsGatherer DEF Gathering
<1>8. CASE Expire(t)
  <2>1. UNCHANGED <<free, waiting>>
    BY <1>8 DEF Expire, poolVars
  <2>2. CASE pc[t] = "waitBlocked" /\ pc' = [pc EXCEPT ![t] = "fail"]
    <3>1. "fail" \in AllPlaces \ (Gathering \cup {"waitBlocked"})
      BY DEF AllPlaces, GetPlaces, Gathering
    <3>2. pc[t] \notin Gathering \cup {"waitWoken"}
      BY <2>2 DEF Gathering
    <3> QED
      BY <1>0, <2>1, <2>2, <3>1, <3>2, OnlyMoves DEF Protocol
  <2>3. CASE pc[t] = "getBlocked" /\ pc' = [pc EXCEPT ![t] = "getExpired"]
    <3>1. \A u \in Threads : u # t => pc'[u] = pc[u]
      BY <2>3, ProcKinds DEF Protocol, Typed
    <3>2. pc'[t] = "getExpired"
      BY <2>3, ProcKinds DEF Protocol, Typed
    <3>3. Typed(pc', waiting')
      BY <2>1, <2>3 DEF Protocol, Typed, AllPlaces, GetPlaces
    <3>4. \A u \in Threads : pc'[u] \in Gathering <=> pc[u] \in Gathering
      BY <2>3, <3>1, <3>2 DEF Gathering
    <3>5. OneAtATime(pc', waiting')
      BY <2>1, <3>4 DEF Protocol, OneAtATime
    <3>6. GatherersAwake(pc', free') /\ TurnsAwake(pc', waiting')
      BY <2>1, <2>3, <3>1, <3>2 DEF Protocol, GatherersAwake, TurnsAwake
    <3> QED
      BY <3>3, <3>5, <3>6 DEF Protocol
  <2> QED
    BY <1>8, <2>2, <2>3 DEF Expire
<1> QED
  BY <1>1, <1>2, <1>3, <1>4, <1>5, <1>6, <1>7, <1>8 DEF GetStep

LEMMA ProtocolCheck ==
    ASSUME Protocol, NEW p \in Procs, CheckPool(p) \/ (p = Checker /\ Scheduled)
    PROVE  Protocol'
PROOF
<1>0. After(p) \in {"idle", "using"}
  BY DEF After, Rest
<1>1. CASE Grab(p)
  <2>1. /\ pc[p] = "grab" /\ waiting' = waiting /\ free' = <<>>
        /\ \E q \in {"idle", "using", "check"} : pc' = [pc EXCEPT ![p] = q]
    BY <1>0, <1>1 DEF Grab
  <2>2. PICK q \in AllPlaces \ (Gathering \cup {"waitBlocked"}) :
           pc' = [pc EXCEPT ![p] = q]
    BY <2>1 DEF AllPlaces, GetPlaces, Gathering
  <2>3. (\E t \in Threads : pc[t] = "getBlocked") => free' = free
    BY <2>1 DEF Protocol, GatherersAwake
  <2>4. pc[p] \notin Gathering \cup {"waitWoken"}
    BY <2>1 DEF Gathering
  <2> QED
    BY <2>1, <2>2, <2>3, <2>4, OnlyMoves DEF Protocol
<1>2. CASE CheckOne(p)
  BY <1>2 DEF CheckOne, Protocol, poolVars
<1>3. CASE ReturnAll(p)
  <2>1. pc[p] = "check" /\ SignalGet(p, After(p)) /\ waiting' = waiting
    BY <1>3 DEF ReturnAll
  <2> QED
    BY <1>0, <2>1, SignalsGatherer DEF Gathering
<1>4. CASE p = Checker /\ Scheduled
  <2>1. /\ pc[p] = "idle" /\ UNCHANGED <<free, waiting>>
        /\ pc' = [pc EXCEPT ![p] = "grab"]
    BY <1>4 DEF Scheduled, poolVars
  <2>2. "grab" \in AllPlaces \ (Gathering \cup {"waitBlocked"})
    BY DEF AllPlaces, GetPlaces, Gathering
  <2>3. pc[p] \notin Gathering \cup {"waitWoken"}
    BY <2>1 DEF Gathering
  <2> QED
    BY <2>1, <2>2, <2>3, OnlyMoves DEF Protocol
<1> QED
  BY <1>1, <1>2, <1>3, <1>4 DEF CheckPool

LEMMA ProtocolNext == Protocol /\ [Next]_vars => Protocol'
PROOF
<1> SUFFICES ASSUME Protocol, [Next]_vars PROVE Protocol'
  OBVIOUS
<1>1. CASE UNCHANGED vars
  BY <1>1 DEF Protocol, vars, poolVars
<1>2. CASE Next
  BY <1>2, ProtocolThread, ProtocolCheck, ProcKinds DEF Next
<1> QED
  BY <1>1, <1>2

THEOREM ProtocolInvariant == Spec => []Protocol
BY ProtocolInit, ProtocolNext, PTL DEF Spec

LEMMA Gatherers ==
    Protocol => OneGathers
PROOF
<1> SUFFICES ASSUME Protocol PROVE OneGathers
  OBVIOUS
<1> DEFINE G == At("getBlocked") \cup At("getWoken") \cup At("getExpired")
<1>1. \A t : t \in G <=> t \in Threads /\ pc[t] \in Gathering
  BY DEF At, Gathering
<1>2. CASE waiting
  <2>1. PICK t \in Threads : pc[t] \in Gathering
    BY <1>2 DEF Protocol, OneAtATime
  <2>2. G = {t}
    BY <1>1, <2>1 DEF Protocol, OneAtATime
  <2>3. Cardinality(G) = 1
    BY <2>2, FS_Singleton
  <2> QED
    BY <1>2, <2>3 DEF OneGathers
<1>3. CASE ~waiting
  <2>1. G = {}
    BY <1>1, <1>3 DEF Protocol, OneAtATime
  <2>2. Cardinality(G) = 0
    BY <2>1, FS_EmptySet
  <2> QED
    BY <1>3, <2>2 DEF OneGathers
<1> QED
  BY <1>2, <1>3

(* At most one thread gathers handles at a time, and poolPtr->waiting says *)
(* whether one does, for any number of threads and handles.                *)
THEOREM OneGathersCorrect == Spec => []OneGathers
BY ProtocolInvariant, Gatherers, PTL

LEMMA Awake == Protocol => NoLostWakeup
BY DEF Protocol, GatherersAwake, TurnsAwake, NoLostWakeup, At

(* Neither the thread that gathers nor those that wait for their turn miss *)
(* a signal, whatever times out, fails to open or is checked in between.   *)
THEOREM NoLostWakeupCorrect == Spec => []NoLostWakeup
BY ProtocolInvariant, Awake, PTL

-----------------------------------------------------------------------------
(* Bounces. *)

LEMMA BounceInit == Init => BounceInv
BY DEF Init, BounceInv, HandlesTyped, BounceSeen

(* A handle that is judged keeps what it knows or is closed.               *)
LEMMA JudgedOrClosed ==
    ASSUME BounceInv, NEW h, CloseIfStale(h) \/ SetClosed(h),
           UNCHANGED <<bounces, staleOnClose, openedAt>>
    PROVE  BounceInv'
PROOF
<1>1. /\ connected' \in [Handles -> BOOLEAN] /\ stale' \in [Handles -> BOOLEAN]
      /\ \A g \in Handles : connected'[g] => connected[g] /\ stale'[g] = stale[g]
  <2>1. CASE CloseIfStale(h)
    BY <2>1 DEF CloseIfStale, BounceInv, HandlesTyped, IsStale, BounceStale
  <2>2. CASE SetClosed(h)
    BY <2>2 DEF SetClosed, BounceInv, HandlesTyped
  <2> QED
    BY <2>1, <2>2
<1>2. BounceSeen'
  BY <1>1 DEF BounceInv, BounceSeen, BounceStale
<1> QED
  BY <1>1, <1>2 DEF BounceInv, HandlesTyped

LEMMA BounceNext == BounceInv /\ [Next]_vars => BounceInv'
PROOF
<1> SUFFICES ASSUME BounceInv, [Next]_vars PROVE BounceInv'
  OBVIOUS
<1>1. ASSUME UNCHANGED <<bounces, connected, stale, staleOnClose, openedAt>>
      PROVE  BounceInv'
  BY <1>1 DEF BounceInv, HandlesTyped, BounceSeen, BounceStale
<1>2. ASSUME NEW t \in Threads, Connect(t) PROVE BounceInv'
  <2> DEFINE h == Head(Unopened(t))
  <2>1. CASE /\ connected' = [connected EXCEPT ![h] = TRUE]
             /\ openedAt' = [openedAt EXCEPT ![h] = bounces]
             /\ UNCHANGED <<stale, pc>>
    <3>1. UNCHANGED <<bounces, staleOnClose, stale>>
      BY <1>2, <2>1 DEF Connect, poolVars
    <3> HIDE DEF h
    <3>2. HandlesTyped'
      BY <2>1, <3>1 DEF BounceInv, HandlesTyped
    <3>3. BounceSeen'
      BY <2>1, <3>1 DEF BounceInv, HandlesTyped, BounceSeen, BounceStale
    <3> QED
      BY <3>1, <3>2, <3>3 DEF BounceInv
  <2>2. CASE SetClosed(h) /\ UNCHANGED openedAt
    <3>1. UNCHANGED <<bounces, staleOnClose, openedAt>>
      BY <1>2, <2>2 DEF Connect, poolVars
    <3> QED
      BY <2>2, <3>1, JudgedOrClosed
  <2> QED
    BY <1>2, <2>1, <2>2 DEF Connect
<1>3. ASSUME NEW t \in Threads, Bounce(t) PROVE BounceInv'
  <2>1. /\ bounces' = bounces + 1 /\ UNCHANGED <<connected, openedAt>>
        /\ stale' = [h \in Handles |-> stale[h] \/ (h \in ToSet(free) /\ connected[h])]
        /\ staleOnClose' = [h \in Handles |->
               IF h \in ToSet(free) THEN bounces' ELSE staleOnClose[h]]
    BY <1>3 DEF Bounce
  <2>2. stale' \in [Handles -> BOOLEAN]
    BY <2>1 DEF BounceInv, HandlesTyped
  <2>3. /\ bounces' \in Nat /\ staleOnClose' \in [Handles -> Nat]
        /\ \A h \in Handles : staleOnClose'[h] <= bounces'
    BY <2>1 DEF BounceInv, HandlesTyped
  <2>4. ASSUME NEW h \in Handles, connected[h]
        PROVE  stale'[h] \/ bounces' > staleOnClose'[h]
    <3>1. CASE h \in ToSet(free)
      BY <2>1, <2>4, <3>1
    <3>2. CASE h \notin ToSet(free)
      <4>1. staleOnClose'[h] = staleOnClose[h] /\ staleOnClose[h] <= bounces
        BY <2>1, <3>2 DEF BounceInv
      <4> QED
        BY <2>1, <4>1 DEF BounceInv, HandlesTyped
    <3> QED
      BY <3>1, <3>2
  <2>5. BounceSeen'
    BY <2>1, <2>4 DEF BounceSeen, BounceStale
  <2> QED
    BY <2>1, <2>2, <2>3, <2>5 DEF BounceInv, HandlesTyped
<1>4. ASSUME NEW t \in Threads,
             \/ \E n \in 1 .. NHandles, limited \in BOOLEAN : Get(t, n, limited)
             \/ GetStep(t) \/ Expire(t)
             \/ Disconnect(t) \/ ReleaseDbs(t) \/ PutBack(t) \/ Bounce(t)
      PROVE  BounceInv'
  <2>1. CASE \/ \E n \in 1 .. NHandles, limited \in BOOLEAN : Get(t, n, limited)
             \/ Turn(t) \/ GetMore(t) \/ GiveUp(t) \/ Granted(t) \/ Fail(t)
             \/ Expire(t) \/ PutBack(t)
    <3>1. UNCHANGED <<bounces, connected, stale, staleOnClose, openedAt>>
      BY <2>1 DEF Get, Turn, GetMore, GiveUp, Granted, Fail, Expire, PutBack,
                  poolVars, handleVars
    <3> QED
      BY <1>1, <3>1
  <2>2. CASE Disconnect(t)
    <3>1. /\ UNCHANGED <<bounces, staleOnClose, openedAt>>
          /\ \E h : SetClosed(h)
      BY <2>2 DEF Disconnect, poolVars
    <3> QED
      BY <3>1, JudgedOrClosed
  <2>3. CASE ReleaseDbs(t)
    <3>1. /\ UNCHANGED <<bounces, staleOnClose, openedAt>>
          /\ \E h : CloseIfStale(h)
      BY <2>3 DEF ReleaseDbs, Put, poolVars
    <3> QED
      BY <3>1, JudgedOrClosed
  <2> QED
    BY <1>2, <1>3, <1>4, <2>1, <2>2, <2>3 DEF GetStep
<1>5. ASSUME NEW p \in Procs, CheckPool(p) PROVE BounceInv'
  <2>1. CASE Grab(p) \/ ReturnAll(p)
    <3>1. UNCHANGED <<bounces, connected, stale, staleOnClose, openedAt>>
      BY <2>1 DEF Grab, ReturnAll, handleVars
    <3> QED
      BY <1>1, <3>1
  <2>2. CASE CheckOne(p)
    <3>1. UNCHANGED <<bounces, staleOnClose, openedAt>> /\ \E h : CloseIfStale(h)
      BY <2>2 DEF CheckOne, poolVars
    <3> QED
      BY <3>1, JudgedOrClosed
  <2> QED
    BY <1>5, <2>1, <2>2 DEF CheckPool
<1>6. CASE Scheduled
  BY <1>1, <1>6 DEF Scheduled, poolVars, handleVars
<1>7. CASE UNCHANGED vars
  BY <1>1, <1>7 DEF vars, poolVars, handleVars
<1> QED
  BY <1>4, <1>5, <1>6, <1>7 DEF Next

(* Wherever a handle was when the pool was bounced, its old connection is  *)
(* known to be stale from then on, after any number of bounces.            *)
THEOREM BounceSeenCorrect == Spec => []BounceSeen
PROOF
<1>1. BounceInv => BounceSeen
  BY DEF BounceInv
<1> QED
  BY <1>1, BounceInit, BounceNext, PTL DEF Spec

(* One thread gathers at a time and none sleeps past its turn, for any     *)
(* number of threads and handles (Ns_DbPoolTimedGetMultipleHandles).       *)
THEOREM TurnsKeptCorrect == Spec => []TurnsKept
PROOF
<1>1. OneGathers /\ NoLostWakeup => TurnsKept
  BY DEF TurnsKept
<1> QED
  BY <1>1, OneGathersCorrect, NoLostWakeupCorrect, PTL

-----------------------------------------------------------------------------
(* Handles.  A handle is at one of the spots: the free list, and what each *)
(* thread and each CheckPool holds.                                        *)

Spots ==
    {<<"free", Checker>>} \cup ({"got", "put"} \X Threads)
        \cup ({"unchecked", "checked"} \X Procs)

Where(l, g, h, a, b) ==
    [x \in Spots |->
        CASE x[1] = "free" -> Range(l)
          [] x[1] = "got" -> Range(g[x[2]])
          [] x[1] = "put" -> {h[x[2]]} \ {NoHandle}
          [] x[1] = "unchecked" -> Range(a[x[2]])
          [] OTHER -> Range(b[x[2]])]

Spread(w) == \A h \in Handles : \E x \in Spots : \A y \in Spots : h \in w[y] <=> y = x

OpenLeads(l, conn) == \A i, j \in DOMAIN l : i < j /\ conn[l[j]] => conn[l[i]]

FreeList(l, conn) == l \in Seq(Handles) /\ IsInjective(l) /\ OpenLeads(l, conn)

(* A thread at s that wants n handles, counts c, has got g and puts h back. *)
ThreadOK(s, n, c, g, h) ==
    /\ n \in 0 .. NHandles /\ c \in Nat /\ c = (IF s \in GetPlaces THEN n ELSE Len(g))
    /\ g \in Seq(Handles) /\ IsInjective(g)
    /\ s \in {"waitBlocked", "waitWoken"} => g = <<>>
    /\ s \in Gathering => Len(g) < n
    /\ s = "connect" => Len(g) = n
    /\ IF s = "put" THEN h \in Handles ELSE h = NoHandle

(* A process at s with the lists a and b of CheckPool. *)
ProcOK(s, a, b) ==
    /\ a \in Seq(Handles) /\ IsInjective(a) /\ b \in Seq(Handles) /\ IsInjective(b)
    /\ s # "check" => a = <<>> /\ b = <<>>

IsFcn(f, S) == f = [x \in S |-> f[x]]

Tables ==
    /\ timed \in [Threads -> BOOLEAN] /\ bounces \in 0 .. MaxBounce
    /\ IsFcn(nwant, Threads) /\ IsFcn(count, Threads) /\ IsFcn(got, Threads)
    /\ IsFcn(putting, Threads) /\ IsFcn(unchecked, Procs) /\ IsFcn(checked, Procs)

HandlesInv ==
    /\ Tables
    /\ \A t \in Threads : ThreadOK(pc[t], nwant[t], count[t], got[t], putting[t])
    /\ \A p \in Procs : ProcOK(pc[p], unchecked[p], checked[p])
    /\ FreeList(free, connected)
    /\ Spread(Where(free, got, putting, unchecked, checked))

LEMMA SpotsAre ==
    /\ <<"free", Checker>> \in Spots
    /\ \A t \in Threads : <<"got", t>> \in Spots /\ <<"put", t>> \in Spots
    /\ \A p \in Procs : <<"unchecked", p>> \in Spots /\ <<"checked", p>> \in Spots
    /\ \A x \in Spots :
          \/ x = <<"free", Checker>>
          \/ \E t \in Threads : x = <<"got", t>> \/ x = <<"put", t>>
          \/ \E p \in Procs : x = <<"unchecked", p>> \/ x = <<"checked", p>>
BY DEF Spots

LEMMA WhereIs ==
    ASSUME NEW l, NEW g, NEW h, NEW a, NEW b
    PROVE  /\ Where(l, g, h, a, b)[<<"free", Checker>>] = Range(l)
           /\ \A t \in Threads : Where(l, g, h, a, b)[<<"got", t>>] = Range(g[t])
           /\ \A t \in Threads : Where(l, g, h, a, b)[<<"put", t>>] = {h[t]} \ {NoHandle}
           /\ \A p \in Procs : Where(l, g, h, a, b)[<<"unchecked", p>>] = Range(a[p])
           /\ \A p \in Procs : Where(l, g, h, a, b)[<<"checked", p>>] = Range(b[p])
BY SpotsAre DEF Where

(* Handles M move from spot x to spot y. *)
Moved(v, w, M, x, y) ==
    /\ x \in Spots /\ y \in Spots /\ x # y /\ M \subseteq v[x]
    /\ w[x] = v[x] \ M /\ w[y] = v[y] \cup M
    /\ \A z \in Spots \ {x, y} : w[z] = v[z]

LEMMA SpreadMoved ==
    ASSUME NEW v, NEW w, NEW M, NEW x, NEW y, Spread(v), Moved(v, w, M, x, y)
    PROVE  Spread(w)
<1> SUFFICES ASSUME NEW h \in Handles
             PROVE  \E z \in Spots : \A u \in Spots : h \in w[u] <=> u = z
  BY DEF Spread
<1>1. PICK z \in Spots : \A u \in Spots : h \in v[u] <=> u = z
  BY DEF Spread
<1>2. CASE h \in M
  BY <1>1, <1>2 DEF Moved
<1>3. CASE h \notin M
  BY <1>1, <1>3 DEF Moved
<1> QED  BY <1>2, <1>3

(* A handle in one spot is in no other. *)
LEMMA SpreadApart ==
    ASSUME NEW w, Spread(w), NEW h \in Handles, NEW x \in Spots, NEW y \in Spots,
           h \in w[x], h \in w[y]
    PROVE  x = y
BY DEF Spread

LEMMA ListSetIsRange == \A s : ToSet(s) = Range(s)
BY DEF ToSet, Range

LEMMA ReverseOf ==
    ASSUME NEW T, NEW s \in Seq(T)
    PROVE  /\ Reverse(s) \in Seq(T) /\ Len(Reverse(s)) = Len(s)
           /\ Range(Reverse(s)) = Range(s)
           /\ IsInjective(s) => IsInjective(Reverse(s))
BY ReverseHas DEF Reverse

LEMMA OpenCut ==
    ASSUME NEW l, NEW conn, FreeList(l, conn), NEW k \in 0 .. Len(l)
    PROVE  FreeList(SubSeq(l, k + 1, Len(l)), conn)
<1> DEFINE b == SubSeq(l, k + 1, Len(l))
<1>1. /\ b \in Seq(Handles) /\ Len(b) = Len(l) - k /\ IsInjective(b)
      /\ \A i \in 1 .. Len(l) - k : b[i] = l[k + i]
  BY CutHas DEF FreeList
<1>2. Len(l) \in Nat /\ k \in Nat /\ k <= Len(l) /\ DOMAIN l = 1 .. Len(l)
  BY DEF FreeList
<1>3. DOMAIN b = 1 .. Len(l) - k
  BY <1>1
<1> HIDE DEF b
<1>4. OpenLeads(b, conn)
  <2> SUFFICES ASSUME NEW i \in 1 .. Len(l) - k, NEW j \in 1 .. Len(l) - k, i < j, conn[b[j]]
               PROVE  conn[b[i]]
    BY <1>3 DEF OpenLeads
  <2>1. k + i \in 1 .. Len(l) /\ k + j \in 1 .. Len(l) /\ k + i < k + j
    BY <1>2
  <2> QED  BY <1>1, <1>2, <2>1 DEF FreeList, OpenLeads
<1> QED  BY <1>1, <1>4 DEF FreeList, b

LEMMA OpenConcat ==
    ASSUME NEW a \in Seq(Handles), NEW b \in Seq(Handles), NEW conn,
           OpenLeads(a, conn), OpenLeads(b, conn),
           (\A x \in Range(a) : conn[x]) \/ (\A x \in Range(b) : ~conn[x])
    PROVE  OpenLeads(a \o b, conn)
<1> DEFINE c == a \o b
           m == Len(a)
           n == Len(b)
<1>1. m \in Nat /\ n \in Nat /\ DOMAIN a = 1 .. m /\ DOMAIN b = 1 .. n /\ DOMAIN c = 1 .. m + n
  OBVIOUS
<1>2. /\ \A i \in 1 .. m : c[i] = a[i]
      /\ \A i \in 1 .. m + n : i > m => c[i] = b[i - m] /\ i - m \in 1 .. n
  BY <1>1
<1> HIDE DEF c, m, n
<1>3. ASSUME NEW i \in 1 .. m + n, NEW j \in 1 .. m + n, i < j, conn[c[j]] PROVE conn[c[i]]
  <2>1. i \in Int /\ j \in Int
    BY <1>1
  <2>2. CASE j <= m
    <3>1. i \in 1 .. m /\ j \in 1 .. m
      BY <1>1, <1>3, <2>1, <2>2
    <3> QED  BY <1>1, <1>2, <1>3, <3>1 DEF OpenLeads
  <2>3. CASE i > m
    <3>1. j > m /\ i - m < j - m
      BY <1>1, <1>3, <2>1, <2>3
    <3>2. i - m \in 1 .. n /\ j - m \in 1 .. n /\ c[i] = b[i - m] /\ c[j] = b[j - m]
      BY <1>2, <2>3, <3>1
    <3> QED  BY <1>1, <1>3, <3>1, <3>2 DEF OpenLeads
  <2>4. CASE i <= m /\ j > m
    <3>1. i \in 1 .. m
      BY <1>1, <1>3, <2>1, <2>4
    <3>2. c[i] \in Range(a) /\ c[j] \in Range(b)
      BY <1>1, <1>2, <2>4, <3>1 DEF Range
    <3> QED  BY <1>3, <3>2
  <2> QED  BY <1>1, <2>1, <2>2, <2>3, <2>4
<1> QED  BY <1>1, <1>3 DEF OpenLeads, c

(* Handles that come back to the list: none is lost and the open lead.     *)
LEMMA ReturnedIs ==
    ASSUME FreeList(free, connected), NEW s \in Seq(Handles), IsInjective(s),
           Range(s) \cap Range(free) = {}
    PROVE  FreeList(Returned(s), connected) /\ Range(Returned(s)) = Range(s) \cup Range(free)
<1> DEFINE F == Filter(s, Handles \ Closed)
           A == Reverse(F)
           C == Filter(s, Closed)
<1>0. ASSUME NEW S
      PROVE  /\ Filter(s, S) \in Seq(Handles) /\ IsInjective(Filter(s, S))
             /\ Range(Filter(s, S)) = Range(s) \cap S
  BY FilterHas
<1>1. F \in Seq(Handles) /\ IsInjective(F) /\ Range(F) = Range(s) \cap (Handles \ Closed)
  BY <1>0, Zenon
<1>2. C \in Seq(Handles) /\ IsInjective(C) /\ Range(C) = Range(s) \cap Closed
  BY <1>0, Zenon
<1>3. A \in Seq(Handles) /\ IsInjective(A) /\ Range(A) = Range(F)
  BY <1>1, ReverseOf, Zenon
<1>4. free \in Seq(Handles) /\ IsInjective(free) /\ OpenLeads(free, connected)
  BY DEF FreeList
<1> HIDE DEF F, A, C
<1>5. (\A x \in Range(A) : connected[x]) /\ (\A x \in Range(C) : ~connected[x])
  BY <1>1, <1>2, <1>3 DEF Closed
<1>6. OpenLeads(A, connected) /\ OpenLeads(C, connected)
  BY <1>5 DEF OpenLeads, Range
<1>7. /\ A \o free \in Seq(Handles) /\ Range(A \o free) = Range(A) \cup Range(free)
      /\ IsInjective(A \o free) /\ OpenLeads(A \o free, connected)
  <2>1. Range(A) \cap Range(free) = {}
    BY <1>1, <1>3
  <2> QED  BY <1>3, <1>4, <1>5, <1>6, <2>1, ConcatHas, OpenConcat
<1>8. /\ (A \o free) \o C \in Seq(Handles)
      /\ Range((A \o free) \o C) = Range(A) \cup Range(free) \cup Range(C)
      /\ IsInjective((A \o free) \o C) /\ OpenLeads((A \o free) \o C, connected)
  <2> DEFINE B == A \o free
  <2>1. Range(A) \cap Range(C) = {} /\ Range(free) \cap Range(C) = {}
    BY <1>1, <1>2, <1>3
  <2>2. /\ B \in Seq(Handles) /\ Range(B) = Range(A) \cup Range(free)
        /\ IsInjective(B) /\ OpenLeads(B, connected)
    BY <1>7
  <2> HIDE DEF B
  <2>3. Range(B) \cap Range(C) = {}
    BY <2>1, <2>2
  <2>4. B \o C \in Seq(Handles) /\ Range(B \o C) = Range(B) \cup Range(C) /\ IsInjective(B \o C)
    BY <1>2, <2>2, <2>3, ConcatHas
  <2>5. OpenLeads(B \o C, connected)
    BY <1>2, <1>5, <1>6, <2>2, OpenConcat
  <2> QED  BY <2>2, <2>4, <2>5 DEF B
<1>9. Range(A) \cup Range(free) \cup Range(C) = Range(s) \cup Range(free)
  <2>1. Range(s) \subseteq Handles
    BY DEF Range
  <2> QED  BY <1>1, <1>2, <1>3, <2>1
<1>10. Returned(s) = (A \o free) \o C
  BY DEF Returned, A, C, F
<1> QED  BY <1>8, <1>9, <1>10 DEF FreeList

LEMMA MovedIs ==
    ASSUME NEW l, NEW g, NEW h, NEW a, NEW b, NEW l2, NEW g2, NEW h2, NEW a2, NEW b2,
           NEW M, NEW x \in Spots, NEW y \in Spots, x # y,
           M \subseteq Where(l, g, h, a, b)[x],
           Where(l2, g2, h2, a2, b2)[x] = Where(l, g, h, a, b)[x] \ M,
           Where(l2, g2, h2, a2, b2)[y] = Where(l, g, h, a, b)[y] \cup M,
           <<"free", Checker>> \notin {x, y} => l2 = l,
           \A t \in Threads : <<"got", t>> \notin {x, y} => g2[t] = g[t],
           \A t \in Threads : <<"put", t>> \notin {x, y} => h2[t] = h[t],
           \A p \in Procs : <<"unchecked", p>> \notin {x, y} => a2[p] = a[p],
           \A p \in Procs : <<"checked", p>> \notin {x, y} => b2[p] = b[p]
    PROVE  Moved(Where(l, g, h, a, b), Where(l2, g2, h2, a2, b2), M, x, y)
<1> DEFINE v == Where(l, g, h, a, b)
           w == Where(l2, g2, h2, a2, b2)
<1>1. /\ v[<<"free", Checker>>] = Range(l)
      /\ \A t \in Threads : v[<<"got", t>>] = Range(g[t])
      /\ \A t \in Threads : v[<<"put", t>>] = {h[t]} \ {NoHandle}
      /\ \A p \in Procs : v[<<"unchecked", p>>] = Range(a[p])
      /\ \A p \in Procs : v[<<"checked", p>>] = Range(b[p])
  BY WhereIs
<1>3. /\ w[<<"free", Checker>>] = Range(l2)
      /\ \A t \in Threads : w[<<"got", t>>] = Range(g2[t])
      /\ \A t \in Threads : w[<<"put", t>>] = {h2[t]} \ {NoHandle}
      /\ \A p \in Procs : w[<<"unchecked", p>>] = Range(a2[p])
      /\ \A p \in Procs : w[<<"checked", p>>] = Range(b2[p])
  BY WhereIs
<1> HIDE DEF v, w
<1>2. ASSUME NEW z \in Spots \ {x, y} PROVE w[z] = v[z]
  <2>1. CASE z = <<"free", Checker>>
    BY <1>1, <1>2, <1>3, <2>1
  <2>2. ASSUME NEW t \in Threads, z = <<"got", t>> PROVE w[z] = v[z]
    <3>1. g2[t] = g[t]
      BY <1>2, <2>2
    <3>2. w[<<"got", t>>] = v[<<"got", t>>]
      BY <1>1, <1>3, <3>1
    <3> QED  BY <2>2, <3>2
  <2>3. ASSUME NEW t \in Threads, z = <<"put", t>> PROVE w[z] = v[z]
    <3>1. h2[t] = h[t]
      BY <1>2, <2>3
    <3>2. w[<<"put", t>>] = v[<<"put", t>>]
      <4>1. w[<<"put", t>>] = {h2[t]} \ {NoHandle}
        BY <1>3
      <4>2. v[<<"put", t>>] = {h[t]} \ {NoHandle}
        BY <1>1
      <4> QED  BY <3>1, <4>1, <4>2, Zenon
    <3> QED  BY <2>3, <3>2
  <2>4. ASSUME NEW p \in Procs, z = <<"unchecked", p>> PROVE w[z] = v[z]
    <3>1. a2[p] = a[p]
      BY <1>2, <2>4
    <3>2. w[<<"unchecked", p>>] = v[<<"unchecked", p>>]
      BY <1>1, <1>3, <3>1
    <3> QED  BY <2>4, <3>2
  <2>5. ASSUME NEW p \in Procs, z = <<"checked", p>> PROVE w[z] = v[z]
    <3>1. b2[p] = b[p]
      BY <1>2, <2>5
    <3>2. w[<<"checked", p>>] = v[<<"checked", p>>]
      BY <1>1, <1>3, <3>1
    <3> QED  BY <2>5, <3>2
  <2> QED  BY SpotsAre, <2>1, <2>2, <2>3, <2>4, <2>5
<1> QED  BY <1>2 DEF Moved, v, w

(* A process goes on, and the others stay where they are or are woken.     *)
Stays(s, q) ==
    \/ q = s
    \/ s = "waitBlocked" /\ q = "waitWoken"
    \/ s = "getBlocked" /\ q = "getWoken"

Goes(p, q) == pc'[p] = q /\ \A u \in Procs \ {p} : Stays(pc[u], pc'[u])

LEMMA GoesAlone ==
    ASSUME Protocol, NEW p \in Procs, NEW q, pc' = [pc EXCEPT ![p] = q]
    PROVE  Goes(p, q)
BY DEF Protocol, Typed, Goes, Stays

LEMMA GoesWaking ==
    ASSUME Protocol, NEW p \in Procs, NEW q,
           SignalAndGoto(p, q, "waitBlocked", "waitWoken") \/ SignalGet(p, q)
    PROVE  Goes(p, q)
<1>1. CASE pc' = [pc EXCEPT ![p] = q]
  BY <1>1, GoesAlone
<1>2. CASE \E w \in At("waitBlocked") : pc' = [pc EXCEPT ![w] = "waitWoken", ![p] = q]
  <2>1. PICK w \in Threads :
          pc[w] = "waitBlocked" /\ pc' = [pc EXCEPT ![w] = "waitWoken", ![p] = q]
    BY <1>2 DEF At
  <2> QED  BY <2>1, ProcKinds DEF Protocol, Typed, Goes, Stays
<1>3. CASE \E w \in At("getBlocked") : pc' = [pc EXCEPT ![w] = "getWoken", ![p] = q]
  <2>1. PICK w \in Threads :
          pc[w] = "getBlocked" /\ pc' = [pc EXCEPT ![w] = "getWoken", ![p] = q]
    BY <1>3 DEF At
  <2> QED  BY <2>1, ProcKinds DEF Protocol, Typed, Goes, Stays
<1> QED  BY <1>1, <1>2, <1>3 DEF SignalGet, SignalAndGoto

LEMMA FreeUntouched ==
    ASSUME FreeList(free, connected), \A h \in Range(free) : connected'[h] = connected[h]
    PROVE  FreeList(free, connected')
<1>1. \A i \in DOMAIN free : free[i] \in Range(free)
  BY DEF Range
<1> QED  BY <1>1 DEF FreeList, OpenLeads

(* What a step leaves alone of the other processes. *)
OthersKeep(p) ==
    /\ \A u \in Threads \ {p} :
          /\ nwant'[u] = nwant[u] /\ count'[u] = count[u]
          /\ got'[u] = got[u] /\ putting'[u] = putting[u]
    /\ \A u \in Procs \ {p} : unchecked'[u] = unchecked[u] /\ checked'[u] = checked[u]

(* A step of p keeps the invariant when p and the list are left in order   *)
(* and at most handles M went from spot x to spot y.                       *)
LEMMA StepKeeps ==
    ASSUME HandlesInv, Tables', NEW p \in Procs, NEW q, Goes(p, q), OthersKeep(p),
           p \in Threads => ThreadOK(q, nwant'[p], count'[p], got'[p], putting'[p]),
           ProcOK(q, unchecked'[p], checked'[p]),
           FreeList(free', connected'),
           Spread(Where(free', got', putting', unchecked', checked'))
    PROVE  HandlesInv'
<1>1. ASSUME NEW t \in Threads
      PROVE  ThreadOK(pc'[t], nwant'[t], count'[t], got'[t], putting'[t])
  <2>1. CASE t = p
    BY <2>1 DEF Goes
  <2>2. CASE t # p
    <3>1. ThreadOK(pc[t], nwant[t], count[t], got[t], putting[t]) /\ Stays(pc[t], pc'[t])
      BY <2>2, ProcKinds DEF HandlesInv, Goes
    <3>2. ThreadOK(pc'[t], nwant[t], count[t], got[t], putting[t])
      BY <3>1 DEF ThreadOK, Stays, Gathering, GetPlaces
    <3> QED  BY <2>2, <3>2 DEF OthersKeep
  <2> QED  BY <2>1, <2>2
<1>2. ASSUME NEW u \in Procs PROVE ProcOK(pc'[u], unchecked'[u], checked'[u])
  <2>1. CASE u = p
    BY <2>1 DEF Goes
  <2>2. CASE u # p
    <3>1. ProcOK(pc[u], unchecked[u], checked[u]) /\ Stays(pc[u], pc'[u])
      BY <2>2 DEF HandlesInv, Goes
    <3> QED  BY <2>2, <3>1 DEF OthersKeep, ProcOK, Stays
  <2> QED  BY <2>1, <2>2
<1> QED  BY <1>1, <1>2 DEF HandlesInv

LEMMA TablesNext == Tables /\ [Next]_vars => Tables'
<1> SUFFICES ASSUME Tables, [Next]_vars PROVE Tables'
  OBVIOUS
<1>1. ASSUME NEW t \in Threads, NEW n, NEW limited \in BOOLEAN, Get(t, n, limited) PROVE Tables'
  <2>1. got' = got \/ \E x : got' = [got EXCEPT ![t] = x]
    BY <1>1 DEF Get, Collect
  <2> QED  BY <1>1, <2>1 DEF Get, Tables, IsFcn, checkVars
<1>2. ASSUME NEW t \in Threads, Turn(t) \/ GetMore(t) \/ GiveUp(t) PROVE Tables'
  <2>1. got' = got \/ \E x : got' = [got EXCEPT ![t] = x]
    BY <1>2 DEF Turn, GetMore, GiveUp, Collect
  <2>2. UNCHANGED <<timed, bounces, nwant, count, putting, unchecked, checked>>
    BY <1>2 DEF Turn, GetMore, GiveUp, checkVars
  <2> QED  BY <2>1, <2>2 DEF Tables, IsFcn
<1>3. ASSUME NEW t \in Threads, Connect(t) \/ Expire(t) \/ Disconnect(t) PROVE Tables'
  BY <1>3 DEF Connect, Expire, Disconnect, Tables, IsFcn, poolVars, getVars, checkVars
<1>4. ASSUME NEW t \in Threads, Granted(t) PROVE Tables'
  BY <1>4 DEF Granted, Return, Tables, IsFcn, poolVars, checkVars
<1>5. ASSUME NEW t \in Threads, Fail(t) PROVE Tables'
  BY <1>5 DEF Fail, Return, Tables, IsFcn, checkVars
<1>6. ASSUME NEW t \in Threads, ReleaseDbs(t) PROVE Tables'
  <2>1. PICK h \in Handles : Put(t, h)
    BY <1>6 DEF ReleaseDbs
  <2> QED  BY <2>1 DEF Put, Tables, IsFcn, poolVars, checkVars
<1>7. ASSUME NEW t \in Threads, PutBack(t) PROVE Tables'
  BY <1>7 DEF PutBack, Tables, IsFcn, getVars, checkVars
<1>8. ASSUME NEW t \in Threads, Bounce(t) PROVE Tables'
  <2>1. bounces' \in 0 .. MaxBounce
    BY <1>8, DbAssumption DEF Bounce, Tables
  <2> QED  BY <1>8, <2>1 DEF Bounce, Tables, IsFcn, getVars, checkVars
<1>9. ASSUME NEW p \in Procs, Grab(p) PROVE Tables'
  BY <1>9 DEF Grab, Tables, IsFcn, getVars
<1>10. ASSUME NEW p \in Procs, CheckOne(p) PROVE Tables'
  BY <1>10 DEF CheckOne, Tables, IsFcn, poolVars, getVars
<1>11. ASSUME NEW p \in Procs, ReturnAll(p) PROVE Tables'
  BY <1>11 DEF ReturnAll, Tables, IsFcn, getVars
<1>12. CASE Scheduled
  BY <1>12 DEF Scheduled, Tables, IsFcn, poolVars, getVars, checkVars
<1>13. CASE UNCHANGED vars
  BY <1>13 DEF vars, Tables, IsFcn, poolVars, getVars, checkVars
<1> QED
  BY <1>1, <1>2, <1>3, <1>4, <1>5, <1>6, <1>7, <1>8, <1>9, <1>10, <1>11, <1>12, <1>13
     DEF Next, GetStep, CheckPool

LEMMA WhereNow ==
    /\ Where(free, got, putting, unchecked, checked)[<<"free", Checker>>] = Range(free)
    /\ Where(free', got', putting', unchecked', checked')[<<"free", Checker>>] = Range(free')
BY WhereIs

LEMMA WhereThread ==
    ASSUME NEW t \in Threads
    PROVE  /\ Where(free, got, putting, unchecked, checked)[<<"got", t>>] = Range(got[t])
           /\ Where(free, got, putting, unchecked, checked)[<<"put", t>>] = {putting[t]} \ {NoHandle}
           /\ Where(free', got', putting', unchecked', checked')[<<"got", t>>] = Range(got'[t])
           /\ Where(free', got', putting', unchecked', checked')[<<"put", t>>] = {putting'[t]} \ {NoHandle}
<1>1. Where(free, got, putting, unchecked, checked)[<<"got", t>>] = Range(got[t])
  BY WhereIs
<1>2. Where(free, got, putting, unchecked, checked)[<<"put", t>>] = {putting[t]} \ {NoHandle}
  BY WhereIs
<1>3. Where(free', got', putting', unchecked', checked')[<<"got", t>>] = Range(got'[t])
  BY WhereIs
<1>4. Where(free', got', putting', unchecked', checked')[<<"put", t>>] = {putting'[t]} \ {NoHandle}
  BY WhereIs
<1> QED  BY <1>1, <1>2, <1>3, <1>4

LEMMA WhereCheck ==
    ASSUME NEW p \in Procs
    PROVE  /\ Where(free, got, putting, unchecked, checked)[<<"unchecked", p>>] = Range(unchecked[p])
           /\ Where(free, got, putting, unchecked, checked)[<<"checked", p>>] = Range(checked[p])
           /\ Where(free', got', putting', unchecked', checked')[<<"unchecked", p>>] = Range(unchecked'[p])
           /\ Where(free', got', putting', unchecked', checked')[<<"checked", p>>] = Range(checked'[p])
BY WhereIs

LEMMA SmallLists ==
    /\ Range(<<>>) = {} /\ IsInjective(<<>>) /\ <<>> \in Seq(Handles) /\ Len(<<>>) = 0
    /\ \A h \in Handles :
          <<h>> \in Seq(Handles) /\ Range(<<h>>) = {h} /\ IsInjective(<<h>>) /\ Len(<<h>>) = 1
BY DEF Range, IsInjective

(* A thread takes the first k handles of the list. *)
LEMMA Takes ==
    ASSUME HandlesInv, NEW t \in Threads, NEW k \in 0 .. Len(free),
           got' = [got EXCEPT ![t] = got[t] \o SubSeq(free, 1, k)],
           free' = SubSeq(free, k + 1, Len(free)),
           UNCHANGED <<putting, unchecked, checked, connected>>
    PROVE  /\ got'[t] \in Seq(Handles) /\ IsInjective(got'[t])
           /\ Len(got'[t]) = Len(got[t]) + k
           /\ FreeList(free', connected')
           /\ Spread(Where(free', got', putting', unchecked', checked'))
<1> DEFINE A == SubSeq(free, 1, k)
           B == SubSeq(free, k + 1, Len(free))
           v == Where(free, got, putting, unchecked, checked)
           x == <<"free", Checker>>
           y == <<"got", t>>
<1>1. /\ free \in Seq(Handles) /\ IsInjective(free)
      /\ got[t] \in Seq(Handles) /\ IsInjective(got[t]) /\ Spread(v)
  BY DEF HandlesInv, FreeList, ThreadOK
<1>2. /\ A \in Seq(Handles) /\ B \in Seq(Handles) /\ Len(A) = k
      /\ Range(A) \cup Range(B) = Range(free) /\ Range(A) \cap Range(B) = {}
      /\ IsInjective(A) /\ IsInjective(B)
  BY <1>1, CutHas
<1>3. got'[t] = got[t] \o A /\ \A u \in Threads \ {t} : got'[u] = got[u]
  BY DEF HandlesInv, Tables, IsFcn
<1>4. x \in Spots /\ y \in Spots /\ x # y
  BY SpotsAre
<1>5. v[x] = Range(free) /\ v[y] = Range(got[t])
  BY WhereNow, WhereThread
<1>6. Range(got[t]) \cap Range(A) = {}
  <2>1. Range(A) \subseteq Handles /\ Range(A) \subseteq v[x]
    BY <1>2, <1>5 DEF Range
  <2> HIDE DEF v, x, y, A
  <2> QED  BY <1>1, <1>4, <1>5, <2>1, SpreadApart
<1>7. /\ got[t] \o A \in Seq(Handles) /\ Len(got[t] \o A) = Len(got[t]) + k
      /\ Range(got[t] \o A) = Range(got[t]) \cup Range(A) /\ IsInjective(got[t] \o A)
  <2> DEFINE g == got[t]
  <2>1. g \in Seq(Handles) /\ IsInjective(g) /\ Range(g) \cap Range(A) = {}
    BY <1>1, <1>6
  <2> HIDE DEF A, B, g
  <2>2. /\ g \o A \in Seq(Handles) /\ Len(g \o A) = Len(g) + Len(A)
        /\ Range(g \o A) = Range(g) \cup Range(A)
        /\ IsInjective(g) /\ IsInjective(A) /\ Range(g) \cap Range(A) = {}
             => IsInjective(g \o A)
    <3>1. A \in Seq(Handles)
      BY <1>2
    <3> QED  BY <2>1, <3>1, ConcatHas
  <2>3. Len(A) = k /\ IsInjective(A)
    BY <1>2
  <2> QED  BY <2>1, <2>2, <2>3 DEF g
<1>8. FreeList(free', connected')
  BY OpenCut DEF HandlesInv
<1>9. Moved(v, Where(free', got', putting', unchecked', checked'), Range(A), x, y)
  <2> DEFINE w == Where(free', got', putting', unchecked', checked')
  <2>1. w[x] = Range(free') /\ w[y] = Range(got'[t])
    BY WhereNow, WhereThread
  <2>2. free' = B
    OBVIOUS
  <2>3. w[x] = v[x] \ Range(A) /\ w[y] = v[y] \cup Range(A) /\ Range(A) \subseteq v[x]
    <3>1. w[x] = Range(B) /\ w[y] = Range(got[t] \o A)
      BY <1>3, <2>1, <2>2
    <3>2. Range(B) = Range(free) \ Range(A) /\ Range(A) \subseteq Range(free)
      <4> HIDE DEF A, B
      <4> QED  BY <1>2
    <3> HIDE DEF w, v, x, y, A, B
    <3> QED  BY <1>5, <1>7, <3>1, <3>2
  <2>4. \A u \in Threads : <<"got", u>> \notin {x, y} => got'[u] = got[u]
    BY <1>3
  <2> HIDE DEF A, B
  <2> QED  BY <1>4, <2>3, <2>4, MovedIs
<1>10. Spread(Where(free', got', putting', unchecked', checked'))
  <2> HIDE DEF v, x, y, A, B
  <2> QED  BY <1>1, <1>9, SpreadMoved
<1> HIDE DEF A, B
<1> QED  BY <1>3, <1>7, <1>8, <1>10

(* A spot is emptied: its handles s come back to the list. *)
LEMMA ComesBack ==
    ASSUME HandlesInv, NEW s \in Seq(Handles), IsInjective(s),
           NEW x \in Spots, x # <<"free", Checker>>,
           Where(free, got, putting, unchecked, checked)[x] = Range(s),
           Where(free', got', putting', unchecked', checked')[x] = {},
           free' = Returned(s), connected' = connected,
           \A t \in Threads : <<"got", t>> # x => got'[t] = got[t],
           \A t \in Threads : <<"put", t>> # x => putting'[t] = putting[t],
           \A p \in Procs : <<"unchecked", p>> # x => unchecked'[p] = unchecked[p],
           \A p \in Procs : <<"checked", p>> # x => checked'[p] = checked[p]
    PROVE  /\ FreeList(free', connected')
           /\ Spread(Where(free', got', putting', unchecked', checked'))
<1> DEFINE v == Where(free, got, putting, unchecked, checked)
           w == Where(free', got', putting', unchecked', checked')
           y == <<"free", Checker>>
<1>1. FreeList(free, connected) /\ Spread(v)
  BY DEF HandlesInv
<1>2. y \in Spots /\ v[y] = Range(free) /\ w[y] = Range(free')
  BY SpotsAre, WhereNow
<1>3. Range(s) \cap Range(free) = {}
  <2>1. Range(s) \subseteq Handles
    BY DEF Range
  <2> HIDE DEF v, w, y
  <2>2. v[x] = Range(s) /\ x # y
    BY DEF v, y
  <2> QED  BY <1>1, <1>2, <2>1, <2>2, SpreadApart
<1>4. FreeList(Returned(s), connected) /\ Range(Returned(s)) = Range(s) \cup Range(free)
  BY <1>1, <1>3, ReturnedIs
<1>5. Moved(v, w, Range(s), x, y)
  <2>1. w[x] = v[x] \ Range(s) /\ w[y] = v[y] \cup Range(s) /\ Range(s) \subseteq v[x]
    <3>1. v[x] = Range(s) /\ w[x] = {}
      OBVIOUS
    <3> HIDE DEF v, w, y
    <3> QED  BY <1>2, <1>4, <3>1
  <2>2. /\ \A t \in Threads : <<"got", t>> \notin {x, y} => got'[t] = got[t]
        /\ \A t \in Threads : <<"put", t>> \notin {x, y} => putting'[t] = putting[t]
    OBVIOUS
  <2>3. /\ \A p \in Procs : <<"unchecked", p>> \notin {x, y} => unchecked'[p] = unchecked[p]
        /\ \A p \in Procs : <<"checked", p>> \notin {x, y} => checked'[p] = checked[p]
    OBVIOUS
  <2> QED  BY <1>2, <2>1, <2>2, <2>3, MovedIs
<1>6. Spread(w)
  <2> HIDE DEF v, w, y
  <2> QED  BY <1>1, <1>5, SpreadMoved
<1> QED  BY <1>4, <1>6

LEMMA NotChecking ==
    ASSUME HandlesInv, NEW p \in Procs, pc[p] # "check", NEW q
    PROVE  ProcOK(q, unchecked[p], checked[p])
BY DEF HandlesInv, ProcOK

LEMMA CollectKeeps ==
    ASSUME HandlesInv, Protocol, Tables', NEW t \in Threads, NEW n \in 0 .. NHandles,
           pc[t] \in {"idle", "using", "waitWoken", "getWoken"}, Len(got[t]) <= n,
           nwant'[t] = n, count'[t] = n,
           \A u \in Threads \ {t} : nwant'[u] = nwant[u] /\ count'[u] = count[u],
           UNCHANGED <<putting, unchecked, checked, connected>>,
           Collect(t, n, got[t])
    PROVE  HandlesInv'
<1> DEFINE need == n - Len(got[t])
<1>1. /\ free \in Seq(Handles) /\ got[t] \in Seq(Handles) /\ putting[t] = NoHandle
      /\ Len(free) \in Nat /\ Len(got[t]) \in Nat /\ n \in Nat /\ need \in Nat
  <2>1. free \in Seq(Handles) /\ got[t] \in Seq(Handles) /\ putting[t] = NoHandle
    BY DEF HandlesInv, FreeList, ThreadOK
  <2>2. n \in Nat
    BY DbAssumption, FS_CardinalityType
  <2> QED  BY <2>1, <2>2
<1>2. t \in Procs /\ ProcOK("connect", unchecked'[t], checked'[t])
         /\ ProcOK("getBlocked", unchecked'[t], checked'[t])
  BY ProcKinds, NotChecking
<1>3. PICK k \in 0 .. Len(free) :
          /\ got' = [got EXCEPT ![t] = got[t] \o SubSeq(free, 1, k)]
          /\ free' = SubSeq(free, k + 1, Len(free))
          /\ \/ k = need /\ SignalAndGoto(t, "connect", "waitBlocked", "waitWoken")
             \/ Len(got[t]) + k < n /\ pc' = [pc EXCEPT ![t] = "getBlocked"]
  <2>1. CASE need <= Len(free)
    <3>1. need \in 0 .. Len(free)
      BY <1>1, <2>1
    <3> QED  BY <2>1, <3>1 DEF Collect
  <2>2. CASE ~(need <= Len(free))
    <3>1. SubSeq(free, 1, Len(free)) = free /\ SubSeq(free, Len(free) + 1, Len(free)) = <<>>
      <4>1. SubSeq(free, Len(free) + 1, Len(free)) = <<>>
        BY <1>1, SubSeqEmpty
      <4> QED  BY <1>1, <4>1, SubSeqFull
    <3>2. Len(got[t]) + Len(free) < n /\ Len(free) \in 0 .. Len(free)
      BY <1>1, <2>2
    <3> QED  BY <2>2, <3>1, <3>2 DEF Collect
  <2> QED  BY <2>1, <2>2
<1>4. /\ got'[t] \in Seq(Handles) /\ IsInjective(got'[t]) /\ Len(got'[t]) = Len(got[t]) + k
      /\ FreeList(free', connected')
      /\ Spread(Where(free', got', putting', unchecked', checked'))
  BY <1>3, Takes
<1>5. OthersKeep(t)
  BY <1>3 DEF OthersKeep, HandlesInv, Tables, IsFcn
<1>6. CASE k = need /\ SignalAndGoto(t, "connect", "waitBlocked", "waitWoken")
  <2>1. Goes(t, "connect")
    BY <1>2, <1>6, GoesWaking
  <2>2. Len(got'[t]) = n
    BY <1>1, <1>4, <1>6
  <2>3. ThreadOK("connect", nwant'[t], count'[t], got'[t], putting'[t])
    BY <1>1, <1>4, <2>2 DEF ThreadOK, GetPlaces, Gathering
  <2> QED  BY <1>2, <1>4, <1>5, <2>1, <2>3, StepKeeps
<1>7. CASE Len(got[t]) + k < n /\ pc' = [pc EXCEPT ![t] = "getBlocked"]
  <2>1. Goes(t, "getBlocked")
    BY <1>2, <1>7, GoesAlone
  <2>3. ThreadOK("getBlocked", nwant'[t], count'[t], got'[t], putting'[t])
    BY <1>1, <1>4, <1>7 DEF ThreadOK, GetPlaces, Gathering
  <2> QED  BY <1>2, <1>4, <1>5, <2>1, <2>3, StepKeeps
<1> QED  BY <1>3, <1>6, <1>7

(* The lists stay, and the handles of the free list as they are. *)
LEMMA ListsStay ==
    ASSUME HandlesInv, UNCHANGED <<free, got, putting, unchecked, checked>>,
           \A h \in Range(free) : connected'[h] = connected[h]
    PROVE  /\ FreeList(free', connected')
           /\ Spread(Where(free', got', putting', unchecked', checked'))
<1>1. FreeList(free', connected')
  BY FreeUntouched DEF HandlesInv
<1> QED  BY <1>1 DEF HandlesInv

LEMMA HeldApart ==
    ASSUME HandlesInv, NEW h \in Handles, NEW x \in Spots, x # <<"free", Checker>>,
           h \in Where(free, got, putting, unchecked, checked)[x]
    PROVE  h \notin Range(free)
<1> DEFINE v == Where(free, got, putting, unchecked, checked)
           y == <<"free", Checker>>
<1>1. Spread(v) /\ y \in Spots /\ v[y] = Range(free) /\ h \in v[x] /\ x # y
  BY SpotsAre, WhereNow DEF HandlesInv
<1> HIDE DEF v, y
<1> QED  BY <1>1, SpreadApart

LEMMA OnlyOneChanges ==
    ASSUME HandlesTyped, NEW h, CloseIfStale(h) \/ SetClosed(h)
    PROVE  \A g \in Handles \ {h} : connected'[g] = connected[g]
BY DEF HandlesTyped, CloseIfStale, SetClosed

LEMMA GetKeeps ==
    ASSUME HandlesInv, Protocol, Tables', NEW t \in Threads, NEW n \in 1 .. NHandles,
           NEW limited \in BOOLEAN, Get(t, n, limited)
    PROVE  HandlesInv'
<1>0. t \in Procs /\ pc[t] \in {"idle", "using"} /\ count[t] = 0 /\ NHandles \in Nat
  BY ProcKinds, DbAssumption, FS_CardinalityType DEF Get, MayGet, NHandles
<1>1. /\ got[t] = <<>> /\ Len(got[t]) = 0
      /\ ThreadOK(pc[t], nwant[t], count[t], got[t], putting[t])
  BY <1>0 DEF HandlesInv, ThreadOK, GetPlaces
<1>2. /\ nwant'[t] = n /\ count'[t] = n
      /\ \A u \in Threads \ {t} : nwant'[u] = nwant[u] /\ count'[u] = count[u]
      /\ UNCHANGED <<putting, unchecked, checked, connected>>
  BY DEF Get, HandlesInv, Tables, IsFcn, checkVars, handleVars
<1>3. CASE waiting
  <2>1. Goes(t, "waitBlocked") /\ UNCHANGED <<free, got>>
    BY <1>0, <1>3, GoesAlone DEF Get
  <2>2. OthersKeep(t)
    BY <1>2, <2>1 DEF OthersKeep
  <2>3. ThreadOK("waitBlocked", nwant'[t], count'[t], got'[t], putting'[t])
    <3>1. n \in 0 .. NHandles /\ n \in Nat
      BY <1>0
    <3>2. /\ got[t] \in Seq(Handles) /\ IsInjective(got[t]) /\ putting[t] = NoHandle
      BY <1>0, <1>1 DEF ThreadOK
    <3>3. ThreadOK("waitBlocked", n, n, got[t], putting[t])
      BY <1>1, <3>1, <3>2 DEF ThreadOK, GetPlaces, Gathering
    <3> QED  BY <1>2, <2>1, <3>3
  <2>4. ProcOK("waitBlocked", unchecked'[t], checked'[t])
    BY <1>0, <1>2, NotChecking
  <2>5. /\ FreeList(free', connected')
        /\ Spread(Where(free', got', putting', unchecked', checked'))
    BY <1>2, <2>1, ListsStay
  <2> QED  BY <1>0, <2>1, <2>2, <2>3, <2>4, <2>5, StepKeeps
<1>4. CASE ~waiting
  <2>1. Collect(t, n, got[t])
    BY <1>1, <1>4 DEF Get
  <2>2. n \in 0 .. NHandles /\ Len(got[t]) <= n
    BY <1>0, <1>1
  <2> QED  BY <1>0, <1>2, <2>1, <2>2, CollectKeeps
<1> QED  BY <1>3, <1>4

LEMMA TurnKeeps ==
    ASSUME HandlesInv, Protocol, Tables', NEW t \in Threads, Turn(t) \/ GetMore(t)
    PROVE  HandlesInv'
<1>0. t \in Procs /\ pc[t] \in {"waitWoken", "getWoken"}
  BY ProcKinds DEF Turn, GetMore
<1>1. /\ ThreadOK(pc[t], nwant[t], count[t], got[t], putting[t])
      /\ count[t] = nwant[t] /\ nwant[t] \in 0 .. NHandles /\ Len(got[t]) <= nwant[t]
      /\ Turn(t) => got[t] = <<>>
  <2>1. ThreadOK(pc[t], nwant[t], count[t], got[t], putting[t])
    BY DEF HandlesInv
  <2>2. NHandles \in Nat
    BY DbAssumption, FS_CardinalityType DEF NHandles
  <2>3. Turn(t) => pc[t] = "waitWoken"
    BY DEF Turn
  <2> QED  BY <1>0, <2>1, <2>2, <2>3 DEF ThreadOK, GetPlaces, Gathering
<1>2. UNCHANGED <<nwant, count, putting, unchecked, checked, connected>>
  BY DEF Turn, GetMore, checkVars, handleVars
<1>3. CASE Turn(t) /\ waiting
  <2>1. Goes(t, "waitBlocked") /\ UNCHANGED <<free, got>>
    BY <1>0, <1>3, GoesAlone DEF Turn
  <2>2. OthersKeep(t)
    BY <1>2, <2>1 DEF OthersKeep
  <2>3. ThreadOK("waitBlocked", nwant'[t], count'[t], got'[t], putting'[t])
    BY <1>0, <1>1, <1>2, <1>3, <2>1 DEF ThreadOK, GetPlaces, Gathering
  <2>4. ProcOK("waitBlocked", unchecked'[t], checked'[t])
    BY <1>0, <1>2, NotChecking
  <2>5. /\ FreeList(free', connected')
        /\ Spread(Where(free', got', putting', unchecked', checked'))
    BY <1>2, <2>1, ListsStay
  <2> QED  BY <1>0, <2>1, <2>2, <2>3, <2>4, <2>5, StepKeeps
<1>4. CASE GetMore(t) \/ (Turn(t) /\ ~waiting)
  <2>1. Collect(t, nwant[t], got[t])
    BY <1>1, <1>4 DEF Turn, GetMore
  <2> QED  BY <1>0, <1>1, <1>2, <2>1, CollectKeeps
<1> QED  BY <1>3, <1>4

LEMMA GiveUpKeeps ==
    ASSUME HandlesInv, Protocol, Tables', NEW t \in Threads, GiveUp(t)
    PROVE  HandlesInv'
<1>0. t \in Procs /\ pc[t] = "getExpired"
  BY ProcKinds DEF GiveUp
<1> DEFINE k == IF free = <<>> THEN 0 ELSE 1
           all == got[t] \o SubSeq(free, 1, k)
<1>1. /\ got' = [got EXCEPT ![t] = all] /\ free' = SubSeq(free, k + 1, Len(free))
      /\ \/ Len(all) = nwant[t] /\ SignalAndGoto(t, "connect", "waitBlocked", "waitWoken")
         \/ SignalAndGoto(t, "fail", "waitBlocked", "waitWoken")
      /\ UNCHANGED <<nwant, count, putting, unchecked, checked, connected>>
  BY DEF GiveUp, checkVars, handleVars
<1>2. free \in Seq(Handles) /\ k \in 0 .. Len(free)
  <2>1. free \in Seq(Handles)
    BY DEF HandlesInv, FreeList
  <2>2. free # <<>> => Len(free) >= 1
    BY <2>1
  <2> QED  BY <2>1, <2>2
<1>3. /\ ThreadOK(pc[t], nwant[t], count[t], got[t], putting[t])
      /\ count[t] = nwant[t] /\ putting[t] = NoHandle
  BY <1>0 DEF HandlesInv, ThreadOK, GetPlaces
<1>4. got'[t] = all
  BY <1>1 DEF HandlesInv, Tables, IsFcn
<1>5. OthersKeep(t)
  BY <1>1 DEF OthersKeep, HandlesInv, Tables, IsFcn
<1>6. /\ got'[t] \in Seq(Handles) /\ IsInjective(got'[t])
      /\ FreeList(free', connected')
      /\ Spread(Where(free', got', putting', unchecked', checked'))
  <2> HIDE DEF k
  <2> QED  BY <1>1, <1>2, Takes
<1> HIDE DEF k, all
<1>7. ProcOK("connect", unchecked'[t], checked'[t]) /\ ProcOK("fail", unchecked'[t], checked'[t])
  BY <1>0, <1>1, NotChecking
<1>8. CASE Len(all) = nwant[t] /\ SignalAndGoto(t, "connect", "waitBlocked", "waitWoken")
  <2>1. Goes(t, "connect")
    BY <1>0, <1>8, GoesWaking
  <2>2. ThreadOK("connect", nwant'[t], count'[t], got'[t], putting'[t])
    BY <1>1, <1>3, <1>4, <1>6, <1>8 DEF ThreadOK, GetPlaces, Gathering
  <2> QED  BY <1>0, <1>5, <1>6, <1>7, <2>1, <2>2, StepKeeps
<1>9. CASE SignalAndGoto(t, "fail", "waitBlocked", "waitWoken")
  <2>1. Goes(t, "fail")
    BY <1>0, <1>9, GoesWaking
  <2>2. ThreadOK("fail", nwant'[t], count'[t], got'[t], putting'[t])
    BY <1>1, <1>3, <1>6 DEF ThreadOK, GetPlaces, Gathering
  <2> QED  BY <1>0, <1>5, <1>6, <1>7, <2>1, <2>2, StepKeeps
<1> QED  BY <1>1, <1>8, <1>9

LEMMA ConnectKeeps ==
    ASSUME HandlesInv, Protocol, HandlesTyped, Tables', NEW t \in Threads,
           Connect(t) \/ Granted(t)
    PROVE  HandlesInv'
<1>0. t \in Procs /\ pc[t] = "connect"
  BY ProcKinds DEF Connect, Granted
<1>1. /\ ThreadOK(pc[t], nwant[t], count[t], got[t], putting[t])
      /\ NHandles \in Nat
  BY DbAssumption, FS_CardinalityType DEF HandlesInv, NHandles
<1>2. \A q : ProcOK(q, unchecked[t], checked[t])
  BY <1>0, NotChecking
<1>3. UNCHANGED <<free, got, count, putting, unchecked, checked>>
  BY DEF Connect, Granted, poolVars, getVars, checkVars
<1>4. CASE Connect(t)
  <2> DEFINE U == Unopened(t)
             h == Head(U)
  <2>1. h \in Range(got[t]) /\ h \in Handles
    <3>1. U \in Seq(Handles) /\ Range(U) = Range(got[t]) \cap Closed
      <4>1. got[t] \in Seq(Handles)
        BY <1>1 DEF ThreadOK
      <4>2. \A S : Filter(got[t], S) \in Seq(Handles) /\ Range(Filter(got[t], S)) = Range(got[t]) \cap S
        BY <4>1, FilterHas
      <4> QED  BY <4>2 DEF Unopened
    <3>2. U # <<>>
      BY <1>4 DEF Connect
    <3> HIDE DEF U
    <3>3. 1 \in DOMAIN U /\ h = U[1]
      BY <3>1, <3>2
    <3> QED  BY <3>1, <3>3 DEF Range, Closed
  <2>2. h \notin Range(free)
    <3>1. <<"got", t>> \in Spots /\ <<"got", t>> # <<"free", Checker>>
      BY SpotsAre
    <3> HIDE DEF h
    <3> QED  BY <2>1, <3>1, HeldApart, WhereThread
  <2> HIDE DEF h
  <2>3. \A g \in Handles \ {h} : connected'[g] = connected[g]
    <3>1. CASE SetClosed(h)
      BY <3>1, OnlyOneChanges
    <3>2. CASE connected' = [connected EXCEPT ![h] = TRUE]
      BY <3>2 DEF HandlesTyped
    <3> QED  BY <1>4, <3>1, <3>2 DEF Connect, h
  <2>4. \A g \in Range(free) : connected'[g] = connected[g]
    <3>1. Range(free) \subseteq Handles
      BY DEF HandlesInv, FreeList, Range
    <3> QED  BY <2>2, <2>3, <3>1
  <2>5. /\ FreeList(free', connected')
        /\ Spread(Where(free', got', putting', unchecked', checked'))
    BY <1>3, <2>4, ListsStay
  <2>6. PICK q \in {"connect", "fail"} : Goes(t, q)
    <3>1. pc' = pc \/ pc' = [pc EXCEPT ![t] = "fail"]
      BY <1>4 DEF Connect
    <3>2. pc' = pc => Goes(t, "connect")
      BY <1>0 DEF Goes, Stays
    <3> QED  BY <1>0, <3>1, <3>2, GoesAlone
  <2>7. UNCHANGED nwant
    BY <1>4 DEF Connect, getVars
  <2>8. ThreadOK(q, nwant'[t], count'[t], got'[t], putting'[t])
    BY <1>0, <1>1, <1>3, <2>7 DEF ThreadOK, GetPlaces, Gathering
  <2>9. OthersKeep(t)
    BY <1>3, <2>7 DEF OthersKeep
  <2> QED  BY <1>0, <1>2, <1>3, <2>5, <2>6, <2>8, <2>9, StepKeeps
<1>5. CASE Granted(t)
  <2>1. Goes(t, "using")
    BY <1>0, <1>5, GoesAlone DEF Granted
  <2>2. nwant'[t] = 0 /\ \A u \in Threads \ {t} : nwant'[u] = nwant[u]
    BY <1>5 DEF Granted, Return, HandlesInv, Tables, IsFcn
  <2>3. ThreadOK("using", nwant'[t], count'[t], got'[t], putting'[t])
    BY <1>0, <1>1, <1>3, <2>2 DEF ThreadOK, GetPlaces, Gathering
  <2>4. OthersKeep(t)
    BY <1>3, <2>2 DEF OthersKeep
  <2>5. /\ FreeList(free', connected')
        /\ Spread(Where(free', got', putting', unchecked', checked'))
    BY <1>3, <1>5, ListsStay DEF Granted, handleVars
  <2> QED  BY <1>0, <1>2, <1>3, <2>1, <2>3, <2>4, <2>5, StepKeeps
<1> QED  BY <1>4, <1>5

LEMMA FailKeeps ==
    ASSUME HandlesInv, Protocol, Tables', NEW t \in Threads, Fail(t)
    PROVE  HandlesInv'
<1>0. t \in Procs /\ pc[t] = "fail"
  BY ProcKinds DEF Fail
<1>1. /\ ThreadOK(pc[t], nwant[t], count[t], got[t], putting[t])
      /\ NHandles \in Nat
  BY DbAssumption, FS_CardinalityType DEF HandlesInv, NHandles
<1>2. \A q : ProcOK(q, unchecked[t], checked[t])
  BY <1>0, NotChecking
<1>3. /\ free' = Returned(Reverse(got[t])) /\ connected' = connected
      /\ got'[t] = <<>> /\ count'[t] = count[t] - nwant[t] /\ nwant'[t] = 0
      /\ UNCHANGED <<putting, unchecked, checked>>
  BY DEF Fail, Return, HandlesInv, Tables, IsFcn, checkVars, handleVars
<1>4. OthersKeep(t)
  BY DEF Fail, Return, OthersKeep, HandlesInv, Tables, IsFcn, checkVars
<1>5. Goes(t, "idle")
  BY <1>0, GoesWaking DEF Fail
<1>6. ThreadOK("idle", nwant'[t], count'[t], got'[t], putting'[t])
  <2>1. count'[t] = 0
    BY <1>0, <1>1, <1>3 DEF ThreadOK, GetPlaces
  <2>2. putting[t] = NoHandle
    BY <1>0, <1>1 DEF ThreadOK
  <2> QED  BY <1>1, <1>3, <2>1, <2>2, SmallLists DEF ThreadOK, GetPlaces, Gathering
<1>7. /\ FreeList(free', connected')
      /\ Spread(Where(free', got', putting', unchecked', checked'))
  <2> DEFINE s == Reverse(got[t])
             x == <<"got", t>>
  <2>1. s \in Seq(Handles) /\ Range(s) = Range(got[t]) /\ IsInjective(s)
    <3>1. got[t] \in Seq(Handles) /\ IsInjective(got[t])
      BY <1>1 DEF ThreadOK
    <3> QED  BY <3>1, ReverseOf
  <2>2. /\ x \in Spots /\ x # <<"free", Checker>>
        /\ \A u \in Threads : <<"got", u>> # x => got'[u] = got[u]
    BY <1>4, SpotsAre DEF OthersKeep
  <2>3. /\ Where(free, got, putting, unchecked, checked)[x] = Range(s)
        /\ Where(free', got', putting', unchecked', checked')[x] = {}
    BY <1>3, <2>1, WhereThread, SmallLists
  <2>4. free' = Returned(s)
    BY <1>3
  <2> HIDE DEF s, x
  <2> QED  BY <1>3, <2>1, <2>2, <2>3, <2>4, ComesBack
<1> QED  BY <1>0, <1>2, <1>3, <1>4, <1>5, <1>6, <1>7, StepKeeps

LEMMA PutBackKeeps ==
    ASSUME HandlesInv, Protocol, Tables', NEW t \in Threads, PutBack(t)
    PROVE  HandlesInv'
<1>0. t \in Procs /\ pc[t] = "put"
  BY ProcKinds DEF PutBack
<1>1. ThreadOK(pc[t], nwant[t], count[t], got[t], putting[t])
  BY DEF HandlesInv
<1>2. \A q : ProcOK(q, unchecked[t], checked[t])
  BY <1>0, NotChecking
<1>3. /\ free' = Returned(<<putting[t]>>) /\ connected' = connected
      /\ putting'[t] = NoHandle /\ \A u \in Threads \ {t} : putting'[u] = putting[u]
      /\ UNCHANGED <<nwant, count, got, unchecked, checked>>
  BY DEF PutBack, HandlesInv, Tables, IsFcn, checkVars, handleVars, getVars
<1>4. OthersKeep(t)
  BY <1>3 DEF OthersKeep
<1>5. Rest(t) \in {"idle", "using"} /\ Goes(t, Rest(t))
  BY <1>0, GoesWaking DEF PutBack, Rest
<1>6. ThreadOK(Rest(t), nwant'[t], count'[t], got'[t], putting'[t])
  BY <1>0, <1>1, <1>3, <1>5 DEF ThreadOK, GetPlaces, Gathering
<1>7. /\ FreeList(free', connected')
      /\ Spread(Where(free', got', putting', unchecked', checked'))
  <2> DEFINE s == <<putting[t]>>
             x == <<"put", t>>
  <2>1. putting[t] \in Handles
    BY <1>0, <1>1 DEF ThreadOK
  <2>2. s \in Seq(Handles) /\ Range(s) = {putting[t]} /\ IsInjective(s)
    BY <2>1, SmallLists
  <2>3. /\ x \in Spots /\ x # <<"free", Checker>>
        /\ \A u \in Threads : <<"put", u>> # x => putting'[u] = putting[u]
    BY <1>3, SpotsAre
  <2>4. /\ Where(free, got, putting, unchecked, checked)[x] = Range(s)
        /\ Where(free', got', putting', unchecked', checked')[x] = {}
    BY <1>3, <2>1, <2>2, WhereThread, DbAssumption
  <2>5. free' = Returned(s)
    BY <1>3
  <2> HIDE DEF s, x
  <2> QED  BY <1>3, <2>2, <2>3, <2>4, <2>5, ComesBack
<1> QED  BY <1>0, <1>2, <1>3, <1>4, <1>5, <1>6, <1>7, StepKeeps

LEMMA DisconnectKeeps ==
    ASSUME HandlesInv, Protocol, HandlesTyped, Tables', NEW t \in Threads, Disconnect(t)
    PROVE  HandlesInv'
<1>0. /\ t \in Procs /\ pc[t] = "using"
      /\ UNCHANGED <<free, pc, nwant, count, got, putting, unchecked, checked>>
  BY ProcKinds DEF Disconnect, poolVars, getVars, checkVars
<1>1. PICK h \in Range(got[t]) : SetClosed(h)
  BY ListSetIsRange DEF Disconnect
<1>2. h \in Handles
  BY <1>1 DEF HandlesInv, ThreadOK, Range
<1>3. h \notin Range(free)
  <2>1. <<"got", t>> \in Spots /\ <<"got", t>> # <<"free", Checker>>
    BY SpotsAre
  <2> QED  BY <1>1, <1>2, <2>1, HeldApart, WhereThread
<1>4. \A g \in Range(free) : connected'[g] = connected[g]
  <2>1. Range(free) \subseteq Handles
    BY DEF HandlesInv, FreeList, Range
  <2> QED  BY <1>1, <1>3, <2>1, OnlyOneChanges
<1>5. /\ FreeList(free', connected')
      /\ Spread(Where(free', got', putting', unchecked', checked'))
  BY <1>0, <1>4, ListsStay
<1> QED  BY <1>0, <1>5 DEF HandlesInv

LEMMA PutKeeps ==
    ASSUME HandlesInv, Protocol, HandlesTyped, Tables', NEW t \in Threads, NEW h, Put(t, h)
    PROVE  HandlesInv'
<1>0. t \in Procs /\ pc[t] = "using" /\ h \in Range(got[t])
  BY ProcKinds, ListSetIsRange DEF Put
<1>1. /\ ThreadOK(pc[t], nwant[t], count[t], got[t], putting[t])
      /\ got[t] \in Seq(Handles) /\ IsInjective(got[t]) /\ putting[t] = NoHandle
      /\ count[t] = Len(got[t])
  BY <1>0 DEF HandlesInv, ThreadOK, GetPlaces
<1>2. h \in Handles
  BY <1>0, <1>1 DEF Range
<1> DEFINE g == Filter(got[t], Handles \ {h})
<1>3. /\ got'[t] = g /\ count'[t] = count[t] - 1 /\ putting'[t] = h
      /\ UNCHANGED <<free, nwant, unchecked, checked>>
  BY DEF Put, HandlesInv, Tables, IsFcn, poolVars, checkVars
<1>4. OthersKeep(t)
  BY <1>3 DEF Put, OthersKeep, HandlesInv, Tables, IsFcn
<1>5. g \in Seq(Handles) /\ IsInjective(g) /\ Range(g) = Range(got[t]) \ {h}
  <2>1. \A S : /\ Filter(got[t], S) \in Seq(Handles) /\ IsInjective(Filter(got[t], S))
               /\ Range(Filter(got[t], S)) = Range(got[t]) \cap S
    BY <1>1, FilterHas
  <2>2. Range(got[t]) \subseteq Handles
    BY <1>1 DEF Range
  <2>3. g \in Seq(Handles) /\ IsInjective(g) /\ Range(g) = Range(got[t]) \cap (Handles \ {h})
    BY <2>1
  <2> HIDE DEF g
  <2> QED  BY <2>2, <2>3
<1>6. Len(g) = Len(got[t]) - 1
  <2> DEFINE S == Handles \ {h}
             f == got[t]
  <2>1. Range(f) \subseteq Handles
    BY <1>1 DEF Range
  <2>2. S \cap Range(f) = Range(f) \ {h}
    BY <2>1
  <2>3. f \in Seq(Handles) /\ IsInjective(f) /\ h \in Range(f)
    BY <1>0, <1>1
  <2>4. Len(Filter(f, S)) = Len(f) - 1
    <3> HIDE DEF f, S
    <3> QED  BY <2>2, <2>3, FilterOne
  <2> QED  BY <2>4
<1> HIDE DEF g
<1>7. ThreadOK("put", nwant'[t], count'[t], got'[t], putting'[t])
  <2>1. count'[t] = Len(g) /\ Len(g) \in Nat
    BY <1>1, <1>3, <1>5, <1>6
  <2> QED  BY <1>1, <1>2, <1>3, <1>5, <2>1 DEF ThreadOK, GetPlaces, Gathering
<1>8. ProcOK("put", unchecked'[t], checked'[t])
  BY <1>0, <1>3, NotChecking
<1>9. Goes(t, "put")
  BY <1>0, GoesAlone DEF Put
<1>10. FreeList(free', connected')
  <2>1. <<"got", t>> \in Spots /\ <<"got", t>> # <<"free", Checker>>
    BY SpotsAre
  <2>2. h \notin Range(free)
    BY <1>0, <1>2, <2>1, HeldApart, WhereThread
  <2>3. Range(free) \subseteq Handles /\ CloseIfStale(h)
    BY DEF HandlesInv, FreeList, Range, Put
  <2> QED  BY <1>3, <2>2, <2>3, OnlyOneChanges, FreeUntouched DEF HandlesInv
<1>11. Spread(Where(free', got', putting', unchecked', checked'))
  <2> DEFINE x == <<"got", t>>
             y == <<"put", t>>
             v == Where(free, got, putting, unchecked, checked)
             w == Where(free', got', putting', unchecked', checked')
  <2>1. /\ x \in Spots /\ y \in Spots /\ x # y
        /\ \A u \in Threads : <<"got", u>> \notin {x, y} => got'[u] = got[u]
        /\ \A u \in Threads : <<"put", u>> \notin {x, y} => putting'[u] = putting[u]
    BY <1>4, SpotsAre DEF OthersKeep
  <2>2. /\ v[x] = Range(got[t]) /\ v[y] = {NoHandle} \ {NoHandle}
        /\ w[x] = Range(g) /\ w[y] = {h} \ {NoHandle}
    BY <1>1, <1>3, WhereThread
  <2>3. {h} \subseteq v[x] /\ w[x] = v[x] \ {h} /\ w[y] = v[y] \cup {h}
    <3>1. h # NoHandle
      BY <1>2, DbAssumption
    <3> HIDE DEF v, w, x, y
    <3> QED  BY <1>0, <1>5, <2>2, <3>1
  <2>4. Moved(v, w, {h}, x, y)
    BY <1>3, <2>1, <2>3, MovedIs
  <2> HIDE DEF x, y
  <2> QED  BY <2>4, SpreadMoved DEF HandlesInv
<1> QED  BY <1>0, <1>4, <1>7, <1>8, <1>9, <1>10, <1>11, StepKeeps

(* A step in which a process only goes on. *)
LEMMA MovesOnKeeps ==
    ASSUME HandlesInv, Protocol, Tables', NEW p \in Procs,
           UNCHANGED <<free, connected, nwant, count, got, putting, unchecked, checked>>,
           \/ pc[p] \in {"idle", "using"} /\ pc' = [pc EXCEPT ![p] = "grab"]
           \/ pc[p] = "waitBlocked" /\ pc' = [pc EXCEPT ![p] = "fail"]
           \/ pc[p] = "getBlocked" /\ pc' = [pc EXCEPT ![p] = "getExpired"]
    PROVE  HandlesInv'
<1>1. PICK q \in {"grab", "fail", "getExpired"} :
         /\ pc' = [pc EXCEPT ![p] = q]
         /\ q = "grab" => pc[p] \in {"idle", "using"}
         /\ q = "fail" => pc[p] = "waitBlocked"
         /\ q = "getExpired" => pc[p] = "getBlocked"
  OBVIOUS
<1>2. Goes(p, q)
  BY <1>1, GoesAlone
<1>3. ASSUME p \in Threads PROVE ThreadOK(q, nwant'[p], count'[p], got'[p], putting'[p])
  <2>1. ThreadOK(pc[p], nwant[p], count[p], got[p], putting[p])
    BY <1>3 DEF HandlesInv
  <2> QED  BY <1>1, <2>1 DEF ThreadOK, GetPlaces, Gathering
<1>4. pc[p] # "check"
  OBVIOUS
<1>5. ProcOK(q, unchecked'[p], checked'[p])
  BY <1>4, NotChecking
<1>6. OthersKeep(p)
  BY DEF OthersKeep
<1>7. /\ FreeList(free', connected')
      /\ Spread(Where(free', got', putting', unchecked', checked'))
  BY ListsStay
<1> QED  BY <1>2, <1>3, <1>5, <1>6, <1>7, StepKeeps

LEMMA GrabKeeps ==
    ASSUME HandlesInv, Protocol, Tables', NEW p \in Procs, Grab(p)
    PROVE  HandlesInv'
<1>0. /\ pc[p] = "grab" /\ free' = <<>>
      /\ UNCHANGED <<connected, nwant, count, got, putting, checked>>
      /\ unchecked'[p] = free /\ \A u \in Procs \ {p} : unchecked'[u] = unchecked[u]
  BY DEF Grab, HandlesInv, Tables, IsFcn, handleVars, getVars
<1> DEFINE q == IF free = <<>> THEN After(p) ELSE "check"
<1>1. q \in {"idle", "using", "check"} /\ Goes(p, q)
  BY GoesAlone DEF Grab, After, Rest
<1>2. FreeList(free, connected) /\ unchecked[p] = <<>> /\ checked[p] = <<>>
  BY <1>0 DEF HandlesInv, ProcOK
<1>3. ProcOK(q, unchecked'[p], checked'[p])
  BY <1>0, <1>2, SmallLists DEF ProcOK, FreeList, After, Rest
<1> HIDE DEF q
<1>4. ASSUME p \in Threads PROVE ThreadOK(q, nwant'[p], count'[p], got'[p], putting'[p])
  <2>1. ThreadOK(pc[p], nwant[p], count[p], got[p], putting[p])
    BY <1>4 DEF HandlesInv
  <2> QED  BY <1>0, <1>1, <2>1 DEF ThreadOK, GetPlaces, Gathering
<1>5. OthersKeep(p)
  BY <1>0 DEF OthersKeep
<1>6. FreeList(free', connected')
  BY <1>0, SmallLists DEF FreeList, OpenLeads
<1>7. Spread(Where(free', got', putting', unchecked', checked'))
  <2> DEFINE x == <<"free", Checker>>
             y == <<"unchecked", p>>
             v == Where(free, got, putting, unchecked, checked)
             w == Where(free', got', putting', unchecked', checked')
  <2>1. /\ x \in Spots /\ y \in Spots /\ x # y
        /\ \A u \in Procs : <<"unchecked", u>> \notin {x, y} => unchecked'[u] = unchecked[u]
    BY <1>0, SpotsAre
  <2>2. v[x] = Range(free) /\ v[y] = {} /\ w[x] = {} /\ w[y] = Range(free)
    BY <1>0, <1>2, WhereNow, WhereCheck, SmallLists
  <2>3. Range(free) \subseteq v[x] /\ w[x] = v[x] \ Range(free) /\ w[y] = v[y] \cup Range(free)
    <3> HIDE DEF v, w, x, y
    <3> QED  BY <2>2
  <2>4. Moved(v, w, Range(free), x, y)
    BY <1>0, <2>1, <2>3, MovedIs
  <2> HIDE DEF x, y
  <2> QED  BY <2>4, SpreadMoved DEF HandlesInv
<1> QED  BY <1>1, <1>3, <1>4, <1>5, <1>6, <1>7, StepKeeps

LEMMA CheckOneKeeps ==
    ASSUME HandlesInv, Protocol, HandlesTyped, Tables', NEW p \in Procs, CheckOne(p)
    PROVE  HandlesInv'
<1> DEFINE h == Head(unchecked[p])
<1>0. /\ pc[p] = "check" /\ unchecked[p] # <<>> /\ CloseIfStale(h)
      /\ UNCHANGED <<free, pc, nwant, count, got, putting>>
      /\ checked'[p] = <<h>> \o checked[p] /\ unchecked'[p] = Tail(unchecked[p])
      /\ \A u \in Procs \ {p} : unchecked'[u] = unchecked[u] /\ checked'[u] = checked[u]
  BY DEF CheckOne, HandlesInv, Tables, IsFcn, poolVars, getVars
<1>1. /\ unchecked[p] \in Seq(Handles) /\ IsInjective(unchecked[p])
      /\ checked[p] \in Seq(Handles) /\ IsInjective(checked[p])
  BY DEF HandlesInv, ProcOK
<1>2. /\ h \in Range(unchecked[p]) /\ h \in Handles
      /\ unchecked'[p] \in Seq(Handles) /\ IsInjective(unchecked'[p])
      /\ Range(unchecked'[p]) = Range(unchecked[p]) \ {h}
  BY <1>0, <1>1, HeadTailHas
<1> HIDE DEF h
<1> DEFINE x == <<"unchecked", p>>
           y == <<"checked", p>>
           v == Where(free, got, putting, unchecked, checked)
           w == Where(free', got', putting', unchecked', checked')
<1>3. x \in Spots /\ y \in Spots /\ x # y /\ x # <<"free", Checker>> /\ Spread(v)
  BY SpotsAre DEF HandlesInv
<1>4. /\ v[x] = Range(unchecked[p]) /\ v[y] = Range(checked[p])
      /\ w[x] = Range(unchecked'[p]) /\ w[y] = Range(checked'[p])
  BY WhereCheck
<1>5. h \notin Range(checked[p])
  <2> HIDE DEF v, w, x, y
  <2> QED  BY <1>2, <1>3, <1>4, SpreadApart
<1>6. /\ checked'[p] \in Seq(Handles) /\ IsInjective(checked'[p])
      /\ Range(checked'[p]) = Range(checked[p]) \cup {h}
  <2> DEFINE a == <<h>>
             b == checked[p]
  <2>1. a \in Seq(Handles) /\ Range(a) = {h} /\ IsInjective(a)
    BY <1>2, SmallLists
  <2>2. b \in Seq(Handles) /\ IsInjective(b) /\ h \notin Range(b)
    BY <1>1, <1>5
  <2> HIDE DEF a, b
  <2>3. a \o b \in Seq(Handles) /\ IsInjective(a \o b) /\ Range(a \o b) = Range(b) \cup {h}
    BY <2>1, <2>2, ConcatHas
  <2> QED  BY <1>0, <2>3 DEF a, b
<1>7. ProcOK(pc[p], unchecked'[p], checked'[p])
  BY <1>0, <1>2, <1>6 DEF ProcOK
<1>8. Goes(p, pc[p])
  BY <1>0 DEF Goes, Stays
<1>9. FreeList(free', connected')
  <2>1. h \notin Range(free)
    BY <1>2, <1>3, <1>4, HeldApart
  <2>2. Range(free) \subseteq Handles
    BY DEF HandlesInv, FreeList, Range
  <2> QED  BY <1>0, <2>1, <2>2, OnlyOneChanges, FreeUntouched DEF HandlesInv
<1>10. Spread(w)
  <2>1. /\ \A u \in Procs : <<"unchecked", u>> \notin {x, y} => unchecked'[u] = unchecked[u]
        /\ \A u \in Procs : <<"checked", u>> \notin {x, y} => checked'[u] = checked[u]
    BY <1>0
  <2>2. {h} \subseteq v[x] /\ w[x] = v[x] \ {h} /\ w[y] = v[y] \cup {h}
    <3> HIDE DEF v, w, x, y
    <3> QED  BY <1>2, <1>4, <1>6
  <2>3. Moved(v, w, {h}, x, y)
    BY <1>0, <1>3, <2>1, <2>2, MovedIs
  <2> HIDE DEF x, y
  <2> QED  BY <1>3, <2>3, SpreadMoved
<1>11. OthersKeep(p) /\ (p \in Threads => ThreadOK(pc[p], nwant'[p], count'[p], got'[p], putting'[p]))
  BY <1>0 DEF OthersKeep, HandlesInv
<1> QED  BY <1>7, <1>8, <1>9, <1>10, <1>11, StepKeeps

LEMMA ReturnAllKeeps ==
    ASSUME HandlesInv, Protocol, Tables', NEW p \in Procs, ReturnAll(p)
    PROVE  HandlesInv'
<1>0. /\ pc[p] = "check" /\ unchecked[p] = <<>> /\ free' = Returned(checked[p])
      /\ UNCHANGED <<connected, nwant, count, got, putting, unchecked>>
      /\ checked'[p] = <<>> /\ \A u \in Procs \ {p} : checked'[u] = checked[u]
  BY DEF ReturnAll, HandlesInv, Tables, IsFcn, handleVars, getVars
<1>1. After(p) \in {"idle", "using"} /\ Goes(p, After(p))
  BY GoesWaking DEF ReturnAll, After, Rest
<1>2. checked[p] \in Seq(Handles) /\ IsInjective(checked[p])
  BY DEF HandlesInv, ProcOK
<1>3. ProcOK(After(p), unchecked'[p], checked'[p])
  BY <1>0, SmallLists DEF ProcOK
<1>4. ASSUME p \in Threads PROVE ThreadOK(After(p), nwant'[p], count'[p], got'[p], putting'[p])
  <2>1. ThreadOK(pc[p], nwant[p], count[p], got[p], putting[p])
    BY <1>4 DEF HandlesInv
  <2> QED  BY <1>0, <1>1, <2>1 DEF ThreadOK, GetPlaces, Gathering
<1>5. OthersKeep(p)
  BY <1>0 DEF OthersKeep
<1>6. /\ FreeList(free', connected')
      /\ Spread(Where(free', got', putting', unchecked', checked'))
  <2> DEFINE s == checked[p]
             x == <<"checked", p>>
  <2>1. /\ x \in Spots /\ x # <<"free", Checker>>
        /\ \A u \in Procs : <<"checked", u>> # x => checked'[u] = checked[u]
    BY <1>0, SpotsAre
  <2>2. /\ Where(free, got, putting, unchecked, checked)[x] = Range(s)
        /\ Where(free', got', putting', unchecked', checked')[x] = {}
    BY <1>0, WhereCheck, SmallLists
  <2>3. s \in Seq(Handles) /\ IsInjective(s) /\ free' = Returned(s)
    BY <1>0, <1>2
  <2> HIDE DEF s, x
  <2> QED  BY <1>0, <2>1, <2>2, <2>3, ComesBack
<1> QED  BY <1>1, <1>3, <1>4, <1>5, <1>6, StepKeeps

LEMMA HandlesInit == Init => HandlesInv
<1> SUFFICES ASSUME Init PROVE HandlesInv
  OBVIOUS
<1>0. NHandles \in Nat /\ \A p \in Procs : pc[p] = "idle"
  BY DbAssumption, FS_CardinalityType DEF Init, NHandles
<1>1. /\ free \in Seq(Handles) /\ IsInjective(free) /\ Range(free) = Handles
      /\ DOMAIN free = 1 .. NHandles /\ Len(free) = NHandles
  <2>1. free \in [1 .. NHandles -> Handles] /\ IsInjective(free)
    BY DEF Init
  <2>2. free \in Injection(1 .. NHandles, Handles)
    BY <2>1 DEF Injection
  <2>3. Cardinality(1 .. NHandles) = NHandles /\ IsFiniteSet(1 .. NHandles)
    BY <1>0, FS_Interval
  <2>4. free \in Surjection(1 .. NHandles, Handles)
    BY <2>2, <2>3, DbAssumption, FS_Injection DEF NHandles
  <2>5. Range(free) = Handles
    BY <2>1, <2>4 DEF Surjection, Range
  <2> QED  BY <1>0, <2>1, <2>5
<1>2. Tables
  BY DbAssumption DEF Init, Tables, IsFcn
<1>3. ASSUME NEW t \in Threads PROVE ThreadOK(pc[t], nwant[t], count[t], got[t], putting[t])
  BY <1>0, ProcKinds, SmallLists DEF Init, ThreadOK, GetPlaces, Gathering
<1>4. ASSUME NEW p \in Procs PROVE ProcOK(pc[p], unchecked[p], checked[p])
  BY SmallLists DEF Init, ProcOK
<1>5. OpenLeads(free, connected)
  <2>1. \A i \in DOMAIN free : free[i] \in Handles
    BY <1>1 DEF Range
  <2> QED  BY <2>1 DEF Init, OpenLeads
<1>6. Spread(Where(free, got, putting, unchecked, checked))
  <2> DEFINE x == <<"free", Checker>>
             v == Where(free, got, putting, unchecked, checked)
  <2>1. x \in Spots /\ v[x] = Handles
    BY <1>1, SpotsAre, WhereNow
  <2>2. ASSUME NEW t \in Threads PROVE v[<<"got", t>>] = {} /\ v[<<"put", t>>] = {}
    <3>1. got[t] = <<>> /\ putting[t] = NoHandle
      BY DEF Init
    <3> QED  BY <3>1, WhereThread, SmallLists
  <2>3. ASSUME NEW p \in Procs PROVE v[<<"unchecked", p>>] = {} /\ v[<<"checked", p>>] = {}
    <3>1. unchecked[p] = <<>> /\ checked[p] = <<>>
      BY DEF Init
    <3> QED  BY <3>1, WhereCheck, SmallLists
  <2> HIDE DEF v
  <2>4. \A z \in Spots \ {x} : v[z] = {}
    BY <2>2, <2>3, SpotsAre
  <2> QED  BY <2>1, <2>4 DEF Spread, v
<1> QED  BY <1>1, <1>2, <1>3, <1>4, <1>5, <1>6 DEF HandlesInv, FreeList

LEMMA HandlesNext == HandlesInv /\ Protocol /\ BounceInv /\ [Next]_vars => HandlesInv'
<1> SUFFICES ASSUME HandlesInv, Protocol, HandlesTyped, [Next]_vars PROVE HandlesInv'
  BY DEF BounceInv
<1>0. Tables'
  BY TablesNext DEF HandlesInv
<1>1. ASSUME NEW t \in Threads, Bounce(t) PROVE HandlesInv'
  <2>1. UNCHANGED <<free, connected, nwant, count, got, putting, unchecked, checked>>
    BY <1>1 DEF Bounce, getVars, checkVars
  <2>2. pc[t] \in {"idle", "using"} /\ pc' = [pc EXCEPT ![t] = "grab"]
    BY <1>1 DEF Bounce
  <2> QED  BY <1>0, <2>1, <2>2, ProcKinds, MovesOnKeeps
<1>2. ASSUME NEW t \in Threads, Expire(t) PROVE HandlesInv'
  <2>1. UNCHANGED <<free, connected, nwant, count, got, putting, unchecked, checked>>
    BY <1>2 DEF Expire, poolVars, handleVars, getVars, checkVars
  <2>2. \/ pc[t] = "waitBlocked" /\ pc' = [pc EXCEPT ![t] = "fail"]
        \/ pc[t] = "getBlocked" /\ pc' = [pc EXCEPT ![t] = "getExpired"]
    BY <1>2 DEF Expire
  <2> QED  BY <1>0, <2>1, <2>2, ProcKinds, MovesOnKeeps
<1>3. CASE Scheduled
  <2>1. UNCHANGED <<free, connected, nwant, count, got, putting, unchecked, checked>>
    BY <1>3 DEF Scheduled, poolVars, handleVars, getVars, checkVars
  <2>2. pc[Checker] \in {"idle", "using"} /\ pc' = [pc EXCEPT ![Checker] = "grab"]
    BY <1>3 DEF Scheduled
  <2> QED  BY <1>0, <2>1, <2>2, ProcKinds, MovesOnKeeps
<1>4. ASSUME NEW t \in Threads,
             \E n \in 1 .. NHandles, limited \in BOOLEAN : Get(t, n, limited)
      PROVE  HandlesInv'
  BY <1>0, <1>4, GetKeeps
<1>5. ASSUME NEW t \in Threads, GetStep(t) PROVE HandlesInv'
  BY <1>0, <1>5, TurnKeeps, GiveUpKeeps, ConnectKeeps, FailKeeps DEF GetStep
<1>6. ASSUME NEW t \in Threads, Disconnect(t) \/ ReleaseDbs(t) \/ PutBack(t) PROVE HandlesInv'
  BY <1>0, <1>6, DisconnectKeeps, PutKeeps, PutBackKeeps DEF ReleaseDbs
<1>7. ASSUME NEW p \in Procs, CheckPool(p) PROVE HandlesInv'
  BY <1>0, <1>7, GrabKeeps, CheckOneKeeps, ReturnAllKeeps DEF CheckPool
<1>8. CASE UNCHANGED vars
  BY <1>0, <1>8 DEF vars, poolVars, handleVars, getVars, checkVars, HandlesInv
<1> QED  BY <1>1, <1>2, <1>3, <1>4, <1>5, <1>6, <1>7, <1>8 DEF Next

(* Each handle is at one spot and in each list once: so it is in one place. *)
LEMMA InOnePlace == HandlesInv => HandlesConserved
<1> SUFFICES ASSUME HandlesInv, NEW h \in Handles PROVE Cardinality(Places(h)) = 1
  BY DEF HandlesConserved
<1> DEFINE v == Where(free, got, putting, unchecked, checked)
<1>1. PICK x \in Spots : \A y \in Spots : h \in v[y] <=> y = x
  BY DEF HandlesInv, Spread
<1>2. h # NoHandle
  BY DbAssumption
<1>3. /\ h \in Range(free) <=> x = <<"free", Checker>>
      /\ \A t \in Threads : h \in Range(got[t]) <=> x = <<"got", t>>
      /\ \A t \in Threads : h = putting[t] <=> x = <<"put", t>>
      /\ \A p \in Procs : h \in Range(unchecked[p]) <=> x = <<"unchecked", p>>
      /\ \A p \in Procs : h \in Range(checked[p]) <=> x = <<"checked", p>>
  <2>1. h \in Range(free) <=> x = <<"free", Checker>>
    BY <1>1, SpotsAre, WhereNow
  <2>2. ASSUME NEW t \in Threads
        PROVE  /\ h \in Range(got[t]) <=> x = <<"got", t>>
               /\ h = putting[t] <=> x = <<"put", t>>
    <3>1. v[<<"got", t>>] = Range(got[t]) /\ v[<<"put", t>>] = {putting[t]} \ {NoHandle}
      BY WhereThread
    <3>2. <<"got", t>> \in Spots /\ <<"put", t>> \in Spots
      BY SpotsAre
    <3> HIDE DEF v
    <3> QED  BY <1>1, <1>2, <3>1, <3>2
  <2>3. ASSUME NEW p \in Procs
        PROVE  /\ h \in Range(unchecked[p]) <=> x = <<"unchecked", p>>
               /\ h \in Range(checked[p]) <=> x = <<"checked", p>>
    <3>1. v[<<"unchecked", p>>] = Range(unchecked[p]) /\ v[<<"checked", p>>] = Range(checked[p])
      BY WhereCheck
    <3>2. <<"unchecked", p>> \in Spots /\ <<"checked", p>> \in Spots
      BY SpotsAre
    <3> HIDE DEF v
    <3> QED  BY <1>1, <3>1, <3>2
  <2> QED  BY <2>1, <2>2, <2>3
<1>4. \E e : Places(h) = {e}
  <2> DEFINE F == {<<"free", i>> : i \in {j \in DOMAIN free : free[j] = h}}
             G == UNION {{<<"got", t, i>> : i \in {j \in DOMAIN got[t] : got[t][j] = h}} : t \in Threads}
             P == {<<"put", t>> : t \in {u \in Threads : putting[u] = h}}
             U == UNION {{<<"check", p, i>> : i \in {j \in DOMAIN unchecked[p] : unchecked[p][j] = h}} : p \in Procs}
             C == UNION {{<<"checked", p, i>> : i \in {j \in DOMAIN checked[p] : checked[p][j] = h}} : p \in Procs}
  <2>0. Places(h) = F \cup P \cup G \cup U \cup C
    BY DEF Places
  <2>1. F # {} => x = <<"free", Checker>>
    BY <1>3 DEF Range
  <2>2. G # {} => \E t \in Threads : x = <<"got", t>>
    BY <1>3 DEF Range
  <2>3. P # {} => \E t \in Threads : x = <<"put", t>>
    BY <1>3
  <2>4. U # {} => \E p \in Procs : x = <<"unchecked", p>>
    BY <1>3 DEF Range
  <2>5. C # {} => \E p \in Procs : x = <<"checked", p>>
    BY <1>3 DEF Range
  <2>6. CASE x = <<"free", Checker>>
    <3>1. PICK i \in DOMAIN free : free[i] = h
      BY <1>3, <2>6 DEF Range
    <3>2. \A j \in DOMAIN free : free[j] = h => j = i
      BY <3>1 DEF HandlesInv, FreeList, IsInjective
    <3>3. F = {<<"free", i>>}
      BY <3>1, <3>2
    <3>4. G = {} /\ P = {} /\ U = {} /\ C = {}
      <4> HIDE DEF F, G, P, U, C
      <4> QED  BY <2>2, <2>3, <2>4, <2>5, <2>6
    <3> HIDE DEF F, G, P, U, C
    <3>5. Places(h) = {<<"free", i>>}
      BY <2>0, <3>3, <3>4
    <3> QED  BY <3>5
  <2>7. ASSUME NEW t \in Threads, x = <<"got", t>> PROVE \E e : Places(h) = {e}
    <3>1. PICK i \in DOMAIN got[t] : got[t][i] = h
      BY <1>3, <2>7 DEF Range
    <3>2. \A j \in DOMAIN got[t] : got[t][j] = h => j = i
      BY <3>1 DEF HandlesInv, ThreadOK, IsInjective
    <3>3. \A u \in Threads : u # t => \A j \in DOMAIN got[u] : got[u][j] # h
      BY <1>3, <2>7 DEF Range
    <3>4. G = {<<"got", t, i>>}
      BY <3>1, <3>2, <3>3
    <3>5. F = {} /\ P = {} /\ U = {} /\ C = {}
      <4> HIDE DEF F, G, P, U, C
      <4> QED  BY <2>1, <2>3, <2>4, <2>5, <2>7
    <3> HIDE DEF F, G, P, U, C
    <3>6. Places(h) = {<<"got", t, i>>}
      BY <2>0, <3>4, <3>5
    <3> QED  BY <3>6
  <2>8. ASSUME NEW t \in Threads, x = <<"put", t>> PROVE \E e : Places(h) = {e}
    <3>1. \A u \in Threads : putting[u] = h <=> u = t
      BY <1>3, <2>8
    <3>2. P = {<<"put", t>>}
      BY <3>1
    <3>3. F = {} /\ G = {} /\ U = {} /\ C = {}
      <4> HIDE DEF F, G, P, U, C
      <4> QED  BY <2>1, <2>2, <2>4, <2>5, <2>8
    <3> HIDE DEF F, G, P, U, C
    <3>4. Places(h) = {<<"put", t>>}
      BY <2>0, <3>2, <3>3
    <3> QED  BY <3>4
  <2>9. ASSUME NEW p \in Procs, x = <<"unchecked", p>> PROVE \E e : Places(h) = {e}
    <3>1. PICK i \in DOMAIN unchecked[p] : unchecked[p][i] = h
      BY <1>3, <2>9 DEF Range
    <3>2. \A j \in DOMAIN unchecked[p] : unchecked[p][j] = h => j = i
      BY <3>1 DEF HandlesInv, ProcOK, IsInjective
    <3>3. \A u \in Procs : u # p => \A j \in DOMAIN unchecked[u] : unchecked[u][j] # h
      BY <1>3, <2>9 DEF Range
    <3>4. U = {<<"check", p, i>>}
      BY <3>1, <3>2, <3>3
    <3>5. F = {} /\ G = {} /\ P = {} /\ C = {}
      <4> HIDE DEF F, G, P, U, C
      <4> QED  BY <2>1, <2>2, <2>3, <2>5, <2>9
    <3> HIDE DEF F, G, P, U, C
    <3>6. Places(h) = {<<"check", p, i>>}
      BY <2>0, <3>4, <3>5
    <3> QED  BY <3>6
  <2>10. ASSUME NEW p \in Procs, x = <<"checked", p>> PROVE \E e : Places(h) = {e}
    <3>1. PICK i \in DOMAIN checked[p] : checked[p][i] = h
      BY <1>3, <2>10 DEF Range
    <3>2. \A j \in DOMAIN checked[p] : checked[p][j] = h => j = i
      BY <3>1 DEF HandlesInv, ProcOK, IsInjective
    <3>3. \A u \in Procs : u # p => \A j \in DOMAIN checked[u] : checked[u][j] # h
      BY <1>3, <2>10 DEF Range
    <3>4. C = {<<"checked", p, i>>}
      BY <3>1, <3>2, <3>3
    <3>5. F = {} /\ G = {} /\ P = {} /\ U = {}
      <4> HIDE DEF F, G, P, U, C
      <4> QED  BY <2>1, <2>2, <2>3, <2>4, <2>10
    <3> HIDE DEF F, G, P, U, C
    <3>6. Places(h) = {<<"checked", p, i>>}
      BY <2>0, <3>4, <3>5
    <3> QED  BY <3>6
  <2> QED  BY SpotsAre, <2>6, <2>7, <2>8, <2>9, <2>10
<1> QED  BY <1>4, FS_Singleton

LEMMA SoundHandles == HandlesInv /\ Protocol /\ BounceInv => HandlesSound
<1> SUFFICES ASSUME HandlesInv, Protocol, HandlesTyped PROVE HandlesSound
  BY DEF BounceInv
<1>1. TypeOK
  <2>1. /\ nwant \in [Threads -> 0 .. NHandles] /\ count \in [Threads -> Nat]
        /\ got \in [Threads -> Seq(Handles)]
    BY DEF HandlesInv, Tables, IsFcn, ThreadOK
  <2>2. putting \in [Threads -> Handles \cup {NoHandle}]
    <3>1. \A t \in Threads : putting[t] \in Handles \cup {NoHandle}
      BY DEF HandlesInv, ThreadOK
    <3> QED  BY <3>1 DEF HandlesInv, Tables, IsFcn
  <2>3. unchecked \in [Procs -> Seq(Handles)] /\ checked \in [Procs -> Seq(Handles)]
    BY DEF HandlesInv, Tables, IsFcn, ProcOK
  <2> QED  BY <2>1, <2>2, <2>3
           DEF TypeOK, HandlesInv, Tables, FreeList, HandlesTyped, Protocol, Typed, AllPlaces
<1>2. CountAgrees
  BY DEF CountAgrees, HandlesInv, ThreadOK
<1>3. OpenFirst
  BY DEF OpenFirst, HandlesInv, FreeList, OpenLeads
<1> QED  BY <1>1, <1>2, <1>3, InOnePlace DEF HandlesSound

(* Each handle is in one place and each thread's count says what it owns,  *)
(* whatever times out, fails to open, is checked or bounced in between,    *)
(* for any number of threads and handles (ns_db, CheckPool, IncrCount).    *)
THEOREM HandlesSoundCorrect == Spec => []HandlesSound
<1>1. Init => Protocol /\ BounceInv /\ HandlesInv
  BY ProtocolInit, BounceInit, HandlesInit
<1>2. Protocol /\ BounceInv /\ HandlesInv /\ [Next]_vars => (Protocol /\ BounceInv /\ HandlesInv)'
  BY ProtocolNext, BounceNext, HandlesNext
<1>3. Protocol /\ BounceInv /\ HandlesInv => HandlesSound
  BY SoundHandles
<1> QED  BY <1>1, <1>2, <1>3, PTL DEF Spec

(* A thread leaves "connect" for "using" by Granted only. *)
LEMMA LeavesConnect ==
    ASSUME Protocol, [Next]_vars, NEW t \in Threads, pc[t] = "connect", pc'[t] = "using"
    PROVE  Granted(t)
<1>0. t \in Procs
  BY ProcKinds
<1>1. ASSUME NEW p \in Procs, NEW q, Goes(p, q), pc[p] # "connect" PROVE FALSE
  BY <1>0, <1>1 DEF Goes, Stays
<1>2. ASSUME NEW u \in Threads, pc[u] # "connect",
             \/ \E n \in 1 .. NHandles, limited \in BOOLEAN : Get(u, n, limited)
             \/ Turn(u) \/ GetMore(u) \/ GiveUp(u) \/ Fail(u) \/ Expire(u)
             \/ ReleaseDbs(u) \/ PutBack(u) \/ Bounce(u)
      PROVE  FALSE
  <2>1. \/ \E q : pc' = [pc EXCEPT ![u] = q]
        \/ \E q : SignalAndGoto(u, q, "waitBlocked", "waitWoken")
        \/ \E q : SignalGet(u, q)
    BY <1>2 DEF Get, Turn, GetMore, GiveUp, Fail, Expire, ReleaseDbs, Put, PutBack, Bounce, Collect
  <2>2. \E q : Goes(u, q)
    BY <2>1, ProcKinds, GoesAlone, GoesWaking
  <2> QED  BY <1>1, <1>2, <2>2, ProcKinds
<1>3. ASSUME NEW u \in Threads,
             \/ \E n \in 1 .. NHandles, limited \in BOOLEAN : Get(u, n, limited)
             \/ Turn(u) \/ GetMore(u) \/ GiveUp(u) \/ Fail(u) \/ Expire(u)
             \/ ReleaseDbs(u) \/ PutBack(u) \/ Bounce(u)
      PROVE  FALSE
  <2>1. pc[u] # "connect"
    BY <1>3 DEF Get, Turn, GetMore, GiveUp, Fail, Expire, ReleaseDbs, Put, PutBack, Bounce
  <2> QED  BY <1>2, <1>3, <2>1
<1>4. ASSUME NEW u \in Threads, Connect(u) \/ Disconnect(u) PROVE FALSE
  <2>1. pc' = pc \/ pc' = [pc EXCEPT ![u] = "fail"]
    BY <1>4 DEF Connect, Disconnect
  <2> QED  BY <1>0, <2>1, ProcKinds DEF Protocol, Typed
<1>5. ASSUME NEW u \in Threads, Granted(u) PROVE Granted(t)
  <2>1. pc' = [pc EXCEPT ![u] = "using"]
    BY <1>5 DEF Granted
  <2>2. u = t
    BY <1>0, <2>1, ProcKinds DEF Protocol, Typed
  <2> QED  BY <1>5, <2>2
<1>6. ASSUME NEW p \in Procs, CheckPool(p) PROVE FALSE
  <2>1. CASE CheckOne(p)
    BY <2>1 DEF CheckOne
  <2>2. CASE Grab(p)
    <3>1. pc[p] = "grab" /\ \E q : pc' = [pc EXCEPT ![p] = q]
      BY <2>2 DEF Grab
    <3> QED  BY <1>1, <3>1, GoesAlone
  <2>3. CASE ReturnAll(p)
    <3>1. pc[p] = "check" /\ SignalGet(p, After(p))
      BY <2>3 DEF ReturnAll
    <3> QED  BY <1>1, <3>1, GoesWaking
  <2> QED  BY <1>6, <2>1, <2>2, <2>3 DEF CheckPool
<1>7. ~Scheduled
  <2> SUFFICES ASSUME Scheduled PROVE FALSE
    OBVIOUS
  <2>1. pc[Checker] = "idle" /\ pc' = [pc EXCEPT ![Checker] = "grab"]
    BY DEF Scheduled
  <2> QED  BY <1>1, <2>1, ProcKinds, GoesAlone
<1>8. ~UNCHANGED vars
  BY DEF vars
<1> QED  BY <1>3, <1>4, <1>5, <1>6, <1>7, <1>8 DEF Next, GetStep

(* A thread leaves with its handles only when they are as many as it asked *)
(* for and all of them open, whatever failed before.                       *)
THEOREM GrantedOpenCorrect == Spec => GrantedOpen
<1>1. ASSUME HandlesInv, NEW t \in Threads, pc[t] = "connect", Granted(t)
      PROVE  Len(got[t]) = nwant[t] /\ \A h \in ToSet(got[t]) : connected[h]
  <2>1. Len(got[t]) = nwant[t] /\ got[t] \in Seq(Handles)
    BY <1>1 DEF HandlesInv, ThreadOK
  <2>2. \A S : Filter(got[t], S) \in Seq(Handles) /\ Range(Filter(got[t], S)) = Range(got[t]) \cap S
    BY <2>1, FilterHas
  <2>3. Filter(got[t], Closed) = <<>>
    BY <1>1 DEF Granted, Unopened
  <2>4. Range(got[t]) \cap Closed = {}
    BY <2>2, <2>3, SmallLists
  <2>5. \A h \in ToSet(got[t]) : h \in Handles /\ h \in Range(got[t])
    BY <2>1 DEF ToSet, Range
  <2> QED  BY <2>1, <2>4, <2>5 DEF Closed
<1>2. HandlesInv /\ Protocol /\ [Next]_vars =>
        [\A t \in Threads : pc[t] = "connect" /\ pc'[t] = "using"
           => Len(got[t]) = nwant[t] /\ \A h \in ToSet(got[t]) : connected[h]]_vars
  BY <1>1, LeavesConnect
<1>3. Init => Protocol /\ BounceInv /\ HandlesInv
  BY ProtocolInit, BounceInit, HandlesInit
<1>4. Protocol /\ BounceInv /\ HandlesInv /\ [Next]_vars => (Protocol /\ BounceInv /\ HandlesInv)'
  BY ProtocolNext, BounceNext, HandlesNext
<1> QED  BY <1>2, <1>3, <1>4, PTL DEF Spec, GrantedOpen
=============================================================================
