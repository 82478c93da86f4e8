---------------------------- MODULE Sched_proofs ----------------------------
(***************************************************************************)
(* Theorems about Sched and their proofs.                                  *)
(***************************************************************************)
EXTENDS Sched, Lemmas

-----------------------------------------------------------------------------
(* The heap holds each event once, and its events know their places.       *)

(* A permuted list holds the same elements.                                *)
LEMMA PermutedHas ==
    ASSUME NEW T, NEW s \in Seq(T), NEW E, NEW V, Permuted(E, s, T, Len(s), V)
    PROVE  /\ E \in Seq(T) /\ Len(E) = Len(s)
           /\ Range(E) = Range(s)
           /\ IsInjective(s) => IsInjective(E)
           /\ \A i \in 1 .. Len(s) : i \notin V => E[i] = s[i]
PROOF
<1>1. E \in Seq(T) /\ Len(E) = Len(s) /\ DOMAIN E = 1 .. Len(s) /\ DOMAIN s = 1 .. Len(s)
  BY DEF Permuted
<1>2. PICK p \in [1 .. Len(s) -> 1 .. Len(s)] :
        /\ \A i \in 1 .. Len(s) : E[i] = s[p[i]]
        /\ \A i, j \in 1 .. Len(s) : p[i] = p[j] => i = j
        /\ \A j \in 1 .. Len(s) : \E i \in 1 .. Len(s) : p[i] = j
        /\ \A i \in 1 .. Len(s) : i \notin V => p[i] = i
  BY DEF Permuted
<1>3. Range(E) = Range(s)
  <2>1. Range(E) = {E[i] : i \in 1 .. Len(s)} /\ Range(s) = {s[i] : i \in 1 .. Len(s)}
    BY <1>1 DEF Range
  <2>2. ASSUME NEW i \in 1 .. Len(s) PROVE E[i] \in Range(s)
    <3>1. E[i] = s[p[i]] /\ p[i] \in 1 .. Len(s)
      BY <1>2
    <3> QED  BY <2>1, <3>1
  <2>3. ASSUME NEW j \in 1 .. Len(s) PROVE s[j] \in Range(E)
    <3>1. PICK i \in 1 .. Len(s) : p[i] = j
      BY <1>2
    <3>2. E[i] = s[j]
      BY <1>2, <3>1
    <3> QED  BY <2>1, <3>2
  <2> QED  BY <2>1, <2>2, <2>3
<1>4. ASSUME IsInjective(s) PROVE IsInjective(E)
  <2>1. ASSUME NEW i \in 1 .. Len(s), NEW j \in 1 .. Len(s), E[i] = E[j] PROVE i = j
    <3>1. s[p[i]] = s[p[j]] /\ p[i] \in 1 .. Len(s) /\ p[j] \in 1 .. Len(s)
      BY <1>2, <2>1
    <3>2. p[i] = p[j]
      BY <1>1, <1>4, <3>1 DEF IsInjective
    <3> QED  BY <1>2, <3>2
  <2> QED  BY <1>1, <2>1 DEF IsInjective
<1> QED  BY <1>1, <1>2, <1>3, <1>4

(* The places of E that W leaves alone are places of q, with its elements. *)
Kept(E, q, W) == \A i \in 1 .. Len(E) : i \notin W => i \in 1 .. Len(q) /\ E[i] = q[i]

LEMMA InsertedHas ==
    ASSUME NEW T, NEW q \in Seq(T), IsInjective(q), NEW key, NEW e \in T, e \notin Range(q)
    PROVE  /\ Inserted(q, key, e) \in Seq(T) /\ IsInjective(Inserted(q, key, e))
           /\ Range(Inserted(q, key, e)) = Range(q) \cup {e}
           /\ Kept(Inserted(q, key, e), q, Walk(Len(q) + 1, Rise(q, key, e)))
PROOF
<1>0. Permuted(Inserted(q, key, e), Append(q, e), T, Len(q) + 1,
               Walk(Len(q) + 1, Rise(q, key, e)))
  BY InsertedIs
<1> DEFINE E == Inserted(q, key, e)
           a == Append(q, e)
           n == Len(q) + 1
           V == Walk(n, Rise(q, key, e))
<1>1. a \in Seq(T) /\ Len(a) = n /\ Len(q) \in Nat /\ \A i \in 1 .. Len(q) : a[i] = q[i]
  BY RiseIs
<1>2. Permuted(E, a, T, n, V)
  BY <1>0
<1>3. OneWay(Walk(Len(q) + 1, Rise(q, key, e)), Len(q) + 1, Rise(q, key, e),
             [i \in 1 .. Len(q) + 1 |-> i], Len(q) + 1)
  BY InsertedIs
<1>4. n \in V
  BY <1>3 DEF OneWay
<1>5. Range(a) = Range(q) \cup {e} /\ IsInjective(a)
  BY AppendHas
<1> HIDE DEF E, a, V
<1>6. /\ E \in Seq(T) /\ Len(E) = n /\ Range(E) = Range(a)
      /\ IsInjective(E) /\ \A i \in 1 .. n : i \notin V => E[i] = a[i]
  BY <1>1, <1>2, <1>5, PermutedHas
<1>7. Kept(E, q, V)
  <2>1. \A i \in 1 .. n : i # n => i \in 1 .. Len(q)
    BY <1>1
  <2> QED  BY <1>1, <1>4, <1>6, <2>1 DEF Kept
<1> QED  BY <1>5, <1>6, <1>7 DEF E, V

LEMMA TakenOutHas ==
    ASSUME NEW T, NEW q \in Seq(T), IsInjective(q), NEW key, NEW k \in 1 .. Len(q)
    PROVE  /\ TakenOut(q, key, k) \in Seq(T) /\ IsInjective(TakenOut(q, key, k))
           /\ Range(TakenOut(q, key, k)) = Range(q) \ {q[k]}
           /\ Kept(TakenOut(q, key, k), q, Walk(k, Sink(q, key, k)))
PROOF
<1> DEFINE E == TakenOut(q, key, k)
           a == LastTo(q, k)
           n == Len(q) - 1
           V == Walk(k, Sink(q, key, k))
<1>1. /\ a \in Seq(T) /\ Len(a) = n /\ n \in Nat
      /\ \A i \in 1 .. n : a[i] = IF i = k THEN q[Len(q)] ELSE q[i]
  <2>1. [q EXCEPT ![k] = q[Len(q)]] \in Seq(T) /\ Len([q EXCEPT ![k] = q[Len(q)]]) = Len(q)
    OBVIOUS
  <2>2. /\ a \in Seq(T) /\ Len(a) = n /\ n \in Nat
        /\ \A i \in 1 .. n : a[i] = [q EXCEPT ![k] = q[Len(q)]][i]
    BY <2>1 DEF LastTo
  <2> QED  BY <2>2
<1>2. k \in V /\ Permuted(E, a, T, n, V)
  BY TakenOutIs
<1> HIDE DEF E, a, V
<1>3. /\ \A i \in 1 .. Len(q) : i # Len(q) => i \in 1 .. n
      /\ \A i \in 1 .. n : i \in 1 .. Len(q) /\ i # Len(q)
      /\ Len(q) \in 1 .. Len(q) /\ DOMAIN q = 1 .. Len(q) /\ DOMAIN a = 1 .. n
  BY <1>1
<1> HIDE DEF n
<1>4. \A i, j \in 1 .. Len(q) : q[i] = q[j] => i = j
  BY <1>3 DEF IsInjective
<1>5. IsInjective(a)
  BY <1>1, <1>3, <1>4 DEF IsInjective
<1>6. Range(a) = Range(q) \ {q[k]}
  <2>1. ASSUME NEW i \in 1 .. n PROVE a[i] \in Range(q) \ {q[k]}
    <3>1. CASE i = k
      BY <1>1, <1>3, <1>4, <3>1 DEF Range
    <3>2. CASE i # k
      BY <1>1, <1>3, <1>4, <3>2 DEF Range
    <3> QED  BY <3>1, <3>2
  <2>2. ASSUME NEW i \in 1 .. Len(q), q[i] # q[k] PROVE \E j \in 1 .. n : a[j] = q[i]
    <3>1. CASE i = Len(q)
      <4>1. k \in 1 .. n /\ a[k] = q[i]
        BY <1>1, <1>3, <2>2, <3>1
      <4> QED  BY <4>1
    <3>2. CASE i # Len(q)
      <4>1. i \in 1 .. n /\ i # k
        BY <1>3, <2>2, <3>2
      <4>2. a[i] = q[i]
        BY <1>1, <4>1
      <4> QED  BY <4>1, <4>2
    <3> QED  BY <3>1, <3>2
  <2>3. Range(a) = {a[i] : i \in 1 .. n} /\ Range(q) = {q[i] : i \in 1 .. Len(q)}
    BY <1>3 DEF Range
  <2> QED  BY <2>1, <2>2, <2>3
<1>7. /\ E \in Seq(T) /\ Len(E) = n /\ Range(E) = Range(a)
      /\ IsInjective(E) /\ \A i \in 1 .. n : i \notin V => E[i] = a[i]
  BY <1>1, <1>2, <1>5, PermutedHas
<1>8. Kept(E, q, V)
  BY <1>1, <1>2, <1>3, <1>7 DEF Kept
<1> QED  BY <1>6, <1>7, <1>8 DEF E, V
(* f numbers the events of q by their places, all others by 0. *)
Numbers(f, q) ==
    /\ f \in [Events -> Nat]
    /\ \A i \in 1 .. Len(q) : f[q[i]] = i
    /\ \A x \in Events \ Range(q) : f[x] = 0

(* An event is in the queue once. *)
LEMMA NumberedOnce ==
    ASSUME NEW f, NEW q \in Seq(Events), Numbers(f, q)
    PROVE  /\ IsInjective(q) /\ DOMAIN q = 1 .. Len(q)
           /\ \A x \in Events : /\ x \in Range(q) <=> f[x] # 0
                                /\ f[x] # 0 => f[x] \in 1 .. Len(q) /\ q[f[x]] = x
PROOF
<1>1. DOMAIN q = 1 .. Len(q) /\ \A i \in 1 .. Len(q) : q[i] \in Events /\ i # 0
  OBVIOUS
<1>2. IsInjective(q)
  BY <1>1 DEF Numbers, IsInjective
<1>3. ASSUME NEW x \in Range(q) PROVE f[x] # 0 /\ f[x] \in 1 .. Len(q) /\ q[f[x]] = x
  <2>1. PICK i \in 1 .. Len(q) : x = q[i]
    BY <1>1 DEF Range
  <2> QED  BY <1>1, <2>1 DEF Numbers
<1>4. \A x \in Events \ Range(q) : f[x] = 0
  BY DEF Numbers
<1> QED  BY <1>1, <1>2, <1>3, <1>4

(* What Renumber makes of the numbers f when the queue becomes E.          *)
Renumbered(f, E, W) ==
    [x \in Events |-> IF \E i \in W \cap DOMAIN E : E[i] = x
                          THEN CHOOSE i \in W \cap DOMAIN E : E[i] = x ELSE f[x]]

LEMMA RenumberedHas ==
    ASSUME NEW f, NEW q \in Seq(Events), Numbers(f, q),
           NEW W, NEW E \in Seq(Events), IsInjective(E), Kept(E, q, W)
    PROVE  /\ Renumbered(f, E, W) \in [Events -> Nat]
           /\ \A i \in 1 .. Len(E) : Renumbered(f, E, W)[E[i]] = i
           /\ \A x \in Events \ Range(E) : Renumbered(f, E, W)[x] = f[x]
PROOF
<1> DEFINE g == Renumbered(f, E, W)
           I == W \cap DOMAIN E
<1>1. DOMAIN E = 1 .. Len(E) /\ Len(E) \in Nat /\ \A i \in 1 .. Len(E) : E[i] \in Events /\ i \in Nat
  OBVIOUS
<1>2. I \subseteq 1 .. Len(E)
  BY <1>1
<1>3. g = [x \in Events |-> IF \E i \in I : E[i] = x THEN CHOOSE i \in I : E[i] = x ELSE f[x]]
  BY DEF Renumbered
<1> HIDE DEF g
<1>4. ASSUME NEW i \in I PROVE g[E[i]] = i
  <2>1. (CHOOSE j \in I : E[j] = E[i]) \in I /\ E[CHOOSE j \in I : E[j] = E[i]] = E[i]
    OBVIOUS
  <2>2. (CHOOSE j \in I : E[j] = E[i]) = i
    BY <1>1, <1>2, <2>1 DEF IsInjective
  <2>3. E[i] \in Events
    BY <1>1, <1>2
  <2> QED  BY <1>3, <2>2, <2>3
<1>5. ASSUME NEW i \in 1 .. Len(E), i \notin I PROVE g[E[i]] = i
  <2>1. i \notin W /\ i \in 1 .. Len(q) /\ E[i] = q[i]
    BY <1>1, <1>5 DEF Kept
  <2>2. ~ \E j \in I : E[j] = E[i]
    BY <1>1, <1>2, <1>5 DEF IsInjective
  <2>3. g[E[i]] = f[E[i]]
    BY <1>1, <1>3, <2>2
  <2> QED  BY <2>1, <2>3 DEF Numbers
<1>6. ASSUME NEW x \in Events, x \notin Range(E) PROVE g[x] = f[x]
  <2>1. ~ \E j \in I : E[j] = x
    BY <1>1, <1>2, <1>6 DEF Range
  <2> QED  BY <1>3, <2>1
<1>7. ASSUME NEW x \in Events PROVE g[x] \in Nat
  <2>1. CASE x \in Range(E)
    BY <1>1, <1>4, <1>5, <2>1 DEF Range
  <2>2. CASE x \notin Range(E)
    BY <1>6, <2>2 DEF Numbers
  <2> QED  BY <2>1, <2>2
<1> QED  BY <1>3, <1>4, <1>5, <1>6, <1>7 DEF g

(* QueueEvent and DeQueueEvent keep the numbers. *)
LEMMA EnqueueHas ==
    ASSUME queue \in Seq(Events), Numbers(qid, queue), NEW e \in Events \ Range(queue),
           NEW now, Enqueue(e, now)
    PROVE  /\ queue' \in Seq(Events) /\ Range(queue') = Range(queue) \cup {e}
           /\ Numbers(qid', queue')
           /\ due' = [due EXCEPT ![e] = NextTime(kind'[e], now)]
PROOF
<1> DEFINE W == Walk(Len(queue) + 1, Rise(queue, due', e))
<1>1. IsInjective(queue)
  BY NumberedOnce
<1>2. queue' = Inserted(queue, due', e) /\ qid' = Renumber(W)
  BY DEF Enqueue
<1>3. /\ queue' \in Seq(Events) /\ IsInjective(queue') /\ Range(queue') = Range(queue) \cup {e}
      /\ Kept(queue', queue, W)
  <2>1. /\ Inserted(queue, due', e) \in Seq(Events) /\ IsInjective(Inserted(queue, due', e))
        /\ Range(Inserted(queue, due', e)) = Range(queue) \cup {e}
        /\ Kept(Inserted(queue, due', e), queue, Walk(Len(queue) + 1, Rise(queue, due', e)))
    BY <1>1, InsertedHas
  <2> QED  BY <1>2, <2>1
<1> HIDE DEF W
<1>4. qid' = Renumbered(qid, queue', W)
  BY <1>2 DEF Renumber, Renumbered
<1>5. /\ Renumbered(qid, queue', W) \in [Events -> Nat]
      /\ \A i \in 1 .. Len(queue') : Renumbered(qid, queue', W)[queue'[i]] = i
      /\ \A x \in Events \ Range(queue') : Renumbered(qid, queue', W)[x] = qid[x]
  BY <1>3, RenumberedHas
<1>6. \A x \in Events \ Range(queue') : qid[x] = 0
  BY <1>3 DEF Numbers
<1> QED  BY <1>3, <1>4, <1>5, <1>6 DEF Numbers, Enqueue

LEMMA DequeueHas ==
    ASSUME queue \in Seq(Events), Numbers(qid, queue), NEW k \in 1 .. Len(queue), Dequeue(k)
    PROVE  /\ queue' \in Seq(Events) /\ Range(queue') = Range(queue) \ {queue[k]}
           /\ Numbers(qid', queue') /\ due' = due /\ queue[k] \in Range(queue)
PROOF
<1> DEFINE W == Walk(k, Sink(queue, due, k))
           E == Renumbered(qid, queue', W)
<1>1. IsInjective(queue)
  BY NumberedOnce
<1>2. queue' = TakenOut(queue, due, k) /\ qid' = [Renumber(W) EXCEPT ![queue[k]] = 0] /\ due' = due
  BY DEF Dequeue
<1>3. /\ queue' \in Seq(Events) /\ IsInjective(queue') /\ Range(queue') = Range(queue) \ {queue[k]}
      /\ Kept(queue', queue, W)
  <2>1. /\ TakenOut(queue, due, k) \in Seq(Events) /\ IsInjective(TakenOut(queue, due, k))
        /\ Range(TakenOut(queue, due, k)) = Range(queue) \ {queue[k]}
        /\ Kept(TakenOut(queue, due, k), queue, Walk(k, Sink(queue, due, k)))
    BY <1>1, TakenOutHas
  <2> QED  BY <1>2, <2>1
<1>4. queue[k] \in Events /\ queue[k] \in Range(queue)
  BY DEF Range
<1> HIDE DEF W
<1>5. qid' = [E EXCEPT ![queue[k]] = 0]
  BY <1>2 DEF Renumber, Renumbered
<1>6. /\ E \in [Events -> Nat]
      /\ \A i \in 1 .. Len(queue') : E[queue'[i]] = i
      /\ \A x \in Events \ Range(queue') : E[x] = qid[x]
  <2>1. /\ Renumbered(qid, queue', W) \in [Events -> Nat]
        /\ \A i \in 1 .. Len(queue') : Renumbered(qid, queue', W)[queue'[i]] = i
        /\ \A x \in Events \ Range(queue') : Renumbered(qid, queue', W)[x] = qid[x]
    BY <1>3, RenumberedHas
  <2> QED  BY <2>1
<1> HIDE DEF E
<1>7. qid' \in [Events -> Nat]
  BY <1>4, <1>5, <1>6
<1>8. ASSUME NEW i \in 1 .. Len(queue') PROVE qid'[queue'[i]] = i
  <2>1. queue'[i] \in Range(queue')
    BY <1>3 DEF Range
  <2>2. queue'[i] # queue[k] /\ queue'[i] \in Events
    BY <1>3, <2>1
  <2> QED  BY <1>5, <1>6, <2>2
<1>9. ASSUME NEW x \in Events, x \notin Range(queue') PROVE qid'[x] = 0
  <2>1. CASE x = queue[k]
    BY <1>4, <1>5, <1>6, <2>1
  <2>2. CASE x # queue[k]
    BY <1>3, <1>5, <1>6, <1>9, <2>2 DEF Numbers
  <2> QED  BY <2>1, <2>2
<1> QED  BY <1>2, <1>3, <1>4, <1>7, <1>8, <1>9 DEF Numbers
(* Where the events are: queued, in the two lists, run by the EventThreads *)
(* and by SchedThread, about to be freed by a client.                      *)
Busy == {tev[t] : t \in Threads} \ {NoEvent}
Own == {sev} \ {NoEvent}

(* The places are apart, they hold live events only, and a live event that *)
(* none of them holds is paused.                                           *)
Owned(Q, R, H, B, O, F, L, P) ==
    /\ Q \cap (R \cup H \cup B \cup O \cup F) = {}
    /\ R \cap (H \cup B \cup O \cup F) = {}
    /\ H \cap (B \cup O \cup F) = {}
    /\ B \cap (O \cup F) = {}
    /\ O \cap F = {}
    /\ Q \cup R \cup H \cup B \cup O \cup F \subseteq L
    /\ L \ (Q \cup R \cup H \cup B \cup O \cup F) \subseteq P

EachOwned ==
    Owned(Range(queue), Range(readyPtr), Range(threadEventPtr), Busy, Own, freeing, live, paused)

(* A list holds an event once. *)
ListsOnce ==
    /\ queue \in Seq(Events) /\ readyPtr \in Seq(Events) /\ threadEventPtr \in Seq(Events)
    /\ IsInjective(readyPtr) /\ IsInjective(threadEventPtr)

(* An id finds a live event, which no one is about to free.                *)
IdsFind ==
    /\ ~shutdownPending => hashed \subseteq live
    /\ freeing \cap hashed = {}
    /\ \A t \in Threads : tpc[t] = "free" => tev[t] \notin hashed

(* A live event has a due time. *)
Timed == \A x \in live : due[x] \in Nat

(* Where SchedThread is says whether it holds the lock and has an event.   *)
SchedAt ==
    /\ lock = SchedThread <=> spc \in {"collect", "join"}
    /\ spc = "collect" => ~shutdownPending
    /\ spc \in {"join", "joining", "teardown", "exited"} => shutdownPending
    /\ spc = "proc" => sev \in Events
    /\ spc \notin {"proc", "relock"} => sev = NoEvent

(* Where the EventThreads are says which have an event, different ones.    *)
ThreadsAt ==
    /\ \A t \in Threads : tpc[t] \in {"proc", "free"} <=> tev[t] # NoEvent
    /\ \A t, u \in Threads : tev[t] = tev[u] /\ tev[t] # NoEvent => t = u
    /\ ~shutdownPending => \A t \in Threads : tpc[t] # "none" <=> t <= nThreads
    /\ \A t \in Threads : tpc[t] = "exited" => shutdownPending

IdleCounted == nIdleThreads = Count(tpc, Threads, {"loop", "free", "exited"})

(* TypeOK but for the lists and qid. *)
TimesTyped == clock \in 0 .. MaxClock /\ snow \in 0 .. MaxClock /\ wakeAt \in 0 .. MaxClock + 1

EventsTyped ==
    /\ kind \in [Events -> Kinds] /\ due \in [Events -> Nat \cup {-1}]
    /\ live \subseteq Events /\ hashed \subseteq Events
    /\ paused \subseteq Events /\ freeing \subseteq Events

ThreadsTyped ==
    /\ lock \in {None, SchedThread} \cup Threads
    /\ nThreads \in {0} \cup Threads /\ nIdleThreads \in {0} \cup Threads
    /\ onSched \subseteq {"sched", "main"} /\ onEvent \subseteq Threads
    /\ spc \in {"none", "start", "collect", "proc", "relock", "wait", "join", "joining",
                "teardown", "exited"}
    /\ sev \in Events \cup {NoEvent} /\ tev \in [Threads -> Events \cup {NoEvent}]
    /\ tpc \in [Threads -> {"none", "loop", "proc", "free", "exited"}]
    /\ shutdownPending \in BOOLEAN
    /\ mpc \in {"up", "stopping", "wait", "timedout", "done"}

SchedInv ==
    /\ TimesTyped /\ EventsTyped /\ ThreadsTyped
    /\ EachOwned /\ ListsOnce /\ Numbers(qid, queue)
    /\ IdsFind /\ Timed /\ SchedAt /\ ThreadsAt /\ IdleCounted

-----------------------------------------------------------------------------
(* An event comes up after some time, which is a natural number.           *)
LEMMA NextTimeIs ==
    ASSUME SchedAssumption, NEW k \in Kinds, NEW now \in Nat
    PROVE  NextTime(k, now) \in Nat
PROOF
<1>1. k.period \in Nat /\ k.interval \in Nat
  BY DEF SchedAssumption
<1>2. CASE k.period = 0
  BY <1>1, <1>2 DEF NextTime
<1>3. CASE k.period # 0
  <2> DEFINE p == k.period
             slot == k.interval % p
             m == now % p
             today == now - m + slot
  <2>1. p \in Nat /\ p > 0
    BY <1>1, <1>3
  <2>2. slot \in 0 .. p - 1 /\ m \in 0 .. p - 1
    BY <1>1, <2>1
  <2>3. NextTime(k, now) = IF today <= now THEN today + p ELSE today
    BY <1>3 DEF NextTime
  <2> HIDE DEF p, slot, m
  <2>4. today \in Int /\ today + p \in Nat
    BY <2>1, <2>2
  <2> QED  BY <2>3, <2>4
<1> QED  BY <1>2, <1>3

(* How often a list that holds an event once holds it.                     *)
LEMMA OccursOnce ==
    ASSUME NEW s \in Seq(Events), IsInjective(s), NEW e
    PROVE  Occurrences(s, e) = IF e \in Range(s) THEN 1 ELSE 0
PROOF
<1> DEFINE A == {i \in DOMAIN s : s[i] = e}
<1>1. \A i, j \in A : i = j
  BY DEF IsInjective
<1>2. A = {} <=> e \notin Range(s)
  BY DEF Range
<1>3. Cardinality(A) = IF A = {} THEN 0 ELSE 1
  BY <1>1, CountSingle
<1> QED  BY <1>2, <1>3 DEF Occurrences

(* The holders of an event are counted right by the places it is at.       *)
LEMMA HoldersIs ==
    ASSUME ListsOnce, Numbers(qid, queue), ThreadsAt, SchedAssumption, NEW e \in Events
    PROVE  Holders(e) = (IF e \in Range(queue) THEN 1 ELSE 0)
                        + (IF e \in Range(readyPtr) THEN 1 ELSE 0)
                        + (IF e \in Range(threadEventPtr) THEN 1 ELSE 0)
                        + (IF e \in Busy THEN 1 ELSE 0)
                        + (IF e \in Own THEN 1 ELSE 0) + (IF e \in freeing THEN 1 ELSE 0)
PROOF
<1>1. queue \in Seq(Events) /\ readyPtr \in Seq(Events) /\ threadEventPtr \in Seq(Events)
  BY DEF ListsOnce
<1>2. IsInjective(queue) /\ IsInjective(readyPtr) /\ IsInjective(threadEventPtr)
  BY <1>1, NumberedOnce DEF ListsOnce
<1>3. Occurrences(queue, e) = IF e \in Range(queue) THEN 1 ELSE 0
  BY <1>1, <1>2, OccursOnce
<1>4. Occurrences(readyPtr, e) = IF e \in Range(readyPtr) THEN 1 ELSE 0
  BY <1>1, <1>2, OccursOnce
<1>5. Occurrences(threadEventPtr, e) = IF e \in Range(threadEventPtr) THEN 1 ELSE 0
  BY <1>1, <1>2, OccursOnce
<1>6. e # NoEvent
  BY DEF SchedAssumption
<1>7. Cardinality({t \in Threads : tev[t] = e}) = IF e \in Busy THEN 1 ELSE 0
  <2> DEFINE A == {t \in Threads : tev[t] = e}
  <2>1. \A t, u \in A : t = u
    BY <1>6 DEF ThreadsAt
  <2>2. A = {} <=> e \notin Busy
    BY <1>6 DEF Busy
  <2>3. Cardinality(A) = IF A = {} THEN 0 ELSE 1
    BY <2>1, CountSingle
  <2> QED  BY <2>2, <2>3
<1>8. sev = e <=> e \in Own
  BY <1>6 DEF Own
<1> QED  BY <1>3, <1>4, <1>5, <1>7, <1>8 DEF Holders

LEMMA OwnedMeans ==
    ASSUME SchedInv, SchedAssumption
    PROVE  /\ EventsOwned
           /\ \A e \in Events : Holders(e) \in Nat /\ (Holders(e) = 0 <=>
                e \notin Range(queue) \cup Range(readyPtr) \cup Range(threadEventPtr)
                         \cup Busy \cup Own \cup freeing)
PROOF
<1>1. ASSUME NEW e \in Events
      PROVE  /\ Holders(e) <= (IF e \in live THEN 1 ELSE 0)
             /\ Holders(e) \in Nat
             /\ Holders(e) = 0 <=>
                e \notin Range(queue) \cup Range(readyPtr) \cup Range(threadEventPtr)
                         \cup Busy \cup Own \cup freeing
  <2> DEFINE Q == Range(queue)
             R == Range(readyPtr)
             H == Range(threadEventPtr)
  <2>1. Holders(e) = (IF e \in Q THEN 1 ELSE 0) + (IF e \in R THEN 1 ELSE 0)
                     + (IF e \in H THEN 1 ELSE 0) + (IF e \in Busy THEN 1 ELSE 0)
                     + (IF e \in Own THEN 1 ELSE 0) + (IF e \in freeing THEN 1 ELSE 0)
    BY HoldersIs DEF SchedInv
  <2>2. Owned(Q, R, H, Busy, Own, freeing, live, paused)
    BY DEF SchedInv, EachOwned
  <2> HIDE DEF Q, R, H
  <2>3. /\ e \in Q => e \notin R \cup H \cup Busy \cup Own \cup freeing
        /\ e \in R => e \notin H \cup Busy \cup Own \cup freeing
        /\ e \in H => e \notin Busy \cup Own \cup freeing
        /\ e \in Busy => e \notin Own \cup freeing
        /\ e \in Own => e \notin freeing
        /\ e \in Q \cup R \cup H \cup Busy \cup Own \cup freeing => e \in live
    BY <2>2 DEF Owned
  <2>4. Holders(e) <= (IF e \in live THEN 1 ELSE 0)
    BY <2>1, <2>3
  <2>5. Holders(e) = 0 <=> e \notin Q \cup R \cup H \cup Busy \cup Own \cup freeing
    BY <2>1
  <2>6. Holders(e) \in Nat
    BY <2>1
  <2> QED  BY <2>4, <2>5, <2>6 DEF Q, R, H
<1>2. OneHolder
  BY <1>1 DEF OneHolder
<1>3. NoneLeaked
  <2>1. live \subseteq Events
    BY DEF SchedInv, EventsTyped
  <2>2. Owned(Range(queue), Range(readyPtr), Range(threadEventPtr), Busy, Own, freeing, live, paused)
    BY DEF SchedInv, EachOwned
  <2>3. \A e \in live :
          e \notin Range(queue) \cup Range(readyPtr) \cup Range(threadEventPtr)
                   \cup Busy \cup Own \cup freeing => e \in paused
    BY <2>2 DEF Owned
  <2> QED  BY <1>1, <2>1, <2>3 DEF NoneLeaked
<1> QED  BY <1>1, <1>2, <1>3 DEF EventsOwned
LEMMA BooksMean ==
    ASSUME SchedInv, SchedAssumption
    PROVE  BooksAgree
PROOF
<1>1. QidAgrees
  <2>1. queue \in Seq(Events) /\ Numbers(qid, queue) /\ live \subseteq Events
    BY DEF SchedInv, ListsOnce, EventsTyped
  <2>2. Elements(queue) = Range(queue)
    BY DEF Elements, Range
  <2>3. DOMAIN queue = 1 .. Len(queue)
    BY <2>1
  <2>4. \A x \in Events : /\ x \in Range(queue) <=> qid[x] # 0
                          /\ qid[x] # 0 => qid[x] \in 1 .. Len(queue) /\ queue[qid[x]] = x
    BY <2>1, NumberedOnce
  <2> QED  BY <2>1, <2>2, <2>3, <2>4 DEF QidAgrees
<1>2. IdleAgrees
  <2>1. CASE ~shutdownPending
    <3>1. \A t \in Threads : tpc[t] \in {"loop", "free", "exited"} <=> tpc[t] \in {"loop", "free"}
      BY <2>1 DEF SchedInv, ThreadsAt
    <3>2. {t \in Threads : tpc[t] \in {"loop", "free", "exited"}}
            = {t \in Threads : tpc[t] \in {"loop", "free"}}
      BY <3>1
    <3> QED  BY <3>2 DEF SchedInv, IdleCounted, Count, IdleAgrees
  <2> QED  BY <2>1 DEF IdleAgrees
<1>3. TypeOK
  <2>1. Elements(queue) \subseteq Events /\ Elements(readyPtr) \subseteq Events
        /\ Elements(threadEventPtr) \subseteq Events
    BY DEF SchedInv, ListsOnce, Elements
  <2>2. clock \in 0 .. MaxClock /\ snow \in 0 .. MaxClock /\ wakeAt \in 0 .. Never
    BY DEF SchedInv, TimesTyped, Never
  <2>3. /\ kind \in [Events -> Kinds] /\ due \in [Events -> Nat \cup {Unused}]
        /\ {live, hashed, paused, freeing} \subseteq SUBSET Events
    BY DEF SchedInv, EventsTyped, Unused
  <2>4. qid \in [Events -> Nat]
    BY DEF SchedInv, Numbers
  <2> QED  BY <2>1, <2>2, <2>3, <2>4 DEF SchedInv, ThreadsTyped, TypeOK
<1> QED  BY <1>1, <1>2, <1>3 DEF BooksAgree

-----------------------------------------------------------------------------
(* What a step that leaves a part of the state alone keeps.                *)

LEMMA SamePlaces ==
    ASSUME SchedInv, UNCHANGED <<queue, qid, readyPtr, threadEventPtr, tev, sev, freeing, live,
                                 paused, due>>
    PROVE  EachOwned' /\ ListsOnce' /\ Numbers(qid, queue)' /\ Timed'
BY DEF SchedInv, EachOwned, ListsOnce, Numbers, Timed, Busy, Own

LEMMA SameIds ==
    ASSUME SchedInv, UNCHANGED <<hashed, live, freeing, tpc, tev>>,
           shutdownPending => shutdownPending'
    PROVE  IdsFind'
BY DEF SchedInv, IdsFind

LEMMA SameSched ==
    ASSUME SchedInv, UNCHANGED <<spc, sev, shutdownPending>>,
           lock' = SchedThread <=> lock = SchedThread
    PROVE  SchedAt'
BY DEF SchedInv, SchedAt, SchedThread

LEMMA SameThreads ==
    ASSUME SchedInv, UNCHANGED <<tpc, tev, nThreads, nIdleThreads>>,
           shutdownPending => shutdownPending'
    PROVE  ThreadsAt' /\ IdleCounted'
BY DEF SchedInv, ThreadsAt, IdleCounted, Count

LEMMA InitKeeps == SchedAssumption /\ Init => SchedInv
PROOF
<1> SUFFICES ASSUME SchedAssumption, Init PROVE SchedInv
  OBVIOUS
<1>1. Cardinality(Events) \in Nat
  BY FS_CardinalityType DEF SchedAssumption
<1>2. (CHOOSE k \in Kinds : TRUE) \in Kinds
  BY DEF SchedAssumption
<1>3. TimesTyped /\ EventsTyped /\ ThreadsTyped
  <2>1. TimesTyped
    BY DEF Init, TimesTyped, Never, SchedAssumption
  <2>2. EventsTyped
    BY <1>2 DEF Init, EventsTyped, Unused
  <2>3. ThreadsTyped
    BY DEF Init, ThreadsTyped, None
  <2> QED  BY <2>1, <2>2, <2>3
<1>4. Range(<<>>) = {} /\ <<>> \in Seq(Events) /\ IsInjective(<<>>)
  BY DEF Range, IsInjective
<1>5. ListsOnce /\ EachOwned
  BY <1>4 DEF Init, ListsOnce, EachOwned, Owned, Busy, Own
<1>6. Numbers(qid, queue)
  BY <1>4 DEF Init, Numbers
<1>7. IdsFind /\ Timed /\ ThreadsAt
  BY <1>1 DEF Init, IdsFind, Timed, ThreadsAt, Threads
<1>8. SchedAt
  BY <1>1 DEF Init, SchedAt, SchedThread, None
<1>9. IdleCounted
  <2>1. \A t \in Threads : tpc[t] \notin {"loop", "free", "exited"}
    BY DEF Init
  <2>2. IsFiniteSet(Threads)
    BY <1>1, FS_Interval DEF Threads
  <2>3. Count(tpc, Threads, {"loop", "free", "exited"}) = 0
    BY <2>1, <2>2, CountType
  <2> QED  BY <2>3 DEF Init, IdleCounted
<1> QED  BY <1>3, <1>5, <1>6, <1>7, <1>8, <1>9 DEF SchedInv
-----------------------------------------------------------------------------
(* Steps that move no event: nsmain, time, SchedThread around its loop.    *)

LEMMA TickKeeps ==
    ASSUME SchedInv, SchedAssumption, Tick
    PROVE  SchedInv'
PROOF
<1> USE DEF Tick, eventVars, queueVars, threadVars, schedVars
<1>1. TimesTyped' /\ EventsTyped' /\ ThreadsTyped'
  BY DEF SchedInv, SchedAssumption, TimesTyped, EventsTyped, ThreadsTyped
<1>2. EachOwned' /\ ListsOnce' /\ Numbers(qid, queue)' /\ Timed'
  BY SamePlaces
<1>3. IdsFind' /\ SchedAt'
  BY SameIds, SameSched
<1>4. ThreadsAt' /\ IdleCounted'
  BY SameThreads
<1> QED  BY <1>1, <1>2, <1>3, <1>4 DEF SchedInv

(* A stuttering step. *)
LEMMA StutterKeeps ==
    ASSUME SchedInv, UNCHANGED vars
    PROVE  SchedInv'
PROOF
<1> USE DEF vars, eventVars, queueVars, threadVars, schedVars
<1>1. TimesTyped' /\ EventsTyped' /\ ThreadsTyped'
  BY DEF SchedInv, TimesTyped, EventsTyped, ThreadsTyped
<1>2. EachOwned' /\ ListsOnce' /\ Numbers(qid, queue)' /\ Timed'
  BY SamePlaces
<1>3. IdsFind' /\ SchedAt'
  BY SameIds, SameSched
<1>4. ThreadsAt' /\ IdleCounted'
  BY SameThreads
<1> QED  BY <1>1, <1>2, <1>3, <1>4 DEF SchedInv

LEMMA MainKeeps ==
    ASSUME SchedInv, SchedAssumption, MainNext
    PROVE  SchedInv'
PROOF
<1> USE DEF NsStartSchedShutdown, NsWaitSchedShutdown, NsWaitTimeout,
            eventVars, queueVars, threadVars, schedVars
<1>1. UNCHANGED <<clock, lock, eventVars, queueVars, threadVars, schedVars>>
  BY DEF MainNext
<1>2. /\ shutdownPending' = shutdownPending \/ (shutdownPending' = TRUE /\ lock = None)
      /\ onSched' \subseteq onSched \cup {"main"}
      /\ mpc' \in {"up", "stopping", "wait", "timedout", "done"}
  <2>1. CASE NsStartSchedShutdown
    <3>1. onSched' \subseteq onSched
      BY <2>1 DEF SignalSched
    <3> QED  BY <2>1, <3>1 DEF LockFree
  <2>2. CASE NsWaitSchedShutdown
    BY <2>2
  <2>3. CASE NsWaitTimeout
    BY <2>3
  <2> QED  BY <2>1, <2>2, <2>3 DEF MainNext
<1> HIDE DEF NsStartSchedShutdown, NsWaitSchedShutdown, NsWaitTimeout
<1>3. TimesTyped' /\ EventsTyped' /\ ThreadsTyped'
  BY <1>1, <1>2 DEF SchedInv, TimesTyped, EventsTyped, ThreadsTyped
<1>4. EachOwned' /\ ListsOnce' /\ Numbers(qid, queue)' /\ Timed'
  BY <1>1, SamePlaces
<1>5. IdsFind'
  BY <1>1, <1>2, SameIds
<1>6. SchedAt'
  <2>1. CASE shutdownPending' = shutdownPending
    BY <1>1, <2>1, SameSched
  <2>2. CASE shutdownPending' = TRUE /\ lock = None
    <3>1. None # SchedThread
      BY FS_CardinalityType DEF SchedAssumption, None, SchedThread
    <3>2. spc \notin {"collect", "join"}
      BY <2>2, <3>1 DEF SchedInv, SchedAt
    <3> QED  BY <1>1, <2>2, <3>1, <3>2 DEF SchedInv, SchedAt, SchedThread
  <2> QED  BY <1>2, <2>1, <2>2
<1>7. ThreadsAt' /\ IdleCounted'
  BY <1>1, <1>2, SameThreads
<1> QED  BY <1>3, <1>4, <1>5, <1>6, <1>7 DEF SchedInv

(* What the lock tells. *)
LEMMA LockTells ==
    ASSUME SchedInv, SchedAssumption
    PROVE  /\ None # SchedThread /\ SchedThread \notin Threads
           /\ LockFree => spc \notin {"collect", "join"}
PROOF
<1>1. Cardinality(Events) \in Nat
  BY FS_CardinalityType DEF SchedAssumption
<1>2. None # SchedThread /\ SchedThread \notin Threads
  BY <1>1 DEF None, SchedThread, Threads
<1> QED  BY <1>2 DEF SchedInv, SchedAt, LockFree

LEMMA SchedEnterKeeps ==
    ASSUME SchedInv, SchedAssumption, SchedEnter
    PROVE  SchedInv'
PROOF
<1>1. /\ UNCHANGED <<clock, eventVars, queueVars, threadVars, sev, readyPtr, shutdownPending, mpc>>
      /\ lock' = SchedThread /\ snow' = clock /\ wakeAt' = Never
      /\ onSched' = onSched \ {"sched"} /\ spc \in {"start", "wait"}
      /\ spc' = IF shutdownPending THEN "join" ELSE "collect"
  BY DEF SchedEnter, LoopTop
<1> USE DEF eventVars, queueVars, threadVars
<1>2. TimesTyped' /\ EventsTyped' /\ ThreadsTyped'
  <2>1. TimesTyped'
    BY <1>1 DEF SchedInv, TimesTyped, Never, SchedAssumption
  <2>2. EventsTyped'
    BY <1>1 DEF SchedInv, EventsTyped
  <2>3. ThreadsTyped'
    BY <1>1 DEF SchedInv, ThreadsTyped, SchedThread
  <2> QED  BY <2>1, <2>2, <2>3
<1>3. EachOwned' /\ ListsOnce' /\ Numbers(qid, queue)' /\ Timed'
  BY <1>1, SamePlaces
<1>4. IdsFind'
  BY <1>1, SameIds
<1>5. SchedAt'
  BY <1>1 DEF SchedInv, SchedAt, SchedThread, ThreadsTyped
<1>6. ThreadsAt' /\ IdleCounted'
  BY <1>1, SameThreads
<1> QED  BY <1>2, <1>3, <1>4, <1>5, <1>6 DEF SchedInv

LEMMA JoinThreadsKeeps ==
    ASSUME SchedInv, SchedAssumption, JoinThreads
    PROVE  SchedInv'
PROOF
<1>1. /\ UNCHANGED <<clock, eventVars, queueVars, threadVars, sev, snow, wakeAt, readyPtr,
                     onSched, shutdownPending, mpc>>
      /\ spc = "joining" /\ spc' = "join" /\ lock' = SchedThread
  BY DEF JoinThreads
<1> USE DEF eventVars, queueVars, threadVars
<1>2. TimesTyped' /\ EventsTyped' /\ ThreadsTyped'
  BY <1>1 DEF SchedInv, TimesTyped, EventsTyped, ThreadsTyped, SchedThread
<1>3. EachOwned' /\ ListsOnce' /\ Numbers(qid, queue)' /\ Timed'
  BY <1>1, SamePlaces
<1>4. IdsFind'
  BY <1>1, SameIds
<1>5. SchedAt'
  BY <1>1 DEF SchedInv, SchedAt, SchedThread, ThreadsTyped
<1>6. ThreadsAt' /\ IdleCounted'
  BY <1>1, SameThreads
<1> QED  BY <1>2, <1>3, <1>4, <1>5, <1>6 DEF SchedInv

LEMMA WakeThreadsKeeps ==
    ASSUME SchedInv, SchedAssumption, WakeThreads
    PROVE  SchedInv'
PROOF
<1>1. /\ UNCHANGED <<clock, eventVars, queueVars, nIdleThreads, tpc, tev, threadEventPtr,
                     sev, snow, wakeAt, readyPtr, onSched, shutdownPending, mpc>>
      /\ spc = "join" /\ spc' \in {"joining", "teardown"} /\ lock' = None
      /\ nThreads' \in {0, nThreads} /\ onEvent' \in {{}, onEvent}
  BY DEF WakeThreads
<1> USE DEF eventVars, queueVars
<1>2. TimesTyped' /\ EventsTyped' /\ ThreadsTyped'
  BY <1>1 DEF SchedInv, TimesTyped, EventsTyped, ThreadsTyped, SchedThread, None
<1>3. EachOwned' /\ ListsOnce' /\ Numbers(qid, queue)' /\ Timed'
  BY <1>1, SamePlaces
<1>4. IdsFind'
  BY <1>1, SameIds
<1>5. shutdownPending /\ shutdownPending'
  BY <1>1 DEF SchedInv, SchedAt
<1>6. SchedAt'
  BY <1>1, <1>5, LockTells DEF SchedInv, SchedAt, SchedThread
<1>7. ThreadsAt' /\ IdleCounted'
  BY <1>1, <1>5 DEF SchedInv, ThreadsAt, IdleCounted, Count
<1> QED  BY <1>2, <1>3, <1>4, <1>6, <1>7 DEF SchedInv
-----------------------------------------------------------------------------
(* Events into the queue and out of it.                                    *)

LEMMA EnqueueKeeps ==
    ASSUME SchedInv, SchedAssumption, kind' \in [Events -> Kinds],
           NEW e \in Events, e \notin Range(queue), NEW now \in Nat, Enqueue(e, now)
    PROVE  /\ queue' \in Seq(Events) /\ Range(queue') = Range(queue) \cup {e}
           /\ Numbers(qid', queue')
           /\ due' \in [Events -> Nat \cup {-1}] /\ due'[e] \in Nat
           /\ \A x \in Events : x # e => due'[x] = due[x]
PROOF
<1>1. queue \in Seq(Events) /\ Numbers(qid, queue) /\ due \in [Events -> Nat \cup {-1}]
  BY DEF SchedInv, ListsOnce, EventsTyped
<1>2. /\ queue' \in Seq(Events) /\ Range(queue') = Range(queue) \cup {e}
      /\ Numbers(qid', queue')
      /\ due' = [due EXCEPT ![e] = NextTime(kind'[e], now)]
  BY <1>1, EnqueueHas
<1>3. NextTime(kind'[e], now) \in Nat
  <2>1. kind'[e] \in Kinds
    OBVIOUS
  <2> QED  BY <2>1, NextTimeIs
<1>4. /\ due' \in [Events -> Nat \cup {-1}] /\ due'[e] \in Nat
      /\ \A x \in Events : x # e => due'[x] = due[x]
  BY <1>1, <1>2, <1>3
<1> QED  BY <1>2, <1>4

LEMMA DequeueKeeps ==
    ASSUME SchedInv, NEW e \in Events, qid[e] > 0, Dequeue(qid[e])
    PROVE  /\ e \in Range(queue)
           /\ queue' \in Seq(Events) /\ Range(queue') = Range(queue) \ {e}
           /\ Numbers(qid', queue') /\ due' = due
PROOF
<1>1. queue \in Seq(Events) /\ Numbers(qid, queue)
  BY DEF SchedInv, ListsOnce
<1>2. qid[e] \in 1 .. Len(queue) /\ queue[qid[e]] = e
  BY <1>1, NumberedOnce
<1>3. /\ queue' \in Seq(Events) /\ Range(queue') = Range(queue) \ {queue[qid[e]]}
      /\ Numbers(qid', queue') /\ due' = due /\ queue[qid[e]] \in Range(queue)
  BY <1>1, <1>2, DequeueHas
<1> QED  BY <1>2, <1>3

(* Each holder of events holds live ones. *)
LEMMA HeldLive ==
    ASSUME SchedInv
    PROVE  /\ Range(queue) \subseteq live /\ Range(readyPtr) \subseteq live
           /\ Range(threadEventPtr) \subseteq live /\ freeing \subseteq live
           /\ Busy \subseteq live /\ Own \subseteq live
           /\ \A t \in Threads : tev[t] # NoEvent => tev[t] \in live /\ tev[t] \in Busy
           /\ \A x \in live : x \in Events /\ due[x] \in Nat
PROOF
<1>1. Owned(Range(queue), Range(readyPtr), Range(threadEventPtr), Busy, Own, freeing, live, paused)
  BY DEF SchedInv, EachOwned
<1>2. /\ Range(queue) \subseteq live /\ Range(readyPtr) \subseteq live
      /\ Range(threadEventPtr) \subseteq live /\ freeing \subseteq live
      /\ Busy \subseteq live /\ Own \subseteq live
  BY <1>1 DEF Owned
<1>3. \A t \in Threads : tev[t] # NoEvent => tev[t] \in Busy
  BY DEF Busy
<1>4. \A x \in live : x \in Events /\ due[x] \in Nat
  BY DEF SchedInv, EventsTyped, Timed
<1> QED  BY <1>2, <1>3, <1>4

(* A client's call, and ThreadProcDone, let SchedThread start or wake it.  *)
LEMMA QueueAndWakeTells ==
    ASSUME SchedInv, ~shutdownPending, NEW e, QueueAndWake(e)
    PROVE  /\ onSched' \subseteq onSched
           /\ spc' = spc \/ (spc' = "start" /\ spc \notin {"collect", "join"} /\ sev = NoEvent)
PROOF
<1>1. CASE running
  BY <1>1 DEF QueueAndWake, SignalSched
<1>2. CASE ~running
  BY <1>2 DEF QueueAndWake, running, SchedInv, SchedAt
<1> QED  BY <1>1, <1>2

LEMMA StartKeeps ==
    ASSUME SchedInv, SchedAssumption, UNCHANGED <<lock, sev, shutdownPending>>,
           spc' = spc \/ (spc' = "start" /\ spc \notin {"collect", "join"} /\ sev = NoEvent)
    PROVE  SchedAt'
<1>1. CASE spc' = spc
  BY <1>1, SameSched
<1>2. CASE spc' = "start" /\ spc \notin {"collect", "join"} /\ sev = NoEvent
  BY <1>2, LockTells DEF SchedInv, SchedAt, SchedThread
<1> QED  BY <1>1, <1>2

-----------------------------------------------------------------------------
(* Clients.                                                                *)

LEMMA ScheduleKeeps ==
    ASSUME SchedInv, SchedAssumption, NEW e \in Events, NEW k \in Kinds, Schedule(e, k)
    PROVE  SchedInv'
PROOF
<1>1. /\ UNCHANGED <<clock, lock, freeing, threadVars, sev, snow, wakeAt, readyPtr,
                     shutdownPending, mpc>>
      /\ ~shutdownPending /\ LockFree /\ due[e] = -1
      /\ live' = live \cup {e} /\ hashed' = hashed \cup {e} /\ paused' = paused \ {e}
      /\ kind' = [kind EXCEPT ![e] = k]
      /\ Enqueue(e, clock) /\ QueueAndWake(e)
  BY DEF Schedule, QueueAndWake, Unused
<1> USE DEF threadVars
<1>2. e \notin live
  BY <1>1, HeldLive
<1>3. /\ onSched' \subseteq onSched
      /\ spc' = spc \/ (spc' = "start" /\ spc \notin {"collect", "join"} /\ sev = NoEvent)
  BY <1>1, QueueAndWakeTells
<1>4. kind' \in [Events -> Kinds]
  BY <1>1 DEF SchedInv, EventsTyped
<1>5. clock \in Nat /\ e \notin Range(queue)
  BY <1>2, HeldLive DEF SchedInv, TimesTyped
<1>6. /\ queue' \in Seq(Events) /\ Range(queue') = Range(queue) \cup {e}
      /\ Numbers(qid', queue')
      /\ due' \in [Events -> Nat \cup {-1}] /\ due'[e] \in Nat
      /\ \A x \in Events : x # e => due'[x] = due[x]
  BY <1>1, <1>4, <1>5, EnqueueKeeps
<1>7. TimesTyped' /\ EventsTyped' /\ ThreadsTyped'
  <2>1. TimesTyped'
    BY <1>1 DEF SchedInv, TimesTyped
  <2>2. EventsTyped'
    BY <1>1, <1>4, <1>6 DEF SchedInv, EventsTyped
  <2>3. ThreadsTyped'
    BY <1>1, <1>3 DEF SchedInv, ThreadsTyped, SchedThread
  <2> QED  BY <2>1, <2>2, <2>3
<1>8. EachOwned'
  <2> DEFINE Q == Range(queue)
             R == Range(readyPtr)
             H == Range(threadEventPtr)
  <2>1. Owned(Q, R, H, Busy, Own, freeing, live, paused)
    BY DEF SchedInv, EachOwned
  <2> HIDE DEF Q, R, H
  <2>2. Owned(Q \cup {e}, R, H, Busy, Own, freeing, live \cup {e}, paused \ {e})
    BY <1>2, <2>1 DEF Owned
  <2> QED  BY <1>1, <1>6, <2>2 DEF EachOwned, Busy, Own, Q, R, H
<1>9. ListsOnce' /\ Numbers(qid, queue)'
  BY <1>1, <1>6 DEF SchedInv, ListsOnce
<1>10. IdsFind'
  <2>1. \A t \in Threads : tpc[t] = "free" => tev[t] # e
    BY <1>2, HeldLive DEF SchedInv, ThreadsAt
  <2>2. e \notin freeing
    BY <1>2, HeldLive
  <2> QED  BY <1>1, <2>1, <2>2 DEF SchedInv, IdsFind
<1>11. Timed'
  BY <1>1, <1>6, HeldLive DEF Timed
<1>12. SchedAt'
  BY <1>1, <1>3, StartKeeps
<1>13. ThreadsAt' /\ IdleCounted'
  BY <1>1, SameThreads
<1> QED  BY <1>7, <1>8, <1>9, <1>10, <1>11, <1>12, <1>13 DEF SchedInv
LEMMA CancelKeeps ==
    ASSUME SchedInv, SchedAssumption, NEW e \in Events, Cancel(e)
    PROVE  SchedInv'
PROOF
<1>1. /\ UNCHANGED <<clock, lock, kind, live, paused, threadVars, schedVars, onSched,
                     shutdownPending, mpc>>
      /\ ~shutdownPending /\ e \in hashed /\ hashed' = hashed \ {e}
  BY DEF Cancel
<1> USE DEF threadVars, schedVars
<1>2. \/ qid[e] > 0 /\ Dequeue(qid[e]) /\ freeing' = freeing \cup {e}
      \/ UNCHANGED <<queue, qid, due, freeing>>
  BY DEF Cancel, queueVars
<1>3. SchedAt'
  BY <1>1, SameSched
<1>4. ThreadsAt' /\ IdleCounted'
  BY <1>1, SameThreads
<1>5. TimesTyped' /\ ThreadsTyped'
  BY <1>1 DEF SchedInv, TimesTyped, ThreadsTyped, SchedThread
<1>6. CASE UNCHANGED <<queue, qid, due, freeing>>
  <2>1. EventsTyped'
    BY <1>1, <1>6 DEF SchedInv, EventsTyped
  <2>2. EachOwned' /\ ListsOnce' /\ Numbers(qid, queue)' /\ Timed'
    BY <1>1, <1>6, SamePlaces
  <2>3. IdsFind'
    BY <1>1, <1>6 DEF SchedInv, IdsFind
  <2> QED  BY <1>3, <1>4, <1>5, <2>1, <2>2, <2>3 DEF SchedInv
<1>7. CASE qid[e] > 0 /\ Dequeue(qid[e]) /\ freeing' = freeing \cup {e}
  <2>1. /\ e \in Range(queue)
        /\ queue' \in Seq(Events) /\ Range(queue') = Range(queue) \ {e}
        /\ Numbers(qid', queue') /\ due' = due
    BY <1>7, DequeueKeeps
  <2>2. EventsTyped'
    BY <1>1, <1>7, <2>1 DEF SchedInv, EventsTyped
  <2>3. EachOwned'
    <3> DEFINE Q == Range(queue)
               R == Range(readyPtr)
               H == Range(threadEventPtr)
    <3>1. Owned(Q, R, H, Busy, Own, freeing, live, paused)
      BY DEF SchedInv, EachOwned
    <3>2. e \in Q
      BY <2>1
    <3> HIDE DEF Q, R, H
    <3>3. Owned(Q \ {e}, R, H, Busy, Own, freeing \cup {e}, live, paused)
      BY <3>1, <3>2 DEF Owned
    <3> QED  BY <1>1, <1>7, <2>1, <3>3 DEF EachOwned, Busy, Own, Q, R, H
  <2>4. ListsOnce' /\ Numbers(qid, queue)'
    BY <1>1, <2>1 DEF SchedInv, ListsOnce
  <2>5. IdsFind'
    BY <1>1, <1>7 DEF SchedInv, IdsFind
  <2>6. Timed'
    BY <1>1, <2>1 DEF SchedInv, Timed
  <2> QED  BY <1>3, <1>4, <1>5, <2>2, <2>3, <2>4, <2>5, <2>6 DEF SchedInv
<1> QED  BY <1>2, <1>6, <1>7

LEMMA FreeCancelledKeeps ==
    ASSUME SchedInv, SchedAssumption, NEW e \in Events, FreeCancelled(e)
    PROVE  SchedInv'
PROOF
<1>1. /\ UNCHANGED <<clock, lock, kind, hashed, paused, queueVars, threadVars, schedVars,
                     onSched, shutdownPending, mpc>>
      /\ e \in freeing /\ freeing' = freeing \ {e} /\ live' = live \ {e}
  BY DEF FreeCancelled, Free
<1> USE DEF queueVars, threadVars, schedVars
<1>2. SchedAt'
  BY <1>1, SameSched
<1>3. ThreadsAt' /\ IdleCounted'
  BY <1>1, SameThreads
<1>4. TimesTyped' /\ EventsTyped' /\ ThreadsTyped'
  BY <1>1 DEF SchedInv, TimesTyped, EventsTyped, ThreadsTyped, SchedThread
<1>5. EachOwned'
  <2> DEFINE Q == Range(queue)
             R == Range(readyPtr)
             H == Range(threadEventPtr)
  <2>1. Owned(Q, R, H, Busy, Own, freeing, live, paused)
    BY DEF SchedInv, EachOwned
  <2> HIDE DEF Q, R, H
  <2>2. Owned(Q, R, H, Busy, Own, freeing \ {e}, live \ {e}, paused)
    BY <1>1, <2>1 DEF Owned
  <2> QED  BY <1>1, <2>2 DEF EachOwned, Busy, Own, Q, R, H
<1>6. ListsOnce' /\ Numbers(qid, queue)' /\ Timed'
  BY <1>1 DEF SchedInv, ListsOnce, Numbers, Timed
<1>7. IdsFind'
  BY <1>1 DEF SchedInv, IdsFind
<1> QED  BY <1>2, <1>3, <1>4, <1>5, <1>6, <1>7 DEF SchedInv

LEMMA PauseKeeps ==
    ASSUME SchedInv, SchedAssumption, NEW e \in Events, Pause(e)
    PROVE  SchedInv'
PROOF
<1>1. /\ UNCHANGED <<clock, lock, kind, live, hashed, freeing, threadVars, schedVars,
                     onSched, shutdownPending, mpc>>
      /\ ~shutdownPending /\ e \in hashed /\ paused' = paused \cup {e}
  BY DEF Pause
<1> USE DEF threadVars, schedVars
<1>2. \/ qid[e] > 0 /\ Dequeue(qid[e])
      \/ UNCHANGED <<queue, qid, due>>
  BY DEF Pause, queueVars
<1>3. SchedAt'
  BY <1>1, SameSched
<1>4. ThreadsAt' /\ IdleCounted'
  BY <1>1, SameThreads
<1>5. TimesTyped' /\ ThreadsTyped'
  BY <1>1 DEF SchedInv, TimesTyped, ThreadsTyped, SchedThread
<1>6. IdsFind'
  BY <1>1, SameIds
<1> DEFINE Q == Range(queue)
           R == Range(readyPtr)
           H == Range(threadEventPtr)
<1>7. Owned(Q, R, H, Busy, Own, freeing, live, paused)
  BY DEF SchedInv, EachOwned
<1>8. CASE UNCHANGED <<queue, qid, due>>
  <2>1. EventsTyped'
    BY <1>1, <1>8 DEF SchedInv, EventsTyped
  <2>2. EachOwned'
    <3> HIDE DEF Q, R, H
    <3>1. Owned(Q, R, H, Busy, Own, freeing, live, paused \cup {e})
      BY <1>7 DEF Owned
    <3> QED  BY <1>1, <1>8, <3>1 DEF EachOwned, Busy, Own, Q, R, H
  <2>3. ListsOnce' /\ Numbers(qid, queue)' /\ Timed'
    BY <1>1, <1>8 DEF SchedInv, ListsOnce, Numbers, Timed
  <2> QED  BY <1>3, <1>4, <1>5, <1>6, <2>1, <2>2, <2>3 DEF SchedInv
<1>9. CASE qid[e] > 0 /\ Dequeue(qid[e])
  <2>1. /\ e \in Range(queue)
        /\ queue' \in Seq(Events) /\ Range(queue') = Range(queue) \ {e}
        /\ Numbers(qid', queue') /\ due' = due
    BY <1>9, DequeueKeeps
  <2>2. EventsTyped'
    BY <1>1, <2>1 DEF SchedInv, EventsTyped
  <2>3. EachOwned'
    <3>1. e \in Q
      BY <2>1
    <3> HIDE DEF Q, R, H
    <3>2. Owned(Q \ {e}, R, H, Busy, Own, freeing, live, paused \cup {e})
      BY <1>7, <3>1 DEF Owned
    <3> QED  BY <1>1, <2>1, <3>2 DEF EachOwned, Busy, Own, Q, R, H
  <2>4. ListsOnce' /\ Numbers(qid, queue)' /\ Timed'
    BY <1>1, <2>1 DEF SchedInv, ListsOnce, Timed
  <2> QED  BY <1>3, <1>4, <1>5, <1>6, <2>2, <2>3, <2>4 DEF SchedInv
<1> QED  BY <1>2, <1>8, <1>9

LEMMA ResumeKeeps ==
    ASSUME SchedInv, SchedAssumption, "resumeUnderway" \notin Ops, NEW e \in Events, Resume(e)
    PROVE  SchedInv'
PROOF
<1>1. /\ UNCHANGED <<clock, lock, kind, live, hashed, freeing, threadVars, sev, snow, wakeAt,
                     readyPtr, shutdownPending, mpc>>
      /\ ~shutdownPending /\ e \in hashed /\ ~(Holders(e) > 0) /\ paused' = paused \ {e}
      /\ Enqueue(e, clock) /\ QueueAndWake(e)
  BY DEF Resume, QueueAndWake
<1> USE DEF threadVars
<1> DEFINE Q == Range(queue)
           R == Range(readyPtr)
           H == Range(threadEventPtr)
<1>2. e \notin Q \cup R \cup H \cup Busy \cup Own \cup freeing
  <2>1. Holders(e) \in Nat
    BY OwnedMeans
  <2>2. Holders(e) = 0
    BY <1>1, <2>1
  <2> QED  BY <2>2, OwnedMeans
<1>3. e \in live
  BY <1>1 DEF SchedInv, IdsFind
<1>4. /\ onSched' \subseteq onSched
      /\ spc' = spc \/ (spc' = "start" /\ spc \notin {"collect", "join"} /\ sev = NoEvent)
  BY <1>1, QueueAndWakeTells
<1>5. /\ queue' \in Seq(Events) /\ Range(queue') = Range(queue) \cup {e}
      /\ Numbers(qid', queue')
      /\ due' \in [Events -> Nat \cup {-1}] /\ due'[e] \in Nat
      /\ \A x \in Events : x # e => due'[x] = due[x]
  <2>1. kind' \in [Events -> Kinds] /\ clock \in Nat /\ e \notin Range(queue)
    BY <1>1, <1>2 DEF SchedInv, EventsTyped, TimesTyped
  <2> QED  BY <1>1, <2>1, EnqueueKeeps
<1>6. TimesTyped' /\ EventsTyped' /\ ThreadsTyped'
  <2>1. TimesTyped'
    BY <1>1 DEF SchedInv, TimesTyped
  <2>2. EventsTyped'
    BY <1>1, <1>5 DEF SchedInv, EventsTyped
  <2>3. ThreadsTyped'
    BY <1>1, <1>4 DEF SchedInv, ThreadsTyped, SchedThread
  <2> QED  BY <2>1, <2>2, <2>3
<1>7. EachOwned'
  <2>1. Owned(Q, R, H, Busy, Own, freeing, live, paused)
    BY DEF SchedInv, EachOwned
  <2> HIDE DEF Q, R, H
  <2>2. Owned(Q \cup {e}, R, H, Busy, Own, freeing, live, paused \ {e})
    BY <1>2, <1>3, <2>1 DEF Owned
  <2> QED  BY <1>1, <1>5, <2>2 DEF EachOwned, Busy, Own, Q, R, H
<1>8. ListsOnce' /\ Numbers(qid, queue)'
  BY <1>1, <1>5 DEF SchedInv, ListsOnce
<1>9. IdsFind'
  BY <1>1, SameIds
<1>10. Timed'
  BY <1>1, <1>5, HeldLive DEF Timed
<1>11. SchedAt'
  BY <1>1, <1>4, StartKeeps
<1>12. ThreadsAt' /\ IdleCounted'
  BY <1>1, SameThreads
<1> QED  BY <1>6, <1>7, <1>8, <1>9, <1>10, <1>11, <1>12 DEF SchedInv
-----------------------------------------------------------------------------
(* SchedThread.                                                            *)

LEMMA CollectKeeps ==
    ASSUME SchedInv, SchedAssumption, Collect
    PROVE  SchedInv'
PROOF
<1> DEFINE e == queue[1]
           Q == Range(queue)
           R == Range(readyPtr)
           H == Range(threadEventPtr)
<1>1. /\ UNCHANGED <<clock, lock, kind, live, paused, freeing, nThreads, nIdleThreads,
                     onEvent, tpc, tev, spc, sev, snow, wakeAt, onSched, shutdownPending, mpc>>
      /\ queue # <<>> /\ Dequeue(1) /\ hashed' \subseteq hashed
      /\ \/ threadEventPtr' = <<e>> \o threadEventPtr /\ readyPtr' = readyPtr
         \/ readyPtr' = <<e>> \o readyPtr /\ threadEventPtr' = threadEventPtr
  BY DEF Collect, FirstDue
<1>2. /\ e \in Q /\ e \in Events
      /\ queue' \in Seq(Events) /\ Range(queue') = Q \ {e}
      /\ Numbers(qid', queue') /\ due' = due
  <2>1. queue \in Seq(Events) /\ Numbers(qid, queue)
    BY DEF SchedInv, ListsOnce
  <2>2. 1 \in 1 .. Len(queue)
    BY <1>1, <2>1
  <2>3. queue[1] \in Events
    BY <2>1, <2>2
  <2>4. /\ queue' \in Seq(Events) /\ Range(queue') = Range(queue) \ {queue[1]}
        /\ Numbers(qid', queue') /\ due' = due /\ queue[1] \in Range(queue)
    BY <1>1, <2>1, <2>2, DequeueHas
  <2> QED  BY <2>3, <2>4
<1>3. TimesTyped' /\ EventsTyped' /\ ThreadsTyped'
  <2>1. TimesTyped'
    BY <1>1 DEF SchedInv, TimesTyped
  <2>2. EventsTyped'
    BY <1>1, <1>2 DEF SchedInv, EventsTyped
  <2>3. ThreadsTyped'
    BY <1>1 DEF SchedInv, ThreadsTyped, SchedThread
  <2> QED  BY <2>1, <2>2, <2>3
<1>4. Owned(Q, R, H, Busy, Own, freeing, live, paused)
  BY DEF SchedInv, EachOwned
<1>5. EachOwned' /\ ListsOnce'
  <2>1. <<e>> \in Seq(Events) /\ Range(<<e>>) = {e} /\ IsInjective(<<e>>)
    BY <1>2 DEF Range, IsInjective
  <2>2. /\ readyPtr \in Seq(Events) /\ IsInjective(readyPtr)
        /\ threadEventPtr \in Seq(Events) /\ IsInjective(threadEventPtr)
    BY DEF SchedInv, ListsOnce
  <2>3. e \notin R /\ e \notin H
    BY <1>2, <1>4 DEF Owned
  <2> HIDE DEF e
  <2>4. CASE threadEventPtr' = <<e>> \o threadEventPtr /\ readyPtr' = readyPtr
    <3>1. /\ <<e>> \o threadEventPtr \in Seq(Events) /\ Len(<<e>> \o threadEventPtr) = Len(threadEventPtr) + 1
          /\ Range(<<e>> \o threadEventPtr) = {e} \cup Range(threadEventPtr)
          /\ IsInjective(<<e>> \o threadEventPtr)
      BY <1>2, <2>2, <2>3, PushedHas
    <3>2. threadEventPtr' \in Seq(Events) /\ IsInjective(threadEventPtr')
      BY <2>1, <2>2, <2>3, <2>4, <3>1
    <3>3. Range(threadEventPtr') = H \cup {e}
      BY <2>1, <2>4, <3>1
    <3> HIDE DEF Q, R, H
    <3>4. Owned(Q \ {e}, R, H \cup {e}, Busy, Own, freeing, live, paused)
      BY <1>2, <1>4 DEF Owned
    <3>5. EachOwned'
      BY <1>1, <1>2, <2>4, <3>3, <3>4 DEF EachOwned, Busy, Own, Q, R, H
    <3> QED  BY <1>2, <2>2, <2>4, <3>2, <3>5 DEF ListsOnce
  <2>5. CASE readyPtr' = <<e>> \o readyPtr /\ threadEventPtr' = threadEventPtr
    <3>1. /\ <<e>> \o readyPtr \in Seq(Events) /\ Len(<<e>> \o readyPtr) = Len(readyPtr) + 1
          /\ Range(<<e>> \o readyPtr) = {e} \cup Range(readyPtr)
          /\ IsInjective(<<e>> \o readyPtr)
      BY <1>2, <2>2, <2>3, PushedHas
    <3>2. readyPtr' \in Seq(Events) /\ IsInjective(readyPtr')
      BY <2>1, <2>2, <2>3, <2>5, <3>1
    <3>3. Range(readyPtr') = R \cup {e}
      BY <2>1, <2>5, <3>1
    <3> HIDE DEF Q, R, H
    <3>4. Owned(Q \ {e}, R \cup {e}, H, Busy, Own, freeing, live, paused)
      BY <1>2, <1>4 DEF Owned
    <3>5. EachOwned'
      BY <1>1, <1>2, <2>5, <3>3, <3>4 DEF EachOwned, Busy, Own, Q, R, H
    <3> QED  BY <1>2, <2>2, <2>5, <3>2, <3>5 DEF ListsOnce
  <2> QED  BY <1>1, <2>4, <2>5 DEF e
<1>6. IdsFind'
  BY <1>1 DEF SchedInv, IdsFind
<1>7. Timed'
  BY <1>1, <1>2 DEF SchedInv, Timed
<1>8. SchedAt'
  BY <1>1, SameSched
<1>9. ThreadsAt' /\ IdleCounted'
  BY <1>1, SameThreads
<1> QED  BY <1>2, <1>3, <1>5, <1>6, <1>7, <1>8, <1>9 DEF SchedInv

(* What the end of a pass does to SchedThread and its list.                *)
LEMMA NextReadyHas ==
    ASSUME SchedInv, SchedAssumption, UNCHANGED <<clock, shutdownPending>>,
           queue' # <<>> => due'[queue'[1]] \in Nat, NextReady
    PROVE  /\ TimesTyped' /\ SchedAt'
           /\ lock' \in {None, SchedThread} /\ spc' \in {"proc", "wait", "join"}
           /\ sev' \in Events \cup {NoEvent}
           /\ readyPtr' \in Seq(Events) /\ IsInjective(readyPtr')
           /\ Own' \subseteq Range(readyPtr) /\ Range(readyPtr') = Range(readyPtr) \ Own'
PROOF
<1>1. readyPtr \in Seq(Events) /\ IsInjective(readyPtr)
  BY DEF SchedInv, ListsOnce
<1>2. /\ NoEvent \notin Events /\ None # SchedThread /\ MaxClock \in Nat /\ shutdownPending \in BOOLEAN
      /\ clock \in 0 .. MaxClock /\ snow \in 0 .. MaxClock /\ wakeAt \in 0 .. MaxClock + 1
  BY LockTells DEF SchedAssumption, SchedInv, TimesTyped, ThreadsTyped
<1>3. CASE /\ readyPtr /= <<>>
           /\ sev' = Head(readyPtr) /\ readyPtr' = Tail(readyPtr)
           /\ spc' = "proc" /\ lock' = None
           /\ UNCHANGED <<wakeAt, snow>>
  <2>1. /\ Head(readyPtr) \in Range(readyPtr) /\ Head(readyPtr) \in Events
        /\ Tail(readyPtr) \in Seq(Events) /\ IsInjective(Tail(readyPtr))
        /\ Range(Tail(readyPtr)) = Range(readyPtr) \ {Head(readyPtr)}
    BY <1>1, <1>3, HeadTailHas
  <2>2. sev' \in Events /\ Own' = {Head(readyPtr)}
    BY <1>2, <1>3, <2>1 DEF Own
  <2>3. TimesTyped'
    BY <1>2, <1>3 DEF TimesTyped
  <2>4. SchedAt'
    BY <1>2, <1>3, <2>2 DEF SchedAt, SchedThread
  <2> QED  BY <1>3, <2>1, <2>2, <2>3, <2>4
<1>4. CASE /\ readyPtr = <<>>
           /\ queue' /= <<>> /\ shutdownPending
           /\ LoopTop
           /\ sev' = NoEvent
           /\ UNCHANGED <<readyPtr, wakeAt>>
  <2>1. lock' = SchedThread /\ spc' = "join" /\ snow' = clock
    BY <1>4 DEF LoopTop
  <2>2. Own' = {}
    BY <1>4 DEF Own
  <2>3. TimesTyped'
    BY <1>2, <1>4, <2>1 DEF TimesTyped
  <2>4. SchedAt'
    BY <1>2, <1>4, <2>1 DEF SchedAt, SchedThread
  <2> QED  BY <1>1, <1>4, <2>1, <2>2, <2>3, <2>4
<1>5. CASE /\ readyPtr = <<>>
           /\ queue' = <<>> \/ ~shutdownPending
           /\ spc' = "wait" /\ lock' = None /\ sev' = NoEvent
           /\ wakeAt' = IF queue' = <<>> \/ due'[queue'[1]] > MaxClock
                            THEN Never ELSE due'[queue'[1]]
           /\ UNCHANGED <<readyPtr, snow>>
  <2>1. Own' = {}
    BY <1>5 DEF Own
  <2>2. wakeAt' \in 0 .. MaxClock + 1
    <3>1. CASE queue' = <<>>
      BY <1>2, <1>5, <3>1 DEF Never
    <3>2. CASE queue' # <<>>
      BY <1>2, <1>5, <3>2 DEF Never
    <3> QED  BY <3>1, <3>2
  <2>3. TimesTyped'
    BY <1>2, <1>5, <2>2 DEF TimesTyped
  <2>4. SchedAt'
    BY <1>2, <1>5 DEF SchedAt, SchedThread
  <2> QED  BY <1>1, <1>5, <2>1, <2>3, <2>4
<1> QED  BY <1>3, <1>4, <1>5 DEF NextReady

LEMMA SchedProcDoneKeeps ==
    ASSUME SchedInv, SchedAssumption, SchedProcDone
    PROVE  SchedInv'
PROOF
<1>1. /\ UNCHANGED <<clock, lock, kind, hashed, paused, freeing, queueVars, threadVars,
                     wakeAt, readyPtr, onSched, shutdownPending, mpc>>
      /\ spc = "proc" /\ spc' = "relock" /\ snow' = clock
      /\ \/ UNCHANGED <<live, sev>>
         \/ sev \notin hashed /\ live' = live \ {sev} /\ sev' = NoEvent
  BY DEF SchedProcDone, Free
<1> USE DEF queueVars, threadVars
<1> DEFINE Q == Range(queue)
           R == Range(readyPtr)
           H == Range(threadEventPtr)
<1>2. sev \in Events /\ sev # NoEvent /\ Own = {sev}
  BY <1>1 DEF SchedInv, SchedAt, SchedAssumption, Own
<1>3. Owned(Q, R, H, Busy, Own, freeing, live, paused)
  BY DEF SchedInv, EachOwned
<1>4. TimesTyped' /\ EventsTyped' /\ ThreadsTyped'
  <2>1. TimesTyped'
    BY <1>1 DEF SchedInv, TimesTyped
  <2>2. EventsTyped'
    BY <1>1 DEF SchedInv, EventsTyped
  <2>3. ThreadsTyped'
    BY <1>1 DEF SchedInv, ThreadsTyped, SchedThread
  <2> QED  BY <2>1, <2>2, <2>3
<1>5. EachOwned' /\ IdsFind' /\ Timed'
  <2>1. CASE UNCHANGED <<live, sev>>
    BY <1>1, <2>1 DEF SchedInv, EachOwned, IdsFind, Timed, Busy, Own
  <2>2. CASE sev \notin hashed /\ live' = live \ {sev} /\ sev' = NoEvent
    <3>1. Own' = {}
      BY <2>2 DEF Own
    <3> HIDE DEF Q, R, H
    <3>2. Owned(Q, R, H, Busy, {}, freeing, live \ {sev}, paused)
      BY <1>2, <1>3 DEF Owned
    <3>3. EachOwned'
      BY <1>1, <2>2, <3>1, <3>2 DEF EachOwned, Busy, Q, R, H
    <3>4. IdsFind' /\ Timed'
      BY <1>1, <2>2 DEF SchedInv, IdsFind, Timed
    <3> QED  BY <3>3, <3>4
  <2> QED  BY <1>1, <2>1, <2>2
<1>6. ListsOnce' /\ Numbers(qid, queue)'
  BY <1>1 DEF SchedInv, ListsOnce, Numbers
<1>7. SchedAt'
  BY <1>1 DEF SchedInv, SchedAt, SchedThread
<1>8. ThreadsAt' /\ IdleCounted'
  BY <1>1, SameThreads
<1> QED  BY <1>4, <1>5, <1>6, <1>7, <1>8 DEF SchedInv

LEMMA SchedExitKeeps ==
    ASSUME SchedInv, SchedAssumption, SchedExit
    PROVE  SchedInv'
PROOF
<1>1. /\ UNCHANGED <<clock, lock, kind, live, paused, freeing, queueVars, threadVars, sev,
                     snow, wakeAt, readyPtr, shutdownPending, mpc>>
      /\ spc = "teardown" /\ spc' = "exited" /\ hashed' = {} /\ onSched' = {}
  BY DEF SchedExit
<1> USE DEF queueVars, threadVars
<1>2. TimesTyped' /\ EventsTyped' /\ ThreadsTyped'
  BY <1>1 DEF SchedInv, TimesTyped, EventsTyped, ThreadsTyped, SchedThread
<1>3. EachOwned' /\ ListsOnce' /\ Numbers(qid, queue)' /\ Timed'
  BY <1>1, SamePlaces
<1>4. IdsFind'
  BY <1>1 DEF IdsFind
<1>5. SchedAt'
  BY <1>1 DEF SchedInv, SchedAt, SchedThread
<1>6. ThreadsAt' /\ IdleCounted'
  BY <1>1, SameThreads
<1> QED  BY <1>2, <1>3, <1>4, <1>5, <1>6 DEF SchedInv
LEMMA SchedRequeueKeeps ==
    ASSUME SchedInv, SchedAssumption, SchedRequeue
    PROVE  SchedInv'
PROOF
<1> DEFINE Q == Range(queue)
           R == Range(readyPtr)
           H == Range(threadEventPtr)
<1>1. /\ UNCHANGED <<clock, kind, live, hashed, paused, freeing, threadVars, shutdownPending, mpc>>
      /\ spc = "relock" /\ NextReady /\ onSched' \subseteq onSched \cup {"sched"}
      /\ \/ (sev = NoEvent \/ sev \in paused) /\ UNCHANGED queueVars
         \/ sev # NoEvent /\ sev \notin paused /\ Enqueue(sev, snow)
  BY DEF SchedRequeue, JoinWaiters
<1> USE DEF threadVars, queueVars
<1>2. sev \in Events \cup {NoEvent} /\ snow \in Nat /\ kind' \in [Events -> Kinds]
  BY <1>1 DEF SchedInv, ThreadsTyped, TimesTyped, EventsTyped
<1>3. Owned(Q, R, H, Busy, Own, freeing, live, paused)
  BY DEF SchedInv, EachOwned
<1>4. /\ queue' \in Seq(Events) /\ Numbers(qid', queue')
      /\ due' \in [Events -> Nat \cup {-1}] /\ \A x \in live : due'[x] \in Nat
      /\ Range(queue') \subseteq live
      /\ Owned(Range(queue'), R, H, Busy, {}, freeing, live, paused)
  <2>1. CASE (sev = NoEvent \/ sev \in paused) /\ UNCHANGED queueVars
    <3>1. queue' = queue /\ qid' = qid /\ due' = due
      BY <2>1
    <3>2. Own = {} \/ (Own = {sev} /\ sev \in paused)
      BY <2>1 DEF Own
    <3>3. /\ queue \in Seq(Events) /\ Numbers(qid, queue)
          /\ due \in [Events -> Nat \cup {-1}] /\ \A x \in live : due[x] \in Nat
      BY DEF SchedInv, ListsOnce, EventsTyped, Timed
    <3>4. Q \subseteq live
      BY HeldLive
    <3>5. Owned(Q, R, H, Busy, {}, freeing, live, paused)
      <4> HIDE DEF Q, R, H
      <4> QED  BY <1>3, <3>2 DEF Owned
    <3> QED  BY <3>1, <3>3, <3>4, <3>5
  <2>2. CASE sev # NoEvent /\ sev \notin paused /\ Enqueue(sev, snow)
    <3>1. sev \in Events /\ Own = {sev}
      BY <1>2, <2>2 DEF Own
    <3>2. sev \notin Range(queue) /\ sev \in live
      BY <1>3, <3>1 DEF Owned
    <3>3. /\ queue' \in Seq(Events) /\ Range(queue') = Range(queue) \cup {sev}
          /\ Numbers(qid', queue')
          /\ due' \in [Events -> Nat \cup {-1}] /\ due'[sev] \in Nat
          /\ \A x \in Events : x # sev => due'[x] = due[x]
      BY <1>2, <2>2, <3>1, <3>2, EnqueueKeeps
    <3>4. \A x \in live : due'[x] \in Nat
      BY <3>3, HeldLive
    <3>5. Range(queue') \subseteq live
      BY <3>2, <3>3, HeldLive
    <3>6. Owned(Q \cup {sev}, R, H, Busy, {}, freeing, live, paused)
      <4> HIDE DEF Q, R, H
      <4> QED  BY <1>3, <3>1 DEF Owned
    <3> QED  BY <3>3, <3>4, <3>5, <3>6
  <2> QED  BY <1>1, <2>1, <2>2
<1>5. /\ TimesTyped' /\ SchedAt'
      /\ lock' \in {None, SchedThread} /\ spc' \in {"proc", "wait", "join"}
      /\ sev' \in Events \cup {NoEvent}
      /\ readyPtr' \in Seq(Events) /\ IsInjective(readyPtr')
      /\ Own' \subseteq Range(readyPtr) /\ Range(readyPtr') = Range(readyPtr) \ Own'
  <2>1. queue' # <<>> => due'[queue'[1]] \in Nat
    <3>1. ASSUME queue' # <<>> PROVE queue'[1] \in Range(queue')
      BY <1>4, <3>1 DEF Range
    <3> QED  BY <1>4, <3>1
  <2> QED  BY <1>1, <2>1, NextReadyHas
<1>6. EventsTyped' /\ ThreadsTyped'
  <2>1. EventsTyped'
    BY <1>1, <1>2, <1>4 DEF SchedInv, EventsTyped
  <2>2. ThreadsTyped'
    BY <1>1, <1>5 DEF SchedInv, ThreadsTyped, SchedThread
  <2> QED  BY <2>1, <2>2
<1>7. EachOwned'
  <2> DEFINE Q2 == Range(queue')
             O2 == Own'
  <2> HIDE DEF Q2, Q, R, H, O2
  <2>1. O2 \subseteq R
    BY <1>5 DEF O2, R
  <2>2. Owned(Q2, R, H, Busy, {}, freeing, live, paused)
    BY <1>4 DEF Q2
  <2>3. Owned(Q2, R \ O2, H, Busy, O2, freeing, live, paused)
    BY <2>1, <2>2 DEF Owned
  <2> QED  BY <1>1, <1>5, <2>3 DEF EachOwned, Busy, Q2, R, H, O2
<1>8. ListsOnce' /\ Numbers(qid, queue)'
  BY <1>1, <1>4, <1>5 DEF SchedInv, ListsOnce
<1>9. IdsFind'
  BY <1>1, SameIds
<1>10. Timed'
  BY <1>1, <1>4 DEF Timed
<1>11. ThreadsAt' /\ IdleCounted'
  BY <1>1, SameThreads
<1> QED  BY <1>5, <1>6, <1>7, <1>8, <1>9, <1>10, <1>11 DEF SchedInv

LEMMA FreeQueuedKeeps ==
    ASSUME SchedInv, SchedAssumption, FreeQueued
    PROVE  SchedInv'
PROOF
<1> DEFINE n == Len(queue)
           e == queue[n]
           Q == Range(queue)
           R == Range(readyPtr)
           H == Range(threadEventPtr)
<1>1. /\ UNCHANGED <<clock, lock, kind, hashed, paused, freeing, due, threadVars, schedVars,
                     onSched, shutdownPending, mpc>>
      /\ spc = "teardown" /\ queue # <<>> /\ live' = live \ {e}
      /\ queue' = SubSeq(queue, 1, n - 1) /\ qid' = [qid EXCEPT ![e] = 0]
  BY DEF FreeQueued, Free
<1> USE DEF threadVars, schedVars
<1>2. queue \in Seq(Events) /\ Numbers(qid, queue)
  BY DEF SchedInv, ListsOnce
<1>3. /\ n \in Nat /\ n \in 1 .. n /\ queue[n] \in Events /\ DOMAIN queue = 1 .. n
      /\ \A i \in 1 .. n : i \in 1 .. n - 1 \/ i = n
      /\ \A i \in 1 .. n - 1 : i \in 1 .. n /\ i # n
  BY <1>1, <1>2
<1>4. /\ queue' \in Seq(Events) /\ Len(queue') = n - 1
      /\ \A i \in 1 .. n - 1 : queue'[i] = queue[i]
  <2>1. n \in Nat /\ n - 1 \in Nat
    BY <1>1, <1>2
  <2>2. queue' = SubSeq(queue, 1, n - 1)
    BY <1>1
  <2>3. SubSeq(queue, 1, n - 1) \in Seq(Events) /\ Len(SubSeq(queue, 1, n - 1)) = n - 1
    <3>1. n - 1 \in 0 .. n
      BY <2>1
    <3>2. n - 1 \in 0 .. Len(queue)
      BY <3>1
    <3> HIDE DEF n
    <3>3. SubSeq(queue, 1, n - 1) \in Seq(Events)
      BY <1>2, <3>2, CutHas
    <3>4. Len(SubSeq(queue, 1, n - 1)) = n - 1
      BY <1>2, <3>2, CutHas
    <3> QED  BY <3>3, <3>4
  <2>4. \A i \in 1 .. n - 1 : SubSeq(queue, 1, n - 1)[i] = queue[i]
    BY <1>2, <2>1
  <2> QED  BY <2>2, <2>3, <2>4
<1>5. IsInjective(queue)
  BY <1>2, NumberedOnce
<1>6. DOMAIN queue' = 1 .. n - 1
  BY <1>4
<1> HIDE DEF n
<1>7. Range(queue') = Q \ {e} /\ e \in Q
  <2>1. \A i \in 1 .. n - 1 : queue[i] # queue[n]
    BY <1>3, <1>5 DEF IsInjective
  <2>2. Range(queue') = {queue[i] : i \in 1 .. n - 1} /\ Q = {queue[i] : i \in 1 .. n}
    BY <1>3, <1>4, <1>6 DEF Range
  <2> QED  BY <1>3, <2>1, <2>2
<1>8. Numbers(qid', queue')
  <2>1. \A i \in 1 .. n : qid[queue[i]] = i /\ queue[i] \in Events
    BY <1>2, <1>3 DEF Numbers
  <2>2. qid \in [Events -> Nat] /\ \A x \in Events \ Q : qid[x] = 0
    BY <1>2 DEF Numbers
  <2>3. qid' \in [Events -> Nat]
    BY <1>1, <2>2
  <2>4. \A i \in 1 .. Len(queue') : qid'[queue'[i]] = i
    <3>1. \A i \in 1 .. n - 1 : queue[i] # queue[n]
      BY <1>3, <1>5 DEF IsInjective
    <3> QED  BY <1>1, <1>3, <1>4, <2>1, <2>2, <3>1
  <2>5. \A x \in Events \ Range(queue') : qid'[x] = 0
    <3> HIDE DEF e, Q
    <3> QED  BY <1>1, <1>7, <2>2
  <2> QED  BY <2>3, <2>4, <2>5 DEF Numbers
<1>9. TimesTyped' /\ EventsTyped' /\ ThreadsTyped'
  <2>1. TimesTyped'
    BY <1>1 DEF SchedInv, TimesTyped
  <2>2. EventsTyped'
    BY <1>1 DEF SchedInv, EventsTyped
  <2>3. ThreadsTyped'
    BY <1>1 DEF SchedInv, ThreadsTyped, SchedThread
  <2> QED  BY <2>1, <2>2, <2>3
<1>10. EachOwned'
  <2>1. Owned(Q, R, H, Busy, Own, freeing, live, paused)
    BY DEF SchedInv, EachOwned
  <2> HIDE DEF Q, R, H, e
  <2>2. Owned(Q \ {e}, R, H, Busy, Own, freeing, live \ {e}, paused)
    BY <1>7, <2>1 DEF Owned
  <2> QED  BY <1>1, <1>7, <2>2 DEF EachOwned, Busy, Own, R, H
<1>11. ListsOnce'
  BY <1>1, <1>4 DEF SchedInv, ListsOnce
<1>12. IdsFind' /\ Timed'
  <2>1. shutdownPending
    BY <1>1 DEF SchedInv, SchedAt
  <2> QED  BY <1>1, <2>1 DEF SchedInv, IdsFind, Timed
<1>13. SchedAt'
  BY <1>1, SameSched
<1>14. ThreadsAt' /\ IdleCounted'
  BY <1>1, SameThreads
<1> QED  BY <1>8, <1>9, <1>10, <1>11, <1>12, <1>13, <1>14 DEF SchedInv
(* A count of the EventThreads.                                            *)
LEMMA CountBound ==
    ASSUME SchedAssumption, NEW f, NEW S
    PROVE  /\ IsFiniteSet(Threads) /\ Count(f, Threads, S) \in {0} \cup Threads
           /\ Count(f, Threads, S) = 0 => \A t \in Threads : f[t] \notin S
PROOF
<1>1. Cardinality(Events) \in Nat
  BY FS_CardinalityType DEF SchedAssumption
<1>2. IsFiniteSet(Threads) /\ Cardinality(Threads) = Cardinality(Events)
  BY <1>1, FS_Interval DEF Threads
<1>3. /\ Count(f, Threads, S) \in Nat
      /\ Cardinality({u \in Threads : f[u] \in S}) <= Cardinality(Threads)
      /\ Count(f, Threads, S) = 0 => \A t \in Threads : f[t] \notin S
  BY <1>2, CountType, FS_Subset
<1> QED  BY <1>1, <1>2, <1>3 DEF Count, Threads

(* When no EventThread is idle and an event waits for one, there is room   *)
(* for another: the others run different events, and this is one more.     *)
LEMMA RoomForThread ==
    ASSUME SchedInv, SchedAssumption, ~shutdownPending, threadEventPtr # <<>>, nIdleThreads = 0
    PROVE  /\ nThreads \in Nat /\ nThreads + 1 \in Threads /\ tpc[nThreads + 1] = "none"
PROOF
<1> DEFINE N == Cardinality(Events)
           x == Head(threadEventPtr)
           f == [t \in Threads |-> tev[t]]
<1>1. N \in Nat /\ IsFiniteSet(Events) /\ NoEvent \notin Events
  BY FS_CardinalityType DEF SchedAssumption
<1>2. IsFiniteSet(Threads) /\ Cardinality(Threads) = N
  BY <1>1, FS_Interval DEF Threads
<1>3. nThreads \in 0 .. N
  BY <1>1 DEF SchedInv, ThreadsTyped, Threads
<1>4. \A t \in Threads : tpc[t] \notin {"loop", "free", "exited"}
  <2>1. Count(tpc, Threads, {"loop", "free", "exited"}) = 0
          => \A u \in Threads : tpc[u] \notin {"loop", "free", "exited"}
    BY CountBound
  <2> QED  BY <2>1 DEF SchedInv, IdleCounted
<1>5. x \in Range(threadEventPtr) /\ x \in Events
  <2>1. threadEventPtr \in Seq(Events) /\ IsInjective(threadEventPtr)
    BY DEF SchedInv, ListsOnce
  <2> QED  BY <2>1, HeadTailHas
<1>6. x \notin Busy
  BY <1>5 DEF SchedInv, EachOwned, Owned
<1>7. nThreads # N
  <2>1. SUFFICES ASSUME nThreads = N PROVE FALSE
    OBVIOUS
  <2>2. \A t \in Threads : tpc[t] # "none"
    BY <1>1, <2>1 DEF SchedInv, ThreadsAt, Threads
  <2>3. \A t \in Threads : tpc[t] = "proc"
    BY <1>4, <2>2 DEF SchedInv, ThreadsTyped
  <2>4. \A t \in Threads : tev[t] # NoEvent
    BY <2>3 DEF SchedInv, ThreadsAt
  <2>5. \A t \in Threads : tev[t] \in Events
    BY <2>4 DEF SchedInv, ThreadsTyped
  <2>6. \A t, u \in Threads : tev[t] = tev[u] => t = u
    BY <2>4 DEF SchedInv, ThreadsAt
  <2>7. f \in Injection(Threads, Events)
    BY <2>5, <2>6 DEF Injection, IsInjective
  <2>8. f \in Surjection(Threads, Events)
    BY <1>1, <1>2, <2>7, FS_Injection
  <2>9. PICK t \in Threads : tev[t] = x
    BY <1>5, <2>8 DEF Surjection
  <2> QED  BY <1>1, <1>5, <1>6, <2>9 DEF Busy
<1>8. nThreads \in Nat /\ nThreads + 1 \in 1 .. N /\ ~(nThreads + 1 <= nThreads)
  BY <1>1, <1>3, <1>7
<1> QED  BY <1>8 DEF SchedInv, ThreadsAt, Threads

LEMMA DispatchKeeps ==
    ASSUME SchedInv, SchedAssumption, Dispatch
    PROVE  SchedInv'
PROOF
<1>1. /\ UNCHANGED <<clock, kind, live, hashed, paused, freeing, queue, qid, due, tev,
                     threadEventPtr, shutdownPending, mpc>>
      /\ spc = "collect" /\ NextReady /\ onSched' \subseteq onSched \cup {"sched"}
      /\ onEvent' \subseteq onEvent
      /\ \/ UNCHANGED <<nThreads, nIdleThreads, tpc>>
         \/ /\ threadEventPtr # <<>> /\ nIdleThreads = 0 /\ nThreads' = nThreads + 1
            /\ nIdleThreads' = 1 /\ tpc' = [tpc EXCEPT ![nThreads + 1] = "loop"]
  <2>1. UNCHANGED <<clock, eventVars, tev, threadEventPtr, shutdownPending, mpc, queueVars>>
    BY DEF Dispatch
  <2>2. spc = "collect" /\ NextReady /\ onSched' \subseteq onSched \cup {"sched"}
    BY DEF Dispatch, JoinWaiters
  <2>3. onEvent' \subseteq onEvent
    BY DEF Dispatch, SignalEvent
  <2>4. \/ UNCHANGED <<nThreads, nIdleThreads, tpc>>
        \/ /\ threadEventPtr # <<>> /\ nIdleThreads = 0 /\ nThreads' = nThreads + 1
           /\ nIdleThreads' = 1 /\ tpc' = [tpc EXCEPT ![nThreads + 1] = "loop"]
    BY DEF Dispatch
  <2> QED  BY <2>1, <2>2, <2>3, <2>4 DEF eventVars, queueVars
<1>2. ~shutdownPending /\ Own = {}
  BY <1>1 DEF SchedInv, SchedAt, Own
<1>3. queue \in Seq(Events) /\ Range(queue) \subseteq live /\ Timed
  BY HeldLive DEF SchedInv, ListsOnce
<1>4. /\ TimesTyped' /\ SchedAt'
      /\ lock' \in {None, SchedThread} /\ spc' \in {"proc", "wait", "join"}
      /\ sev' \in Events \cup {NoEvent}
      /\ readyPtr' \in Seq(Events) /\ IsInjective(readyPtr')
      /\ Own' \subseteq Range(readyPtr) /\ Range(readyPtr') = Range(readyPtr) \ Own'
  <2>1. queue' # <<>> => due'[queue'[1]] \in Nat
    <3>1. ASSUME queue # <<>> PROVE queue[1] \in Range(queue)
      BY <1>3, <3>1 DEF Range
    <3> QED  BY <1>1, <1>3, <3>1 DEF Timed
  <2> QED  BY <1>1, <2>1, NextReadyHas
<1>5. EventsTyped'
  BY <1>1 DEF SchedInv, EventsTyped
<1>6. ThreadsTyped' /\ ThreadsAt' /\ IdleCounted'
  <2>1. CASE UNCHANGED <<nThreads, nIdleThreads, tpc>>
    <3>1. ThreadsTyped'
      BY <1>1, <1>4, <2>1 DEF SchedInv, ThreadsTyped, SchedThread
    <3> QED  BY <1>1, <2>1, <3>1, SameThreads
  <2>2. CASE /\ threadEventPtr # <<>> /\ nIdleThreads = 0 /\ nThreads' = nThreads + 1
             /\ nIdleThreads' = 1 /\ tpc' = [tpc EXCEPT ![nThreads + 1] = "loop"]
    <3> DEFINE m == nThreads + 1
               C == {"loop", "free", "exited"}
    <3>1. nThreads \in Nat /\ m \in Threads /\ tpc[m] = "none"
      BY <1>2, <2>2, RoomForThread
    <3>2. tpc \in [Threads -> {"none", "loop", "proc", "free", "exited"}]
      BY DEF SchedInv, ThreadsTyped
    <3>3. tpc'[m] = "loop" /\ \A u \in Threads : u # m => tpc'[u] = tpc[u]
      BY <2>2, <3>1, <3>2
    <3>4. 1 \in Threads
      <4>1. Cardinality(Events) \in Nat
        BY FS_CardinalityType DEF SchedAssumption
      <4> QED  BY <3>1, <4>1 DEF Threads
    <3>5. ThreadsTyped'
      <4>1. nThreads' \in Threads /\ nIdleThreads' \in Threads
        BY <2>2, <3>1, <3>4
      <4>2. tpc' \in [Threads -> {"none", "loop", "proc", "free", "exited"}]
        BY <2>2, <3>1, <3>2
      <4>3. UNCHANGED <<tev, shutdownPending, mpc>>
        BY <1>1
      <4> QED  BY <1>1, <1>4, <4>1, <4>2, <4>3 DEF SchedInv, ThreadsTyped, SchedThread
    <3>6. IdleCounted'
      <4>1. Count(tpc', Threads, C) = Count(tpc, Threads, C) + Here("loop", C) - Here("none", C)
        <5> HIDE DEF m, C
        <5>1. IsFiniteSet(Threads)
          BY CountBound
        <5>2. tpc' = [tpc EXCEPT ![m] = "loop"]
          BY <2>2 DEF m
        <5>3. Shifted(Count(tpc', Threads, C), Count(tpc, Threads, C), tpc[m], "loop", C)
          BY <3>1, <3>2, <5>1, <5>2, CountPut
        <5> QED  BY <3>1, <5>3 DEF Shifted
      <4>2. Here("loop", C) = 1 /\ Here("none", C) = 0 /\ Count(tpc, Threads, C) = 0
        BY <2>2 DEF Here, SchedInv, IdleCounted
      <4> HIDE DEF m
      <4>3. Count(tpc', Threads, C) = 1
        BY <4>1, <4>2
      <4> QED  BY <2>2, <4>3 DEF IdleCounted, Threads
    <3>7. ThreadsAt'
      <4>1. tev[m] = NoEvent
        BY <3>1 DEF SchedInv, ThreadsAt
      <4>2. \A t \in Threads : tpc'[t] \in {"proc", "free"} <=> tev'[t] # NoEvent
        BY <1>1, <3>3, <4>1 DEF SchedInv, ThreadsAt
      <4>3. \A t, u \in Threads : tev'[t] = tev'[u] /\ tev'[t] # NoEvent => t = u
        BY <1>1 DEF SchedInv, ThreadsAt
      <4>4. \A t \in Threads : tpc'[t] # "none" <=> t <= nThreads'
        <5>1. \A t \in Threads : tpc[t] # "none" <=> t <= nThreads
          BY <1>2 DEF SchedInv, ThreadsAt
        <5>2. \A t \in Threads : t <= m <=> t <= nThreads \/ t = m
          BY <3>1 DEF Threads
        <5> QED  BY <2>2, <3>3, <5>1, <5>2
      <4>5. \A t \in Threads : tpc'[t] # "exited"
        BY <1>2, <3>3 DEF SchedInv, ThreadsAt
      <4> QED  BY <4>2, <4>3, <4>4, <4>5 DEF ThreadsAt, Threads
    <3> QED  BY <3>5, <3>6, <3>7
  <2> QED  BY <1>1, <2>1, <2>2
<1>7. EachOwned'
  <2> DEFINE Q == Range(queue)
             R == Range(readyPtr)
             H == Range(threadEventPtr)
             O2 == Own'
  <2>1. Owned(Q, R, H, Busy, Own, freeing, live, paused)
    BY DEF SchedInv, EachOwned
  <2>2. O2 \subseteq R
    BY <1>4
  <2> HIDE DEF Q, R, H, O2
  <2>3. Owned(Q, R \ O2, H, Busy, O2, freeing, live, paused)
    BY <1>2, <2>1, <2>2 DEF Owned
  <2> QED  BY <1>1, <1>4, <2>3 DEF EachOwned, Busy, Q, R, H, O2
<1>8. ListsOnce' /\ Numbers(qid, queue)'
  BY <1>1, <1>4 DEF SchedInv, ListsOnce, Numbers
<1>9. IdsFind'
  <2>1. \A t \in Threads : tpc'[t] = "free" => tpc[t] = "free"
    <3>1. CASE UNCHANGED <<nThreads, nIdleThreads, tpc>>
      BY <3>1
    <3>2. CASE tpc' = [tpc EXCEPT ![nThreads + 1] = "loop"]
      BY <3>2 DEF SchedInv, ThreadsTyped
    <3> QED  BY <1>1, <3>1, <3>2
  <2> QED  BY <1>1, <2>1 DEF SchedInv, IdsFind, Threads
<1>10. Timed'
  BY <1>1, <1>3 DEF Timed
<1> QED  BY <1>4, <1>5, <1>6, <1>7, <1>8, <1>9, <1>10 DEF SchedInv
-----------------------------------------------------------------------------
(* The EventThreads.                                                       *)

(* An EventThread takes an event, or is done with one.                     *)
LEMMA BusyHas ==
    ASSUME SchedInv, NEW t \in Threads
    PROVE  /\ \A x \in Events : tev[t] = NoEvent /\ tev' = [tev EXCEPT ![t] = x] /\ x # NoEvent
                => Busy' = Busy \cup {x}
           /\ tev[t] # NoEvent /\ tev' = [tev EXCEPT ![t] = NoEvent] => Busy' = Busy \ {tev[t]}
PROOF
<1>1. tev \in [Threads -> Events \cup {NoEvent}]
  BY DEF SchedInv, ThreadsTyped
<1>2. \A u, w \in Threads : tev[u] = tev[w] /\ tev[u] # NoEvent => u = w
  BY DEF SchedInv, ThreadsAt
<1>3. ASSUME NEW x \in Events, tev[t] = NoEvent, tev' = [tev EXCEPT ![t] = x], x # NoEvent
      PROVE  Busy' = Busy \cup {x}
  <2>1. tev'[t] = x /\ \A u \in Threads : u # t => tev'[u] = tev[u]
    BY <1>1, <1>3
  <2>2. \A u \in Threads : tev[u] # NoEvent => u # t
    BY <1>3
  <2> QED  BY <1>3, <2>1, <2>2 DEF Busy, Threads
<1>4. ASSUME tev[t] # NoEvent, tev' = [tev EXCEPT ![t] = NoEvent] PROVE Busy' = Busy \ {tev[t]}
  <2>1. tev'[t] = NoEvent /\ \A u \in Threads : u # t => tev'[u] = tev[u]
    BY <1>1, <1>4
  <2>2. \A u \in Threads : u # t => tev[u] # tev[t]
    BY <1>2, <1>4
  <2> QED  BY <2>1, <2>2 DEF Busy, Threads
<1> QED  BY <1>3, <1>4

(* The threads after one of them moves, with the event y.                  *)
LEMMA ThreadMoves ==
    ASSUME SchedInv, SchedAssumption, NEW t \in Threads, tpc[t] # "none",
           NEW s \in {"loop", "proc", "free", "exited"},
           NEW y \in Events \cup {NoEvent}, s \in {"proc", "free"} <=> y # NoEvent,
           y # NoEvent => \A u \in Threads : u # t => tev[u] # y,
           s = "exited" => shutdownPending,
           tpc' = [tpc EXCEPT ![t] = s], tev' = [tev EXCEPT ![t] = y],
           UNCHANGED <<nThreads, shutdownPending>>
    PROVE  /\ ThreadsAt'
           /\ Shifted(Count(tpc', Threads, {"loop", "free", "exited"}), nIdleThreads,
                      tpc[t], s, {"loop", "free", "exited"})
           /\ Count(tpc', Threads, {"loop", "free", "exited"}) \in {0} \cup Threads
           /\ tpc' \in [Threads -> {"none", "loop", "proc", "free", "exited"}]
           /\ tev' \in [Threads -> Events \cup {NoEvent}]
           /\ tpc'[t] = s /\ tev'[t] = y
           /\ \A u \in Threads : u # t => tpc'[u] = tpc[u] /\ tev'[u] = tev[u]
PROOF
<1>1. /\ tpc \in [Threads -> {"none", "loop", "proc", "free", "exited"}]
      /\ tev \in [Threads -> Events \cup {NoEvent}]
  BY DEF SchedInv, ThreadsTyped
<1>2. /\ tpc'[t] = s /\ tev'[t] = y
      /\ \A u \in Threads : u # t => tpc'[u] = tpc[u] /\ tev'[u] = tev[u]
  BY <1>1
<1>3. /\ tpc' \in [Threads -> {"none", "loop", "proc", "free", "exited"}]
      /\ tev' \in [Threads -> Events \cup {NoEvent}]
  BY <1>1
<1>4. ThreadsAt'
  <2>1. \A u \in Threads : tpc'[u] \in {"proc", "free"} <=> tev'[u] # NoEvent
    BY <1>2 DEF SchedInv, ThreadsAt
  <2>2. \A u, w \in Threads : tev'[u] = tev'[w] /\ tev'[u] # NoEvent => u = w
    BY <1>2 DEF SchedInv, ThreadsAt
  <2>3. ~shutdownPending' => \A u \in Threads : tpc'[u] # "none" <=> u <= nThreads'
    BY <1>2 DEF SchedInv, ThreadsAt
  <2>4. \A u \in Threads : tpc'[u] = "exited" => shutdownPending'
    BY <1>2 DEF SchedInv, ThreadsAt
  <2> QED  BY <2>1, <2>2, <2>3, <2>4 DEF ThreadsAt, Threads
<1>5. Shifted(Count(tpc', Threads, {"loop", "free", "exited"}), nIdleThreads,
              tpc[t], s, {"loop", "free", "exited"})
  <2>1. IsFiniteSet(Threads)
    BY CountBound
  <2>2. Shifted(Count(tpc', Threads, {"loop", "free", "exited"}),
                Count(tpc, Threads, {"loop", "free", "exited"}),
                tpc[t], s, {"loop", "free", "exited"})
    BY <1>1, <2>1, CountPut
  <2> QED  BY <2>2 DEF SchedInv, IdleCounted
<1>6. Count(tpc', Threads, {"loop", "free", "exited"}) \in {0} \cup Threads
  BY CountBound
<1> QED  BY <1>2, <1>3, <1>4, <1>5, <1>6
LEMMA ThreadLoopKeeps ==
    ASSUME SchedInv, SchedAssumption, NEW t \in Threads, ThreadLoop(t)
    PROVE  SchedInv'
PROOF
<1> DEFINE x == Head(threadEventPtr)
           Q == Range(queue)
           R == Range(readyPtr)
           H == Range(threadEventPtr)
<1>1. /\ UNCHANGED <<clock, kind, live, hashed, paused, freeing, queue, qid, due, nThreads, spc,
                     sev, snow, wakeAt, readyPtr, onSched, shutdownPending, mpc>>
      /\ tpc[t] = "loop" /\ lock \in {None, t} /\ lock' = None /\ onEvent' \subseteq onEvent \cup {t}
      /\ \/ UNCHANGED <<tpc, tev, threadEventPtr, nIdleThreads>>
         \/ shutdownPending /\ tpc' = [tpc EXCEPT ![t] = "exited"]
            /\ UNCHANGED <<tev, threadEventPtr, nIdleThreads>>
         \/ threadEventPtr # <<>> /\ tev' = [tev EXCEPT ![t] = x]
            /\ threadEventPtr' = Tail(threadEventPtr) /\ nIdleThreads' = nIdleThreads - 1
            /\ tpc' = [tpc EXCEPT ![t] = "proc"]
  <2>1. /\ UNCHANGED <<clock, eventVars, queueVars, nThreads, schedVars, onSched,
                       shutdownPending, mpc>>
        /\ tpc[t] = "loop" /\ lock \in {None, t} /\ lock' = None
    BY DEF ThreadLoop
  <2>2. onEvent' \subseteq onEvent \cup {t}
    BY DEF ThreadLoop, SignalEvent
  <2>3. \/ UNCHANGED <<tpc, tev, threadEventPtr, nIdleThreads>>
        \/ shutdownPending /\ tpc' = [tpc EXCEPT ![t] = "exited"]
           /\ UNCHANGED <<tev, threadEventPtr, nIdleThreads>>
        \/ threadEventPtr # <<>> /\ tev' = [tev EXCEPT ![t] = x]
           /\ threadEventPtr' = Tail(threadEventPtr) /\ nIdleThreads' = nIdleThreads - 1
           /\ tpc' = [tpc EXCEPT ![t] = "proc"]
    BY DEF ThreadLoop
  <2> QED  BY <2>1, <2>2, <2>3 DEF eventVars, queueVars, schedVars
<1>2. lock # SchedThread /\ lock' # SchedThread /\ None # SchedThread
  BY <1>1, LockTells
<1>3. tev[t] = NoEvent /\ tev \in [Threads -> Events \cup {NoEvent}] /\ NoEvent \notin Events
  BY <1>1 DEF SchedInv, ThreadsAt, ThreadsTyped, SchedAssumption
<1>4. TimesTyped' /\ EventsTyped' /\ Timed' /\ Numbers(qid, queue)'
  BY <1>1 DEF SchedInv, TimesTyped, EventsTyped, Timed, Numbers
<1>5. SchedAt'
  BY <1>1, <1>2, SameSched
<1>6. ASSUME nThreads' \in {0} \cup Threads, nIdleThreads' \in {0} \cup Threads,
             tev' \in [Threads -> Events \cup {NoEvent}],
             tpc' \in [Threads -> {"none", "loop", "proc", "free", "exited"}]
      PROVE  ThreadsTyped'
  <2>1. Threads' = Threads /\ SchedThread' = SchedThread
    BY DEF Threads, SchedThread
  <2> QED  BY <1>1, <1>6, <2>1 DEF SchedInv, ThreadsTyped
<1>7. CASE UNCHANGED <<tpc, tev, threadEventPtr, nIdleThreads>>
  <2>1. ThreadsTyped'
    BY <1>1, <1>6, <1>7 DEF SchedInv, ThreadsTyped
  <2>2. EachOwned' /\ ListsOnce'
    BY <1>1, <1>7, SamePlaces
  <2>3. IdsFind'
    BY <1>1, <1>7, SameIds
  <2>4. ThreadsAt' /\ IdleCounted'
    BY <1>1, <1>7, SameThreads
  <2> QED  BY <1>4, <1>5, <2>1, <2>2, <2>3, <2>4 DEF SchedInv
<1>8. CASE shutdownPending /\ tpc' = [tpc EXCEPT ![t] = "exited"]
           /\ UNCHANGED <<tev, threadEventPtr, nIdleThreads>>
  <2>1. tev' = [tev EXCEPT ![t] = NoEvent]
    BY <1>3, <1>8
  <2>2. /\ ThreadsAt'
        /\ Shifted(Count(tpc', Threads, {"loop", "free", "exited"}), nIdleThreads,
                   tpc[t], "exited", {"loop", "free", "exited"})
        /\ Count(tpc', Threads, {"loop", "free", "exited"}) \in {0} \cup Threads
        /\ tpc' \in [Threads -> {"none", "loop", "proc", "free", "exited"}]
        /\ tev' \in [Threads -> Events \cup {NoEvent}]
        /\ tpc'[t] = "exited" /\ tev'[t] = NoEvent
        /\ \A u \in Threads : u # t => tpc'[u] = tpc[u] /\ tev'[u] = tev[u]
    BY <1>1, <1>8, <2>1, ThreadMoves
  <2>3. nIdleThreads \in {0} \cup Threads /\ nIdleThreads \in Nat /\ nThreads' \in {0} \cup Threads
    BY <1>1 DEF SchedInv, ThreadsTyped, Threads
  <2>4. IdleCounted'
    <3>1. Count(tpc', Threads, {"loop", "free", "exited"}) = nIdleThreads
      BY <1>1, <2>2, <2>3 DEF Shifted, Here
    <3> QED  BY <1>8, <3>1 DEF IdleCounted, Threads
  <2>5. ThreadsTyped'
    BY <1>6, <1>8, <2>2, <2>3
  <2>6. EachOwned' /\ ListsOnce'
    BY <1>1, <1>8, SamePlaces
  <2>7. IdsFind'
    BY <1>1, <1>8, <2>2 DEF SchedInv, IdsFind, Threads
  <2> QED  BY <1>4, <1>5, <2>2, <2>4, <2>5, <2>6, <2>7 DEF SchedInv
<1>9. CASE threadEventPtr # <<>> /\ tev' = [tev EXCEPT ![t] = x]
           /\ threadEventPtr' = Tail(threadEventPtr) /\ nIdleThreads' = nIdleThreads - 1
           /\ tpc' = [tpc EXCEPT ![t] = "proc"]
  <2>1. /\ x \in H /\ x \in Events
        /\ Tail(threadEventPtr) \in Seq(Events) /\ IsInjective(Tail(threadEventPtr))
        /\ Range(Tail(threadEventPtr)) = H \ {x}
    BY <1>9, HeadTailHas DEF SchedInv, ListsOnce
  <2>2. Owned(Q, R, H, Busy, Own, freeing, live, paused)
    BY DEF SchedInv, EachOwned
  <2>3. x \notin Busy /\ x # NoEvent
    BY <1>3, <2>1, <2>2 DEF Owned
  <2>4. \A u \in Threads : u # t => tev[u] # x
    BY <2>3 DEF Busy
  <2>5. Busy' = Busy \cup {x}
    BY <1>3, <1>9, <2>1, <2>3, BusyHas
  <2> HIDE DEF x
  <2>6. /\ ThreadsAt'
        /\ Shifted(Count(tpc', Threads, {"loop", "free", "exited"}), nIdleThreads,
                   tpc[t], "proc", {"loop", "free", "exited"})
        /\ Count(tpc', Threads, {"loop", "free", "exited"}) \in {0} \cup Threads
        /\ tpc' \in [Threads -> {"none", "loop", "proc", "free", "exited"}]
        /\ tev' \in [Threads -> Events \cup {NoEvent}]
        /\ tpc'[t] = "proc" /\ tev'[t] = x
        /\ \A u \in Threads : u # t => tpc'[u] = tpc[u] /\ tev'[u] = tev[u]
    BY <1>1, <1>9, <2>1, <2>3, <2>4, ThreadMoves
  <2>7. nIdleThreads \in Nat /\ nThreads' \in {0} \cup Threads
    BY <1>1 DEF SchedInv, ThreadsTyped, Threads
  <2>8. Count(tpc', Threads, {"loop", "free", "exited"}) = nIdleThreads'
    BY <1>1, <1>9, <2>6, <2>7 DEF Shifted, Here
  <2>9. IdleCounted'
    BY <2>8 DEF IdleCounted, Threads
  <2>10. ThreadsTyped'
    BY <1>6, <2>6, <2>7, <2>8
  <2>11. EachOwned'
    <3> HIDE DEF Q, R, H
    <3>1. Owned(Q, R, H \ {x}, Busy \cup {x}, Own, freeing, live, paused)
      BY <2>1, <2>2 DEF Owned
    <3>2. Own' = Own
      BY <1>1 DEF Own
    <3> QED  BY <1>1, <1>9, <2>1, <2>5, <3>1, <3>2 DEF EachOwned, Q, R, H
  <2>12. ListsOnce'
    BY <1>1, <1>9, <2>1 DEF SchedInv, ListsOnce
  <2>13. IdsFind'
    BY <1>1, <2>6 DEF SchedInv, IdsFind, Threads
  <2> QED  BY <1>4, <1>5, <2>6, <2>9, <2>10, <2>11, <2>12, <2>13 DEF SchedInv
<1> QED  BY <1>1, <1>7, <1>8, <1>9

LEMMA ThreadFreeKeeps ==
    ASSUME SchedInv, SchedAssumption, NEW t \in Threads, ThreadFree(t)
    PROVE  SchedInv'
PROOF
<1> DEFINE x == tev[t]
           Q == Range(queue)
           R == Range(readyPtr)
           H == Range(threadEventPtr)
<1>1. /\ UNCHANGED <<clock, lock, kind, hashed, paused, freeing, queueVars, nThreads,
                     nIdleThreads, onEvent, threadEventPtr, schedVars, onSched,
                     shutdownPending, mpc>>
      /\ tpc[t] = "free" /\ tpc' = [tpc EXCEPT ![t] = "loop"]
      /\ tev' = [tev EXCEPT ![t] = NoEvent] /\ live' = live \ {x}
  BY DEF ThreadFree, Free
<1> USE DEF queueVars, schedVars
<1>2. x # NoEvent /\ x \notin hashed /\ x \in Busy
  BY <1>1, HeldLive DEF SchedInv, ThreadsAt, IdsFind
<1>3. /\ ThreadsAt'
      /\ Shifted(Count(tpc', Threads, {"loop", "free", "exited"}), nIdleThreads,
                 tpc[t], "loop", {"loop", "free", "exited"})
      /\ Count(tpc', Threads, {"loop", "free", "exited"}) \in {0} \cup Threads
      /\ tpc' \in [Threads -> {"none", "loop", "proc", "free", "exited"}]
      /\ tev' \in [Threads -> Events \cup {NoEvent}]
      /\ tpc'[t] = "loop" /\ tev'[t] = NoEvent
      /\ \A u \in Threads : u # t => tpc'[u] = tpc[u] /\ tev'[u] = tev[u]
  BY <1>1, ThreadMoves
<1>4. nIdleThreads \in Nat
  BY DEF SchedInv, ThreadsTyped, Threads
<1>5. IdleCounted'
  <2>1. Count(tpc', Threads, {"loop", "free", "exited"}) = nIdleThreads
    BY <1>1, <1>3, <1>4 DEF Shifted, Here
  <2> QED  BY <1>1, <2>1 DEF IdleCounted, Threads
<1>6. TimesTyped' /\ EventsTyped' /\ ThreadsTyped'
  <2>1. TimesTyped'
    BY <1>1 DEF SchedInv, TimesTyped
  <2>2. EventsTyped'
    BY <1>1 DEF SchedInv, EventsTyped
  <2>3. Threads' = Threads /\ SchedThread' = SchedThread
    BY DEF Threads, SchedThread
  <2>4. ThreadsTyped'
    BY <1>1, <1>3, <2>3 DEF SchedInv, ThreadsTyped
  <2> QED  BY <2>1, <2>2, <2>4
<1>7. EachOwned'
  <2>1. Owned(Q, R, H, Busy, Own, freeing, live, paused)
    BY DEF SchedInv, EachOwned
  <2>2. Busy' = Busy \ {x} /\ Own' = Own
    BY <1>1, <1>2, BusyHas DEF Own
  <2> HIDE DEF Q, R, H, x
  <2>3. Owned(Q, R, H, Busy \ {x}, Own, freeing, live \ {x}, paused)
    BY <1>2, <2>1 DEF Owned
  <2> QED  BY <1>1, <2>2, <2>3 DEF EachOwned, Q, R, H
<1>8. ListsOnce' /\ Numbers(qid, queue)' /\ Timed'
  BY <1>1 DEF SchedInv, ListsOnce, Numbers, Timed
<1>9. IdsFind'
  <2>1. \A u \in Threads : tpc'[u] = "free" => tev'[u] = tev[u] /\ tpc[u] = "free"
    BY <1>3
  <2> QED  BY <1>1, <1>2, <2>1 DEF SchedInv, IdsFind, Threads
<1>10. SchedAt'
  BY <1>1, SameSched
<1> QED  BY <1>3, <1>5, <1>6, <1>7, <1>8, <1>9, <1>10 DEF SchedInv
LEMMA ThreadProcDoneKeeps ==
    ASSUME SchedInv, SchedAssumption, NEW t \in Threads, ThreadProcDone(t)
    PROVE  SchedInv'
PROOF
<1> DEFINE x == tev[t]
           Q == Range(queue)
           R == Range(readyPtr)
           H == Range(threadEventPtr)
<1>1. /\ UNCHANGED <<clock, kind, live, hashed, paused, freeing, nThreads, onEvent, threadEventPtr,
                     spc, sev, snow, wakeAt, readyPtr, shutdownPending, mpc>>
      /\ tpc[t] = "proc" /\ lock = None /\ nIdleThreads' = nIdleThreads + 1
      /\ onSched' \subseteq onSched
      /\ \/ /\ x \in hashed /\ tpc' = [tpc EXCEPT ![t] = "loop"] /\ lock' = t
            /\ tev' = [tev EXCEPT ![t] = NoEvent]
            /\ \/ x \in paused /\ UNCHANGED <<queue, qid, due>>
               \/ x \notin paused /\ Enqueue(x, clock)
         \/ /\ x \notin hashed /\ tpc' = [tpc EXCEPT ![t] = "free"]
            /\ UNCHANGED <<queue, qid, due, tev, lock>>
  <2>1. /\ UNCHANGED <<clock, kind, live, hashed, paused, freeing, nThreads, onEvent,
                       threadEventPtr, schedVars, shutdownPending, mpc>>
        /\ tpc[t] = "proc" /\ lock = None /\ nIdleThreads' = nIdleThreads + 1
    BY DEF ThreadProcDone, LockFree
  <2>2. CASE x \in hashed
    <3>1. /\ Requeue(x, clock) /\ tpc' = [tpc EXCEPT ![t] = "loop"] /\ lock' = t
          /\ tev' = [tev EXCEPT ![t] = NoEvent]
      BY <2>2 DEF ThreadProcDone
    <3>2. /\ \/ x \in paused /\ UNCHANGED <<queue, qid, due>>
             \/ x \notin paused /\ Enqueue(x, clock)
          /\ onSched' \subseteq onSched
      <4> HIDE DEF x
      <4> QED  BY <3>1 DEF Requeue, SignalSched, queueVars
    <3> QED  BY <2>1, <2>2, <3>1, <3>2 DEF schedVars
  <2>3. CASE x \notin hashed
    BY <2>1, <2>3 DEF ThreadProcDone, schedVars, queueVars
  <2> QED  BY <2>2, <2>3
<1>2. x # NoEvent /\ x \in Events /\ x \in live /\ x \in Busy
  BY <1>1, HeldLive DEF SchedInv, ThreadsAt
<1>3. Owned(Q, R, H, Busy, Own, freeing, live, paused)
  BY DEF SchedInv, EachOwned
<1>4. SchedAt'
  <2>1. lock # SchedThread /\ lock' # SchedThread
    BY <1>1, LockTells
  <2> QED  BY <1>1, <2>1, SameSched
<1>5. ASSUME NEW s \in {"loop", "free"},
             Shifted(Count(tpc', Threads, {"loop", "free", "exited"}), nIdleThreads,
                     tpc[t], s, {"loop", "free", "exited"}),
             Count(tpc', Threads, {"loop", "free", "exited"}) \in {0} \cup Threads,
             tpc' \in [Threads -> {"none", "loop", "proc", "free", "exited"}],
             tev' \in [Threads -> Events \cup {NoEvent}], lock' \in {None, t}
      PROVE  IdleCounted' /\ ThreadsTyped'
  <2>1. nIdleThreads \in Nat
    BY DEF SchedInv, ThreadsTyped, Threads
  <2>2. Count(tpc', Threads, {"loop", "free", "exited"}) = nIdleThreads'
    BY <1>1, <1>5, <2>1 DEF Shifted, Here
  <2>3. IdleCounted'
    BY <2>2 DEF IdleCounted, Threads
  <2>4. Threads' = Threads /\ SchedThread' = SchedThread
    BY DEF Threads, SchedThread
  <2>5. ThreadsTyped'
    BY <1>1, <1>5, <2>2, <2>4 DEF SchedInv, ThreadsTyped
  <2> QED  BY <2>3, <2>5
<1>6. TimesTyped'
  BY <1>1 DEF SchedInv, TimesTyped
<1>7. CASE /\ x \notin hashed /\ tpc' = [tpc EXCEPT ![t] = "free"]
           /\ UNCHANGED <<queue, qid, due, tev, lock>>
  <2>1. tev' = [tev EXCEPT ![t] = x] /\ \A u \in Threads : u # t => tev[u] # x
    BY <1>2, <1>7 DEF SchedInv, ThreadsTyped, ThreadsAt
  <2>2. /\ ThreadsAt'
        /\ Shifted(Count(tpc', Threads, {"loop", "free", "exited"}), nIdleThreads,
                   tpc[t], "free", {"loop", "free", "exited"})
        /\ Count(tpc', Threads, {"loop", "free", "exited"}) \in {0} \cup Threads
        /\ tpc' \in [Threads -> {"none", "loop", "proc", "free", "exited"}]
        /\ tev' \in [Threads -> Events \cup {NoEvent}]
        /\ tpc'[t] = "free" /\ tev'[t] = x
        /\ \A u \in Threads : u # t => tpc'[u] = tpc[u] /\ tev'[u] = tev[u]
    <3> HIDE DEF x
    <3> QED  BY <1>1, <1>2, <1>7, <2>1, ThreadMoves
  <2>3. EventsTyped'
    BY <1>1, <1>7 DEF SchedInv, EventsTyped
  <2>4. EachOwned' /\ ListsOnce' /\ Numbers(qid, queue)' /\ Timed'
    BY <1>1, <1>7, SamePlaces
  <2>5. IdsFind'
    BY <1>1, <1>7, <2>2 DEF SchedInv, IdsFind, Threads
  <2>6. IdleCounted' /\ ThreadsTyped'
    BY <1>1, <1>5, <1>7, <2>2
  <2> QED  BY <1>4, <1>6, <2>2, <2>3, <2>4, <2>5, <2>6 DEF SchedInv
<1>8. CASE /\ x \in hashed /\ tpc' = [tpc EXCEPT ![t] = "loop"] /\ lock' = t
           /\ tev' = [tev EXCEPT ![t] = NoEvent]
           /\ \/ x \in paused /\ UNCHANGED <<queue, qid, due>>
              \/ x \notin paused /\ Enqueue(x, clock)
  <2>1. /\ ThreadsAt'
        /\ Shifted(Count(tpc', Threads, {"loop", "free", "exited"}), nIdleThreads,
                   tpc[t], "loop", {"loop", "free", "exited"})
        /\ Count(tpc', Threads, {"loop", "free", "exited"}) \in {0} \cup Threads
        /\ tpc' \in [Threads -> {"none", "loop", "proc", "free", "exited"}]
        /\ tev' \in [Threads -> Events \cup {NoEvent}]
        /\ tpc'[t] = "loop" /\ tev'[t] = NoEvent
        /\ \A u \in Threads : u # t => tpc'[u] = tpc[u] /\ tev'[u] = tev[u]
    BY <1>1, <1>8, ThreadMoves
  <2>2. Busy' = Busy \ {x} /\ Own' = Own
    BY <1>1, <1>2, <1>8, BusyHas DEF Own
  <2>3. IdsFind'
    BY <1>1, <2>1 DEF SchedInv, IdsFind, Threads
  <2>4. IdleCounted' /\ ThreadsTyped'
    BY <1>1, <1>5, <1>8, <2>1
  <2>5. CASE x \in paused /\ UNCHANGED <<queue, qid, due>>
    <3>1. EventsTyped' /\ ListsOnce' /\ Numbers(qid, queue)' /\ Timed'
      BY <1>1, <2>5 DEF SchedInv, EventsTyped, ListsOnce, Numbers, Timed
    <3>2. EachOwned'
      <4> HIDE DEF Q, R, H, x
      <4>1. Owned(Q, R, H, Busy \ {x}, Own, freeing, live, paused)
        BY <1>3, <2>5 DEF Owned
      <4> QED  BY <1>1, <2>2, <2>5, <4>1 DEF EachOwned, Q, R, H
    <3> QED  BY <1>4, <1>6, <2>1, <2>3, <2>4, <3>1, <3>2 DEF SchedInv
  <2>6. CASE x \notin paused /\ Enqueue(x, clock)
    <3>1. x \notin Range(queue)
      BY <1>2, <1>3 DEF Owned
    <3>2. kind' \in [Events -> Kinds] /\ clock \in Nat
      BY <1>1 DEF SchedInv, EventsTyped, TimesTyped
    <3>3. /\ queue' \in Seq(Events) /\ Range(queue') = Range(queue) \cup {x}
          /\ Numbers(qid', queue')
          /\ due' \in [Events -> Nat \cup {-1}] /\ due'[x] \in Nat
          /\ \A z \in Events : z # x => due'[z] = due[z]
      <4> HIDE DEF x
      <4> QED  BY <1>2, <2>6, <3>1, <3>2, EnqueueKeeps
    <3>4. EventsTyped'
      BY <1>1, <3>2, <3>3 DEF SchedInv, EventsTyped
    <3>5. ListsOnce' /\ Numbers(qid, queue)'
      BY <1>1, <3>3 DEF SchedInv, ListsOnce
    <3>6. Timed'
      <4> HIDE DEF x
      <4> QED  BY <1>1, <3>3, HeldLive DEF Timed
    <3>7. EachOwned'
      <4> HIDE DEF Q, R, H, x
      <4>1. Owned(Q \cup {x}, R, H, Busy \ {x}, Own, freeing, live, paused)
        BY <1>2, <1>3 DEF Owned
      <4> QED  BY <1>1, <2>2, <3>3, <4>1 DEF EachOwned, Q, R, H
    <3> QED  BY <1>4, <1>6, <2>1, <2>3, <2>4, <3>4, <3>5, <3>6, <3>7 DEF SchedInv
  <2> QED  BY <1>8, <2>5, <2>6
<1> QED  BY <1>1, <1>7, <1>8

-----------------------------------------------------------------------------
(* SchedInv is inductive where a client resumes no event underway.         *)
LEMMA NextKeeps ==
    ASSUME SchedAssumption, "resumeUnderway" \notin Ops, SchedInv, [Next]_vars
    PROVE  SchedInv'
PROOF
<1>1. CASE SchedNext
  BY <1>1, SchedEnterKeeps, CollectKeeps, DispatchKeeps, SchedProcDoneKeeps, SchedRequeueKeeps,
     WakeThreadsKeeps, JoinThreadsKeeps, FreeQueuedKeeps, SchedExitKeeps DEF SchedNext
<1>2. ASSUME NEW t \in Threads, ThreadNext(t) PROVE SchedInv'
  BY <1>2, ThreadLoopKeeps, ThreadProcDoneKeeps, ThreadFreeKeeps DEF ThreadNext
<1>3. CASE ClientNext
  <2>1. PICK e \in Events :
          \/ \E k \in Kinds : Schedule(e, k)
          \/ Cancel(e) \/ FreeCancelled(e) \/ Pause(e) \/ Resume(e)
    BY <1>3 DEF ClientNext
  <2> QED
    BY <2>1, ScheduleKeeps, CancelKeeps, FreeCancelledKeeps, PauseKeeps, ResumeKeeps
<1>4. CASE MainNext
  BY <1>4, MainKeeps
<1>5. CASE Tick
  BY <1>5, TickKeeps
<1>6. CASE UNCHANGED vars
  BY <1>6, StutterKeeps
<1> QED  BY <1>1, <1>2, <1>3, <1>4, <1>5, <1>6 DEF Next

LEMMA InvHolds ==
    ASSUME "resumeUnderway" \notin Ops
    PROVE  Spec => []SchedInv
PROOF
<1>1. Init => SchedInv
  BY InitKeeps, SchedAssumption
<1>2. SchedInv /\ [Next]_vars => SchedInv'
  BY NextKeeps, SchedAssumption
<1> QED
  BY <1>1, <1>2, PTL DEF Spec

(* Where no client resumes an event that is about to run or running,       *)
(* whatever else clients, SchedThread, the EventThreads and the shutdown   *)
(* do, an event has one holder while it is allocated and none afterwards,  *)
(* and one that nobody holds can be found by its id or is paused: none is  *)
(* run twice, freed twice, used after it was freed, or leaked.             *)
THEOREM EventsOwnedCorrect ==
    ASSUME "resumeUnderway" \notin Ops
    PROVE  Spec => []EventsOwned
PROOF
<1>1. SchedInv => EventsOwned
  BY OwnedMeans, SchedAssumption
<1>2. Spec => []SchedInv
  BY InvHolds
<1> QED
  BY <1>1, <1>2, PTL

(* Then also qid says where in the heap each event is, which Ns_Cancel and *)
(* Ns_Pause rely on, nIdleThreads is the number of idle EventThreads, and  *)
(* no more threads are created than there are events.                      *)
THEOREM BooksAgreeCorrect ==
    ASSUME "resumeUnderway" \notin Ops
    PROVE  Spec => []BooksAgree
PROOF
<1>1. SchedInv => BooksAgree
  BY BooksMean, SchedAssumption
<1>2. Spec => []SchedInv
  BY InvHolds
<1> QED
  BY <1>1, <1>2, PTL
=============================================================================
