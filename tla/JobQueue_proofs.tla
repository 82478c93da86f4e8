--------------------------- MODULE JobQueue_proofs ---------------------------
(***************************************************************************)
(* Proofs about the job queues: in every state that JobQueue reaches, for  *)
(* any number of clients, job threads, jobs and queues, the counts and the *)
(* owners are right (JobsSound) and nobody sleeps beside work it could do  *)
(* (NobodyForgotten).                                                      *)
(*                                                                         *)
(* A handler wakes threads, changes jobs and queues, and may then delete a *)
(* queue or look for the next job.  Each of these is a lemma about Good,   *)
(* the inductive invariant over a state that is given part by part, and an *)
(* action is a sequence of them.                                           *)
(***************************************************************************)
EXTENDS JobQueue, Lemmas

Threads == Clients \cup Workers

ClientPlaces == {"out", "blocked", "create", "wait", "waitWoken", "any", "anyWoken", "deleting"}
WorkerPlaces == {"none", "start", "sleep", "woken", "run"}
WaitPlaces == {"wait", "waitWoken", "any", "anyWoken"}
Up == {"start", "sleep", "woken", "run"}

PlacesOK(P, T) ==
    /\ P \in [Threads -> ClientPlaces \cup WorkerPlaces]
    /\ \A c \in Clients : P[c] \in ClientPlaces
    /\ \A w \in Workers : P[w] \in WorkerPlaces
    /\ T \in [Clients -> [on : Queues \cup {"none"}, of : Jobs \cup {NoJob}]]

JobType == [state : {"free", "scheduled", "running", "done"},
            req : {"none", "wait", "cancel"}, detached : BOOLEAN, on : Queues \cup {"none"}]

(* A job that is not free is in the table of a queue, and the list holds   *)
(* the scheduled ones, each once.                                          *)
JobsOK(J, s) ==
    /\ J \in [Jobs -> JobType]
    /\ \A j \in Jobs : IF J[j].state = "free" THEN J[j] = FreeJob ELSE J[j].on \in Queues
    /\ s \in Seq(Jobs) /\ IsInjective(s)
    /\ Range(s) = {j \in Jobs : J[j].state = "scheduled"}

(* Each running job has its thread, until the stop.                        *)
WorkOK(J, P, K, st) ==
    /\ K \in [Workers -> Jobs \cup {NoJob}]
    /\ \A w \in Workers : P[w] = "run" <=> K[w] # NoJob
    /\ \A v, w \in Workers : K[v] = K[w] /\ K[v] # NoJob => v = w
    /\ \A w \in Workers : K[w] # NoJob => J[K[w]].state = "running"
    /\ \A j \in Jobs : J[j].state = "running" => st \/ \E w \in Workers : K[w] = j

(* What a client at place p with target x has: the job it waits for, which *)
(* is not done while it sleeps, or the queue.                              *)
ClientOK(J, p, x) ==
    /\ p \in {"wait", "waitWoken"} =>
         /\ x.of \in Jobs /\ x.on \in Queues
         /\ J[x.of].on = x.on /\ J[x.of].req = "wait"
    /\ p \in {"any", "anyWoken", "blocked", "deleting"} => x.on \in Queues /\ x.of = NoJob
    /\ p = "wait" => J[x.of].state # "done"
    /\ p = "any" => \A j \in Table(J, x.on) : J[j].state # "done"

WaitsFor(P, T, c, j) == P[c] \in {"wait", "waitWoken"} /\ T[c].of = j

(* A job that is waited for is not detached, and one client waits for it.  *)
WaitOK(J, P, T) ==
    /\ \A c \in Clients : ClientOK(J, P[c], T[c])
    /\ \A c, d \in Clients : \A j \in Jobs : WaitsFor(P, T, c, j) /\ WaitsFor(P, T, d, j) => c = d
    /\ \A j \in Jobs : J[j].req = "wait" => ~J[j].detached /\ \E c \in Clients : WaitsFor(P, T, c, j)

RunningIn(J, q) == {j \in Jobs : J[j].on = q /\ J[j].state = "running"}

RefsTo(P, T, q) == {c \in Clients : P[c] \in WaitPlaces /\ T[c].on = q}

QueueType == [made : BOOLEAN, delete : BOOLEAN, max : Limits \cup {0}, running : Nat, refs : Nat]

QueuesOK(Q, J, P, T) ==
    /\ Q \in [Queues -> QueueType]
    /\ \A q \in Queues : Q[q].running = Cardinality(RunningIn(J, q)) /\ Q[q].running <= Q[q].max
    /\ \A q \in Queues : Q[q].refs = Cardinality(RefsTo(P, T, q))
    /\ \A q \in Queues : ~Q[q].made => Q[q] = NoQueue
    /\ \A q \in Queues : Table(J, q) # {} => Q[q].made

Deletes(P, T, c, q) == P[c] = "deleting" /\ T[c].on = q

Unlocked(P, T, q) == \A c \in Clients : ~Deletes(P, T, c, q)

(* Of the queues X, those that may be deleted have one client at it, and   *)
(* the others none.                                                        *)
DeletingOK(Q, J, P, T, X) ==
    /\ \A q \in Queues : (\E c \in Clients : Deletes(P, T, c, q)) <=> q \in X /\ MayDelete(Q, J, q)
    /\ \A c, d \in Clients : \A q \in Queues : Deletes(P, T, c, q) /\ Deletes(P, T, d, q) => c = d

PoolOK(n, i, P) ==
    /\ i = Count(P, Workers, {"sleep", "woken"})
    /\ n = Count(P, Clients, {"create"}) + Count(P, Workers, Up)
    /\ n <= Cardinality(Queues) * MaxLimit

EnoughOK(Q, J, s, n, st) == (\E j \in Range(s) : Q[J[j].on].max > 0) => st \/ n > 0

(* All of it but SleepOK, with the queues X settled.                       *)
Good(Q, J, s, n, i, st, P, T, K, X) ==
    /\ PlacesOK(P, T) /\ JobsOK(J, s) /\ WorkOK(J, P, K, st) /\ WaitOK(J, P, T)
    /\ QueuesOK(Q, J, P, T) /\ DeletingOK(Q, J, P, T, X)
    /\ PoolOK(n, i, P) /\ EnoughOK(Q, J, s, n, st) /\ st \in BOOLEAN

(* No job thread sleeps beside a cancelled job or one that it could run.   *)
SleepOK(Q, J, s, P) ==
    (\E w \in Workers : P[w] = "sleep") =>
        \A j \in Range(s) : J[j].req # "cancel" /\ ~Runnable(Q, J, j)

JobInv ==
    /\ Good(queue, job, scheduled, nthreads, nidle, stop, pc, target, work, Queues)
    /\ SleepOK(queue, job, scheduled, pc)

-----------------------------------------------------------------------------
(* Threads are woken, which changes nothing else. *)

Wakes(P, R) ==
    /\ R \in [Threads -> ClientPlaces \cup WorkerPlaces]
    /\ \A u \in Threads :
         \/ R[u] = P[u]
         \/ P[u] = "sleep" /\ R[u] = "woken"
         \/ P[u] = "wait" /\ R[u] = "waitWoken"
         \/ P[u] = "any" /\ R[u] = "anyWoken"

(* One that finds nothing done sleeps again. *)
Turns(P, R) ==
    /\ R \in [Threads -> ClientPlaces \cup WorkerPlaces]
    /\ \A u \in Threads :
         \/ R[u] = P[u]
         \/ P[u] = "sleep" /\ R[u] = "woken"
         \/ P[u] \in {"wait", "waitWoken"} /\ R[u] \in {"wait", "waitWoken"}
         \/ P[u] \in {"any", "anyWoken"} /\ R[u] \in {"any", "anyWoken"}

LEMMA TurnKeeps ==
    ASSUME NEW Q, NEW J, NEW s, NEW n, NEW i, NEW st, NEW P, NEW T, NEW K, NEW X,
           Good(Q, J, s, n, i, st, P, T, K, X), NEW R, Turns(P, R),
           \A c \in Clients : ClientOK(J, R[c], T[c])
    PROVE  Good(Q, J, s, n, i, st, R, T, K, X) /\ (SleepOK(Q, J, s, P) => SleepOK(Q, J, s, R))
<1>0. Clients \subseteq Threads /\ Workers \subseteq Threads
  BY DEF Threads
<1>1. /\ PlacesOK(P, T) /\ JobsOK(J, s) /\ WorkOK(J, P, K, st) /\ WaitOK(J, P, T)
      /\ QueuesOK(Q, J, P, T) /\ DeletingOK(Q, J, P, T, X)
      /\ PoolOK(n, i, P) /\ EnoughOK(Q, J, s, n, st) /\ st \in BOOLEAN
  BY DEF Good
<1>2. /\ \A c \in Clients : P[c] \in ClientPlaces
      /\ \A w \in Workers : P[w] \in WorkerPlaces
  BY <1>1 DEF PlacesOK
<1>3. ASSUME NEW c \in Clients
      PROVE  /\ R[c] \in ClientPlaces
             /\ R[c] \in {"wait", "waitWoken"} <=> P[c] \in {"wait", "waitWoken"}
             /\ R[c] \in {"any", "anyWoken"} <=> P[c] \in {"any", "anyWoken"}
             /\ R[c] \in WaitPlaces <=> P[c] \in WaitPlaces
             /\ R[c] = "deleting" <=> P[c] = "deleting"
             /\ R[c] = "blocked" <=> P[c] = "blocked"
             /\ R[c] \in {"create"} <=> P[c] \in {"create"}
  BY <1>0, <1>2 DEF Turns, ClientPlaces, WaitPlaces
<1>4. ASSUME NEW w \in Workers
      PROVE  /\ R[w] \in WorkerPlaces
             /\ R[w] \in {"sleep", "woken"} <=> P[w] \in {"sleep", "woken"}
             /\ R[w] \in Up <=> P[w] \in Up
             /\ R[w] = "run" <=> P[w] = "run"
             /\ R[w] = "sleep" => P[w] = "sleep"
  BY <1>0, <1>2 DEF Turns, WorkerPlaces, Up
<1>5. PlacesOK(R, T)
  BY <1>1, <1>3, <1>4 DEF PlacesOK, Turns
<1>6. WorkOK(J, R, K, st)
  BY <1>1, <1>4 DEF WorkOK
<1>7. WaitOK(J, R, T)
  <2>1. ASSUME NEW c \in Clients, NEW j PROVE WaitsFor(R, T, c, j) <=> WaitsFor(P, T, c, j)
    BY <1>3 DEF WaitsFor
  <2> QED  BY <1>1, <2>1 DEF WaitOK
<1>8. QueuesOK(Q, J, R, T)
  <2>1. ASSUME NEW q PROVE RefsTo(R, T, q) = RefsTo(P, T, q)
    BY <1>3 DEF RefsTo
  <2> QED  BY <1>1, <2>1 DEF QueuesOK
<1>9. DeletingOK(Q, J, R, T, X)
  <2>1. ASSUME NEW c \in Clients, NEW q PROVE Deletes(R, T, c, q) <=> Deletes(P, T, c, q)
    BY <1>3 DEF Deletes
  <2> QED  BY <1>1, <2>1 DEF DeletingOK
<1>10. PoolOK(n, i, R)
  <2>1. /\ Count(P, Workers, {"sleep", "woken"}) = Count(R, Workers, {"sleep", "woken"})
        /\ Count(P, Clients, {"create"}) = Count(R, Clients, {"create"})
        /\ Count(P, Workers, Up) = Count(R, Workers, Up)
    BY <1>3, <1>4, CountSame
  <2> QED  BY <1>1, <2>1 DEF PoolOK
<1>11. SleepOK(Q, J, s, P) => SleepOK(Q, J, s, R)
  BY <1>4 DEF SleepOK
<1> QED  BY <1>1, <1>5, <1>6, <1>7, <1>8, <1>9, <1>10, <1>11 DEF Good
LEMMA WakeKeeps ==
    ASSUME NEW Q, NEW J, NEW s, NEW n, NEW i, NEW st, NEW P, NEW T, NEW K, NEW X,
           Good(Q, J, s, n, i, st, P, T, K, X), NEW R, Wakes(P, R)
    PROVE  Good(Q, J, s, n, i, st, R, T, K, X) /\ (SleepOK(Q, J, s, P) => SleepOK(Q, J, s, R))
<1>1. Turns(P, R)
  BY DEF Turns, Wakes
<1>2. ASSUME NEW c \in Clients PROVE ClientOK(J, R[c], T[c])
  <2>1. ClientOK(J, P[c], T[c]) /\ P[c] \in ClientPlaces /\ c \in Threads
    BY DEF Good, WaitOK, PlacesOK, Threads
  <2> QED  BY <2>1 DEF ClientOK, Wakes, ClientPlaces
<1> QED  BY <1>1, <1>2, TurnKeeps

LEMMA PoolWokenWakes ==
    ASSUME NEW P, NEW T, PlacesOK(P, T)
    PROVE  /\ Wakes(P, PoolWoken(P)) /\ \A w \in Workers : PoolWoken(P)[w] # "sleep"
           /\ \A c \in Clients : PoolWoken(P)[c] = P[c]
<1>1. DOMAIN P = Threads /\ Clients \subseteq Threads /\ Workers \subseteq Threads
  BY DEF PlacesOK, Threads
<1>2. ASSUME NEW u \in Threads
      PROVE  /\ PoolWoken(P)[u] = IF P[u] = "sleep" THEN "woken" ELSE P[u]
             /\ PoolWoken(P)[u] \in ClientPlaces \cup WorkerPlaces
  BY <1>1 DEF PoolWoken, PlacesOK, WorkerPlaces
<1>3. PoolWoken(P) \in [Threads -> ClientPlaces \cup WorkerPlaces]
  BY <1>1, <1>2 DEF PoolWoken
<1>4. \A c \in Clients : P[c] # "sleep"
  BY DEF PlacesOK, ClientPlaces
<1> QED  BY <1>1, <1>2, <1>3, <1>4 DEF Wakes

LEMMA QueueWokenWakes ==
    ASSUME NEW P, NEW q, PlacesOK(P, target)
    PROVE  /\ Wakes(P, QueueWoken(P, q))
           /\ \A c \in Clients : target[c].on = q =>
                QueueWoken(P, q)[c] # "wait" /\ QueueWoken(P, q)[c] # "any"
           /\ \A c \in Clients : P[c] \notin {"wait", "any"} => QueueWoken(P, q)[c] = P[c]
           /\ \A w \in Workers : QueueWoken(P, q)[w] = P[w]
<1>0. Clients \cap Workers = {}
  BY JobAssumption
<1>1. DOMAIN P = Threads /\ Clients \subseteq Threads /\ Workers \subseteq Threads
  BY DEF PlacesOK, Threads
<1>2. ASSUME NEW u \in Threads
      PROVE  /\ QueueWoken(P, q)[u] =
                  IF u \notin Clients \/ target[u].on # q THEN P[u]
                  ELSE IF P[u] = "wait" THEN "waitWoken"
                  ELSE IF P[u] = "any" THEN "anyWoken" ELSE P[u]
             /\ QueueWoken(P, q)[u] \in ClientPlaces \cup WorkerPlaces
  BY <1>1 DEF QueueWoken, PlacesOK, ClientPlaces
<1>3. QueueWoken(P, q) \in [Threads -> ClientPlaces \cup WorkerPlaces]
  BY <1>1, <1>2 DEF QueueWoken
<1> QED  BY <1>0, <1>1, <1>2, <1>3 DEF Wakes

-----------------------------------------------------------------------------
(* A client, one thread at a time: it moves from one place to another.     *)

Now(f, g, u, v) == g = [f EXCEPT ![u] = v]

(* What a client that moves to place p, with target x, changes.            *)
LEMMA ClientMoves ==
    ASSUME NEW P, NEW T, PlacesOK(P, T), NEW c \in Clients, NEW p \in ClientPlaces,
           NEW x \in [on : Queues \cup {"none"}, of : Jobs \cup {NoJob}],
           NEW R, Now(P, R, c, p), NEW U, Now(T, U, c, x)
    PROVE  /\ PlacesOK(R, U) /\ R[c] = p /\ U[c] = x
           /\ \A d \in Clients : d # c => R[d] = P[d] /\ U[d] = T[d]
           /\ \A w \in Workers : R[w] = P[w] /\ w # c
           /\ Count(R, Workers, {"sleep", "woken"}) = Count(P, Workers, {"sleep", "woken"})
           /\ Count(R, Workers, Up) = Count(P, Workers, Up)
           /\ Count(R, Clients, {"create"}) = Count(P, Clients, {"create"})
                + Here(p, {"create"}) - Here(P[c], {"create"})
           /\ Count(P, Clients, {"create"}) \in Nat /\ Count(P, Workers, Up) \in Nat
<1>1. IsFiniteSet(Clients) /\ IsFiniteSet(Workers) /\ Clients \cap Workers = {}
  BY JobAssumption
<1>2. /\ DOMAIN P = Threads /\ DOMAIN T = Clients /\ Clients \subseteq Threads
      /\ Workers \subseteq Threads
  BY DEF PlacesOK, Threads
<1>3. /\ R[c] = p /\ U[c] = x
      /\ \A d \in Clients : d # c => R[d] = P[d] /\ U[d] = T[d]
      /\ \A w \in Workers : R[w] = P[w] /\ w # c
  BY <1>1, <1>2 DEF Now
<1>4. PlacesOK(R, U)
  <2>1. R \in [Threads -> ClientPlaces \cup WorkerPlaces]
    BY <1>2 DEF PlacesOK, Now
  <2>2. U \in [Clients -> [on : Queues \cup {"none"}, of : Jobs \cup {NoJob}]]
    BY <1>2 DEF PlacesOK, Now
  <2> QED  BY <1>3, <2>1, <2>2 DEF PlacesOK
<1>5. Count(R, Clients, {"create"}) = Count(P, Clients, {"create"})
         + Here(p, {"create"}) - Here(P[c], {"create"})
  BY <1>1, <1>3, CountMoved
<1>6. /\ Count(R, Workers, {"sleep", "woken"}) = Count(P, Workers, {"sleep", "woken"})
      /\ Count(R, Workers, Up) = Count(P, Workers, Up)
  BY <1>3, CountSame
<1>7. Count(P, Clients, {"create"}) \in Nat /\ Count(P, Workers, Up) \in Nat
  BY <1>1, CountType
<1> QED  BY <1>3, <1>4, <1>5, <1>6, <1>7

(* ReleaseQueue, with which a command ends. *)
LEMMA ReleaseKeeps ==
    ASSUME NEW Q, NEW J, NEW s, NEW n, NEW i, NEW st, NEW P, NEW T, NEW K,
           NEW c \in Clients, NEW q \in Queues,
           Good(Q, J, s, n, i, st, P, T, K, Queues \ {q}), P[c] = "out",
           NEW R, NEW U,
           IF MayDelete(Q, J, q)
           THEN /\ R = [P EXCEPT ![c] = "deleting"]
                /\ U = [T EXCEPT ![c] = [Nothing EXCEPT !.on = q]]
           ELSE /\ R = [P EXCEPT ![c] = "out"]
                /\ U = [T EXCEPT ![c] = Nothing]
    PROVE  /\ Good(Q, J, s, n, i, st, R, U, K, Queues)
           /\ \A w \in Workers : R[w] = P[w]
<1> DEFINE p == IF MayDelete(Q, J, q) THEN "deleting" ELSE "out"
           x == IF MayDelete(Q, J, q) THEN [Nothing EXCEPT !.on = q] ELSE Nothing
<1>1. /\ PlacesOK(P, T) /\ JobsOK(J, s) /\ WorkOK(J, P, K, st) /\ WaitOK(J, P, T)
      /\ QueuesOK(Q, J, P, T) /\ DeletingOK(Q, J, P, T, Queues \ {q})
      /\ PoolOK(n, i, P) /\ EnoughOK(Q, J, s, n, st) /\ st \in BOOLEAN
  BY DEF Good
<1>2. Now(P, R, c, p) /\ Now(T, U, c, x) /\ p \in ClientPlaces
  BY DEF ClientPlaces, Now
<1>3. /\ x \in [on : Queues \cup {"none"}, of : Jobs \cup {NoJob}]
      /\ p = "deleting" => x.on = q /\ x.of = NoJob
      /\ p \in {"out", "deleting"}
      /\ p = "deleting" <=> MayDelete(Q, J, q)
  BY DEF Nothing
<1> HIDE DEF p, x
<1>4. /\ PlacesOK(R, U) /\ R[c] = p /\ U[c] = x
      /\ \A d \in Clients : d # c => R[d] = P[d] /\ U[d] = T[d]
      /\ \A w \in Workers : R[w] = P[w]
      /\ Count(R, Workers, {"sleep", "woken"}) = Count(P, Workers, {"sleep", "woken"})
      /\ Count(R, Workers, Up) = Count(P, Workers, Up)
      /\ Count(R, Clients, {"create"}) = Count(P, Clients, {"create"})
           + Here(p, {"create"}) - Here(P[c], {"create"})
      /\ Count(P, Clients, {"create"}) \in Nat
  BY <1>1, <1>2, <1>3, ClientMoves
<1>5. WorkOK(J, R, K, st)
  BY <1>1, <1>4 DEF WorkOK
<1>6. WaitOK(J, R, U)
  <2>1. ASSUME NEW d \in Clients PROVE ClientOK(J, R[d], U[d])
    <3>1. d # c => ClientOK(J, R[d], U[d])
      BY <1>1, <1>4 DEF WaitOK
    <3>2. ClientOK(J, p, x)
      BY <1>3 DEF ClientOK
    <3> QED  BY <3>1, <3>2, <1>4
  <2>2. ASSUME NEW d \in Clients, NEW j PROVE WaitsFor(R, U, d, j) <=> WaitsFor(P, T, d, j)
    BY <1>3, <1>4 DEF WaitsFor
  <2> QED  BY <1>1, <2>1, <2>2 DEF WaitOK
<1>7. QueuesOK(Q, J, R, U)
  <2>1. ASSUME NEW r PROVE RefsTo(R, U, r) = RefsTo(P, T, r)
    <3>1. \A d \in Clients : d # c => R[d] = P[d] /\ U[d] = T[d]
      BY <1>4
    <3>2. R[c] \notin WaitPlaces /\ P[c] \notin WaitPlaces
      BY <1>3, <1>4 DEF WaitPlaces
    <3> QED  BY <3>1, <3>2 DEF RefsTo
  <2> QED  BY <1>1, <2>1 DEF QueuesOK
<1>8. DeletingOK(Q, J, R, U, Queues)
  <2>1. ASSUME NEW d \in Clients, NEW r, d # c
        PROVE  Deletes(R, U, d, r) <=> Deletes(P, T, d, r)
    BY <1>4, <2>1 DEF Deletes
  <2>2. \A r : Deletes(R, U, c, r) <=> MayDelete(Q, J, q) /\ r = q
    BY <1>3, <1>4 DEF Deletes
  <2>3. \A r : ~Deletes(P, T, c, r)
    BY DEF Deletes
  <2>4. \A d \in Clients : ~Deletes(P, T, d, q)
    BY <1>1 DEF DeletingOK
  <2> QED  BY <1>1, <2>1, <2>2, <2>3, <2>4 DEF DeletingOK
<1>9. PoolOK(n, i, R)
  <2>1. Here(p, {"create"}) = 0 /\ Here(P[c], {"create"}) = 0
    BY <1>3 DEF Here
  <2> QED  BY <1>1, <1>4, <2>1 DEF PoolOK
<1> QED  BY <1>1, <1>4, <1>5, <1>6, <1>7, <1>8, <1>9 DEF Good
-----------------------------------------------------------------------------
(* Requests about jobs. *)

(* Only requests change: L is J but for them.                              *)
Like(J, L) ==
    /\ L \in [Jobs -> JobType]
    /\ \A j \in Jobs : /\ L[j].state = J[j].state /\ L[j].on = J[j].on
                       /\ L[j].detached = J[j].detached
                       /\ J[j].state = "free" => L[j] = J[j]

LEMMA LikeKeeps ==
    ASSUME NEW Q, NEW J, NEW s, NEW n, NEW st, NEW P, NEW T, NEW K, NEW X,
           JobsOK(J, s), WorkOK(J, P, K, st), QueuesOK(Q, J, P, T),
           DeletingOK(Q, J, P, T, X), EnoughOK(Q, J, s, n, st),
           NEW L, Like(J, L)
    PROVE  /\ JobsOK(L, s) /\ WorkOK(L, P, K, st) /\ QueuesOK(Q, L, P, T)
           /\ DeletingOK(Q, L, P, T, X) /\ EnoughOK(Q, L, s, n, st)
           /\ \A q : Table(L, q) = Table(J, q)
<1>1. ASSUME NEW q PROVE Table(L, q) = Table(J, q) /\ RunningIn(L, q) = RunningIn(J, q)
  BY DEF Like, Table, RunningIn
<1>2. JobsOK(L, s)
  <2>1. {j \in Jobs : J[j].state = "scheduled"} = {j \in Jobs : L[j].state = "scheduled"}
    BY DEF Like
  <2>2. \A j \in Jobs : IF L[j].state = "free" THEN L[j] = FreeJob ELSE L[j].on \in Queues
    BY DEF Like, JobsOK
  <2> QED  BY <2>1, <2>2 DEF JobsOK, Like
<1>3. WorkOK(L, P, K, st)
  BY DEF WorkOK, Like
<1>4. QueuesOK(Q, L, P, T)
  BY <1>1 DEF QueuesOK
<1>5. DeletingOK(Q, L, P, T, X)
  <2>1. \A q : MayDelete(Q, L, q) <=> MayDelete(Q, J, q)
    BY <1>1 DEF MayDelete
  <2> QED  BY <2>1 DEF DeletingOK
<1>6. EnoughOK(Q, L, s, n, st)
  <2>1. \A j \in Range(s) : L[j].on = J[j].on
    BY DEF Like, JobsOK
  <2> QED  BY <2>1 DEF EnoughOK
<1> QED  BY <1>1, <1>2, <1>3, <1>4, <1>5, <1>6

(* The references of queue q are k. *)
NowRefs(Q, Q2, q, k) == Q2 = [Q EXCEPT ![q].refs = k]

LEMMA RefsAre ==
    ASSUME NEW Q \in [Queues -> QueueType], NEW q \in Queues, NEW k, NEW Q2, NowRefs(Q, Q2, q, k)
    PROVE  /\ k \in Nat => Q2 \in [Queues -> QueueType]
           /\ Q2[q].refs = k /\ \A r \in Queues : r # q => Q2[r] = Q[r]
           /\ \A r \in Queues : /\ Q2[r].made = Q[r].made /\ Q2[r].delete = Q[r].delete
                                /\ Q2[r].max = Q[r].max /\ Q2[r].running = Q[r].running
<1>1. Q[q] \in QueueType /\ DOMAIN Q = Queues
  OBVIOUS
<1>2. Q2[q] = [Q[q] EXCEPT !.refs = k] /\ \A r \in Queues : r # q => Q2[r] = Q[r]
  BY <1>1 DEF NowRefs
<1>3. ASSUME k \in Nat PROVE [Q[q] EXCEPT !.refs = k] \in QueueType
  BY <1>1, <1>3 DEF QueueType
<1>4. /\ [Q[q] EXCEPT !.refs = k].refs = k /\ [Q[q] EXCEPT !.refs = k].made = Q[q].made
      /\ [Q[q] EXCEPT !.refs = k].delete = Q[q].delete
      /\ [Q[q] EXCEPT !.refs = k].max = Q[q].max
      /\ [Q[q] EXCEPT !.refs = k].running = Q[q].running
  BY <1>1 DEF QueueType
<1>5. ASSUME k \in Nat PROVE Q2 \in [Queues -> QueueType]
  BY <1>1, <1>3, <1>5 DEF NowRefs
<1> QED  BY <1>2, <1>4, <1>5

(* Client c leaves its target, queue q and job j. *)
Leaves(Q, J, P, T, c, q, j, Q2, L, R) ==
    /\ c \in Clients /\ P[c] \in WaitPlaces /\ T[c].on = q /\ T[c].of = j
    /\ Unlocked(P, T, q)
    /\ NowRefs(Q, Q2, q, Q[q].refs - 1)
    /\ L = IF j = NoJob THEN J ELSE [J EXCEPT ![j].req = "none"]
    /\ Now(P, R, c, "out")

(* A client that was woken, or timed out, leaves its queue and takes its   *)
(* request back.                                                           *)
LEMMA LeaveKeeps ==
    ASSUME NEW Q, NEW J, NEW s, NEW n, NEW i, NEW st, NEW P, NEW T, NEW K,
           Good(Q, J, s, n, i, st, P, T, K, Queues),
           NEW c, NEW q, NEW j, NEW R, NEW Q2, NEW L, Leaves(Q, J, P, T, c, q, j, Q2, L, R)
    PROVE  /\ Good(Q2, L, s, n, i, st, R, T, K, Queues \ {q})
           /\ SleepOK(Q, J, s, P) => SleepOK(Q2, L, s, R)
           /\ q \in Queues /\ R[c] = "out" /\ Q[q].made /\ Like(J, L)
           /\ j # NoJob => j \in Jobs /\ J[j].on = q /\ L[j].req = "none"
<1>1. /\ PlacesOK(P, T) /\ JobsOK(J, s) /\ WorkOK(J, P, K, st) /\ WaitOK(J, P, T)
      /\ QueuesOK(Q, J, P, T) /\ DeletingOK(Q, J, P, T, Queues)
      /\ PoolOK(n, i, P) /\ EnoughOK(Q, J, s, n, st) /\ st \in BOOLEAN
  BY DEF Good
<1>0. /\ c \in Clients /\ P[c] \in WaitPlaces /\ T[c].on = q /\ T[c].of = j
      /\ Unlocked(P, T, q) /\ NowRefs(Q, Q2, q, Q[q].refs - 1) /\ Now(P, R, c, "out")
  BY DEF Leaves
<1>2. /\ q \in Queues
      /\ j # NoJob => j \in Jobs /\ J[j].on = q /\ J[j].req = "wait"
      /\ j # NoJob <=> P[c] \in {"wait", "waitWoken"}
  <2>1. ClientOK(J, P[c], T[c])
    BY <1>0, <1>1 DEF WaitOK
  <2> QED  BY <1>0, <2>1, JobAssumption DEF ClientOK, WaitPlaces
<1>3. /\ Like(J, L) /\ \A k \in Jobs : L[k].req = IF k = j THEN "none" ELSE J[k].req
  <2>1. CASE j = NoJob
    BY <1>0, <1>1, <2>1, JobAssumption DEF Like, JobsOK, Leaves
  <2>2. CASE j # NoJob
    <3>1. J \in [Jobs -> JobType] /\ J[j] \in JobType /\ L = [J EXCEPT ![j].req = "none"]
      BY <1>0, <1>1, <1>2, <2>2 DEF JobsOK, Leaves
    <3>2. [J[j] EXCEPT !.req = "none"] \in JobType
      BY <3>1 DEF JobType
    <3>3. L \in [Jobs -> JobType] /\ L[j] = [J[j] EXCEPT !.req = "none"]
      BY <1>0, <1>2, <2>2, <3>1, <3>2
    <3>4. \A k \in Jobs : k # j => L[k] = J[k]
      BY <3>1
    <3>5. /\ L[j].state = J[j].state /\ L[j].on = J[j].on /\ L[j].detached = J[j].detached
          /\ L[j].req = "none"
      BY <3>1, <3>3 DEF JobType
    <3>6. J[j].state # "free"
      BY <1>0, <1>1, <1>2, <2>2 DEF JobsOK, FreeJob
    <3> QED  BY <3>3, <3>4, <3>5, <3>6 DEF Like
  <2> QED  BY <2>1, <2>2
<1>4. T[c] \in [on : Queues \cup {"none"}, of : Jobs \cup {NoJob}] /\ Now(T, T, c, T[c])
  BY <1>0, <1>1 DEF PlacesOK, Now
<1>5. /\ PlacesOK(R, T) /\ R[c] = "out"
      /\ \A d \in Clients : d # c => R[d] = P[d]
      /\ \A w \in Workers : R[w] = P[w]
      /\ Count(R, Workers, {"sleep", "woken"}) = Count(P, Workers, {"sleep", "woken"})
      /\ Count(R, Workers, Up) = Count(P, Workers, Up)
      /\ Count(R, Clients, {"create"}) = Count(P, Clients, {"create"})
           + Here("out", {"create"}) - Here(P[c], {"create"})
      /\ Count(P, Clients, {"create"}) \in Nat
  BY <1>0, <1>1, <1>4, ClientMoves DEF ClientPlaces
<1>6. /\ JobsOK(L, s) /\ WorkOK(L, P, K, st) /\ QueuesOK(Q, L, P, T)
      /\ DeletingOK(Q, L, P, T, Queues) /\ EnoughOK(Q, L, s, n, st)
      /\ \A r : Table(L, r) = Table(J, r)
  BY <1>0, <1>1, <1>3, LikeKeeps
<1>7. /\ RefsTo(R, T, q) = RefsTo(P, T, q) \ {c} /\ c \in RefsTo(P, T, q)
      /\ \A r : r # q => RefsTo(R, T, r) = RefsTo(P, T, r)
  BY <1>0, <1>5 DEF RefsTo, WaitPlaces
<1>8. Q[q].refs - 1 = Cardinality(RefsTo(R, T, q)) /\ Q[q].refs - 1 \in Nat
  <2>1. IsFiniteSet(RefsTo(P, T, q))
    BY JobAssumption, FS_Subset DEF RefsTo
  <2>2. /\ IsFiniteSet(RefsTo(P, T, q) \ {c})
        /\ Cardinality(RefsTo(P, T, q) \ {c}) = Cardinality(RefsTo(P, T, q)) - 1
    BY <1>7, <2>1, FS_RemoveElement
  <2>3. Cardinality(RefsTo(P, T, q) \ {c}) \in Nat
    BY <2>2, FS_CardinalityType
  <2> QED  BY <1>0, <1>1, <1>2, <1>7, <2>2, <2>3 DEF QueuesOK
<1>9. /\ Q2 \in [Queues -> QueueType]
      /\ Q2[q].refs = Q[q].refs - 1 /\ \A r \in Queues : r # q => Q2[r] = Q[r]
      /\ \A r \in Queues : /\ Q2[r].made = Q[r].made /\ Q2[r].delete = Q[r].delete
                           /\ Q2[r].max = Q[r].max /\ Q2[r].running = Q[r].running
  BY <1>0, <1>1, <1>2, <1>8, RefsAre DEF QueuesOK
<1>10. Q[q].made
  <2>1. Q[q].refs # 0
    BY <1>8, <1>9, <1>1, <1>2 DEF QueuesOK, QueueType
  <2> QED  BY <1>0, <1>1, <1>2, <2>1 DEF QueuesOK, NoQueue
<1>11. WorkOK(L, R, K, st)
  BY <1>5, <1>6 DEF WorkOK
<1>12. WaitOK(L, R, T)
  <2>1. ASSUME NEW d \in Clients PROVE ClientOK(L, R[d], T[d])
    <3>1. ClientOK(J, P[d], T[d])
      BY <1>1 DEF WaitOK
    <3>2. CASE d = c
      BY <1>5, <3>2 DEF ClientOK
    <3>3. CASE d # c
      <4>1. R[d] = P[d]
        BY <1>5, <3>3
      <4>2. P[d] \in {"wait", "waitWoken"} => T[d].of # j
        <5>1. ASSUME P[d] \in {"wait", "waitWoken"}, T[d].of = j PROVE FALSE
          <6>1. j \in Jobs
            BY <3>1, <5>1 DEF ClientOK
          <6>2. WaitsFor(P, T, d, j) /\ WaitsFor(P, T, c, j)
            BY <1>0, <1>2, <5>1, <6>1, JobAssumption DEF WaitsFor
          <6> QED  BY <1>0, <1>1, <3>3, <6>1, <6>2 DEF WaitOK
        <5> QED  BY <5>1
      <4>3. \A k \in Jobs : L[k].state = J[k].state /\ L[k].on = J[k].on
        BY <1>3 DEF Like
      <4>4. \A r, k : k \in Table(L, r) => k \in Jobs
        BY DEF Table
      <4> QED  BY <1>3, <1>6, <3>1, <4>1, <4>2, <4>3, <4>4 DEF ClientOK
    <3> QED  BY <3>2, <3>3
  <2>2. ASSUME NEW d \in Clients, NEW k
        PROVE  WaitsFor(R, T, d, k) <=> WaitsFor(P, T, d, k) /\ d # c
    BY <1>5 DEF WaitsFor
  <2>3. ASSUME NEW k \in Jobs, L[k].req = "wait"
        PROVE  ~L[k].detached /\ \E d \in Clients : WaitsFor(R, T, d, k)
    <3>1. k # j /\ J[k].req = "wait" /\ L[k].detached = J[k].detached
      BY <1>3, <2>3 DEF Like
    <3>2. ~J[k].detached /\ \E d \in Clients : WaitsFor(P, T, d, k)
      BY <1>0, <1>1, <3>1 DEF WaitOK
    <3>3. ~WaitsFor(P, T, c, k)
      BY <1>0, <3>1 DEF WaitsFor
    <3> QED  BY <2>2, <3>1, <3>2, <3>3
  <2> QED  BY <1>0, <1>1, <2>1, <2>2, <2>3 DEF WaitOK
<1>13. QueuesOK(Q2, L, R, T)
  <2>1. ASSUME NEW r \in Queues PROVE Q2[r].refs = Cardinality(RefsTo(R, T, r))
    <3>1. CASE r = q
      BY <1>8, <1>9, <3>1
    <3>2. CASE r # q
      <4>1. Q2[r] = Q[r] /\ RefsTo(R, T, r) = RefsTo(P, T, r)
        BY <1>7, <1>9, <3>2
      <4>2. Q[r].refs = Cardinality(RefsTo(P, T, r))
        BY <1>1 DEF QueuesOK
      <4> QED  BY <4>1, <4>2
    <3> QED  BY <3>1, <3>2
  <2>2. \A r \in Queues : ~Q2[r].made => Q2[r] = NoQueue
    BY <1>6, <1>9, <1>10 DEF QueuesOK
  <2>3. \A r \in Queues : Q2[r].running = Cardinality(RunningIn(L, r)) /\ Q2[r].running <= Q2[r].max
    BY <1>6, <1>9 DEF QueuesOK
  <2>4. \A r \in Queues : Table(L, r) # {} => Q2[r].made
    BY <1>6, <1>9 DEF QueuesOK
  <2> QED  BY <1>9, <2>1, <2>2, <2>3, <2>4 DEF QueuesOK
<1>14. DeletingOK(Q2, L, R, T, Queues \ {q})
  <2>1. ASSUME NEW d \in Clients, NEW r PROVE Deletes(R, T, d, r) <=> Deletes(P, T, d, r)
    BY <1>0, <1>5 DEF Deletes, WaitPlaces
  <2>2. ASSUME NEW r \in Queues, r # q PROVE MayDelete(Q2, L, r) <=> MayDelete(Q, L, r)
    BY <1>9, <2>2 DEF MayDelete
  <2>3. \A d \in Clients : ~Deletes(P, T, d, q)
    BY <1>0 DEF Unlocked
  <2> QED  BY <1>6, <2>1, <2>2, <2>3 DEF DeletingOK
<1>15. PoolOK(n, i, R)
  <2>1. Here("out", {"create"}) = 0 /\ Here(P[c], {"create"}) = 0
    BY <1>0 DEF Here, WaitPlaces
  <2> QED  BY <1>0, <1>1, <1>5, <2>1 DEF PoolOK
<1>16. EnoughOK(Q2, L, s, n, st)
  <2>1. \A k \in Range(s) : L[k].on \in Queues
    BY <1>6 DEF JobsOK
  <2> QED  BY <1>6, <1>9, <2>1 DEF EnoughOK
<1>17. SleepOK(Q, J, s, P) => SleepOK(Q2, L, s, R)
  <2>1. ASSUME NEW k \in Range(s)
        PROVE  Runnable(Q2, L, k) => Runnable(Q, J, k) \/ k = j
    <3>1. k \in Jobs /\ L[k].on = J[k].on /\ L[k].on \in Queues
      BY <1>0, <1>1, <1>3, <1>6 DEF JobsOK, Like
    <3> QED  BY <1>3, <1>9, <3>1 DEF Runnable
  <2>2. ASSUME NEW k \in Range(s)
        PROVE  /\ L[k].req = "cancel" => J[k].req = "cancel"
               /\ k = j /\ J[k].req # "cancel" => (Runnable(Q2, L, k) <=> Runnable(Q, J, k))
    <3>1. k \in Jobs /\ L[k].on = J[k].on /\ L[k].on \in Queues
      BY <1>0, <1>1, <1>3, <1>6 DEF JobsOK, Like
    <3> QED  BY <1>3, <1>9, <3>1 DEF Runnable
  <2> QED  BY <1>5, <2>1, <2>2 DEF SleepOK
<1> QED
  BY <1>0, <1>1, <1>2, <1>3, <1>5, <1>6, <1>10, <1>11, <1>12, <1>13, <1>14, <1>15, <1>16, <1>17 DEF Good
(* The lock of queue q is free: nobody deletes it.                         *)
LEMMA OpenKeeps ==
    ASSUME NEW Q, NEW J, NEW s, NEW n, NEW i, NEW st, NEW P, NEW T, NEW K, NEW q,
           Good(Q, J, s, n, i, st, P, T, K, Queues),
           Unlocked(P, T, q)
    PROVE  Good(Q, J, s, n, i, st, P, T, K, Queues \ {q})
<1>1. DeletingOK(Q, J, P, T, Queues)
  BY DEF Good
<1>2. DeletingOK(Q, J, P, T, Queues \ {q})
  BY <1>1 DEF DeletingOK, Unlocked
<1> QED  BY <1>2 DEF Good

(* A done job that nobody waits for is freed.                              *)
LEMMA FreeKeeps ==
    ASSUME NEW Q, NEW J, NEW s, NEW n, NEW i, NEW st, NEW P, NEW T, NEW K,
           NEW q, NEW j \in Jobs,
           Good(Q, J, s, n, i, st, P, T, K, Queues \ {q}),
           J[j].on = q, J[j].state = "done", J[j].req # "wait",
           NEW L, Now(J, L, j, FreeJob)
    PROVE  /\ Good(Q, L, s, n, i, st, P, T, K, Queues \ {q})
           /\ SleepOK(Q, J, s, P) => SleepOK(Q, L, s, P)
<1>1. /\ PlacesOK(P, T) /\ JobsOK(J, s) /\ WorkOK(J, P, K, st) /\ WaitOK(J, P, T)
      /\ QueuesOK(Q, J, P, T) /\ DeletingOK(Q, J, P, T, Queues \ {q})
      /\ PoolOK(n, i, P) /\ EnoughOK(Q, J, s, n, st) /\ st \in BOOLEAN
  BY DEF Good
<1>2. /\ L[j] = FreeJob /\ \A k \in Jobs : k # j => L[k] = J[k]
      /\ L \in [Jobs -> JobType]
  <2>1. J \in [Jobs -> JobType] /\ FreeJob \in JobType
    BY <1>1 DEF JobsOK, FreeJob, JobType
  <2> QED  BY <2>1 DEF Now
<1>3. /\ FreeJob.state = "free" /\ FreeJob.req = "none" /\ FreeJob.on = "none"
      /\ "none" \notin Queues
  BY JobAssumption DEF FreeJob
<1>4. j \notin Range(s) /\ \A k \in Range(s) : k \in Jobs /\ L[k] = J[k]
  BY <1>1, <1>2 DEF JobsOK
<1>5. /\ \A r : Table(L, r) = Table(J, r) \ {j} /\ RunningIn(L, r) = RunningIn(J, r)
      /\ \A r : r # q => Table(L, r) = Table(J, r)
  BY <1>2, <1>3 DEF Table, RunningIn
<1>6. JobsOK(L, s)
  <2>1. {k \in Jobs : J[k].state = "scheduled"} = {k \in Jobs : L[k].state = "scheduled"}
    BY <1>2, <1>3
  <2>2. \A k \in Jobs : IF L[k].state = "free" THEN L[k] = FreeJob ELSE L[k].on \in Queues
    BY <1>1, <1>2, <1>3 DEF JobsOK
  <2> QED  BY <1>1, <1>2, <2>1, <2>2 DEF JobsOK
<1>7. WorkOK(L, P, K, st)
  BY <1>1, <1>2, <1>3 DEF WorkOK
<1>8. WaitOK(L, P, T)
  <2>1. ASSUME NEW d \in Clients PROVE ClientOK(L, P[d], T[d])
    <3>1. ClientOK(J, P[d], T[d])
      BY <1>1 DEF WaitOK
    <3>2. P[d] \in {"wait", "waitWoken"} => T[d].of # j
      BY <3>1 DEF ClientOK
    <3>3. \A r, k : k \in Table(L, r) => k \in Table(J, r) /\ L[k] = J[k]
      BY <1>2, <1>3 DEF Table
    <3> QED  BY <1>2, <3>1, <3>2, <3>3 DEF ClientOK
  <2> QED  BY <1>1, <1>2, <1>3, <2>1 DEF WaitOK
<1>9. QueuesOK(Q, L, P, T)
  BY <1>1, <1>5 DEF QueuesOK
<1>10. DeletingOK(Q, L, P, T, Queues \ {q})
  <2>1. \A r : r # q => (MayDelete(Q, L, r) <=> MayDelete(Q, J, r))
    BY <1>5 DEF MayDelete
  <2> QED  BY <1>1, <2>1 DEF DeletingOK
<1>11. EnoughOK(Q, L, s, n, st)
  BY <1>1, <1>4 DEF EnoughOK
<1>12. SleepOK(Q, J, s, P) => SleepOK(Q, L, s, P)
  BY <1>4 DEF SleepOK, Runnable
<1> QED  BY <1>1, <1>6, <1>7, <1>8, <1>9, <1>10, <1>11, <1>12 DEF Good

(* The request about job j is r. *)
Asked(J, L, j, r) == L = [J EXCEPT ![j].req = r]

(* A job that is not done, and nobody waits for, is to be cancelled.       *)
LEMMA CancelKeeps ==
    ASSUME NEW Q, NEW J, NEW s, NEW n, NEW i, NEW st, NEW P, NEW T, NEW K, NEW X,
           NEW j \in Jobs, Good(Q, J, s, n, i, st, P, T, K, X),
           J[j].state # "free", J[j].req # "wait",
           NEW L, Asked(J, L, j, "cancel")
    PROVE  Good(Q, L, s, n, i, st, P, T, K, X)
<1>1. /\ PlacesOK(P, T) /\ JobsOK(J, s) /\ WorkOK(J, P, K, st) /\ WaitOK(J, P, T)
      /\ QueuesOK(Q, J, P, T) /\ DeletingOK(Q, J, P, T, X)
      /\ PoolOK(n, i, P) /\ EnoughOK(Q, J, s, n, st) /\ st \in BOOLEAN
  BY DEF Good
<1>2. /\ Like(J, L) /\ L[j].req = "cancel" /\ \A k \in Jobs : k # j => L[k] = J[k]
  <2>1. J \in [Jobs -> JobType] /\ J[j] \in JobType
    BY <1>1 DEF JobsOK
  <2>2. [J[j] EXCEPT !.req = "cancel"] \in JobType
    BY <2>1 DEF JobType
  <2>3. /\ L \in [Jobs -> JobType] /\ L[j] = [J[j] EXCEPT !.req = "cancel"]
        /\ \A k \in Jobs : k # j => L[k] = J[k]
    BY <2>1, <2>2 DEF Asked
  <2>4. /\ L[j].state = J[j].state /\ L[j].on = J[j].on /\ L[j].detached = J[j].detached
        /\ L[j].req = "cancel"
    BY <2>1, <2>3 DEF JobType
  <2> QED  BY <2>3, <2>4 DEF Like
<1>3. /\ JobsOK(L, s) /\ WorkOK(L, P, K, st) /\ QueuesOK(Q, L, P, T)
      /\ DeletingOK(Q, L, P, T, X) /\ EnoughOK(Q, L, s, n, st)
      /\ \A q : Table(L, q) = Table(J, q)
  BY <1>1, <1>2, LikeKeeps
<1>4. WaitOK(L, P, T)
  <2>1. ASSUME NEW d \in Clients PROVE ClientOK(L, P[d], T[d])
    <3>1. ClientOK(J, P[d], T[d])
      BY <1>1 DEF WaitOK
    <3>2. P[d] \in {"wait", "waitWoken"} => T[d].of # j
      BY <3>1 DEF ClientOK
    <3>3. \A k \in Jobs : L[k].state = J[k].state
      BY <1>2 DEF Like
    <3>4. \A r, k : k \in Table(L, r) => k \in Jobs
      BY DEF Table
    <3> QED  BY <1>2, <1>3, <3>1, <3>2, <3>3, <3>4 DEF ClientOK
  <2> QED  BY <1>1, <1>2, <2>1 DEF WaitOK
<1> QED  BY <1>1, <1>3, <1>4 DEF Good

(* A queue is to be deleted. *)
LEMMA FlagKeeps ==
    ASSUME NEW Q, NEW J, NEW s, NEW n, NEW i, NEW st, NEW P, NEW T, NEW K,
           NEW q \in Queues, Good(Q, J, s, n, i, st, P, T, K, Queues \ {q}), Q[q].made,
           NEW Q2, Q2 = [Q EXCEPT ![q].delete = TRUE]
    PROVE  Good(Q2, J, s, n, i, st, P, T, K, Queues \ {q})
<1>1. /\ PlacesOK(P, T) /\ JobsOK(J, s) /\ WorkOK(J, P, K, st) /\ WaitOK(J, P, T)
      /\ QueuesOK(Q, J, P, T) /\ DeletingOK(Q, J, P, T, Queues \ {q})
      /\ PoolOK(n, i, P) /\ EnoughOK(Q, J, s, n, st) /\ st \in BOOLEAN
  BY DEF Good
<1>2. /\ Q2 \in [Queues -> QueueType] /\ \A r \in Queues : r # q => Q2[r] = Q[r]
      /\ \A r \in Queues : /\ Q2[r].made = Q[r].made /\ Q2[r].refs = Q[r].refs
                           /\ Q2[r].max = Q[r].max /\ Q2[r].running = Q[r].running
  <2>1. Q \in [Queues -> QueueType] /\ Q[q] \in QueueType
    BY <1>1 DEF QueuesOK
  <2>2. [Q[q] EXCEPT !.delete = TRUE] \in QueueType
    BY <2>1 DEF QueueType
  <2>3. /\ Q2 \in [Queues -> QueueType] /\ Q2[q] = [Q[q] EXCEPT !.delete = TRUE]
        /\ \A r \in Queues : r # q => Q2[r] = Q[r]
    BY <2>1, <2>2
  <2>4. /\ Q2[q].made = Q[q].made /\ Q2[q].refs = Q[q].refs
        /\ Q2[q].max = Q[q].max /\ Q2[q].running = Q[q].running
    BY <2>1, <2>3 DEF QueueType
  <2> QED  BY <2>3, <2>4
<1>3. QueuesOK(Q2, J, P, T)
  <2>1. \A r \in Queues : ~Q2[r].made => Q2[r] = NoQueue
    BY <1>1, <1>2 DEF QueuesOK
  <2> QED  BY <1>1, <1>2, <2>1 DEF QueuesOK
<1>4. DeletingOK(Q2, J, P, T, Queues \ {q})
  <2>1. \A r \in Queues : r # q => (MayDelete(Q2, J, r) <=> MayDelete(Q, J, r))
    BY <1>2 DEF MayDelete
  <2> QED  BY <1>1, <2>1 DEF DeletingOK
<1>5. EnoughOK(Q2, J, s, n, st)
  <2>1. \A k \in Range(s) : J[k].on \in Queues
    BY <1>1 DEF JobsOK
  <2> QED  BY <1>1, <1>2, <2>1 DEF EnoughOK
<1> QED  BY <1>1, <1>3, <1>4, <1>5 DEF Good
-----------------------------------------------------------------------------
(* The commands that end with ReleaseQueue. *)

LEMMA LockIs ==
    ASSUME NEW q
    PROVE  LockFree(q) <=> Unlocked(pc, target, q)
BY DEF LockFree, At, Deletes, Unlocked

LEMMA ReleaseStep ==
    ASSUME NEW Q, NEW J, NEW s, NEW n, NEW i, NEW st, NEW P, NEW R, NEW K,
           NEW c \in Clients, NEW q \in Queues, P \in [Threads -> ClientPlaces \cup WorkerPlaces],
           Now(P, R, c, "out"),
           Good(Q, J, s, n, i, st, R, target, K, Queues \ {q}),
           SleepOK(Q, J, s, R), Release(c, Q, J, q, P)
    PROVE  Good(Q, J, s, n, i, st, pc', target', K, Queues) /\ SleepOK(Q, J, s, pc')
<1>1. R[c] = "out" /\ \A x : [P EXCEPT ![c] = x] = [R EXCEPT ![c] = x]
  BY DEF Now, Threads
<1>2. IF MayDelete(Q, J, q)
      THEN /\ pc' = [R EXCEPT ![c] = "deleting"]
           /\ target' = [target EXCEPT ![c] = [Nothing EXCEPT !.on = q]]
      ELSE /\ pc' = [R EXCEPT ![c] = "out"]
           /\ target' = [target EXCEPT ![c] = Nothing]
  BY <1>1 DEF Release
<1>3. /\ Good(Q, J, s, n, i, st, pc', target', K, Queues)
      /\ \A w \in Workers : pc'[w] = R[w]
  BY <1>1, <1>2, ReleaseKeeps
<1>4. SleepOK(Q, J, s, pc')
  BY <1>3 DEF SleepOK
<1> QED  BY <1>3, <1>4

LEMMA JobInvIs ==
    ASSUME JobInv
    PROVE  /\ PlacesOK(pc, target) /\ JobsOK(job, scheduled) /\ WorkOK(job, pc, work, stop)
           /\ WaitOK(job, pc, target) /\ QueuesOK(queue, job, pc, target)
           /\ DeletingOK(queue, job, pc, target, Queues)
           /\ PoolOK(nthreads, nidle, pc) /\ EnoughOK(queue, job, scheduled, nthreads, stop)
           /\ pc \in [Threads -> ClientPlaces \cup WorkerPlaces] /\ stop \in BOOLEAN
BY DEF JobInv, Good, PlacesOK

(* A client that waits leaves. *)
LEMMA LeavesIs ==
    ASSUME JobInv, NEW c \in Clients, pc[c] \in WaitPlaces, LockFree(target[c].on),
           NEW Q2, Q2 = Unreferenced(target[c].on), NEW R, Now(pc, R, c, "out"),
           NEW L, L = IF target[c].of = NoJob THEN job ELSE [job EXCEPT ![target[c].of].req = "none"]
    PROVE  Leaves(queue, job, pc, target, c, target[c].on, target[c].of, Q2, L, R)
<1>1. target[c].on \in Queues /\ queue \in [Queues -> QueueType]
  BY JobInvIs DEF ClientOK, WaitOK, WaitPlaces, QueuesOK
<1> QED
  BY <1>1, LockIs DEF Leaves, NowRefs, Unreferenced

LEMMA LeaveStep ==
    ASSUME JobInv, NEW c, NEW q, NEW j, NEW R, NEW Q2, NEW L,
           Leaves(queue, job, pc, target, c, q, j, Q2, L, R)
    PROVE  /\ Good(Q2, L, scheduled, nthreads, nidle, stop, R, target, work, Queues \ {q})
           /\ SleepOK(Q2, L, scheduled, R)
           /\ q \in Queues /\ Like(job, L)
           /\ j # NoJob => j \in Jobs /\ job[j].on = q /\ L[j].req = "none"
<1>1. /\ Good(queue, job, scheduled, nthreads, nidle, stop, pc, target, work, Queues)
      /\ SleepOK(queue, job, scheduled, pc)
  BY DEF JobInv
<1> QED
  BY <1>1, LeaveKeeps

LEMMA TimeOutKeeps ==
    ASSUME JobInv, NEW c \in Clients, TimeOut(c)
    PROVE  JobInv'
<1> DEFINE q == target[c].on
           R == [pc EXCEPT ![c] = "out"]
<1>1. /\ pc[c] \in WaitPlaces /\ LockFree(q)
      /\ job' = IF target[c].of = NoJob THEN job ELSE [job EXCEPT ![target[c].of].req = "none"]
      /\ queue' = Unreferenced(q)
      /\ Release(c, queue', job', q, pc)
      /\ UNCHANGED <<scheduled, pool, work>>
  BY DEF TimeOut, WaitPlaces
<1>3. Now(pc, R, c, "out")
  BY DEF Now
<1> HIDE DEF R
<1>4. /\ Good(queue', job', scheduled, nthreads, nidle, stop, R, target, work, Queues \ {q})
      /\ SleepOK(queue', job', scheduled, R) /\ q \in Queues
  <2>1. Leaves(queue, job, pc, target, c, q, target[c].of, queue', job', R)
    BY <1>1, <1>3, LeavesIs
  <2> QED  BY <2>1, LeaveStep
<1>5. /\ Good(queue', job', scheduled, nthreads, nidle, stop, pc', target', work, Queues)
      /\ SleepOK(queue', job', scheduled, pc')
  BY <1>1, <1>3, <1>4, ReleaseStep, JobInvIs
<1> QED  BY <1>1, <1>5 DEF JobInv, pool

LEMMA AgainKeeps ==
    ASSUME JobInv, NEW c \in Clients, NEW p, ClientOK(job, p, target[c]),
           (pc[c] = "waitWoken" /\ p = "wait") \/ (pc[c] = "anyWoken" /\ p = "any"),
           pc' = [pc EXCEPT ![c] = p],
           UNCHANGED <<queue, job, scheduled, nthreads, nidle, stop, target, work>>
    PROVE  JobInv'
<1>1. Turns(pc, pc') /\ \A w \in Workers : pc'[w] = pc[w]
  <2>1. p \in ClientPlaces /\ \A w \in Workers : w # c
    BY JobAssumption DEF ClientPlaces
  <2> QED  BY <2>1, JobInvIs DEF Turns, Threads
<1>2. \A d \in Clients : ClientOK(job, pc'[d], target[d])
  BY JobInvIs DEF WaitOK, Threads
<1>3. /\ Good(queue, job, scheduled, nthreads, nidle, stop, pc, target, work, Queues)
      /\ SleepOK(queue, job, scheduled, pc)
  BY DEF JobInv
<1>4. Good(queue, job, scheduled, nthreads, nidle, stop, pc', target, work, Queues)
  BY <1>1, <1>2, <1>3, TurnKeeps
<1>5. SleepOK(queue, job, scheduled, pc')
  BY <1>1, <1>3 DEF SleepOK
<1> QED  BY <1>4, <1>5 DEF JobInv

LEMMA WaitedAnyKeeps ==
    ASSUME JobInv, NEW c \in Clients, WaitedAny(c)
    PROVE  JobInv'
<1> DEFINE q == target[c].on
           R == [pc EXCEPT ![c] = "out"]
<1>1. pc[c] = "anyWoken" /\ LockFree(q) /\ UNCHANGED <<job, scheduled, pool, work>>
  BY DEF WaitedAny
<1>2. CASE Table(job, q) = {} \/ \E j \in Table(job, q) : job[j].state = "done"
  <2>1. queue' = Unreferenced(q) /\ Release(c, queue', job, q, pc)
    BY <1>2 DEF WaitedAny
  <2>2. target[c].of = NoJob /\ pc[c] \in WaitPlaces
    BY <1>1, JobInvIs DEF WaitOK, ClientOK, WaitPlaces
  <2>3. Now(pc, R, c, "out")
    BY DEF Now
  <2> HIDE DEF R
  <2>4. /\ Good(queue', job, scheduled, nthreads, nidle, stop, R, target, work, Queues \ {q})
        /\ SleepOK(queue', job, scheduled, R) /\ q \in Queues
    <3>1. Leaves(queue, job, pc, target, c, q, target[c].of, queue', job, R)
      BY <1>1, <2>1, <2>2, <2>3, LeavesIs
    <3> QED  BY <3>1, LeaveStep
  <2>5. /\ Good(queue', job, scheduled, nthreads, nidle, stop, pc', target', work, Queues)
        /\ SleepOK(queue', job, scheduled, pc')
    BY <2>1, <2>3, <2>4, ReleaseStep, JobInvIs
  <2> QED  BY <1>1, <2>5 DEF JobInv, pool
<1>3. CASE ~(Table(job, q) = {} \/ \E j \in Table(job, q) : job[j].state = "done")
  <2>1. pc' = [pc EXCEPT ![c] = "any"] /\ UNCHANGED <<queue, target>>
    BY <1>3 DEF WaitedAny
  <2>3. ClientOK(job, pc[c], target[c])
    BY JobInvIs DEF WaitOK
  <2>4. ClientOK(job, "any", target[c])
    BY <1>1, <1>3, <2>3 DEF ClientOK
  <2> QED  BY <1>1, <2>1, <2>4, AgainKeeps DEF pool
<1> QED  BY <1>2, <1>3
(* What wait does with a job that is done. *)
LEMMA TakeKeeps ==
    ASSUME JobInv, NEW c \in Clients, NEW q, NEW j \in Jobs, NEW R, NEW Q2, NEW L,
           Good(Q2, L, scheduled, nthreads, nidle, stop, R, target, work, Queues \ {q}),
           SleepOK(Q2, L, scheduled, R), Now(pc, R, c, "out"), q \in Queues,
           L[j].on = q, L[j].state = "done", L[j].req # "wait", job[j].on = q,
           [job EXCEPT ![j] = FreeJob] = [L EXCEPT ![j] = FreeJob],
           TakeResult(c, j, Q2)
    PROVE  JobInv'
<1>1. /\ job' = [L EXCEPT ![j] = FreeJob] /\ queue' = Q2
      /\ Release(c, queue', job', q, pc)
      /\ UNCHANGED <<scheduled, pool, work>>
  BY DEF TakeResult
<1>2. Now(L, job', j, FreeJob)
  BY <1>1 DEF Now
<1>3. /\ Good(Q2, job', scheduled, nthreads, nidle, stop, R, target, work, Queues \ {q})
      /\ SleepOK(Q2, job', scheduled, R)
  BY <1>2, FreeKeeps
<1>4. /\ Good(queue', job', scheduled, nthreads, nidle, stop, pc', target', work, Queues)
      /\ SleepOK(queue', job', scheduled, pc')
  BY <1>1, <1>3, ReleaseStep, JobInvIs
<1> QED  BY <1>1, <1>4 DEF JobInv, pool

LEMMA WaitedKeeps ==
    ASSUME JobInv, NEW c \in Clients, Waited(c)
    PROVE  JobInv'
<1> DEFINE q == target[c].on
           j == target[c].of
           R == [pc EXCEPT ![c] = "out"]
           L == [job EXCEPT ![j].req = "none"]
           Q2 == Unreferenced(q)
<1>1. pc[c] = "waitWoken" /\ LockFree(q) /\ pc[c] \in WaitPlaces
  BY DEF Waited, WaitPlaces
<1>2. ClientOK(job, pc[c], target[c])
  BY JobInvIs DEF WaitOK
<1>3. j \in Jobs /\ q \in Queues /\ job[j].on = q /\ j # NoJob
  BY <1>1, <1>2, JobAssumption DEF ClientOK
<1>4. CASE job[j].state = "done"
  <2>1. TakeResult(c, j, Q2)
    BY <1>4 DEF Waited
  <2>2. job \in [Jobs -> JobType]
    BY JobInvIs DEF JobsOK
  <2>3. [job EXCEPT ![j] = FreeJob] = [L EXCEPT ![j] = FreeJob]
    BY <1>3, <2>2
  <2>4. /\ L = IF target[c].of = NoJob THEN job ELSE [job EXCEPT ![target[c].of].req = "none"]
        /\ Q2 = Unreferenced(target[c].on) /\ Now(pc, R, c, "out")
    BY <1>3 DEF Now
  <2> HIDE DEF L, R, Q2
  <2>5. Leaves(queue, job, pc, target, c, q, j, Q2, L, R)
    BY <1>1, <2>4, LeavesIs
  <2>6. /\ Good(Q2, L, scheduled, nthreads, nidle, stop, R, target, work, Queues \ {q})
        /\ SleepOK(Q2, L, scheduled, R)
        /\ Like(job, L) /\ L[j].req = "none"
    BY <1>3, <2>5, LeaveStep
  <2>7. L[j].on = q /\ L[j].state = "done" /\ L[j].req # "wait"
    BY <1>3, <1>4, <2>6 DEF Like
  <2> QED  BY <1>3, <2>1, <2>3, <2>4, <2>6, <2>7, TakeKeeps
<1>5. CASE job[j].state # "done"
  <2>1. /\ pc' = [pc EXCEPT ![c] = "wait"]
        /\ UNCHANGED <<queue, job, scheduled, nthreads, nidle, stop, target, work>>
    BY <1>5 DEF Waited, pool
  <2>2. ClientOK(job, "wait", target[c])
    BY <1>1, <1>2, <1>5 DEF ClientOK
  <2> QED  BY <1>1, <2>1, <2>2, AgainKeeps
<1> QED  BY <1>4, <1>5

(* Nobody is at out and waits: what a command finds when it begins.        *)
LEMMA BeginsIs ==
    ASSUME JobInv, NEW q, Lookup(q)
    PROVE  Good(queue, job, scheduled, nthreads, nidle, stop, pc, target, work, Queues \ {q})
<1>1. Unlocked(pc, target, q)
  BY LockIs DEF Lookup
<1>2. Good(queue, job, scheduled, nthreads, nidle, stop, pc, target, work, Queues)
  BY DEF JobInv
<1> QED  BY <1>1, <1>2, OpenKeeps

LEMMA CancelCommandKeeps ==
    ASSUME JobInv, NEW c \in Clients, NEW j \in Jobs, Cancel(c, j)
    PROVE  JobInv'
<1> DEFINE q == job[j].on
           P1 == QueueWoken(pc, q)
           P == PoolWoken(P1)
<1>1. /\ pc[c] = "out" /\ job[j].state # "free" /\ Lookup(q) /\ job[j].req # "wait"
      /\ job' = [job EXCEPT ![j] = IF @.state = "done" THEN FreeJob ELSE [@ EXCEPT !.req = "cancel"]]
      /\ Release(c, queue', job', q, P)
      /\ UNCHANGED <<queue, scheduled, pool, work>>
  BY DEF Cancel, Enter
<1>2. q \in Queues /\ job \in [Jobs -> JobType]
  BY <1>1, JobInvIs DEF JobsOK
<1>3. Wakes(pc, P1) /\ P1[c] = "out"
  BY <1>1, QueueWokenWakes, JobInvIs
<1> HIDE DEF P1, P
<1>4. /\ Good(queue, job, scheduled, nthreads, nidle, stop, pc, target, work, Queues \ {q})
      /\ SleepOK(queue, job, scheduled, pc)
  BY <1>1, BeginsIs DEF JobInv
<1>5. Good(queue, job, scheduled, nthreads, nidle, stop, P1, target, work, Queues \ {q})
  BY <1>3, <1>4, WakeKeeps
<1>6. PlacesOK(P1, target)
  BY <1>5 DEF Good
<1>7. Wakes(P1, P) /\ P[c] = "out" /\ \A w \in Workers : P[w] # "sleep"
  BY <1>3, <1>6, PoolWokenWakes DEF P
<1>8. Good(queue, job, scheduled, nthreads, nidle, stop, P, target, work, Queues \ {q})
  BY <1>5, <1>7, WakeKeeps
<1>9. Good(queue, job', scheduled, nthreads, nidle, stop, P, target, work, Queues \ {q})
  <2>1. CASE job[j].state = "done"
    <3>1. Now(job, job', j, FreeJob)
      BY <1>1, <1>2, <2>1 DEF Now
    <3> QED  BY <1>1, <1>8, <2>1, <3>1, FreeKeeps
  <2>2. CASE job[j].state # "done"
    <3>1. Asked(job, job', j, "cancel")
      BY <1>1, <1>2, <2>2 DEF Asked
    <3> QED  BY <1>1, <1>8, <2>2, <3>1, CancelKeeps
  <2> QED  BY <2>1, <2>2
<1>10. P \in [Threads -> ClientPlaces \cup WorkerPlaces]
  BY <1>8 DEF Good, PlacesOK
<1>11. Now(P, P, c, "out") /\ SleepOK(queue, job', scheduled, P)
  BY <1>7, <1>10 DEF Now, SleepOK
<1>12. /\ Good(queue', job', scheduled, nthreads, nidle, stop, pc', target', work, Queues)
       /\ SleepOK(queue', job', scheduled, pc')
  BY <1>1, <1>2, <1>9, <1>10, <1>11, ReleaseStep
<1> QED  BY <1>1, <1>12 DEF JobInv, pool

LEMMA DeleteQueueKeeps ==
    ASSUME JobInv, NEW c \in Clients, NEW q \in Queues, DeleteQueue(c, q)
    PROVE  JobInv'
<1> DEFINE P == PoolWoken(pc)
<1>1. /\ pc[c] = "out" /\ Lookup(q) /\ queue[q].made
      /\ queue' = [queue EXCEPT ![q].delete = TRUE]
      /\ Release(c, queue', job, q, P)
      /\ UNCHANGED <<job, scheduled, pool, work>>
  BY DEF DeleteQueue, Enter, Lookup
<1>2. Wakes(pc, P) /\ P[c] = "out" /\ \A w \in Workers : P[w] # "sleep"
  BY <1>1, PoolWokenWakes, JobInvIs
<1> HIDE DEF P
<1>3. Good(queue, job, scheduled, nthreads, nidle, stop, pc, target, work, Queues \ {q})
  BY <1>1, BeginsIs
<1>4. Good(queue, job, scheduled, nthreads, nidle, stop, P, target, work, Queues \ {q})
  BY <1>2, <1>3, WakeKeeps
<1>5. Good(queue', job, scheduled, nthreads, nidle, stop, P, target, work, Queues \ {q})
  BY <1>1, <1>4, FlagKeeps
<1>6. P \in [Threads -> ClientPlaces \cup WorkerPlaces]
  BY <1>4 DEF Good, PlacesOK
<1>7. Now(P, P, c, "out") /\ SleepOK(queue', job, scheduled, P)
  BY <1>2, <1>6 DEF Now, SleepOK
<1>8. /\ Good(queue', job, scheduled, nthreads, nidle, stop, pc', target', work, Queues)
      /\ SleepOK(queue', job, scheduled, pc')
  BY <1>1, <1>5, <1>6, <1>7, ReleaseStep
<1> QED  BY <1>1, <1>8 DEF JobInv, pool
-----------------------------------------------------------------------------
(* The commands that wait. *)

(* Client c joins the clients that wait at place p for job j, or any job,  *)
(* of queue q.                                                             *)
Joins(Q, J, P, T, c, q, j, p, Q2, L, R, U) ==
    /\ c \in Clients /\ q \in Queues /\ P[c] = "out" /\ Unlocked(P, T, q) /\ Q[q].made
    /\ NowRefs(Q, Q2, q, Q[q].refs + 1)
    /\ Now(P, R, c, p) /\ Now(T, U, c, [on |-> q, of |-> j])
    /\ \/ /\ p = "wait" /\ j \in Jobs /\ J[j].on = q /\ J[j].state # "free" /\ J[j].state # "done"
          /\ ~J[j].detached /\ J[j].req = "none" /\ Asked(J, L, j, "wait")
       \/ /\ p = "any" /\ j = NoJob /\ L = J
          /\ \A k \in Table(J, q) : J[k].state # "done"

LEMMA JoinKeeps ==
    ASSUME NEW Q, NEW J, NEW s, NEW n, NEW i, NEW st, NEW P, NEW T, NEW K,
           Good(Q, J, s, n, i, st, P, T, K, Queues), SleepOK(Q, J, s, P),
           NEW c, NEW q, NEW j, NEW p, NEW Q2, NEW L, NEW R, NEW U,
           Joins(Q, J, P, T, c, q, j, p, Q2, L, R, U)
    PROVE  Good(Q2, L, s, n, i, st, R, U, K, Queues) /\ SleepOK(Q2, L, s, R)
<1> DEFINE x == [on |-> q, of |-> j]
<1>0. /\ c \in Clients /\ q \in Queues /\ P[c] = "out" /\ Unlocked(P, T, q) /\ Q[q].made
      /\ NowRefs(Q, Q2, q, Q[q].refs + 1) /\ Now(P, R, c, p) /\ Now(T, U, c, x)
  BY DEF Joins
<1>1. /\ PlacesOK(P, T) /\ JobsOK(J, s) /\ WorkOK(J, P, K, st) /\ WaitOK(J, P, T)
      /\ QueuesOK(Q, J, P, T) /\ DeletingOK(Q, J, P, T, Queues)
      /\ PoolOK(n, i, P) /\ EnoughOK(Q, J, s, n, st) /\ st \in BOOLEAN
  BY DEF Good
<1>2. /\ Like(J, L) /\ \A k \in Jobs : k # j => L[k] = J[k]
      /\ \A k \in Jobs : k = j => L[k].req = "wait" /\ J[k].req = "none"
  <2>0. J \in [Jobs -> JobType]
    BY <1>1 DEF JobsOK
  <2>1. CASE p = "wait"
    <3>1. j \in Jobs /\ Asked(J, L, j, "wait") /\ J[j].req = "none" /\ J[j].state # "free"
      BY <2>1 DEF Joins
    <3>2. [J[j] EXCEPT !.req = "wait"] \in JobType
      BY <2>0, <3>1 DEF JobType
    <3>3. /\ L \in [Jobs -> JobType] /\ L[j] = [J[j] EXCEPT !.req = "wait"]
          /\ \A k \in Jobs : k # j => L[k] = J[k]
      BY <2>0, <3>1, <3>2 DEF Asked
    <3>4. /\ L[j].state = J[j].state /\ L[j].on = J[j].on /\ L[j].detached = J[j].detached
          /\ L[j].req = "wait"
      BY <2>0, <3>1, <3>3 DEF JobType
    <3> QED  BY <3>1, <3>3, <3>4 DEF Like
  <2>2. CASE p # "wait"
    BY <2>0, <2>2, JobAssumption DEF Joins, Like
  <2> QED  BY <2>1, <2>2
<1>3. /\ JobsOK(L, s) /\ WorkOK(L, P, K, st) /\ QueuesOK(Q, L, P, T)
      /\ DeletingOK(Q, L, P, T, Queues) /\ EnoughOK(Q, L, s, n, st)
      /\ \A r : Table(L, r) = Table(J, r)
  BY <1>1, <1>2, LikeKeeps
<1>4. /\ p \in {"wait", "any"} /\ p \in ClientPlaces /\ ClientOK(L, p, x)
      /\ x \in [on : Queues \cup {"none"}, of : Jobs \cup {NoJob}]
      /\ x.on = q /\ x.of = j
      /\ p = "wait" => j \in Jobs /\ ~L[j].detached /\ J[j].req = "none"
      /\ p = "any" => j = NoJob
  <2>1. CASE p = "wait"
    <3>1. /\ j \in Jobs /\ J[j].req = "none" /\ J[j].on = q /\ J[j].state # "done"
          /\ ~J[j].detached
      BY <2>1 DEF Joins
    <3>2. L[j].req = "wait" /\ L[j].on = q /\ L[j].state # "done" /\ ~L[j].detached
      BY <1>2, <3>1 DEF Like
    <3> QED  BY <1>0, <2>1, <3>1, <3>2 DEF ClientPlaces, ClientOK
  <2>2. CASE p # "wait"
    <3>1. p = "any" /\ j = NoJob /\ L = J /\ \A k \in Table(J, q) : J[k].state # "done"
      BY <2>2 DEF Joins
    <3> QED  BY <1>0, <3>1 DEF ClientPlaces, ClientOK
  <2> QED  BY <2>1, <2>2
<1> HIDE DEF x
<1>5. /\ PlacesOK(R, U) /\ R[c] = p /\ U[c] = x
      /\ \A d \in Clients : d # c => R[d] = P[d] /\ U[d] = T[d]
      /\ \A w \in Workers : R[w] = P[w]
      /\ Count(R, Workers, {"sleep", "woken"}) = Count(P, Workers, {"sleep", "woken"})
      /\ Count(R, Workers, Up) = Count(P, Workers, Up)
      /\ Count(R, Clients, {"create"}) = Count(P, Clients, {"create"})
           + Here(p, {"create"}) - Here(P[c], {"create"})
      /\ Count(P, Clients, {"create"}) \in Nat
  BY <1>0, <1>1, <1>4, ClientMoves
<1>6. /\ RefsTo(R, U, q) = RefsTo(P, T, q) \cup {c} /\ c \notin RefsTo(P, T, q)
      /\ \A r : r # q => RefsTo(R, U, r) = RefsTo(P, T, r)
  BY <1>0, <1>4, <1>5 DEF RefsTo, WaitPlaces
<1>7. Q[q].refs + 1 = Cardinality(RefsTo(R, U, q)) /\ Q[q].refs + 1 \in Nat /\ Q[q].refs + 1 # 0
      /\ ~(Q[q].refs + 1 <= 0)
  <2>1. IsFiniteSet(RefsTo(P, T, q))
    BY JobAssumption, FS_Subset DEF RefsTo
  <2>2. Cardinality(RefsTo(P, T, q) \cup {c}) = Cardinality(RefsTo(P, T, q)) + 1
    BY <1>6, <2>1, FS_AddElement
  <2>3. Cardinality(RefsTo(P, T, q)) \in Nat
    BY <2>1, FS_CardinalityType
  <2> QED  BY <1>0, <1>1, <1>6, <2>2, <2>3 DEF QueuesOK
<1>8. /\ Q2 \in [Queues -> QueueType]
      /\ Q2[q].refs = Q[q].refs + 1 /\ \A r \in Queues : r # q => Q2[r] = Q[r]
      /\ \A r \in Queues : /\ Q2[r].made = Q[r].made /\ Q2[r].delete = Q[r].delete
                           /\ Q2[r].max = Q[r].max /\ Q2[r].running = Q[r].running
  BY <1>0, <1>1, <1>7, RefsAre DEF QueuesOK
<1>9. WorkOK(L, R, K, st)
  BY <1>3, <1>5 DEF WorkOK
<1>10. WaitOK(L, R, U)
  <2>1. ASSUME NEW d \in Clients PROVE ClientOK(L, R[d], U[d])
    <3>1. CASE d = c
      BY <1>4, <1>5, <3>1
    <3>2. CASE d # c
      <4>1. ClientOK(J, P[d], T[d]) /\ R[d] = P[d] /\ U[d] = T[d]
        BY <1>1, <1>5, <3>2 DEF WaitOK
      <4>2. P[d] \in {"wait", "waitWoken"} => T[d].of # j
        BY <1>2, <4>1 DEF ClientOK
      <4>3. \A k \in Jobs : L[k].state = J[k].state /\ L[k].on = J[k].on
        BY <1>2 DEF Like
      <4>4. \A r, k : k \in Table(L, r) => k \in Jobs
        BY DEF Table
      <4> QED  BY <1>2, <1>3, <4>1, <4>2, <4>3, <4>4 DEF ClientOK
    <3> QED  BY <3>1, <3>2
  <2>2. ASSUME NEW d \in Clients, NEW k \in Jobs
        PROVE  WaitsFor(R, U, d, k) <=> (IF d = c THEN k = j ELSE WaitsFor(P, T, d, k))
    BY <1>0, <1>4, <1>5, JobAssumption DEF WaitsFor
  <2>3. ASSUME NEW d \in Clients PROVE j \in Jobs => ~WaitsFor(P, T, d, j)
    BY <1>1, <1>2 DEF WaitsFor, WaitOK, ClientOK
  <2>4. ASSUME NEW k \in Jobs, L[k].req = "wait"
        PROVE  ~L[k].detached /\ \E d \in Clients : WaitsFor(R, U, d, k)
    <3>1. CASE k = j
      BY <1>0, <1>4, <2>2, <3>1, JobAssumption
    <3>2. CASE k # j
      <4>1. ~J[k].detached /\ \E d \in Clients : WaitsFor(P, T, d, k)
        BY <1>1, <1>2, <2>4, <3>2 DEF WaitOK
      <4>2. ~WaitsFor(P, T, c, k)
        BY <1>0 DEF WaitsFor
      <4> QED  BY <1>2, <2>2, <3>2, <4>1, <4>2
    <3> QED  BY <3>1, <3>2
  <2>5. ASSUME NEW d \in Clients, NEW e \in Clients, NEW k \in Jobs,
               WaitsFor(R, U, d, k), WaitsFor(R, U, e, k)
        PROVE  d = e
    BY <1>1, <2>2, <2>3, <2>5 DEF WaitOK
  <2> QED  BY <2>1, <2>4, <2>5 DEF WaitOK
<1>11. QueuesOK(Q2, L, R, U)
  <2>1. ASSUME NEW r \in Queues PROVE Q2[r].refs = Cardinality(RefsTo(R, U, r))
    <3>1. CASE r = q
      BY <1>7, <1>8, <3>1
    <3>2. CASE r # q
      <4>1. Q2[r] = Q[r] /\ RefsTo(R, U, r) = RefsTo(P, T, r)
        BY <1>6, <1>8, <3>2
      <4>2. Q[r].refs = Cardinality(RefsTo(P, T, r))
        BY <1>1 DEF QueuesOK
      <4> QED  BY <4>1, <4>2
    <3> QED  BY <3>1, <3>2
  <2>2. \A r \in Queues : ~Q2[r].made => Q2[r] = NoQueue
    BY <1>0, <1>3, <1>8 DEF QueuesOK
  <2>3. \A r \in Queues : Q2[r].running = Cardinality(RunningIn(L, r)) /\ Q2[r].running <= Q2[r].max
    BY <1>3, <1>8 DEF QueuesOK
  <2>4. \A r \in Queues : Table(L, r) # {} => Q2[r].made
    BY <1>3, <1>8 DEF QueuesOK
  <2> QED  BY <1>8, <2>1, <2>2, <2>3, <2>4 DEF QueuesOK
<1>12. DeletingOK(Q2, L, R, U, Queues)
  <2>1. ASSUME NEW d \in Clients, NEW r PROVE Deletes(R, U, d, r) <=> Deletes(P, T, d, r)
    BY <1>0, <1>4, <1>5 DEF Deletes
  <2>2. ASSUME NEW r \in Queues, r # q PROVE MayDelete(Q2, L, r) <=> MayDelete(Q, L, r)
    BY <1>8, <2>2 DEF MayDelete
  <2>3. ~MayDelete(Q2, L, q)
    BY <1>7, <1>8 DEF MayDelete
  <2>4. \A d \in Clients : ~Deletes(P, T, d, q)
    BY <1>0 DEF Unlocked
  <2> QED  BY <1>3, <2>1, <2>2, <2>3, <2>4 DEF DeletingOK
<1>13. PoolOK(n, i, R)
  <2>1. Here(p, {"create"}) = 0 /\ Here(P[c], {"create"}) = 0
    BY <1>0, <1>4 DEF Here
  <2> QED  BY <1>1, <1>5, <2>1 DEF PoolOK
<1>14. EnoughOK(Q2, L, s, n, st)
  <2>1. \A k \in Range(s) : L[k].on \in Queues
    BY <1>3 DEF JobsOK
  <2> QED  BY <1>3, <1>8, <2>1 DEF EnoughOK
<1>15. SleepOK(Q2, L, s, R)
  <2>1. ASSUME NEW k \in Range(s)
        PROVE  /\ L[k].req = "cancel" <=> J[k].req = "cancel"
               /\ Runnable(Q2, L, k) <=> Runnable(Q, J, k)
    <3>1. k \in Jobs /\ L[k].on = J[k].on /\ L[k].on \in Queues
      BY <1>1, <1>2, <1>3 DEF JobsOK, Like
    <3>2. L[k].req = "cancel" <=> J[k].req = "cancel"
      BY <1>2, <3>1
    <3> QED  BY <1>8, <3>1, <3>2 DEF Runnable
  <2> QED  BY <1>5, <2>1 DEF SleepOK
<1> QED
  BY <1>1, <1>3, <1>5, <1>9, <1>10, <1>11, <1>12, <1>13, <1>14, <1>15 DEF Good

LEMMA WaitAnyKeeps ==
    ASSUME JobInv, NEW c \in Clients, NEW q \in Queues, WaitAny(c, q)
    PROVE  JobInv'
<1>1. /\ pc[c] = "out" /\ Lookup(q) /\ \A j \in Table(job, q) : job[j].state # "done"
      /\ target' = [target EXCEPT ![c] = [on |-> q, of |-> NoJob]]
      /\ queue' = [queue EXCEPT ![q].refs = @ + 1]
      /\ pc' = [pc EXCEPT ![c] = "any"]
      /\ UNCHANGED <<job, scheduled, pool, work>>
  BY DEF WaitAny, Enter
<1>2. /\ queue \in [Queues -> QueueType] /\ Unlocked(pc, target, q) /\ queue[q].made
  BY <1>1, JobInvIs, LockIs DEF QueuesOK, Lookup
<1>3. Joins(queue, job, pc, target, c, q, NoJob, "any", queue', job, pc', target')
  BY <1>1, <1>2 DEF Joins, NowRefs, Now
<1>4. /\ Good(queue, job, scheduled, nthreads, nidle, stop, pc, target, work, Queues)
      /\ SleepOK(queue, job, scheduled, pc)
  BY DEF JobInv
<1>5. /\ Good(queue', job, scheduled, nthreads, nidle, stop, pc', target', work, Queues)
      /\ SleepOK(queue', job, scheduled, pc')
  BY <1>3, <1>4, JoinKeeps
<1> QED  BY <1>1, <1>5 DEF JobInv, pool

LEMMA WaitKeeps ==
    ASSUME JobInv, NEW c \in Clients, NEW j \in Jobs, Wait(c, j)
    PROVE  JobInv'
<1> DEFINE q == job[j].on
<1>1. /\ pc[c] = "out" /\ job[j].state # "free" /\ Lookup(q)
      /\ ~job[j].detached /\ job[j].req = "none"
  BY DEF Wait, Enter
<1>2. /\ queue \in [Queues -> QueueType] /\ Unlocked(pc, target, q) /\ queue[q].made
      /\ q \in Queues /\ job \in [Jobs -> JobType]
  BY <1>1, JobInvIs, LockIs DEF QueuesOK, Lookup, JobsOK
<1>3. /\ Good(queue, job, scheduled, nthreads, nidle, stop, pc, target, work, Queues)
      /\ SleepOK(queue, job, scheduled, pc)
  BY DEF JobInv
<1>4. CASE job[j].state = "done"
  <2>1. TakeResult(c, j, queue)
    BY <1>4 DEF Wait
  <2>2. Good(queue, job, scheduled, nthreads, nidle, stop, pc, target, work, Queues \ {q})
    BY <1>1, BeginsIs
  <2>3. Now(pc, pc, c, "out")
    BY <1>1, JobInvIs DEF Now
  <2>4. job[j].req # "wait"
    BY <1>1
  <2> QED  BY <1>2, <1>3, <1>4, <2>1, <2>2, <2>3, <2>4, TakeKeeps
<1>5. CASE job[j].state # "done"
  <2>1. /\ target' = [target EXCEPT ![c] = [on |-> q, of |-> j]]
        /\ job' = [job EXCEPT ![j].req = "wait"]
        /\ queue' = [queue EXCEPT ![q].refs = @ + 1]
        /\ pc' = [pc EXCEPT ![c] = "wait"]
        /\ UNCHANGED <<scheduled, pool, work>>
    BY <1>5 DEF Wait
  <2>2. Joins(queue, job, pc, target, c, q, j, "wait", queue', job', pc', target')
    BY <1>1, <1>2, <1>5, <2>1 DEF Joins, NowRefs, Now, Asked
  <2>3. /\ Good(queue', job', scheduled, nthreads, nidle, stop, pc', target', work, Queues)
        /\ SleepOK(queue', job', scheduled, pc')
    BY <1>3, <2>2, JoinKeeps
  <2> QED  BY <2>1, <2>3 DEF JobInv, pool
<1> QED  BY <1>4, <1>5
-----------------------------------------------------------------------------
(* The commands that neither wait nor release. *)

Aside == {"out", "blocked", "create"}

LEMMA AsideKeeps ==
    ASSUME NEW Q, NEW J, NEW s, NEW n, NEW i, NEW st, NEW P, NEW T, NEW K,
           PlacesOK(P, T), WorkOK(J, P, K, st), WaitOK(J, P, T), QueuesOK(Q, J, P, T),
           DeletingOK(Q, J, P, T, Queues),
           NEW c \in Clients, P[c] \in Aside, NEW p \in Aside, NEW x,
           x \in [on : Queues \cup {"none"}, of : Jobs \cup {NoJob}],
           p = "blocked" => x.on \in Queues /\ x.of = NoJob,
           NEW R, Now(P, R, c, p), NEW U, Now(T, U, c, x)
    PROVE  /\ PlacesOK(R, U) /\ WorkOK(J, R, K, st) /\ WaitOK(J, R, U) /\ QueuesOK(Q, J, R, U)
           /\ DeletingOK(Q, J, R, U, Queues)
           /\ Count(R, Workers, {"sleep", "woken"}) = Count(P, Workers, {"sleep", "woken"})
           /\ Count(R, Workers, Up) = Count(P, Workers, Up)
           /\ Count(R, Clients, {"create"}) = Count(P, Clients, {"create"})
                + Here(p, {"create"}) - Here(P[c], {"create"})
           /\ \A w \in Workers : R[w] = P[w]
<1>1. p \in ClientPlaces
  BY DEF Aside, ClientPlaces
<1>2. /\ PlacesOK(R, U) /\ R[c] = p /\ U[c] = x
      /\ \A d \in Clients : d # c => R[d] = P[d] /\ U[d] = T[d]
      /\ \A w \in Workers : R[w] = P[w]
      /\ Count(R, Workers, {"sleep", "woken"}) = Count(P, Workers, {"sleep", "woken"})
      /\ Count(R, Workers, Up) = Count(P, Workers, Up)
      /\ Count(R, Clients, {"create"}) = Count(P, Clients, {"create"})
           + Here(p, {"create"}) - Here(P[c], {"create"})
  BY <1>1, ClientMoves
<1>3. WorkOK(J, R, K, st)
  BY <1>2 DEF WorkOK
<1>4. WaitOK(J, R, U)
  <2>1. ASSUME NEW d \in Clients PROVE ClientOK(J, R[d], U[d])
    <3>1. ClientOK(J, p, x)
      BY DEF ClientOK, Aside
    <3>2. ClientOK(J, P[d], T[d])
      BY DEF WaitOK
    <3> QED  BY <1>2, <3>1, <3>2
  <2>2. ASSUME NEW d \in Clients, NEW k PROVE WaitsFor(R, U, d, k) <=> WaitsFor(P, T, d, k)
    BY <1>2 DEF WaitsFor, Aside
  <2> QED  BY <2>1, <2>2 DEF WaitOK
<1>5. QueuesOK(Q, J, R, U)
  <2>1. ASSUME NEW r PROVE RefsTo(R, U, r) = RefsTo(P, T, r)
    <3>1. \A d \in Clients : d # c => R[d] = P[d] /\ U[d] = T[d]
      BY <1>2
    <3>2. R[c] \notin WaitPlaces /\ P[c] \notin WaitPlaces
      BY <1>2 DEF WaitPlaces, Aside
    <3> QED  BY <3>1, <3>2 DEF RefsTo
  <2> QED  BY <2>1 DEF QueuesOK
<1>6. DeletingOK(Q, J, R, U, Queues)
  <2>1. ASSUME NEW d \in Clients, NEW r PROVE Deletes(R, U, d, r) <=> Deletes(P, T, d, r)
    BY <1>2 DEF Deletes, Aside
  <2> QED  BY <2>1 DEF DeletingOK
<1> QED  BY <1>2, <1>3, <1>4, <1>5, <1>6

LEMMA BlockKeeps ==
    ASSUME JobInv, NEW c \in Clients, Block(c)
    PROVE  JobInv'
<1>1. PICK q \in Queues : target' = [target EXCEPT ![c] = [Nothing EXCEPT !.on = q]]
  BY DEF Block
<1>2. /\ pc[c] = "out" /\ pc' = [pc EXCEPT ![c] = "blocked"]
      /\ UNCHANGED <<queue, job, scheduled, pool, work>>
  BY DEF Block, Enter
<1> DEFINE x == [Nothing EXCEPT !.on = q]
<1>3. /\ x \in [on : Queues \cup {"none"}, of : Jobs \cup {NoJob}] /\ x.on \in Queues /\ x.of = NoJob
      /\ Now(target, target', c, x) /\ Now(pc, pc', c, "blocked")
      /\ pc[c] \in Aside /\ "blocked" \in Aside
  BY <1>1, <1>2 DEF Nothing, Now, Aside
<1> HIDE DEF x
<1>4. /\ PlacesOK(pc', target') /\ WorkOK(job, pc', work, stop) /\ WaitOK(job, pc', target')
      /\ QueuesOK(queue, job, pc', target') /\ DeletingOK(queue, job, pc', target', Queues)
      /\ Count(pc', Workers, {"sleep", "woken"}) = Count(pc, Workers, {"sleep", "woken"})
      /\ Count(pc', Workers, Up) = Count(pc, Workers, Up)
      /\ Count(pc', Clients, {"create"}) = Count(pc, Clients, {"create"})
           + Here("blocked", {"create"}) - Here(pc[c], {"create"})
      /\ \A w \in Workers : pc'[w] = pc[w]
  BY <1>3, JobInvIs, AsideKeeps
<1>5. PoolOK(nthreads, nidle, pc')
  <2>1. Here("blocked", {"create"}) = 0 /\ Here(pc[c], {"create"}) = 0
    BY <1>2 DEF Here
  <2>2. Count(pc, Clients, {"create"}) \in Nat
    BY CountType, JobAssumption
  <2> QED  BY <1>4, <2>1, <2>2, JobInvIs DEF PoolOK
<1>6. SleepOK(queue, job, scheduled, pc')
  BY <1>4 DEF SleepOK, JobInv
<1>7. Good(queue, job, scheduled, nthreads, nidle, stop, pc', target', work, Queues)
  BY <1>4, <1>5, JobInvIs DEF Good
<1> QED  BY <1>2, <1>6, <1>7 DEF JobInv, pool

(* Of the pairs of a queue and a number, those under the limits.           *)
LEMMA MaxThreads ==
    ASSUME queue \in [Queues -> QueueType]
    PROVE  /\ maxThreads \in Nat /\ maxThreads <= Cardinality(Queues) * MaxLimit
           /\ \A q \in Queues : queue[q].max > 0 => maxThreads > 0
<1> DEFINE A == {x \in Queues \X (1 .. MaxLimit) : x[2] <= queue[x[1]].max}
           B == Queues \X (1 .. MaxLimit)
<1>1. MaxLimit \in Nat /\ IsFiniteSet(Queues) /\ Limits \subseteq 0 .. MaxLimit
  BY JobAssumption
<1>2. IsFiniteSet(1 .. MaxLimit) /\ Cardinality(1 .. MaxLimit) = MaxLimit
  BY <1>1, FS_Interval
<1>3. IsFiniteSet(B) /\ Cardinality(B) = Cardinality(Queues) * MaxLimit
  BY <1>1, <1>2, FS_Product
<1>4. IsFiniteSet(A) /\ Cardinality(A) <= Cardinality(B)
  BY <1>3, FS_Subset
<1>5. Cardinality(A) \in Nat
  BY <1>4, FS_CardinalityType
<1>6. ASSUME NEW q \in Queues, queue[q].max > 0 PROVE Cardinality(A) > 0
  <2>1. queue[q].max \in Limits \cup {0}
    BY DEF QueueType
  <2>2. 1 \in 1 .. MaxLimit /\ 1 <= queue[q].max
    <3>1. queue[q].max \in 0 .. MaxLimit
      <4>1. 0 \in 0 .. MaxLimit
        BY <1>1
      <4> QED  BY <1>1, <2>1, <4>1
    <3> QED  BY <1>1, <1>6, <3>1
  <2>3. <<q, 1>> \in A
    BY <2>2
  <2>4. Cardinality(A) # 0
    BY <1>4, <2>3, FS_EmptySet
  <2> QED  BY <1>5, <2>4
<1> QED  BY <1>3, <1>4, <1>5, <1>6 DEF maxThreads

LEMMA QueueJobKeeps ==
    ASSUME JobInv, NEW c \in Clients, NEW q \in Queues, NEW j \in Jobs, QueueJob(c, q, j)
    PROVE  JobInv'
<1> DEFINE P == PoolWoken(pc)
<1>1. PICK d \in BOOLEAN :
         job' = [job EXCEPT ![j] = [state |-> "scheduled", req |-> "none", detached |-> d, on |-> q]]
  BY DEF QueueJob
<1> DEFINE r == [state |-> "scheduled", req |-> "none", detached |-> d, on |-> q]
<1>2. /\ pc[c] = "out" /\ queue[q].made /\ ~queue[q].delete /\ job[j].state = "free" /\ ~stop
      /\ scheduled' = Append(scheduled, j)
      /\ UNCHANGED <<queue, nidle, stop, target, work>>
  BY DEF QueueJob, Enter, Lookup
<1>3. IF nidle = 0 /\ nthreads < maxThreads
      THEN nthreads' = nthreads + 1 /\ pc' = [P EXCEPT ![c] = "create"]
      ELSE pc' = P /\ nthreads' = nthreads
  BY DEF QueueJob
<1>4. /\ JobsOK(job, scheduled) /\ job[j] = FreeJob /\ FreeJob.on = "none" /\ "none" \notin Queues
      /\ FreeJob.req = "none" /\ FreeJob.state = "free"
  <2>1. JobsOK(job, scheduled)
    BY JobInvIs
  <2> QED  BY <1>2, <2>1, JobAssumption DEF JobsOK, FreeJob
<1>5. /\ r \in JobType /\ r.state = "scheduled" /\ r.req = "none" /\ r.on = q
      /\ job' = [job EXCEPT ![j] = r]
  BY <1>1 DEF JobType
<1> HIDE DEF P, r
<1>6. /\ job' \in [Jobs -> JobType] /\ job'[j] = r /\ \A k \in Jobs : k # j => job'[k] = job[k]
  BY <1>4, <1>5 DEF JobsOK
<1>7. j \notin Range(scheduled) /\ scheduled \in Seq(Jobs) /\ IsInjective(scheduled)
  BY <1>2, <1>4 DEF JobsOK
<1>8. /\ scheduled' \in Seq(Jobs) /\ IsInjective(scheduled')
      /\ Range(scheduled') = Range(scheduled) \cup {j}
  BY <1>2, <1>7, AppendHas
<1>9. JobsOK(job', scheduled')
  <2>1. Range(scheduled') = {k \in Jobs : job'[k].state = "scheduled"}
    BY <1>4, <1>5, <1>6, <1>8 DEF JobsOK
  <2>2. \A k \in Jobs : IF job'[k].state = "free" THEN job'[k] = FreeJob ELSE job'[k].on \in Queues
    BY <1>4, <1>5, <1>6 DEF JobsOK
  <2> QED  BY <1>6, <1>8, <2>1, <2>2 DEF JobsOK
<1>10. Wakes(pc, P) /\ P[c] = "out" /\ \A w \in Workers : P[w] # "sleep"
  BY <1>2, PoolWokenWakes, JobInvIs DEF P
<1>11. Good(queue, job, scheduled, nthreads, nidle, stop, P, target, work, Queues)
  BY <1>10, WakeKeeps DEF JobInv
<1>12. /\ PlacesOK(P, target) /\ WorkOK(job, P, work, stop) /\ WaitOK(job, P, target)
       /\ QueuesOK(queue, job, P, target) /\ DeletingOK(queue, job, P, target, Queues)
       /\ PoolOK(nthreads, nidle, P) /\ EnoughOK(queue, job, scheduled, nthreads, stop)
  BY <1>11 DEF Good
<1>13. /\ \A p : RunningIn(job', p) = RunningIn(job, p)
       /\ \A p \in Queues : p # q => Table(job', p) = Table(job, p)
       /\ \A p \in Queues : Table(job', p) = Table(job, p) \cup (IF p = q THEN {j} ELSE {})
  BY <1>4, <1>5, <1>6 DEF RunningIn, Table
<1>14. WorkOK(job', P, work, stop)
  BY <1>4, <1>5, <1>6, <1>12 DEF WorkOK
<1>15. WaitOK(job', P, target)
  <2>1. ASSUME NEW e \in Clients PROVE ClientOK(job', P[e], target[e])
    <3>1. ClientOK(job, P[e], target[e])
      BY <1>12 DEF WaitOK
    <3>2. P[e] \in {"wait", "waitWoken"} => target[e].of # j
      BY <1>4, <3>1 DEF ClientOK
    <3>3. \A p, k : k \in Table(job', p) => k = j \/ (k \in Table(job, p) /\ k \in Jobs)
      BY <1>6 DEF Table
    <3>4. P[e] = "any" => \A k \in Table(job', target[e].on) : job'[k].state # "done"
      BY <1>5, <1>6, <3>1, <3>3 DEF ClientOK
    <3> QED  BY <1>6, <3>1, <3>2, <3>4 DEF ClientOK
  <2> QED  BY <1>5, <1>6, <1>12, <2>1 DEF WaitOK
<1>16. QueuesOK(queue, job', P, target)
  BY <1>2, <1>12, <1>13 DEF QueuesOK
<1>17. DeletingOK(queue, job', P, target, Queues)
  <2>1. \A p \in Queues : MayDelete(queue, job', p) <=> MayDelete(queue, job, p)
    BY <1>2, <1>13 DEF MayDelete
  <2> QED  BY <1>12, <2>1 DEF DeletingOK
<1>18. /\ Count(P, Clients, {"create"}) \in Nat /\ Count(P, Workers, Up) \in Nat
       /\ Count(P, Workers, {"sleep", "woken"}) <= Count(P, Workers, Up)
       /\ nidle \in Nat /\ nthreads \in Nat
  <2>1. IsFiniteSet(Clients) /\ IsFiniteSet(Workers)
    BY JobAssumption
  <2>2. /\ Count(P, Clients, {"create"}) \in Nat /\ Count(P, Workers, Up) \in Nat
        /\ Count(P, Workers, {"sleep", "woken"}) \in Nat
    BY <2>1, CountType
  <2>3. Count(P, Workers, {"sleep", "woken"}) <= Count(P, Workers, Up)
    <3>1. {u \in Workers : P[u] \in {"sleep", "woken"}} \subseteq {u \in Workers : P[u] \in Up}
      BY DEF Up
    <3>2. IsFiniteSet({u \in Workers : P[u] \in Up})
      BY <2>1, FS_Subset
    <3> QED  BY <3>1, <3>2, FS_Subset DEF Count
  <2> QED  BY <1>12, <2>2, <2>3 DEF PoolOK
<1>19. queue \in [Queues -> QueueType]
  BY <1>12 DEF QueuesOK
<1>20. /\ maxThreads \in Nat /\ maxThreads <= Cardinality(Queues) * MaxLimit
       /\ \A p \in Queues : queue[p].max > 0 => maxThreads > 0
  BY <1>19, MaxThreads
<1>21. EnoughOK(queue, job', scheduled', nthreads', stop)
  <2>1. ASSUME queue[q].max > 0 PROVE nthreads' > 0
    <3>1. maxThreads > 0
      BY <1>20, <2>1
    <3>2. nidle # 0 => nthreads > 0
      BY <1>12, <1>18 DEF PoolOK
    <3> HIDE DEF maxThreads
    <3> QED  BY <1>3, <1>18, <1>20, <3>1, <3>2
  <2>2. nthreads > 0 => nthreads' > 0
    BY <1>3, <1>18
  <2>3. \A k \in Range(scheduled) : job'[k] = job[k]
    BY <1>6, <1>7, <1>4 DEF JobsOK
  <2> QED  BY <1>5, <1>6, <1>8, <1>12, <2>1, <2>2, <2>3 DEF EnoughOK
<1>22. SleepOK(queue, job', scheduled', pc')
  <2>1. \A w \in Workers : pc'[w] = P[w]
    <3>1. \A w \in Workers : w # c
      BY JobAssumption
    <3> QED  BY <1>3, <1>12, <3>1 DEF PlacesOK, Threads
  <2> QED  BY <1>10, <2>1 DEF SleepOK
<1>23. Good(queue, job', scheduled', nthreads', nidle, stop, pc', target, work, Queues)
  <2>1. CASE nidle = 0 /\ nthreads < maxThreads
    <3>1. /\ nthreads' = nthreads + 1 /\ Now(P, pc', c, "create") /\ Now(target, target, c, target[c])
          /\ target[c] \in [on : Queues \cup {"none"}, of : Jobs \cup {NoJob}]
          /\ P[c] \in Aside /\ "create" \in Aside
      BY <1>3, <1>10, <1>12, <2>1 DEF Now, PlacesOK, Aside
    <3>2. /\ PlacesOK(pc', target) /\ WorkOK(job', pc', work, stop) /\ WaitOK(job', pc', target)
          /\ QueuesOK(queue, job', pc', target) /\ DeletingOK(queue, job', pc', target, Queues)
          /\ Count(pc', Workers, {"sleep", "woken"}) = Count(P, Workers, {"sleep", "woken"})
          /\ Count(pc', Workers, Up) = Count(P, Workers, Up)
          /\ Count(pc', Clients, {"create"}) = Count(P, Clients, {"create"})
               + Here("create", {"create"}) - Here(P[c], {"create"})
      BY <1>12, <1>14, <1>15, <1>16, <1>17, <3>1, AsideKeeps
    <3>3. Here("create", {"create"}) = 1 /\ Here(P[c], {"create"}) = 0
      BY <1>10 DEF Here
    <3>4. nthreads + 1 <= Cardinality(Queues) * MaxLimit
      <4>1. Cardinality(Queues) * MaxLimit \in Int
        BY JobAssumption, FS_CardinalityType
      <4> HIDE DEF maxThreads
      <4> QED  BY <1>18, <1>20, <2>1, <4>1
    <3>5. PoolOK(nthreads', nidle, pc')
      BY <1>12, <1>18, <3>1, <3>2, <3>3, <3>4 DEF PoolOK
    <3> QED  BY <1>9, <1>21, <3>2, <3>5, JobInvIs DEF Good
  <2>2. CASE ~(nidle = 0 /\ nthreads < maxThreads)
    <3>1. pc' = P /\ nthreads' = nthreads
      BY <1>3, <2>2
    <3> QED  BY <1>9, <1>12, <1>14, <1>15, <1>16, <1>17, <1>21, <3>1, JobInvIs DEF Good
  <2> QED  BY <2>1, <2>2
<1> QED  BY <1>2, <1>22, <1>23 DEF JobInv
LEMMA CreateKeeps ==
    ASSUME JobInv, NEW c \in Clients, Create(c)
    PROVE  JobInv'
<1>1. PICK q \in Queues, max \in Limits :
         /\ ~queue[q].made
         /\ queue' = [queue EXCEPT ![q] = [NoQueue EXCEPT !.made = TRUE, !.max = max]]
  BY DEF Create
<1>2. UNCHANGED <<job, scheduled, pool, pc, target, work>>
  BY DEF Create
<1> DEFINE x == [NoQueue EXCEPT !.made = TRUE, !.max = max]
<1>3. /\ queue \in [Queues -> QueueType] /\ queue[q] = NoQueue
      /\ \A r \in Queues : queue[r].running = Cardinality(RunningIn(job, r)) /\ queue[r].running <= queue[r].max
      /\ \A r \in Queues : queue[r].refs = Cardinality(RefsTo(pc, target, r))
      /\ \A r \in Queues : ~queue[r].made => queue[r] = NoQueue
      /\ \A r \in Queues : Table(job, r) # {} => queue[r].made
  BY <1>1, JobInvIs DEF QueuesOK
<1>4. x \in QueueType /\ x.made /\ ~x.delete /\ x.running = 0 /\ x.refs = 0 /\ 0 <= x.max
  <2>1. max \in Nat
    BY JobAssumption
  <2>2. /\ NoQueue \in QueueType /\ ~NoQueue.delete /\ NoQueue.running = 0 /\ NoQueue.refs = 0
    BY DEF NoQueue, QueueType
  <2>3. /\ x \in QueueType /\ x.made /\ x.max = max /\ x.delete = NoQueue.delete
        /\ x.running = NoQueue.running /\ x.refs = NoQueue.refs
    BY <2>2 DEF QueueType
  <2> HIDE DEF x
  <2> QED  BY <2>1, <2>2, <2>3
<1>5. ~NoQueue.delete /\ NoQueue.running = 0 /\ NoQueue.refs = 0
  BY DEF NoQueue
<1>6. queue' = [queue EXCEPT ![q] = x]
  BY <1>1
<1> HIDE DEF x
<1>7. queue' \in [Queues -> QueueType] /\ queue'[q] = x /\ \A r \in Queues : r # q => queue'[r] = queue[r]
  BY <1>3, <1>4, <1>6
<1>8. QueuesOK(queue', job, pc, target)
  <2>1. \A r \in Queues : queue'[r].running = Cardinality(RunningIn(job, r)) /\ queue'[r].running <= queue'[r].max
    BY <1>3, <1>4, <1>5, <1>7
  <2>2. \A r \in Queues : queue'[r].refs = Cardinality(RefsTo(pc, target, r))
    BY <1>3, <1>4, <1>5, <1>7
  <2>3. \A r \in Queues : /\ ~queue'[r].made => queue'[r] = NoQueue
                          /\ Table(job, r) # {} => queue'[r].made
    BY <1>3, <1>4, <1>7
  <2> QED  BY <1>7, <2>1, <2>2, <2>3 DEF QueuesOK
<1>9. DeletingOK(queue', job, pc, target, Queues)
  <2>1. \A r \in Queues : MayDelete(queue', job, r) <=> MayDelete(queue, job, r)
    BY <1>3, <1>4, <1>5, <1>7 DEF MayDelete
  <2> QED  BY <2>1, JobInvIs DEF DeletingOK
<1>10. ASSUME NEW k \in Range(scheduled)
       PROVE  job[k].on \in Queues /\ job[k].on # q /\ queue'[job[k].on] = queue[job[k].on]
  <2>1. k \in Jobs /\ job[k].state = "scheduled" /\ job[k].on \in Queues
    BY JobInvIs DEF JobsOK
  <2>2. k \in Table(job, job[k].on)
    BY <2>1 DEF Table
  <2> QED  BY <1>1, <1>3, <1>7, <2>1, <2>2
<1>11. EnoughOK(queue', job, scheduled, nthreads, stop)
  BY <1>10, JobInvIs DEF EnoughOK
<1>12. SleepOK(queue', job, scheduled, pc)
  BY <1>10 DEF SleepOK, Runnable, JobInv
<1>13. Good(queue', job, scheduled, nthreads, nidle, stop, pc, target, work, Queues)
  BY <1>8, <1>9, <1>11, JobInvIs DEF Good
<1> QED  BY <1>2, <1>12, <1>13 DEF JobInv, pool

(* What a job thread that moves to place p changes. *)
LEMMA WorkerMoves ==
    ASSUME NEW P, NEW T, PlacesOK(P, T), NEW w \in Workers, NEW p \in WorkerPlaces,
           NEW R, Now(P, R, w, p)
    PROVE  /\ PlacesOK(R, T) /\ R[w] = p
           /\ \A c \in Clients : R[c] = P[c]
           /\ \A v \in Workers : v # w => R[v] = P[v]
           /\ Count(R, Workers, {"sleep", "woken"}) = Count(P, Workers, {"sleep", "woken"})
                + Here(p, {"sleep", "woken"}) - Here(P[w], {"sleep", "woken"})
           /\ Count(R, Workers, Up) = Count(P, Workers, Up) + Here(p, Up) - Here(P[w], Up)
           /\ Count(R, Clients, {"create"}) = Count(P, Clients, {"create"})
<1>1. IsFiniteSet(Clients) /\ IsFiniteSet(Workers) /\ Clients \cap Workers = {}
  BY JobAssumption
<1>2. DOMAIN P = Threads /\ Clients \subseteq Threads /\ Workers \subseteq Threads
  BY DEF PlacesOK, Threads
<1>3. /\ R[w] = p /\ \A c \in Clients : R[c] = P[c]
      /\ \A v \in Workers : v # w => R[v] = P[v]
  BY <1>1, <1>2 DEF Now
<1>4. PlacesOK(R, T)
  <2>1. R \in [Threads -> ClientPlaces \cup WorkerPlaces]
    BY <1>2 DEF PlacesOK, Now
  <2> QED  BY <1>3, <2>1 DEF PlacesOK
<1>5. /\ Count(R, Workers, {"sleep", "woken"}) = Count(P, Workers, {"sleep", "woken"})
           + Here(p, {"sleep", "woken"}) - Here(P[w], {"sleep", "woken"})
      /\ Count(R, Workers, Up) = Count(P, Workers, Up) + Here(p, Up) - Here(P[w], Up)
  BY <1>1, <1>3, CountMoved
<1>6. Count(R, Clients, {"create"}) = Count(P, Clients, {"create"})
  BY <1>3, CountSame
<1> QED  BY <1>3, <1>4, <1>5, <1>6

(* The places of the clients are the same.                                 *)
LEMMA ClientsKeep ==
    ASSUME NEW Q, NEW J, NEW P, NEW T, NEW X,
           WaitOK(J, P, T), QueuesOK(Q, J, P, T), DeletingOK(Q, J, P, T, X),
           NEW R, \A c \in Clients : R[c] = P[c]
    PROVE  WaitOK(J, R, T) /\ QueuesOK(Q, J, R, T) /\ DeletingOK(Q, J, R, T, X)
<1>1. ASSUME NEW d \in Clients, NEW k
      PROVE  /\ WaitsFor(R, T, d, k) <=> WaitsFor(P, T, d, k)
             /\ Deletes(R, T, d, k) <=> Deletes(P, T, d, k)
  BY DEF WaitsFor, Deletes
<1>2. \A r : RefsTo(R, T, r) = RefsTo(P, T, r)
  BY DEF RefsTo
<1>3. WaitOK(J, R, T)
  BY <1>1 DEF WaitOK
<1>4. QueuesOK(Q, J, R, T)
  BY <1>2 DEF QueuesOK
<1>5. DeletingOK(Q, J, R, T, X)
  BY <1>1 DEF DeletingOK
<1> QED  BY <1>3, <1>4, <1>5

LEMMA CreateThreadKeeps ==
    ASSUME JobInv, NEW c \in Clients, CreateThread(c)
    PROVE  JobInv'
<1>1. PICK w \in Workers : pc[w] = "none" /\ pc' = [pc EXCEPT ![w] = "start", ![c] = "out"]
  BY DEF CreateThread, At
<1>2. pc[c] = "create" /\ UNCHANGED <<queue, job, scheduled, pool, target, work>>
  BY DEF CreateThread
<1> DEFINE R == [pc EXCEPT ![c] = "out"]
<1>3. c # w /\ c \in Threads /\ w \in Threads
  BY JobAssumption DEF Threads
<1>4. Now(pc, R, c, "out") /\ Now(R, pc', w, "start") /\ Now(target, target, c, target[c])
  <2>1. pc' = [R EXCEPT ![w] = "start"]
    BY <1>1, <1>3, JobInvIs
  <2> QED  BY <2>1, JobInvIs DEF Now, PlacesOK
<1>5. /\ target[c] \in [on : Queues \cup {"none"}, of : Jobs \cup {NoJob}]
      /\ pc[c] \in Aside /\ "out" \in Aside /\ "start" \in WorkerPlaces
  BY <1>2, JobInvIs DEF PlacesOK, Aside, WorkerPlaces
<1> HIDE DEF R
<1>6. /\ PlacesOK(R, target) /\ WorkOK(job, R, work, stop) /\ WaitOK(job, R, target)
      /\ QueuesOK(queue, job, R, target) /\ DeletingOK(queue, job, R, target, Queues)
      /\ Count(R, Workers, {"sleep", "woken"}) = Count(pc, Workers, {"sleep", "woken"})
      /\ Count(R, Workers, Up) = Count(pc, Workers, Up)
      /\ Count(R, Clients, {"create"}) = Count(pc, Clients, {"create"})
           + Here("out", {"create"}) - Here(pc[c], {"create"})
      /\ \A v \in Workers : R[v] = pc[v]
  BY <1>4, <1>5, JobInvIs, AsideKeeps
<1>0. R[w] = "none"
  BY <1>1, <1>6
<1>7. /\ PlacesOK(pc', target) /\ pc'[w] = "start"
      /\ \A d \in Clients : pc'[d] = R[d]
      /\ \A v \in Workers : v # w => pc'[v] = R[v]
      /\ Count(pc', Workers, {"sleep", "woken"}) = Count(R, Workers, {"sleep", "woken"})
           + Here("start", {"sleep", "woken"}) - Here(R[w], {"sleep", "woken"})
      /\ Count(pc', Workers, Up) = Count(R, Workers, Up) + Here("start", Up) - Here(R[w], Up)
      /\ Count(pc', Clients, {"create"}) = Count(R, Clients, {"create"})
  BY <1>4, <1>5, <1>6, WorkerMoves
<1>8. /\ WaitOK(job, pc', target) /\ QueuesOK(queue, job, pc', target)
      /\ DeletingOK(queue, job, pc', target, Queues)
  BY <1>6, <1>7, ClientsKeep
<1>9. WorkOK(job, pc', work, stop)
  BY <1>0, <1>6, <1>7 DEF WorkOK
<1>10. PoolOK(nthreads, nidle, pc')
  <2>1. /\ Here("start", {"sleep", "woken"}) = 0 /\ Here(R[w], {"sleep", "woken"}) = 0
        /\ Here("start", Up) = 1 /\ Here(R[w], Up) = 0
        /\ Here("out", {"create"}) = 0 /\ Here(pc[c], {"create"}) = 1
    BY <1>0, <1>2 DEF Here, Up
  <2>2. /\ Count(pc, Clients, {"create"}) \in Nat /\ Count(pc, Workers, Up) \in Nat
        /\ Count(pc, Workers, {"sleep", "woken"}) \in Nat
    BY CountType, JobAssumption
  <2> QED  BY <1>6, <1>7, <2>1, <2>2, JobInvIs DEF PoolOK
<1>11. SleepOK(queue, job, scheduled, pc')
  BY <1>6, <1>7 DEF SleepOK, JobInv
<1>12. Good(queue, job, scheduled, nthreads, nidle, stop, pc', target, work, Queues)
  BY <1>7, <1>8, <1>9, <1>10, JobInvIs DEF Good
<1> QED  BY <1>2, <1>11, <1>12 DEF JobInv, pool

LEMMA SpuriousKeeps ==
    ASSUME JobInv, NEW t \in Threads, Spurious(t)
    PROVE  JobInv'
<1>1. /\ \/ pc[t] = "sleep" /\ pc' = [pc EXCEPT ![t] = "woken"]
         \/ pc[t] = "wait" /\ pc' = [pc EXCEPT ![t] = "waitWoken"]
         \/ pc[t] = "any" /\ pc' = [pc EXCEPT ![t] = "anyWoken"]
      /\ UNCHANGED <<queue, job, scheduled, pool, target, work>>
  BY DEF Spurious
<1>2. Wakes(pc, pc')
  BY <1>1, JobInvIs DEF Wakes, ClientPlaces, WorkerPlaces
<1>3. /\ Good(queue, job, scheduled, nthreads, nidle, stop, pc', target, work, Queues)
      /\ SleepOK(queue, job, scheduled, pc')
  BY <1>2, WakeKeeps DEF JobInv
<1> QED  BY <1>1, <1>3 DEF JobInv, pool

LEMMA ShutdownKeeps ==
    ASSUME JobInv, NsStartJobsShutdown
    PROVE  JobInv'
<1>1. /\ stop' = TRUE /\ pc' = PoolWoken(pc)
      /\ UNCHANGED <<queue, job, scheduled, nthreads, nidle, target, work>>
  BY DEF NsStartJobsShutdown
<1>2. Wakes(pc, pc')
  BY <1>1, PoolWokenWakes, JobInvIs
<1>3. /\ Good(queue, job, scheduled, nthreads, nidle, stop, pc', target, work, Queues)
      /\ SleepOK(queue, job, scheduled, pc')
  BY <1>2, WakeKeeps DEF JobInv
<1>4. Good(queue, job, scheduled, nthreads, nidle, TRUE, pc', target, work, Queues)
  BY <1>3 DEF Good, WorkOK, EnoughOK
<1> QED  BY <1>1, <1>3, <1>4 DEF JobInv

LEMMA DeleteKeeps ==
    ASSUME JobInv, NEW c \in Clients, Delete(c)
    PROVE  JobInv'
<1> DEFINE q == target[c].on
<1>1. /\ pc[c] = "deleting" /\ queue' = [queue EXCEPT ![q] = NoQueue]
      /\ pc' = [pc EXCEPT ![c] = "out"] /\ target' = [target EXCEPT ![c] = Nothing]
      /\ UNCHANGED <<job, scheduled, pool, work>>
  BY DEF Delete
<1>2. Deletes(pc, target, c, q) /\ q \in Queues
  BY <1>1, JobInvIs DEF Deletes, WaitOK, ClientOK
<1>3. /\ MayDelete(queue, job, q) /\ Table(job, q) = {} /\ queue[q].refs <= 0
  BY <1>2, JobInvIs DEF DeletingOK, MayDelete
<1>4. Now(pc, pc', c, "out") /\ Now(target, target', c, Nothing) /\ Now(queue, queue', q, NoQueue)
  BY <1>1 DEF Now
<1>5. /\ Nothing \in [on : Queues \cup {"none"}, of : Jobs \cup {NoJob}] /\ "out" \in ClientPlaces
      /\ NoQueue \in QueueType /\ ~NoQueue.delete /\ NoQueue.running = 0 /\ NoQueue.refs = 0
      /\ NoQueue.max = 0
  BY DEF Nothing, ClientPlaces, NoQueue, QueueType
<1> HIDE DEF q
<1>6. /\ PlacesOK(pc', target') /\ pc'[c] = "out" /\ target'[c] = Nothing
      /\ \A d \in Clients : d # c => pc'[d] = pc[d] /\ target'[d] = target[d]
      /\ \A w \in Workers : pc'[w] = pc[w]
      /\ Count(pc', Workers, {"sleep", "woken"}) = Count(pc, Workers, {"sleep", "woken"})
      /\ Count(pc', Workers, Up) = Count(pc, Workers, Up)
      /\ Count(pc', Clients, {"create"}) = Count(pc, Clients, {"create"})
           + Here("out", {"create"}) - Here(pc[c], {"create"})
      /\ Count(pc, Clients, {"create"}) \in Nat
  BY <1>4, <1>5, JobInvIs, ClientMoves
<1>7. /\ queue \in [Queues -> QueueType]
      /\ \A r \in Queues : queue[r].running = Cardinality(RunningIn(job, r)) /\ queue[r].running <= queue[r].max
      /\ \A r \in Queues : queue[r].refs = Cardinality(RefsTo(pc, target, r))
      /\ \A r \in Queues : ~queue[r].made => queue[r] = NoQueue
      /\ \A r \in Queues : Table(job, r) # {} => queue[r].made
  BY JobInvIs DEF QueuesOK
<1>8. queue' \in [Queues -> QueueType] /\ queue'[q] = NoQueue /\ \A r \in Queues : r # q => queue'[r] = queue[r]
  BY <1>2, <1>4, <1>5, <1>7 DEF Now
<1>9. /\ Cardinality(RunningIn(job, q)) = 0 /\ Cardinality(RefsTo(pc, target, q)) = 0
  <2>1. RunningIn(job, q) = {}
    BY <1>3 DEF RunningIn, Table
  <2>2. queue[q].refs \in Nat
    BY <1>2, <1>7 DEF QueueType
  <2> QED  BY <1>2, <1>3, <1>7, <2>1, <2>2, FS_EmptySet
<1>10. \A r : RefsTo(pc', target', r) = RefsTo(pc, target, r)
  BY <1>1, <1>6 DEF RefsTo, WaitPlaces
<1>11. QueuesOK(queue', job, pc', target')
  <2>1. \A r \in Queues : queue'[r].running = Cardinality(RunningIn(job, r)) /\ queue'[r].running <= queue'[r].max
    BY <1>5, <1>7, <1>8, <1>9
  <2>2. \A r \in Queues : queue'[r].refs = Cardinality(RefsTo(pc', target', r))
    BY <1>5, <1>7, <1>8, <1>9, <1>10
  <2>3. \A r \in Queues : /\ ~queue'[r].made => queue'[r] = NoQueue
                          /\ Table(job, r) # {} => queue'[r].made
    BY <1>3, <1>7, <1>8
  <2> QED  BY <1>8, <2>1, <2>2, <2>3 DEF QueuesOK
<1>12. WorkOK(job, pc', work, stop)
  BY <1>6, JobInvIs DEF WorkOK
<1>13. WaitOK(job, pc', target')
  <2>1. ASSUME NEW d \in Clients PROVE ClientOK(job, pc'[d], target'[d])
    <3>1. ClientOK(job, "out", Nothing)
      BY DEF ClientOK
    <3>2. ClientOK(job, pc[d], target[d])
      BY JobInvIs DEF WaitOK
    <3> QED  BY <1>6, <3>1, <3>2
  <2>2. ASSUME NEW d \in Clients, NEW k PROVE WaitsFor(pc', target', d, k) <=> WaitsFor(pc, target, d, k)
    BY <1>1, <1>6 DEF WaitsFor
  <2> QED  BY <2>1, <2>2, JobInvIs DEF WaitOK
<1>14. DeletingOK(queue', job, pc', target', Queues)
  <2>1. ASSUME NEW d \in Clients, NEW r
        PROVE  Deletes(pc', target', d, r) <=> d # c /\ Deletes(pc, target, d, r)
    BY <1>6 DEF Deletes
  <2>2. \A d \in Clients : Deletes(pc, target, d, q) => d = c
    BY <1>2, JobInvIs DEF DeletingOK
  <2>3. ~MayDelete(queue', job, q)
    BY <1>5, <1>8 DEF MayDelete
  <2>4. \A r \in Queues : r # q => (MayDelete(queue', job, r) <=> MayDelete(queue, job, r))
    BY <1>8 DEF MayDelete
  <2>5. \A r : Deletes(pc, target, c, r) => r = q
    BY <1>2 DEF Deletes
  <2> QED  BY <2>1, <2>2, <2>3, <2>4, <2>5, JobInvIs DEF DeletingOK
<1>15. PoolOK(nthreads, nidle, pc')
  <2>1. Here("out", {"create"}) = 0 /\ Here(pc[c], {"create"}) = 0
    BY <1>1 DEF Here
  <2> QED  BY <1>6, <2>1, JobInvIs DEF PoolOK
<1>16. ASSUME NEW k \in Range(scheduled)
       PROVE  job[k].on \in Queues /\ queue'[job[k].on] = queue[job[k].on]
  <2>1. k \in Jobs /\ job[k].state = "scheduled" /\ job[k].on \in Queues
    BY JobInvIs DEF JobsOK
  <2>2. k \in Table(job, job[k].on)
    BY <2>1 DEF Table
  <2> QED  BY <1>3, <1>8, <2>1, <2>2
<1>17. EnoughOK(queue', job, scheduled, nthreads, stop)
  BY <1>16, JobInvIs DEF EnoughOK
<1>18. SleepOK(queue', job, scheduled, pc')
  BY <1>6, <1>16 DEF SleepOK, Runnable, JobInv
<1>19. Good(queue', job, scheduled, nthreads, nidle, stop, pc', target', work, Queues)
  BY <1>6, <1>11, <1>12, <1>13, <1>14, <1>15, <1>17, JobInvIs DEF Good
<1> QED  BY <1>1, <1>18, <1>19 DEF JobInv, pool
-----------------------------------------------------------------------------
(* The job threads. *)

(* What NextJob returns for queues Q and jobs J: the jobs G are cancelled, *)
(* job x can run.                                                          *)
Found(Q, J, s, x, G) ==
    /\ G \subseteq Range(s) /\ \A j \in G : J[j].req = "cancel"
    /\ x \in Jobs \cup {NoJob}
    /\ x # NoJob => x \in Range(s) /\ Runnable(Q, J, x)
    /\ x = NoJob => \A j \in Range(s) : j \notin G => J[j].req # "cancel" /\ ~Runnable(Q, J, j)

LEMMA NextJobIs ==
    ASSUME NEW Q, NEW J, JobsOK(J, scheduled)
    PROVE  Found(Q, J, scheduled, NextJob(Q, J).job, NextJob(Q, J).gone)
<1> DEFINE s == scheduled
           S == {j \in ToSet(s) : Runnable(Q, J, j)}
           i == FirstIn(s, S)
           passed == IF i = 0 THEN s ELSE SubSeq(s, 1, i - 1)
           x == IF i = 0 THEN NoJob ELSE s[i]
           G == {j \in ToSet(passed) : J[j].req = "cancel"}
<1>1. s \in Seq(Jobs) /\ ToSet(s) = Range(s) /\ \A j \in Range(s) : j \in Jobs
  BY DEF JobsOK, ToSet, Range
<1>2. NextJob(Q, J) = [job |-> x, gone |-> G]
  BY DEF NextJob
<1>3. /\ i = 0 => \A k \in 1 .. Len(s) : s[k] \notin S
      /\ i # 0 => i \in 1 .. Len(s) /\ s[i] \in S
  BY <1>1, FirstInIs
<1>4. ToSet(passed) \subseteq Range(s)
  <2>1. CASE i = 0
    BY <1>1, <2>1
  <2>2. CASE i # 0
    <3>0. \A m \in 1 .. Len(s) : m - 1 \in 0 .. Len(s)
      BY <1>1
    <3>1. i - 1 \in 0 .. Len(s) /\ passed = SubSeq(s, 1, i - 1)
      BY <1>3, <2>2, <3>0
    <3>2. \A k \in 0 .. Len(s) : Range(SubSeq(s, 1, k)) \subseteq Range(s)
      BY <1>1, CutHas
    <3>3. ToSet(passed) = Range(SubSeq(s, 1, i - 1))
      BY <3>1 DEF ToSet, Range
    <3> QED  BY <3>1, <3>2, <3>3
  <2> QED  BY <2>1, <2>2
<1>5. G \subseteq Range(s) /\ \A j \in G : J[j].req = "cancel"
  BY <1>4
<1>6. ASSUME i # 0 PROVE x \in Range(s) /\ Runnable(Q, J, x) /\ x \in Jobs /\ x # NoJob
  <2>1. x \in S
    BY <1>3, <1>6
  <2> QED  BY <1>1, <2>1, JobAssumption
<1>7. ASSUME i = 0, NEW j \in Range(s), j \notin G PROVE J[j].req # "cancel" /\ ~Runnable(Q, J, j)
  <2>1. j \notin S
    BY <1>1, <1>3, <1>7 DEF Range
  <2>2. ToSet(passed) = Range(s)
    BY <1>1, <1>7
  <2> QED  BY <1>1, <1>7, <2>1, <2>2
<1>8. i = 0 => x = NoJob
  OBVIOUS
<1>9. Found(Q, J, scheduled, x, G)
  <2> HIDE DEF x, G, i
  <2> QED  BY <1>5, <1>6, <1>7, <1>8 DEF Found
<1> HIDE DEF x, G, i
<1> QED  BY <1>2, <1>9

(* NextJob has passed: Q, J and s have become Q2, J2 and s2.               *)
Passed(Q, J, s, x, G, Q2, J2, s2) ==
    /\ Found(Q, J, s, x, G)
    /\ J2 = [j \in Jobs |-> IF j = x THEN [J[j] EXCEPT !.state = "running"] ELSE Freed(J, G)[j]]
    /\ Q2 = [q \in Queues |->
               IF (\E j \in G : J[j].on = q) /\ MayDelete(Q, Freed(J, G), q) THEN NoQueue
               ELSE IF x # NoJob /\ J[x].on = q THEN [Q[q] EXCEPT !.running = @ + 1]
               ELSE Q[q]]
    /\ s2 = Filter(s, Jobs \ (G \cup {x}))

JobsNow(J, s, x, G, J2, s2) ==
    /\ JobsOK(J2, s2) /\ x \notin G /\ G \subseteq Jobs
    /\ \A j \in Jobs : j = x => x # NoJob
    /\ Range(s2) = Range(s) \ (G \cup {x})
    /\ \A j \in G : J2[j] = FreeJob /\ J[j].state = "scheduled" /\ J[j].req = "cancel"
                    /\ J[j].on \in Queues
    /\ x # NoJob => /\ x \in Jobs /\ J[x].state = "scheduled" /\ J2[x].state = "running"
                    /\ J2[x].on = J[x].on /\ J[x].on \in Queues
                    /\ J2[x].req = J[x].req /\ J2[x].detached = J[x].detached
    /\ \A j \in Jobs : j # x /\ j \notin G => J2[j] = J[j]
    /\ \A q \in Queues : /\ Table(J2, q) = Table(Freed(J, G), q)
                         /\ Table(J2, q) = Table(J, q) \ G
                         /\ RunningIn(J2, q) = RunningIn(J, q) \cup
                              (IF x # NoJob /\ J[x].on = q THEN {x} ELSE {})

(* The job found is not one of those that are gone: a cancelled job cannot *)
(* run.                                                                    *)
LEMMA PassedJobs ==
    ASSUME NEW Q, NEW J, NEW s, JobsOK(J, s),
           NEW x, NEW G, NEW Q2, NEW J2, NEW s2, Passed(Q, J, s, x, G, Q2, J2, s2)
    PROVE  JobsNow(J, s, x, G, J2, s2)
<1>1. /\ J \in [Jobs -> JobType] /\ s \in Seq(Jobs) /\ IsInjective(s)
      /\ Range(s) = {j \in Jobs : J[j].state = "scheduled"}
      /\ \A j \in Jobs : IF J[j].state = "free" THEN J[j] = FreeJob ELSE J[j].on \in Queues
  BY DEF JobsOK
<1>2. /\ G \subseteq Range(s) /\ \A j \in G : J[j].req = "cancel"
      /\ x \in Jobs \cup {NoJob}
      /\ x # NoJob => x \in Range(s) /\ J[x].req # "cancel"
  BY DEF Passed, Found, Runnable
<1>3. x \notin G
  BY <1>1, <1>2, JobAssumption
<1>4. /\ FreeJob \in JobType /\ FreeJob.state = "free" /\ FreeJob.on = "none" /\ FreeJob.req = "none"
      /\ "none" \notin Queues
  BY JobAssumption DEF FreeJob, JobType
<1>5. ASSUME NEW j \in Jobs
      PROVE  /\ Freed(J, G)[j] = IF j \in G THEN FreeJob ELSE J[j]
             /\ J2[j] = IF j = x THEN [J[j] EXCEPT !.state = "running"]
                        ELSE IF j \in G THEN FreeJob ELSE J[j]
  BY DEF Passed, Freed
<1>6. ASSUME x # NoJob
      PROVE  /\ x \in Jobs /\ J2[x] \in JobType /\ J2[x].state = "running" /\ J2[x].on = J[x].on
             /\ J[x].state = "scheduled" /\ J[x].on \in Queues
             /\ J2[x].req = J[x].req /\ J2[x].detached = J[x].detached
  <2>1. x \in Jobs /\ J[x] \in JobType /\ J[x].state = "scheduled" /\ J[x].on \in Queues
    BY <1>1, <1>2, <1>6
  <2>2. J2[x] = [J[x] EXCEPT !.state = "running"]
    BY <1>5, <2>1
  <2> QED  BY <2>1, <2>2 DEF JobType
<1>7. J2 \in [Jobs -> JobType]
  <2>1. J2 = [j \in Jobs |-> J2[j]]
    BY DEF Passed
  <2>2. \A j \in Jobs : J2[j] \in JobType
    BY <1>1, <1>4, <1>5, <1>6, JobAssumption
  <2> QED  BY <2>1, <2>2
<1>8. \A j \in G : /\ j \in Jobs /\ J2[j] = FreeJob /\ J[j].state = "scheduled"
                   /\ J[j].req = "cancel" /\ J[j].on \in Queues
  BY <1>1, <1>2, <1>3, <1>5
<1>9. \A j \in Jobs : j # x /\ j \notin G => J2[j] = J[j]
  BY <1>5
<1>10. /\ s2 \in Seq(Jobs) /\ IsInjective(s2) /\ Range(s2) = Range(s) \ (G \cup {x})
  <2>1. s2 = Filter(s, Jobs \ (G \cup {x}))
    BY DEF Passed
  <2>2. /\ s2 \in Seq(Jobs) /\ IsInjective(s2) /\ Range(s2) = Range(s) \cap (Jobs \ (G \cup {x}))
    BY <1>1, <2>1, FilterHas
  <2> QED  BY <1>1, <2>2
<1>11. JobsOK(J2, s2)
  <2>1. Range(s2) = {j \in Jobs : J2[j].state = "scheduled"}
    <3>1. ASSUME NEW j \in Jobs
          PROVE  j \in Range(s2) <=> J2[j].state = "scheduled"
      BY <1>1, <1>4, <1>6, <1>8, <1>9, <1>10, JobAssumption
    <3> QED  BY <1>1, <1>10, <3>1
  <2>2. \A j \in Jobs : IF J2[j].state = "free" THEN J2[j] = FreeJob ELSE J2[j].on \in Queues
    BY <1>1, <1>4, <1>6, <1>8, <1>9, JobAssumption
  <2> QED  BY <1>7, <1>10, <2>1, <2>2 DEF JobsOK
<1>12. ASSUME NEW q \in Queues, NEW j \in Jobs
       PROVE  /\ j \in Table(J2, q) <=> j \in Table(Freed(J, G), q)
              /\ j \in Table(J2, q) <=> j \in Table(J, q) /\ j \notin G
              /\ j \in RunningIn(J2, q) <=> j \in RunningIn(J, q) \/ (x # NoJob /\ J[x].on = q /\ j = x)
  <2>1. CASE j = x
    BY <1>3, <1>5, <1>6, <2>1, JobAssumption DEF Table, RunningIn
  <2>2. CASE j \in G
    BY <1>3, <1>4, <1>5, <1>8, <2>2 DEF Table, RunningIn
  <2>3. CASE j # x /\ j \notin G
    BY <1>5, <1>9, <2>3 DEF Table, RunningIn
  <2> QED  BY <2>1, <2>2, <2>3
<1>13. ASSUME NEW q \in Queues
       PROVE  /\ Table(J2, q) = Table(Freed(J, G), q) /\ Table(J2, q) = Table(J, q) \ G
              /\ RunningIn(J2, q) = RunningIn(J, q) \cup (IF x # NoJob /\ J[x].on = q THEN {x} ELSE {})
  <2>1. \A L : Table(L, q) \subseteq Jobs /\ RunningIn(L, q) \subseteq Jobs
    BY DEF Table, RunningIn
  <2>2. x # NoJob => x \in Jobs
    BY <1>6
  <2>3. Table(J2, q) = Table(Freed(J, G), q)
    BY <1>12, <2>1
  <2>4. Table(J2, q) = Table(J, q) \ G
    BY <1>12, <2>1
  <2>5. RunningIn(J2, q) = RunningIn(J, q) \cup (IF x # NoJob /\ J[x].on = q THEN {x} ELSE {})
    BY <1>12, <2>1, <2>2
  <2> QED  BY <2>3, <2>4, <2>5
<1>14. \A j \in Jobs : j = x => x # NoJob
  BY JobAssumption
<1> QED  BY <1>1, <1>3, <1>6, <1>8, <1>9, <1>10, <1>11, <1>13, <1>14 DEF JobsNow
LEMMA PassedKeeps ==
    ASSUME NEW Q, NEW J, NEW s, NEW n, NEW i, NEW st, NEW P, NEW T, NEW K,
           Good(Q, J, s, n, i, st, P, T, K, Queues),
           NEW x, NEW G, NEW Q2, NEW J2, NEW s2, Passed(Q, J, s, x, G, Q2, J2, s2)
    PROVE  /\ WaitOK(J2, P, T) /\ QueuesOK(Q2, J2, P, T) /\ DeletingOK(Q2, J2, P, T, Queues)
           /\ \A j \in Range(s2) :
                /\ J2[j] = J[j] /\ j \in Range(s) /\ J[j].on \in Queues
                /\ Q2[J[j].on].max = Q[J[j].on].max
                /\ Q2[J[j].on].running = Q[J[j].on].running
                     + (IF x # NoJob /\ J[x].on = J[j].on THEN 1 ELSE 0)
<1>1. /\ JobsOK(J, s) /\ WaitOK(J, P, T) /\ QueuesOK(Q, J, P, T) /\ DeletingOK(Q, J, P, T, Queues)
  BY DEF Good
<1>0. JobsNow(J, s, x, G, J2, s2)
  BY <1>1, PassedJobs
<1>2. /\ JobsOK(J2, s2) /\ x \notin G /\ G \subseteq Jobs
      /\ \A j \in Jobs : j = x => x # NoJob
      /\ Range(s2) = Range(s) \ (G \cup {x})
      /\ \A j \in G : J2[j] = FreeJob /\ J[j].state = "scheduled" /\ J[j].req = "cancel"
                      /\ J[j].on \in Queues
      /\ x # NoJob => /\ x \in Jobs /\ J[x].state = "scheduled" /\ J2[x].state = "running"
                      /\ J2[x].on = J[x].on /\ J[x].on \in Queues
                      /\ J2[x].req = J[x].req /\ J2[x].detached = J[x].detached
      /\ \A j \in Jobs : j # x /\ j \notin G => J2[j] = J[j]
      /\ \A q \in Queues : /\ Table(J2, q) = Table(Freed(J, G), q)
                           /\ Table(J2, q) = Table(J, q) \ G
                           /\ RunningIn(J2, q) = RunningIn(J, q) \cup
                                (IF x # NoJob /\ J[x].on = q THEN {x} ELSE {})
  BY <1>0 DEF JobsNow
<1>3. /\ FreeJob.state = "free" /\ FreeJob.req = "none"
      /\ ~NoQueue.delete /\ NoQueue.running = 0 /\ NoQueue.refs = 0 /\ NoQueue.max = 0
      /\ NoQueue \in QueueType /\ ~NoQueue.made
  BY DEF FreeJob, NoQueue, QueueType
<1>4. WaitOK(J2, P, T)
  <2>0. ASSUME NEW j \in Jobs
        PROVE  J2[j].req = "wait" <=> J[j].req = "wait"
    BY <1>2, <1>3, JobAssumption
  <2>1. ASSUME NEW d \in Clients PROVE ClientOK(J2, P[d], T[d])
    <3>1. ClientOK(J, P[d], T[d])
      BY <1>1 DEF WaitOK
    <3>2. P[d] \in {"wait", "waitWoken"} =>
             /\ T[d].of \in Jobs /\ J2[T[d].of].on = J[T[d].of].on
             /\ J2[T[d].of].req = "wait"
             /\ J[T[d].of].state # "done" => J2[T[d].of].state # "done"
      <4>1. ASSUME P[d] \in {"wait", "waitWoken"}
            PROVE  T[d].of \in Jobs /\ J[T[d].of].req = "wait" /\ T[d].of \notin G
        BY <1>2, <3>1, <4>1 DEF ClientOK
      <4> QED  BY <1>2, <2>0, <4>1
    <3>3. \A r \in Queues : \A k \in Table(J2, r) : k \in Table(J, r) /\ (J[k].state # "done" => J2[k].state # "done")
      BY <1>2 DEF Table
    <3> QED  BY <3>1, <3>2, <3>3 DEF ClientOK
  <2>2. ASSUME NEW j \in Jobs, J2[j].req = "wait"
        PROVE  ~J2[j].detached /\ \E c \in Clients : WaitsFor(P, T, c, j)
    <3>1. J[j].req = "wait" /\ J2[j].detached = J[j].detached
      BY <1>2, <1>3, <2>0, <2>2
    <3> QED  BY <1>1, <3>1 DEF WaitOK
  <2> QED  BY <1>1, <2>1, <2>2 DEF WaitOK
<1>5. /\ Q \in [Queues -> QueueType]
      /\ \A q \in Queues : Q[q].running = Cardinality(RunningIn(J, q)) /\ Q[q].running <= Q[q].max
      /\ \A q \in Queues : Q[q].refs = Cardinality(RefsTo(P, T, q))
      /\ \A q \in Queues : ~Q[q].made => Q[q] = NoQueue
      /\ \A q \in Queues : Table(J, q) # {} => Q[q].made
  BY <1>1 DEF QueuesOK
<1> DEFINE gone(q) == (\E j \in G : J[j].on = q) /\ MayDelete(Q, Freed(J, G), q)
           takes(q) == x # NoJob /\ J[x].on = q
<1>6. ASSUME NEW q \in Queues
      PROVE  Q2[q] = IF gone(q) THEN NoQueue
                     ELSE IF takes(q) THEN [Q[q] EXCEPT !.running = @ + 1] ELSE Q[q]
  BY DEF Passed
<1>7. ASSUME NEW q \in Queues, gone(q)
      PROVE  Table(J2, q) = {} /\ ~takes(q) /\ RunningIn(J2, q) = {} /\ Q[q].refs = 0
  <2>1. Table(J2, q) = {} /\ Q[q].refs <= 0
    BY <1>2, <1>7 DEF MayDelete
  <2>2. ~takes(q)
    <3>1. ASSUME takes(q) PROVE FALSE
      <4>1. x \in Table(J2, q)
        BY <1>2, <3>1 DEF Table
      <4> QED  BY <2>1, <4>1
    <3> QED  BY <3>1
  <2>3. RunningIn(J2, q) \subseteq Table(J2, q)
    BY DEF RunningIn, Table
  <2>4. Q[q].refs \in Nat
    BY <1>5 DEF QueueType
  <2> QED  BY <2>1, <2>2, <2>3, <2>4
<1> HIDE DEF gone, takes
<1>8. ASSUME NEW q \in Queues, ~gone(q)
      PROVE  /\ Q2[q] \in QueueType /\ Q2[q].made = Q[q].made /\ Q2[q].delete = Q[q].delete
             /\ Q2[q].max = Q[q].max /\ Q2[q].refs = Q[q].refs
             /\ Q2[q].running = Q[q].running + (IF takes(q) THEN 1 ELSE 0)
             /\ ~takes(q) => Q2[q] = Q[q]
  <2>1. Q[q] \in QueueType /\ Q[q].running \in Nat
    BY <1>5 DEF QueueType
  <2>2. CASE takes(q)
    <3>1. Q2[q] = [Q[q] EXCEPT !.running = Q[q].running + 1]
      BY <1>6, <1>8, <2>2
    <3>2. Q[q].running + 1 \in Nat
      BY <2>1
    <3> QED  BY <2>1, <2>2, <3>1, <3>2 DEF QueueType
  <2>3. CASE ~takes(q)
    <3>1. Q2[q] = Q[q]
      BY <1>6, <1>8, <2>3
    <3>2. Q[q].running = Q[q].running + 0
      BY <2>1
    <3> QED  BY <2>1, <2>3, <3>1, <3>2
  <2> QED  BY <2>2, <2>3
<1>9. ASSUME NEW q \in Queues
      PROVE  Q2[q].running = Cardinality(RunningIn(J2, q)) /\ Q2[q].running <= Q2[q].max
  <2>1. CASE gone(q)
    <3>1. Q2[q] = NoQueue /\ RunningIn(J2, q) = {}
      BY <1>6, <1>7, <2>1
    <3> QED  BY <1>3, <3>1, FS_EmptySet
  <2>2. CASE ~gone(q) /\ takes(q)
    <3>1. RunningIn(J2, q) = RunningIn(J, q) \cup {x} /\ x \notin RunningIn(J, q)
      BY <1>2, <2>2 DEF RunningIn, takes
    <3>2. IsFiniteSet(RunningIn(J, q))
      BY JobAssumption, FS_Subset DEF RunningIn
    <3>3. Cardinality(RunningIn(J2, q)) = Cardinality(RunningIn(J, q)) + 1
      BY <3>1, <3>2, FS_AddElement
    <3>4. Q[q].running < Q[q].max
      BY <2>2 DEF Passed, Found, Runnable, takes
    <3>5. Q2[q].running = Q[q].running + 1 /\ Q2[q].max = Q[q].max
      BY <1>8, <2>2
    <3>6. Q[q].running \in Nat /\ Q[q].max \in Int
      <4>1. Q[q].running \in Nat /\ Q[q].max \in Limits \cup {0}
        BY <1>5 DEF QueueType
      <4>2. \A m \in Limits \cup {0} : m \in Int
        BY JobAssumption
      <4> QED  BY <4>1, <4>2
    <3> QED  BY <1>5, <3>3, <3>4, <3>5, <3>6
  <2>3. CASE ~gone(q) /\ ~takes(q)
    <3>1. Q2[q] = Q[q]
      BY <1>8, <2>3
    <3>2. RunningIn(J2, q) = RunningIn(J, q)
      BY <1>2, <2>3 DEF takes
    <3> QED  BY <1>5, <3>1, <3>2
  <2> QED  BY <2>1, <2>2, <2>3
<1>10. QueuesOK(Q2, J2, P, T)
  <2>1. Q2 \in [Queues -> QueueType]
    <3>1. Q2 = [q \in Queues |-> Q2[q]]
      BY DEF Passed
    <3>2. \A q \in Queues : Q2[q] \in QueueType
      BY <1>3, <1>6, <1>8
    <3> QED  BY <3>1, <3>2
  <2>2. ASSUME NEW q \in Queues
        PROVE  /\ Q2[q].refs = Cardinality(RefsTo(P, T, q))
               /\ ~Q2[q].made => Q2[q] = NoQueue
               /\ Table(J2, q) # {} => Q2[q].made
    <3>1. CASE gone(q)
      <4>1. Q2[q] = NoQueue /\ Q[q].refs = 0 /\ Table(J2, q) = {}
        BY <1>6, <1>7, <3>1
      <4> QED  BY <1>3, <1>5, <4>1
    <3>2. CASE ~gone(q)
      <4>1. takes(q) => Q[q].made
        <5>1. ASSUME takes(q) PROVE x \in Table(J, q)
          BY <1>2, <5>1 DEF Table, takes
        <5> QED  BY <1>5, <5>1
      <4>2. Q2[q].refs = Q[q].refs /\ Q2[q].made = Q[q].made /\ (~takes(q) => Q2[q] = Q[q])
        BY <1>8, <3>2
      <4>3. Table(J2, q) # {} => Table(J, q) # {}
        BY <1>2
      <4> QED  BY <1>5, <4>1, <4>2, <4>3
    <3> QED  BY <3>1, <3>2
  <2> QED  BY <1>9, <2>1, <2>2 DEF QueuesOK
<1>11. DeletingOK(Q2, J2, P, T, Queues)
  <2>1. ASSUME NEW q \in Queues PROVE MayDelete(Q2, J2, q) <=> MayDelete(Q, J, q)
    <3>1. CASE \E j \in G : J[j].on = q
      <4>1. ~MayDelete(Q, J, q)
        <5>1. PICK j \in G : J[j].on = q
          BY <3>1
        <5>2. j \in Table(J, q)
          BY <1>2, <5>1 DEF Table
        <5> QED  BY <5>2 DEF MayDelete
      <4>2. ~MayDelete(Q2, J2, q)
        <5>1. CASE gone(q)
          BY <1>3, <1>6, <5>1 DEF MayDelete
        <5>2. CASE ~gone(q)
          <6>1. Q2[q].delete = Q[q].delete /\ Q2[q].refs = Q[q].refs
            BY <1>8, <5>2
          <6> QED  BY <1>2, <3>1, <5>2, <6>1 DEF MayDelete, gone
        <5> QED  BY <5>1, <5>2
      <4> QED  BY <4>1, <4>2
    <3>2. CASE ~\E j \in G : J[j].on = q
      <4>1. Q2[q].delete = Q[q].delete /\ Q2[q].refs = Q[q].refs
        BY <1>8, <3>2 DEF gone
      <4>2. Table(J2, q) = Table(J, q)
        BY <1>2, <3>2 DEF Table
      <4> QED  BY <4>1, <4>2 DEF MayDelete
    <3> QED  BY <3>1, <3>2
  <2> QED  BY <1>1, <2>1 DEF DeletingOK
<1>12. ASSUME NEW j \in Range(s2)
       PROVE  /\ J2[j] = J[j] /\ j \in Range(s) /\ J[j].on \in Queues
              /\ Q2[J[j].on].max = Q[J[j].on].max
              /\ Q2[J[j].on].running = Q[J[j].on].running
                   + (IF x # NoJob /\ J[x].on = J[j].on THEN 1 ELSE 0)
  <2>1. j \in Jobs /\ j \in Range(s) /\ J2[j] = J[j] /\ J[j].on \in Queues /\ J[j].state = "scheduled"
    BY <1>1, <1>2 DEF JobsOK
  <2>2. j \in Table(J2, J[j].on)
    BY <2>1 DEF Table
  <2>3. ~gone(J[j].on)
    BY <1>7, <2>1, <2>2
  <2> QED  BY <1>8, <2>1, <2>3 DEF takes
<1> QED  BY <1>4, <1>10, <1>11, <1>12
(* Beside a job thread that sleeps no job is cancelled, and of one queue   *)
(* at most one more may run: the loop of JobThread will take that one.     *)
AlmostOK(Q, J, s, P) ==
    (\E w \in Workers : P[w] = "sleep") =>
        /\ \A j \in Range(s) : J[j].req # "cancel"
        /\ \A j, k \in Range(s) :
             Runnable(Q, J, j) /\ Runnable(Q, J, k) =>
                 J[j].on = J[k].on /\ Q[J[j].on].running + 1 >= Q[J[j].on].max

(* The loop of JobThread in thread w, at "start" or "woken" with no job.   *)
LEMMA LookKeeps ==
    ASSUME NEW Q, NEW J, NEW P, NEW K, NEW w \in Workers,
           Good(Q, J, scheduled, nthreads, nidle, stop, P, target, K, Queues),
           AlmostOK(Q, J, scheduled, P),
           NEW p \in [Threads -> ClientPlaces \cup WorkerPlaces], NEW u, Now(p, P, w, u),
           u \in {"start", "woken"}, work \in [Workers -> Jobs \cup {NoJob}],
           Now(work, K, w, NoJob),
           NEW counted, counted = Here(u, {"sleep", "woken"}),
           Look(w, Q, J, p, counted)
    PROVE  JobInv'
<1> DEFINE x == NextJob(Q, J).job
           G == NextJob(Q, J).gone
           P1 == IF stop THEN PoolWoken(P) ELSE P
           y == IF stop THEN "none" ELSE IF x = NoJob THEN "sleep" ELSE "run"
           k == IF stop THEN NoJob ELSE x
<1>1. /\ queue' = QueuesPassed(Q, J, NextJob(Q, J)) /\ job' = JobsPassed(J, NextJob(Q, J))
      /\ scheduled' = Filter(scheduled, Jobs \ (G \cup {x}))
      /\ UNCHANGED <<stop, target>>
      /\ work' = [work EXCEPT ![w] = k]
      /\ nthreads' = IF stop THEN nthreads - 1 ELSE nthreads
      /\ nidle' = IF ~stop /\ x = NoJob THEN nidle - counted + 1 ELSE nidle - counted
      /\ pc' = IF stop THEN [PoolWoken(p) EXCEPT ![w] = "none"]
               ELSE IF x = NoJob THEN [p EXCEPT ![w] = "sleep"] ELSE [p EXCEPT ![w] = "run"]
  BY DEF Look
<1>2. w \in Threads /\ DOMAIN p = Threads /\ P = [p EXCEPT ![w] = u] /\ P[w] = u /\ K[w] = NoJob
      /\ DOMAIN work = Workers
  BY DEF Threads, Now
<1>3. JobsOK(J, scheduled)
  BY DEF Good
<1>4. Found(Q, J, scheduled, x, G)
  BY <1>3, NextJobIs
<1>5. Passed(Q, J, scheduled, x, G, queue', job', scheduled')
  BY <1>1, <1>4 DEF Passed, QueuesPassed, JobsPassed
<1>6. Now(K, work', w, k)
  BY <1>1, <1>2 DEF Now
<1>7. Now(P1, pc', w, y)
  <2>1. CASE stop
    <3>1. DOMAIN P = Threads
      BY <1>2
    <3>2. [PoolWoken(p) EXCEPT ![w] = "none"] = [PoolWoken(P) EXCEPT ![w] = "none"]
      BY <1>2, <3>1 DEF PoolWoken
    <3> QED  BY <1>1, <2>1, <3>2 DEF Now
  <2>2. CASE ~stop
    BY <1>1, <1>2, <2>2 DEF Now
  <2> QED  BY <2>1, <2>2
<1>8. y \in WorkerPlaces /\ y \in {"none", "sleep", "run"}
  BY DEF WorkerPlaces
<1>9. /\ y = "none" <=> stop
      /\ y = "run" <=> k # NoJob
      /\ y = "sleep" <=> ~stop /\ x = NoJob
      /\ k \in {x, NoJob} /\ (~stop => k = x)
  OBVIOUS
<1>10. PlacesOK(P, target) /\ stop \in BOOLEAN
  BY DEF Good
<1>11. /\ Good(Q, J, scheduled, nthreads, nidle, stop, P1, target, K, Queues)
       /\ P1[w] = u /\ (stop => \A v \in Workers : P1[v] # "sleep") /\ (~stop => P1 = P)
  <2>1. CASE stop
    <3>1. Wakes(P, P1) /\ \A v \in Workers : P1[v] # "sleep"
      BY <1>10, <2>1, PoolWokenWakes
    <3>2. Good(Q, J, scheduled, nthreads, nidle, stop, P1, target, K, Queues)
      BY <3>1, WakeKeeps
    <3>3. P1[w] = u
      BY <1>2, <3>1 DEF Wakes
    <3> QED  BY <2>1, <3>1, <3>2, <3>3
  <2>2. CASE ~stop
    BY <1>2, <2>2
  <2> QED  BY <2>1, <2>2
<1> HIDE DEF x, G, P1, y, k
<1>12. /\ WaitOK(job', P1, target) /\ QueuesOK(queue', job', P1, target)
       /\ DeletingOK(queue', job', P1, target, Queues)
       /\ \A j \in Range(scheduled') :
            /\ job'[j] = J[j] /\ j \in Range(scheduled) /\ J[j].on \in Queues
            /\ queue'[J[j].on].max = Q[J[j].on].max
            /\ queue'[J[j].on].running = Q[J[j].on].running
                 + (IF x # NoJob /\ J[x].on = J[j].on THEN 1 ELSE 0)
  BY <1>5, <1>11, PassedKeeps
<1>13. JobsNow(J, scheduled, x, G, job', scheduled')
  BY <1>3, <1>5, PassedJobs
<1>14. PlacesOK(P1, target) /\ WorkOK(J, P1, K, stop) /\ PoolOK(nthreads, nidle, P1)
       /\ EnoughOK(Q, J, scheduled, nthreads, stop)
  BY <1>11 DEF Good
<1>15. /\ PlacesOK(pc', target) /\ pc'[w] = y
       /\ \A c \in Clients : pc'[c] = P1[c]
       /\ \A v \in Workers : v # w => pc'[v] = P1[v]
       /\ Count(pc', Workers, {"sleep", "woken"}) = Count(P1, Workers, {"sleep", "woken"})
            + Here(y, {"sleep", "woken"}) - Here(P1[w], {"sleep", "woken"})
       /\ Count(pc', Workers, Up) = Count(P1, Workers, Up) + Here(y, Up) - Here(P1[w], Up)
       /\ Count(pc', Clients, {"create"}) = Count(P1, Clients, {"create"})
  BY <1>7, <1>8, <1>14, WorkerMoves
<1>16. /\ WaitOK(job', pc', target) /\ QueuesOK(queue', job', pc', target)
       /\ DeletingOK(queue', job', pc', target, Queues)
  BY <1>12, <1>15, ClientsKeep
<1>17. /\ JobsOK(job', scheduled') /\ x \notin G /\ G \subseteq Jobs
       /\ \A j \in Jobs : j = x => x # NoJob
       /\ Range(scheduled') = Range(scheduled) \ (G \cup {x})
       /\ \A j \in G : job'[j] = FreeJob /\ J[j].state = "scheduled" /\ J[j].req = "cancel"
       /\ x # NoJob => x \in Jobs /\ J[x].state = "scheduled" /\ job'[x].state = "running"
       /\ \A j \in Jobs : j # x /\ j \notin G => job'[j] = J[j]
  BY <1>13 DEF JobsNow
<1>18. WorkOK(job', pc', work', stop)
  <2>1. /\ work' \in [Workers -> Jobs \cup {NoJob}] /\ work'[w] = k
        /\ \A v \in Workers : v # w => work'[v] = K[v]
    <3>1. k \in Jobs \cup {NoJob}
      BY <1>9, <1>17
    <3>2. K \in [Workers -> Jobs \cup {NoJob}]
      BY <1>14 DEF WorkOK
    <3> QED  BY <1>6, <3>1, <3>2 DEF Now
  <2>2. \A v \in Workers : pc'[v] = "run" <=> work'[v] # NoJob
    BY <1>9, <1>14, <1>15, <2>1 DEF WorkOK
  <2>3. \A v \in Workers : K[v] # NoJob => K[v] \in Jobs /\ J[K[v]].state = "running"
    BY <1>14 DEF WorkOK
  <2>4. \A v \in Workers : K[v] # NoJob => K[v] # x /\ K[v] \notin G /\ job'[K[v]].state = "running"
    BY <1>17, <2>3
  <2>5. \A v, z \in Workers : work'[v] = work'[z] /\ work'[v] # NoJob => v = z
    BY <1>9, <1>14, <2>1, <2>4 DEF WorkOK
  <2>6. \A v \in Workers : work'[v] # NoJob => job'[work'[v]].state = "running"
    BY <1>9, <1>17, <2>1, <2>4
  <2>7. ASSUME NEW j \in Jobs, job'[j].state = "running", ~stop
        PROVE  \E v \in Workers : work'[v] = j
    <3>1. CASE j = x
      BY <1>9, <2>1, <2>7, <3>1
    <3>2. CASE j # x
      <4>1. j \notin G /\ J[j].state = "running"
        BY <1>17, <2>7, <3>2 DEF FreeJob
      <4>2. PICK v \in Workers : K[v] = j
        BY <1>14, <2>7, <4>1 DEF WorkOK
      <4>3. v # w
        BY <1>2, <4>2, JobAssumption
      <4> QED  BY <2>1, <4>2, <4>3
    <3> QED  BY <3>1, <3>2
  <2> QED  BY <2>1, <2>2, <2>5, <2>6, <2>7 DEF WorkOK
<1>19. /\ Count(P1, Clients, {"create"}) \in Nat /\ Count(P1, Workers, Up) \in Nat
       /\ Count(P1, Workers, {"sleep", "woken"}) \in Nat
       /\ IsFiniteSet(Workers)
  BY CountType, JobAssumption
<1>20. PoolOK(nthreads', nidle', pc')
  <2>1. /\ Here(P1[w], Up) = 1 /\ Here(y, Up) = IF stop THEN 0 ELSE 1
        /\ Here(y, {"sleep", "woken"}) = IF ~stop /\ x = NoJob THEN 1 ELSE 0
        /\ Here(P1[w], {"sleep", "woken"}) = counted /\ counted \in {0, 1}
    BY <1>8, <1>9, <1>11 DEF Here, Up
  <2>2. /\ nidle' = Count(pc', Workers, {"sleep", "woken"})
        /\ nidle \in Nat /\ nthreads \in Nat
    <3>1. nidle = Count(P1, Workers, {"sleep", "woken"}) /\ nidle \in Nat /\ nthreads \in Nat
      BY <1>14, <1>19 DEF PoolOK
    <3>2. nidle' = IF ~stop /\ x = NoJob THEN nidle - counted + 1 ELSE nidle - counted
      BY <1>1 DEF x
    <3> QED  BY <1>15, <2>1, <3>1, <3>2
  <2>3. nthreads' = Count(pc', Clients, {"create"}) + Count(pc', Workers, Up)
    BY <1>1, <1>14, <1>15, <1>19, <2>1 DEF PoolOK
  <2>4. nthreads' <= Cardinality(Queues) * MaxLimit
    <3>1. Cardinality(Queues) * MaxLimit \in Int
      BY JobAssumption, FS_CardinalityType
    <3>2. nthreads <= Cardinality(Queues) * MaxLimit
      BY <1>14 DEF PoolOK
    <3> QED  BY <1>1, <2>2, <3>1, <3>2
  <2> QED  BY <2>2, <2>3, <2>4 DEF PoolOK
<1>21. EnoughOK(queue', job', scheduled', nthreads', stop)
  <2>1. ~stop => nthreads' > 0
    <3>1. ASSUME ~stop PROVE Count(pc', Workers, Up) # 0
      <4>1. pc'[w] \in Up
        BY <1>9, <1>8, <1>15, <3>1 DEF Up
      <4> QED  BY <1>19, <4>1, CountType
    <3>2. Count(pc', Workers, Up) \in Nat /\ Count(pc', Clients, {"create"}) \in Nat
      BY CountType, JobAssumption
    <3> QED  BY <1>20, <3>1, <3>2 DEF PoolOK
  <2> QED  BY <2>1 DEF EnoughOK
<1>22. SleepOK(queue', job', scheduled', pc')
  <2>1. SUFFICES ASSUME NEW v \in Workers, pc'[v] = "sleep", NEW j \in Range(scheduled')
                 PROVE  job'[j].req # "cancel" /\ ~Runnable(queue', job', j)
    BY DEF SleepOK
  <2>2. ~stop
    BY <1>9, <1>11, <1>15, <2>1
  <2>3. /\ job'[j] = J[j] /\ j \in Range(scheduled) /\ J[j].on \in Queues
        /\ queue'[J[j].on].max = Q[J[j].on].max
        /\ queue'[J[j].on].running = Q[J[j].on].running
                 + (IF x # NoJob /\ J[x].on = J[j].on THEN 1 ELSE 0)
        /\ j \notin G
    BY <1>12, <1>17
  <2>4. /\ Q[J[j].on].running \in Nat /\ Q[J[j].on].max \in Int
    <3>1. Q \in [Queues -> QueueType]
      BY DEF Good, QueuesOK
    <3>2. Q[J[j].on].running \in Nat /\ Q[J[j].on].max \in Limits \cup {0}
      BY <2>3, <3>1 DEF QueueType
    <3>3. \A m \in Limits \cup {0} : m \in Int
      BY JobAssumption
    <3> QED  BY <3>2, <3>3
  <2>5. CASE x = NoJob
    <3>1. J[j].req # "cancel" /\ ~Runnable(Q, J, j)
      BY <1>4, <2>3, <2>5 DEF Found
    <3>2. queue'[J[j].on].running = Q[J[j].on].running
      BY <2>3, <2>4, <2>5
    <3> QED  BY <2>3, <3>1, <3>2 DEF Runnable
  <2>6. CASE x # NoJob
    <3>1. v # w /\ P[v] = "sleep"
      BY <1>9, <1>11, <1>15, <2>1, <2>2, <2>6
    <3>2. x \in Range(scheduled) /\ Runnable(Q, J, x)
      BY <1>4, <2>6 DEF Found
    <3>3. /\ J[j].req # "cancel"
          /\ Runnable(Q, J, j) => J[x].on = J[j].on /\ Q[J[j].on].running + 1 >= Q[J[j].on].max
      BY <2>3, <3>1, <3>2 DEF AlmostOK
    <3>4. CASE Runnable(Q, J, j)
      <4>1. /\ queue'[J[j].on].running = Q[J[j].on].running + 1
            /\ Q[J[j].on].running + 1 >= Q[J[j].on].max
        BY <2>3, <2>6, <3>3, <3>4
      <4>2. ~(queue'[J[j].on].running < queue'[J[j].on].max)
        BY <2>3, <2>4, <4>1
      <4> QED  BY <2>3, <3>3, <4>2 DEF Runnable
    <3>5. CASE ~Runnable(Q, J, j)
      <4>1. ~(Q[J[j].on].running < Q[J[j].on].max)
        BY <3>3, <3>5 DEF Runnable
      <4>2. queue'[J[j].on].running >= Q[J[j].on].running /\ queue'[J[j].on].running \in Nat
        BY <2>3, <2>4
      <4>3. ~(queue'[J[j].on].running < queue'[J[j].on].max)
        BY <2>3, <2>4, <4>1, <4>2
      <4> QED  BY <2>3, <3>3, <4>3 DEF Runnable
    <3> QED  BY <3>4, <3>5
  <2> QED  BY <2>5, <2>6
<1>23. Good(queue', job', scheduled', nthreads', nidle', stop, pc', target, work', Queues)
  BY <1>10, <1>15, <1>16, <1>17, <1>18, <1>20, <1>21 DEF Good
<1> QED  BY <1>1, <1>22, <1>23 DEF JobInv
(* The script of job j of queue q has ended in thread w. *)
Ended(J, j) == IF J[j].req = "cancel" \/ J[j].detached THEN FreeJob ELSE [J[j] EXCEPT !.state = "done"]

Ends(Q, J, P, T, K, w, j, q, Q2, J2, P2, K2) ==
    /\ w \in Workers /\ P[w] = "run" /\ j = K[w] /\ q = J[j].on
    /\ Unlocked(P, T, q)
    /\ \A c \in Clients : T[c].on = q => P[c] # "wait" /\ P[c] # "any"
    /\ J2 = [J EXCEPT ![j] = Ended(J, j)]
    /\ Q2 = Removed([Q EXCEPT ![q].running = @ - 1], J2, q)
    /\ Now(P, P2, w, "start") /\ Now(K, K2, w, NoJob)

LEMMA EndKeeps ==
    ASSUME NEW Q, NEW J, NEW s, NEW n, NEW i, NEW st, NEW P, NEW T, NEW K,
           Good(Q, J, s, n, i, st, P, T, K, Queues), SleepOK(Q, J, s, P),
           NEW w, NEW j, NEW q, NEW Q2, NEW J2, NEW P2, NEW K2,
           Ends(Q, J, P, T, K, w, j, q, Q2, J2, P2, K2)
    PROVE  Good(Q2, J2, s, n, i, st, P2, T, K2, Queues) /\ AlmostOK(Q2, J2, s, P2)
<1>1. /\ PlacesOK(P, T) /\ JobsOK(J, s) /\ WorkOK(J, P, K, st) /\ WaitOK(J, P, T)
      /\ QueuesOK(Q, J, P, T) /\ DeletingOK(Q, J, P, T, Queues)
      /\ PoolOK(n, i, P) /\ EnoughOK(Q, J, s, n, st) /\ st \in BOOLEAN
  BY DEF Good
<1> DEFINE qs == [Q EXCEPT ![q].running = @ - 1]
<1>2. /\ w \in Workers /\ P[w] = "run" /\ j = K[w] /\ q = J[j].on
      /\ Unlocked(P, T, q)
      /\ \A c \in Clients : T[c].on = q => P[c] # "wait" /\ P[c] # "any"
      /\ J2 = [J EXCEPT ![j] = Ended(J, j)]
      /\ Q2 = Removed(qs, J2, q)
      /\ Now(P, P2, w, "start") /\ Now(K, K2, w, NoJob)
  BY DEF Ends
<1>3. /\ J \in [Jobs -> JobType] /\ s \in Seq(Jobs) /\ IsInjective(s)
      /\ Range(s) = {k \in Jobs : J[k].state = "scheduled"}
      /\ \A k \in Jobs : IF J[k].state = "free" THEN J[k] = FreeJob ELSE J[k].on \in Queues
  BY <1>1 DEF JobsOK
<1>4. /\ j \in Jobs /\ J[j].state = "running" /\ q \in Queues /\ j \notin Range(s)
      /\ \A v \in Workers : v # w => K[v] # j
  <2>1. j # NoJob /\ j \in Jobs /\ J[j].state = "running"
    BY <1>1, <1>2 DEF WorkOK
  <2> QED  BY <1>1, <1>2, <1>3, <2>1 DEF WorkOK
<1>5. /\ FreeJob \in JobType /\ FreeJob.state = "free" /\ FreeJob.on = "none" /\ FreeJob.req = "none"
      /\ "none" \notin Queues
      /\ ~NoQueue.delete /\ NoQueue.running = 0 /\ NoQueue.refs = 0 /\ NoQueue.max = 0
      /\ NoQueue \in QueueType /\ ~NoQueue.made
  BY JobAssumption DEF FreeJob, JobType, NoQueue, QueueType
<1>6. /\ Ended(J, j) \in JobType
      /\ \/ Ended(J, j) = FreeJob /\ J[j].req # "wait"
         \/ /\ Ended(J, j).state = "done" /\ Ended(J, j).on = q
            /\ Ended(J, j).req = J[j].req /\ Ended(J, j).detached = J[j].detached
  <2>1. J[j] \in JobType
    BY <1>3, <1>4
  <2>2. CASE J[j].req = "cancel" \/ J[j].detached
    <3>1. J[j].req # "wait"
      BY <1>1, <1>4, <2>2 DEF WaitOK
    <3> QED  BY <1>5, <2>2, <3>1 DEF Ended
  <2>3. CASE ~(J[j].req = "cancel" \/ J[j].detached)
    <3>1. Ended(J, j) = [J[j] EXCEPT !.state = "done"]
      BY <2>3 DEF Ended
    <3> QED  BY <1>2, <2>1, <3>1 DEF JobType
  <2> QED  BY <2>2, <2>3
<1>7. /\ J2 \in [Jobs -> JobType] /\ J2[j] = Ended(J, j) /\ \A k \in Jobs : k # j => J2[k] = J[k]
      /\ J2[j].state \in {"free", "done"} /\ J2[j].state # "running" /\ J2[j].state # "scheduled"
  BY <1>2, <1>3, <1>4, <1>5, <1>6
<1>8. JobsOK(J2, s)
  <2>1. Range(s) = {k \in Jobs : J2[k].state = "scheduled"}
    BY <1>3, <1>4, <1>7
  <2>2. \A k \in Jobs : IF J2[k].state = "free" THEN J2[k] = FreeJob ELSE J2[k].on \in Queues
    BY <1>3, <1>4, <1>5, <1>6, <1>7
  <2> QED  BY <1>3, <1>7, <2>1, <2>2 DEF JobsOK
<1>9. /\ \A r \in Queues : r # q => Table(J2, r) = Table(J, r) /\ RunningIn(J2, r) = RunningIn(J, r)
      /\ Table(J2, q) \subseteq Table(J, q) /\ RunningIn(J2, q) = RunningIn(J, q) \ {j}
      /\ j \in RunningIn(J, q) /\ j \in Table(J, q)
  <2>1. ASSUME NEW r \in Queues, r # q
        PROVE  Table(J2, r) = Table(J, r) /\ RunningIn(J2, r) = RunningIn(J, r)
    BY <1>2, <1>5, <1>6, <1>7, <2>1 DEF Table, RunningIn
  <2>2. /\ Table(J2, q) \subseteq Table(J, q) /\ RunningIn(J2, q) = RunningIn(J, q) \ {j}
        /\ j \in RunningIn(J, q) /\ j \in Table(J, q)
    BY <1>2, <1>4, <1>7 DEF Table, RunningIn
  <2> QED  BY <2>1, <2>2
<1>10. /\ Q \in [Queues -> QueueType] /\ Q[q] \in QueueType
       /\ \A r \in Queues : Q[r].running = Cardinality(RunningIn(J, r)) /\ Q[r].running <= Q[r].max
       /\ \A r \in Queues : Q[r].refs = Cardinality(RefsTo(P, T, r))
       /\ \A r \in Queues : ~Q[r].made => Q[r] = NoQueue
       /\ \A r \in Queues : Table(J, r) # {} => Q[r].made
  BY <1>1, <1>4 DEF QueuesOK
<1>11. /\ Q[q].running - 1 = Cardinality(RunningIn(J2, q)) /\ Q[q].running - 1 \in Nat
       /\ Q[q].running - 1 <= Q[q].max /\ Q[q].running \in Nat /\ Q[q].max \in Int
  <2>1. IsFiniteSet(RunningIn(J, q))
    BY JobAssumption, FS_Subset DEF RunningIn
  <2>2. /\ IsFiniteSet(RunningIn(J2, q))
        /\ Cardinality(RunningIn(J2, q)) = Cardinality(RunningIn(J, q)) - 1
    BY <1>9, <2>1, FS_RemoveElement
  <2>3. Cardinality(RunningIn(J2, q)) \in Nat
    BY <2>2, FS_CardinalityType
  <2>4. Q[q].running \in Nat /\ Q[q].max \in Limits \cup {0}
    BY <1>10 DEF QueueType
  <2>5. \A m \in Limits \cup {0} : m \in Int
    BY JobAssumption
  <2> QED  BY <1>4, <1>10, <2>2, <2>3, <2>4, <2>5
<1>12. /\ qs \in [Queues -> QueueType] /\ \A r \in Queues : r # q => qs[r] = Q[r]
       /\ qs[q].running = Q[q].running - 1 /\ qs[q].max = Q[q].max /\ qs[q].refs = Q[q].refs
       /\ qs[q].made = Q[q].made /\ qs[q].delete = Q[q].delete
  <2>1. [Q[q] EXCEPT !.running = Q[q].running - 1] \in QueueType
    BY <1>10, <1>11 DEF QueueType
  <2>2. /\ qs \in [Queues -> QueueType] /\ \A r \in Queues : r # q => qs[r] = Q[r]
        /\ qs[q] = [Q[q] EXCEPT !.running = Q[q].running - 1]
    BY <1>4, <1>10, <2>1
  <2> HIDE DEF qs
  <2> QED  BY <1>10, <2>2 DEF QueueType
<1> DEFINE removed == MayDelete(qs, J2, q)
<1>13. /\ removed => Q2 = [qs EXCEPT ![q] = NoQueue]
       /\ ~removed => Q2 = qs
  BY <1>2 DEF Removed
<1>14. removed => Table(J2, q) = {} /\ qs[q].refs <= 0
  BY DEF MayDelete
<1> HIDE DEF qs
<1>15. /\ Q2 \in [Queues -> QueueType] /\ \A r \in Queues : r # q => Q2[r] = Q[r]
       /\ removed => Q2[q] = NoQueue
       /\ ~removed => Q2[q] = qs[q]
  BY <1>4, <1>5, <1>12, <1>13
<1>16. ~MayDelete(Q2, J2, q)
  BY <1>5, <1>13, <1>15 DEF MayDelete
<1> HIDE DEF removed
<1>17. "start" \in WorkerPlaces
  BY DEF WorkerPlaces
<1>18. /\ PlacesOK(P2, T) /\ P2[w] = "start" /\ \A c \in Clients : P2[c] = P[c]
       /\ \A v \in Workers : v # w => P2[v] = P[v]
       /\ Count(P2, Workers, {"sleep", "woken"}) = Count(P, Workers, {"sleep", "woken"})
            + Here("start", {"sleep", "woken"}) - Here(P[w], {"sleep", "woken"})
       /\ Count(P2, Workers, Up) = Count(P, Workers, Up) + Here("start", Up) - Here(P[w], Up)
       /\ Count(P2, Clients, {"create"}) = Count(P, Clients, {"create"})
  BY <1>1, <1>2, <1>17, WorkerMoves
<1>19. WorkOK(J2, P2, K2, st)
  <2>1. K2 \in [Workers -> Jobs \cup {NoJob}] /\ K2[w] = NoJob /\ \A v \in Workers : v # w => K2[v] = K[v]
    BY <1>1, <1>2 DEF WorkOK, Now
  <2>2. \A v \in Workers : P2[v] = "run" <=> K2[v] # NoJob
    BY <1>1, <1>18, <2>1 DEF WorkOK
  <2>3. \A v \in Workers : K2[v] # NoJob => v # w /\ K2[v] # j /\ K2[v] = K[v] /\ K2[v] \in Jobs
    BY <1>4, <2>1
  <2>4. \A v \in Workers : K2[v] # NoJob => J2[K2[v]].state = "running"
    BY <1>1, <1>7, <2>3 DEF WorkOK
  <2>5. ASSUME NEW k \in Jobs, J2[k].state = "running", ~st PROVE \E v \in Workers : K2[v] = k
    <3>1. k # j /\ J[k].state = "running"
      BY <1>7, <2>5
    <3>2. PICK v \in Workers : K[v] = k
      BY <1>1, <2>5, <3>1 DEF WorkOK
    <3> QED  BY <1>2, <2>1, <3>1, <3>2
  <2>6. \A v, u \in Workers : K2[v] = K2[u] /\ K2[v] # NoJob => v = u
    BY <1>1, <2>3 DEF WorkOK
  <2> QED  BY <2>1, <2>2, <2>4, <2>5, <2>6 DEF WorkOK
<1>20. WaitOK(J2, P, T)
  <2>1. ASSUME NEW d \in Clients PROVE ClientOK(J2, P[d], T[d])
    <3>1. ClientOK(J, P[d], T[d])
      BY <1>1 DEF WaitOK
    <3>2. P[d] \in {"wait", "waitWoken"} =>
             /\ J2[T[d].of].on = T[d].on /\ J2[T[d].of].req = "wait"
             /\ P[d] = "wait" => J2[T[d].of].state # "done"
      BY <1>2, <1>6, <1>7, <3>1 DEF ClientOK
    <3>3. P[d] = "any" => \A k \in Table(J2, T[d].on) : J2[k].state # "done"
      <4>1. ASSUME P[d] = "any", NEW k \in Table(J2, T[d].on) PROVE J2[k].state # "done"
        <5>1. T[d].on \in Queues /\ T[d].on # q
          BY <1>2, <3>1, <4>1 DEF ClientOK
        <5>2. k \in Table(J, T[d].on) /\ k \in Jobs /\ J[k].on = T[d].on
          BY <1>9, <4>1, <5>1 DEF Table
        <5>3. k # j
          BY <1>2, <5>1, <5>2
        <5> QED  BY <1>7, <3>1, <4>1, <5>2, <5>3 DEF ClientOK
      <4> QED  BY <4>1
    <3> QED  BY <3>1, <3>2, <3>3 DEF ClientOK
  <2>2. ASSUME NEW k \in Jobs, J2[k].req = "wait"
        PROVE  ~J2[k].detached /\ \E c \in Clients : WaitsFor(P, T, c, k)
    <3>1. J[k].req = "wait" /\ J2[k].detached = J[k].detached
      BY <1>5, <1>6, <1>7, <2>2
    <3> QED  BY <1>1, <3>1 DEF WaitOK
  <2> QED  BY <1>1, <2>1, <2>2 DEF WaitOK
<1>21. QueuesOK(Q2, J2, P, T)
  <2>1. ASSUME NEW r \in Queues, r # q
        PROVE  /\ Q2[r].running = Cardinality(RunningIn(J2, r)) /\ Q2[r].running <= Q2[r].max
               /\ Q2[r].refs = Cardinality(RefsTo(P, T, r))
               /\ ~Q2[r].made => Q2[r] = NoQueue
               /\ Table(J2, r) # {} => Q2[r].made
    <3>1. Q2[r] = Q[r] /\ Table(J2, r) = Table(J, r) /\ RunningIn(J2, r) = RunningIn(J, r)
      BY <1>9, <1>15, <2>1
    <3> QED  BY <1>10, <3>1
  <2>2. CASE removed
    <3>1. Q2[q] = NoQueue /\ Table(J2, q) = {} /\ qs[q].refs <= 0
      BY <1>14, <1>15, <2>2
    <3>2. Cardinality(RefsTo(P, T, q)) = 0
      <4>1. qs[q].refs = Cardinality(RefsTo(P, T, q))
        BY <1>4, <1>10, <1>12
      <4>2. qs[q].refs \in Nat
        BY <1>4, <1>12 DEF QueueType
      <4> QED  BY <3>1, <4>1, <4>2
    <3>3. Cardinality(RunningIn(J2, q)) = 0
      <4>1. RunningIn(J2, q) = {}
        BY <3>1, <1>4 DEF RunningIn, Table
      <4> QED  BY <4>1, FS_EmptySet
    <3>4. Q2[q].running <= Q2[q].max
      BY <1>5, <3>1
    <3> QED  BY <1>5, <1>15, <2>1, <3>1, <3>2, <3>3, <3>4 DEF QueuesOK
  <2>3. CASE ~removed
    <3>1. Q2[q] = qs[q]
      BY <1>15, <2>3
    <3>2. /\ Q2[q].running = Cardinality(RunningIn(J2, q)) /\ Q2[q].running <= Q2[q].max
          /\ Q2[q].refs = Cardinality(RefsTo(P, T, q)) /\ Q2[q].made
      BY <1>4, <1>9, <1>10, <1>11, <1>12, <3>1
    <3> QED  BY <1>15, <2>1, <3>2 DEF QueuesOK
  <2> QED  BY <2>2, <2>3
<1>22. DeletingOK(Q2, J2, P, T, Queues)
  <2>1. \A r \in Queues : r # q => (MayDelete(Q2, J2, r) <=> MayDelete(Q, J, r))
    BY <1>9, <1>15 DEF MayDelete
  <2>2. \A d \in Clients : ~Deletes(P, T, d, q)
    BY <1>2 DEF Unlocked
  <2> QED  BY <1>1, <1>16, <2>1, <2>2 DEF DeletingOK
<1>23. WaitOK(J2, P2, T) /\ QueuesOK(Q2, J2, P2, T) /\ DeletingOK(Q2, J2, P2, T, Queues)
  BY <1>18, <1>20, <1>21, <1>22, ClientsKeep
<1>24. PoolOK(n, i, P2)
  <2>1. /\ Here("start", {"sleep", "woken"}) = 0 /\ Here(P[w], {"sleep", "woken"}) = 0
        /\ Here("start", Up) = 1 /\ Here(P[w], Up) = 1
    BY <1>2 DEF Here, Up
  <2>2. /\ Count(P, Clients, {"create"}) \in Nat /\ Count(P, Workers, Up) \in Nat
        /\ Count(P, Workers, {"sleep", "woken"}) \in Nat
    BY CountType, JobAssumption
  <2> QED  BY <1>1, <1>18, <2>1, <2>2 DEF PoolOK
<1>25. ASSUME NEW k \in Range(s)
       PROVE  /\ J2[k] = J[k] /\ J[k].on \in Queues /\ Q2[J[k].on].max = Q[J[k].on].max
              /\ Q2[J[k].on].running = IF J[k].on = q THEN Q[q].running - 1 ELSE Q[J[k].on].running
  <2>1. k \in Jobs /\ k # j /\ J2[k] = J[k] /\ J[k].on \in Queues /\ J[k].state = "scheduled"
    BY <1>3, <1>4, <1>7
  <2>2. CASE J[k].on = q
    <3>1. k \in Table(J2, q)
      BY <2>1, <2>2 DEF Table
    <3> QED  BY <1>12, <1>14, <1>15, <2>1, <2>2, <3>1
  <2>3. CASE J[k].on # q
    BY <1>15, <2>1, <2>3
  <2> QED  BY <2>2, <2>3
<1>26. EnoughOK(Q2, J2, s, n, st)
  BY <1>1, <1>25 DEF EnoughOK
<1>27. AlmostOK(Q2, J2, s, P2)
  <2>1. SUFFICES ASSUME \E v \in Workers : P2[v] = "sleep"
                 PROVE  /\ \A k \in Range(s) : J2[k].req # "cancel"
                        /\ \A k, l \in Range(s) :
                             Runnable(Q2, J2, k) /\ Runnable(Q2, J2, l) =>
                                 J2[k].on = J2[l].on /\ Q2[J2[k].on].running + 1 >= Q2[J2[k].on].max
    BY DEF AlmostOK
  <2>2. \A k \in Range(s) : J[k].req # "cancel" /\ ~Runnable(Q, J, k)
    BY <1>18, <2>1 DEF SleepOK
  <2>3. ASSUME NEW k \in Range(s), Runnable(Q2, J2, k)
        PROVE  J2[k].on = q /\ Q2[q].running + 1 >= Q2[q].max
    <3>1. ~(Q[J[k].on].running < Q[J[k].on].max) /\ Q2[J[k].on].running < Q2[J[k].on].max
      BY <1>25, <2>2, <2>3 DEF Runnable
    <3>2. J[k].on = q
      BY <1>25, <3>1
    <3>3. ~(Q[q].running < Q[q].max) /\ Q2[q].running = Q[q].running - 1 /\ Q2[q].max = Q[q].max
      BY <1>25, <3>1, <3>2
    <3> QED  BY <1>11, <1>25, <3>2, <3>3
  <2> QED  BY <1>25, <2>2, <2>3
<1> QED  BY <1>1, <1>8, <1>18, <1>19, <1>23, <1>24, <1>26, <1>27 DEF Good

LEMMA FinishKeeps ==
    ASSUME JobInv, NEW w \in Workers, Finish(w)
    PROVE  JobInv'
<1> DEFINE j == work[w]
           q == job[j].on
           p == QueueWoken(pc, q)
           P == [p EXCEPT ![w] = "start"]
           K == [work EXCEPT ![w] = NoJob]
           J2 == [job EXCEPT ![j] = IF @.req = "cancel" \/ @.detached THEN FreeJob
                                    ELSE [@ EXCEPT !.state = "done"]]
           Q2 == Removed([queue EXCEPT ![q].running = @ - 1], J2, q)
<1>1. pc[w] = "run" /\ Lookup(q) /\ Look(w, Q2, J2, p, 0)
  BY DEF Finish
<1>2. /\ Wakes(pc, p) /\ \A v \in Workers : p[v] = pc[v]
      /\ \A c \in Clients : target[c].on = q => p[c] # "wait" /\ p[c] # "any"
  BY JobInvIs, QueueWokenWakes
<1>3. /\ Good(queue, job, scheduled, nthreads, nidle, stop, p, target, work, Queues)
      /\ SleepOK(queue, job, scheduled, p)
  BY <1>2, WakeKeeps DEF JobInv
<1>4. Unlocked(p, target, q)
  <2>1. Unlocked(pc, target, q)
    BY <1>1, LockIs DEF Lookup
  <2>2. \A d \in Clients : p[d] = "deleting" => pc[d] = "deleting"
    BY <1>2 DEF Wakes, Threads
  <2> QED  BY <2>1, <2>2 DEF Unlocked, Deletes
<1>5. j \in Jobs /\ work \in [Workers -> Jobs \cup {NoJob}] /\ job \in [Jobs -> JobType]
  BY <1>1, JobInvIs DEF WorkOK, JobsOK
<1>6. J2 = [job EXCEPT ![j] = Ended(job, j)]
  BY <1>5 DEF Ended
<1>7. Now(p, P, w, "start") /\ Now(work, K, w, NoJob)
  BY DEF Now
<1>8. Ends(queue, job, p, target, work, w, j, q, Q2, J2, P, K)
  <2> HIDE DEF P, K, p
  <2> QED  BY <1>1, <1>2, <1>4, <1>6, <1>7 DEF Ends
<1>9. p \in [Threads -> ClientPlaces \cup WorkerPlaces]
  BY <1>3 DEF Good, PlacesOK
<1> HIDE DEF P, K, p, Q2, J2
<1>10. /\ Good(Q2, J2, scheduled, nthreads, nidle, stop, P, target, K, Queues)
       /\ AlmostOK(Q2, J2, scheduled, P)
  BY <1>3, <1>8, EndKeeps
<1>11. 0 = Here("start", {"sleep", "woken"}) /\ "start" \in {"start", "woken"}
  BY DEF Here
<1> QED  BY <1>1, <1>5, <1>7, <1>9, <1>10, <1>11, LookKeeps

LEMMA StartKeeps ==
    ASSUME JobInv, NEW w \in Workers, Start(w) \/ Awake(w)
    PROVE  JobInv'
<1> DEFINE u == pc[w]
           counted == Here(u, {"sleep", "woken"})
<1>1. u \in {"start", "woken"} /\ Look(w, queue, job, pc, counted)
  BY DEF Start, Awake, Here
<1>2. /\ Good(queue, job, scheduled, nthreads, nidle, stop, pc, target, work, Queues)
      /\ SleepOK(queue, job, scheduled, pc)
  BY DEF JobInv
<1>3. work \in [Workers -> Jobs \cup {NoJob}] /\ work[w] = NoJob
  BY <1>1, JobInvIs DEF WorkOK
<1>4. pc \in [Threads -> ClientPlaces \cup WorkerPlaces]
  BY JobInvIs
<1>5. Now(pc, pc, w, u) /\ Now(work, work, w, NoJob)
  BY <1>3, <1>4 DEF Now
<1>6. AlmostOK(queue, job, scheduled, pc)
  BY <1>2 DEF AlmostOK, SleepOK
<1>7. counted = Here(u, {"sleep", "woken"})
  OBVIOUS
<1> HIDE DEF u, counted
<1> QED  BY <1>1, <1>2, <1>3, <1>4, <1>5, <1>6, <1>7, LookKeeps
-----------------------------------------------------------------------------
(* The invariant holds, and gives what it is for. *)

LEMMA InitKeeps == Init => JobInv
<1> SUFFICES ASSUME Init PROVE JobInv
  OBVIOUS
<1>1. /\ IsFiniteSet(Clients) /\ IsFiniteSet(Workers) /\ Clients \cap Workers = {}
      /\ NoJob \notin Jobs /\ MaxLimit \in Nat /\ IsFiniteSet(Queues)
  BY JobAssumption
<1>2. /\ \A c \in Clients : pc[c] = "out" /\ target[c] = Nothing
      /\ \A w \in Workers : pc[w] = "none" /\ work[w] = NoJob
      /\ \A j \in Jobs : job[j] = FreeJob
      /\ \A q \in Queues : queue[q] = NoQueue
  BY <1>1 DEF Init
<1>3. PlacesOK(pc, target)
  <2>1. pc \in [Threads -> ClientPlaces \cup WorkerPlaces]
    BY DEF Init, Threads, ClientPlaces, WorkerPlaces
  <2>2. target \in [Clients -> [on : Queues \cup {"none"}, of : Jobs \cup {NoJob}]]
    BY DEF Init, Nothing
  <2> QED  BY <1>2, <2>1, <2>2 DEF PlacesOK, ClientPlaces, WorkerPlaces
<1>4. JobsOK(job, scheduled)
  <2>1. job \in [Jobs -> JobType]
    BY DEF Init, FreeJob, JobType
  <2>2. scheduled \in Seq(Jobs) /\ IsInjective(scheduled) /\ Range(scheduled) = {}
    BY DEF Init, IsInjective, Range
  <2>3. \A j \in Jobs : job[j].state = "free"
    BY <1>2 DEF FreeJob
  <2> QED  BY <1>2, <2>1, <2>2, <2>3 DEF JobsOK
<1>5. WorkOK(job, pc, work, stop)
  BY <1>2 DEF WorkOK, Init, FreeJob
<1>6. WaitOK(job, pc, target)
  BY <1>2 DEF WaitOK, ClientOK, WaitsFor, FreeJob
<1>7. QueuesOK(queue, job, pc, target)
  <2>1. queue \in [Queues -> QueueType]
    BY DEF Init, NoQueue, QueueType
  <2>2. ASSUME NEW q PROVE RunningIn(job, q) = {} /\ RefsTo(pc, target, q) = {} /\ Table(job, q) = {}
    BY <1>2 DEF RunningIn, RefsTo, Table, WaitPlaces, FreeJob
  <2> QED  BY <1>2, <2>1, <2>2, FS_EmptySet DEF QueuesOK, NoQueue
<1>8. DeletingOK(queue, job, pc, target, Queues)
  BY <1>2 DEF DeletingOK, Deletes, MayDelete, NoQueue
<1>9. PoolOK(nthreads, nidle, pc)
  <2>1. /\ Count(pc, Workers, {"sleep", "woken"}) = 0 /\ Count(pc, Clients, {"create"}) = 0
        /\ Count(pc, Workers, Up) = 0
    <3>1. /\ \A w \in Workers : pc[w] \notin {"sleep", "woken"} /\ pc[w] \notin Up
          /\ \A c \in Clients : pc[c] \notin {"create"}
      BY <1>2 DEF Up
    <3> QED  BY <1>1, <3>1, CountType
  <2>2. Cardinality(Queues) * MaxLimit \in Nat
    BY <1>1, FS_CardinalityType
  <2> QED  BY <2>1, <2>2 DEF PoolOK, Init
<1>10. Range(scheduled) = {}
  BY DEF Init, Range
<1>11. stop \in BOOLEAN
  BY DEF Init
<1> QED  BY <1>2, <1>3, <1>4, <1>5, <1>6, <1>7, <1>8, <1>9, <1>10, <1>11 DEF JobInv, Good, SleepOK, EnoughOK

LEMMA NextKeeps == JobInv /\ [Next]_vars => JobInv'
<1> SUFFICES ASSUME JobInv, [Next]_vars PROVE JobInv'
  OBVIOUS
<1>1. ASSUME NEW c \in Clients, Command(c) PROVE JobInv'
  BY <1>1, CreateKeeps, BlockKeeps, WaitAnyKeeps, DeleteQueueKeeps, QueueJobKeeps, WaitKeeps,
     CancelCommandKeeps DEF Command
<1>2. ASSUME NEW c \in Clients, GoOn(c) PROVE JobInv'
  BY <1>2, CreateThreadKeeps, WaitedKeeps, WaitedAnyKeeps, DeleteKeeps DEF GoOn
<1>3. ASSUME NEW c \in Clients, TimeOut(c) PROVE JobInv'
  BY <1>3, TimeOutKeeps
<1>4. ASSUME NEW w \in Workers, JobThread(w) PROVE JobInv'
  BY <1>4, StartKeeps, FinishKeeps DEF JobThread
<1>5. ASSUME NEW t \in Threads, Spurious(t) PROVE JobInv'
  BY <1>5, SpuriousKeeps
<1>6. CASE NsStartJobsShutdown
  BY <1>6, ShutdownKeeps
<1>7. CASE UNCHANGED vars
  BY <1>7 DEF vars, pool, JobInv
<1> QED  BY <1>1, <1>2, <1>3, <1>4, <1>5, <1>6, <1>7 DEF Next, Threads

LEMMA OwnersSound == JobInv => TypeOK /\ JobsOwned
<1> SUFFICES ASSUME JobInv PROVE TypeOK /\ JobsOwned
  OBVIOUS
<1>1. TypeOK
  BY JobInvIs DEF TypeOK, JobsOK, WorkOK, QueuesOK, JobType, QueueType
<1>2. IsInjective(scheduled) /\ ToSet(scheduled) = {j \in Jobs : job[j].state = "scheduled"}
  BY JobInvIs DEF JobsOK, ToSet, Range
<1>3. \A w \in Workers : pc[w] = "run" <=> work[w] # NoJob
  BY JobInvIs DEF WorkOK
<1>4. ASSUME NEW j \in Jobs
      PROVE  /\ Cardinality({w \in Workers : work[w] = j}) <= 1
             /\ (\E w \in Workers : work[w] = j) => job[j].state = "running"
             /\ job[j].state = "running" => stop \/ \E w \in Workers : work[w] = j
             /\ Cardinality({c \in Clients : Waiting(c) /\ target[c].of = j})
                  = IF job[j].req = "wait" THEN 1 ELSE 0
  <2> DEFINE W == {w \in Workers : work[w] = j}
             C == {c \in Clients : Waiting(c) /\ target[c].of = j}
  <2>0. j # NoJob
    BY JobAssumption
  <2>1. \A x, y \in W : x = y
    BY <2>0, JobInvIs DEF WorkOK
  <2>2. Cardinality(W) <= 1
    <3> HIDE DEF W
    <3> QED  BY <2>1, CountSingle
  <2>3. \A c \in Clients : c \in C <=> WaitsFor(pc, target, c, j)
    BY DEF Waiting, WaitsFor
  <2>4. \A x, y \in C : x = y
    BY <2>3, JobInvIs DEF WaitOK
  <2>5. C # {} <=> job[j].req = "wait"
    <3>1. ASSUME NEW c \in Clients, WaitsFor(pc, target, c, j) PROVE job[j].req = "wait"
      BY <3>1, JobInvIs DEF WaitOK, ClientOK, WaitsFor
    <3> QED  BY <2>3, <3>1, JobInvIs DEF WaitOK
  <2>6. Cardinality(C) = IF job[j].req = "wait" THEN 1 ELSE 0
    <3> HIDE DEF C
    <3> QED  BY <2>4, <2>5, CountSingle
  <2>7. /\ (\E w \in Workers : work[w] = j) => job[j].state = "running"
        /\ job[j].state = "running" => stop \/ \E w \in Workers : work[w] = j
    BY <2>0, JobInvIs DEF WorkOK
  <2> QED  BY <2>2, <2>6, <2>7
<1> QED  BY <1>1, <1>2, <1>3, <1>4 DEF JobsOwned

LEMMA QueuesSound == JobInv => QueuesCounted
<1> SUFFICES ASSUME JobInv, NEW q \in Queues
             PROVE  /\ queue[q].running = Cardinality({j \in Table(job, q) : job[j].state = "running"})
                    /\ queue[q].running <= queue[q].max
                    /\ queue[q].refs = Cardinality({c \in Clients :
                            (Waiting(c) \/ WaitingAny(c)) /\ target[c].on = q})
                    /\ Table(job, q) # {} \/ queue[q].refs # 0 => queue[q].made
                    /\ Cardinality({c \in At(Clients, "deleting") : target[c].on = q})
                         = IF MayDelete(queue, job, q) THEN 1 ELSE 0
  BY DEF QueuesCounted
<1>1. RunningIn(job, q) = {j \in Table(job, q) : job[j].state = "running"}
  BY DEF RunningIn, Table
<1>2. RefsTo(pc, target, q) = {c \in Clients : (Waiting(c) \/ WaitingAny(c)) /\ target[c].on = q}
  BY DEF RefsTo, WaitPlaces, Waiting, WaitingAny
<1>3. /\ queue[q].running = Cardinality(RunningIn(job, q)) /\ queue[q].running <= queue[q].max
      /\ queue[q].refs = Cardinality(RefsTo(pc, target, q))
      /\ ~queue[q].made => queue[q] = NoQueue
      /\ Table(job, q) # {} => queue[q].made
  BY JobInvIs DEF QueuesOK
<1>4. Table(job, q) # {} \/ queue[q].refs # 0 => queue[q].made
  BY <1>3 DEF NoQueue
<1> DEFINE D == {c \in At(Clients, "deleting") : target[c].on = q}
<1>5. \A c \in Clients : c \in D <=> Deletes(pc, target, c, q)
  BY DEF Deletes, At
<1>6. D \subseteq Clients
  BY DEF At
<1>7. /\ \A x, y \in D : x = y
      /\ D # {} <=> MayDelete(queue, job, q)
  BY <1>5, <1>6, JobInvIs DEF DeletingOK
<1>8. Cardinality(D) = IF MayDelete(queue, job, q) THEN 1 ELSE 0
  <2> HIDE DEF D
  <2> QED  BY <1>7, CountSingle
<1> QED  BY <1>1, <1>2, <1>3, <1>4, <1>8

LEMMA PoolSound == JobInv => PoolCounted
<1> SUFFICES ASSUME JobInv PROVE PoolCounted
  OBVIOUS
<1>1. PlacesOK(pc, target) /\ PoolOK(nthreads, nidle, pc)
  BY JobInvIs
<1>2. At(Workers, "sleep") \cup At(Workers, "woken") = {w \in Workers : pc[w] \in {"sleep", "woken"}}
  BY DEF At
<1>3. At(Clients, "create") = {c \in Clients : pc[c] \in {"create"}}
  BY DEF At
<1>4. Workers \ At(Workers, "none") = {w \in Workers : pc[w] \in Up}
  BY <1>1 DEF At, PlacesOK, WorkerPlaces, Up
<1> QED  BY <1>1, <1>2, <1>3, <1>4 DEF PoolOK, PoolCounted, Count

(* The queues of jobs are sound: each scheduled job is on the list of the  *)
(* pool, once, each job that runs has one thread, the job that a client    *)
(* waits for is not freed by anybody else, the counts of the queues and of *)
(* the pool agree with the jobs and the threads, no queue runs more than   *)
(* its limit, and a queue is deleted once, when nobody needs it.           *)
THEOREM JobsSoundCorrect == Spec => []JobsSound
<1>1. JobInv => JobsSound
  BY OwnersSound, QueuesSound, PoolSound DEF JobsSound
<1> QED  BY <1>1, InitKeeps, NextKeeps, PTL DEF Spec

(* Nobody is forgotten: no job thread sleeps beside a job that it could    *)
(* run or that was cancelled, there is a thread while a queue with a limit *)
(* has scheduled jobs (until the stop), and no client sleeps beside the    *)
(* result it waits for.                                                    *)
THEOREM NobodyForgottenCorrect == Spec => []NobodyForgotten
<1>1. JobInv => NobodyForgotten
  <2> SUFFICES ASSUME JobInv PROVE NobodyForgotten
    OBVIOUS
  <2>0. ToSet(scheduled) = Range(scheduled)
    BY DEF ToSet, Range
  <2>1. At(Workers, "sleep") # {} =>
          \A j \in ToSet(scheduled) : job[j].req # "cancel" /\ ~Runnable(queue, job, j)
    BY <2>0 DEF JobInv, SleepOK, At
  <2>2. (\E j \in ToSet(scheduled) : queue[job[j].on].max > 0) => stop \/ nthreads > 0
    BY <2>0, JobInvIs DEF EnoughOK
  <2>3. \A c \in Clients : ClientOK(job, pc[c], target[c])
    BY JobInvIs DEF WaitOK
  <2>4. \A c \in At(Clients, "wait") : job[target[c].of].state # "done"
    BY <2>3 DEF ClientOK, At
  <2>5. \A c \in At(Clients, "any") : \A j \in Table(job, target[c].on) : job[j].state # "done"
    BY <2>3 DEF ClientOK, At
  <2> QED  BY <2>1, <2>2, <2>4, <2>5 DEF NobodyForgotten
<1> QED  BY <1>1, InitKeeps, NextKeeps, PTL DEF Spec
=============================================================================
