------------------------------- MODULE DbPool -------------------------------
(***************************************************************************)
(* A database pool of nsdb/dbinit.c: threads get and put handles, one at a *)
(* time gathers as many as it asked for (poolPtr->waiting), handles are    *)
(* opened and closed outside the lock, the scheduled CheckPool takes the   *)
(* whole free list to close what is stale, and Ns_DbBouncePool makes every *)
(* open connection stale.                                                  *)
(*                                                                         *)
(* What a process does while it holds poolPtr->lock is one action.  Age is *)
(* abstracted: an open handle may be found too old whenever it is judged.  *)
(***************************************************************************)
EXTENDS Lists, SequencesExt

CONSTANTS
    Threads,
    Checker,     \* the event thread that runs CheckPool
    Handles,
    NoHandle,
    MaxBounce    \* bounds the calls of Ns_DbBouncePool

Procs == Threads \cup {Checker}
NHandles == Cardinality(Handles)

ASSUME DbAssumption ==
    /\ IsFiniteSet(Threads) /\ Checker \notin Threads
    /\ IsFiniteSet(Handles) /\ NoHandle \notin Handles
    /\ MaxBounce \in Nat

VARIABLES
    free,        \* the list from firstPtr to lastPtr
    waiting,     \* poolPtr->waiting
    bounces,     \* poolPtr->stale_on_close
    connected, stale, staleOnClose,   \* of each handle
    openedAt,    \* the bounces there had been when each handle was opened
    pc,          \* where each process is
    nwant, timed, got,   \* of Ns_DbPoolTimedGetMultipleHandles in each thread
    count,       \* the thread's own count of handles, see IncrCount
    putting,     \* the handle each thread is putting back
    unchecked, checked   \* the lists of CheckPool in each process

poolVars == <<free, waiting, bounces>>
handleVars == <<connected, stale, staleOnClose, openedAt>>
getVars == <<nwant, timed, got, count>>
checkVars == <<unchecked, checked>>
vars == <<poolVars, handleVars, pc, getVars, putting, checkVars>>

At(p) == {t \in Threads : pc[t] = p}

\* The handles NsDbInitPools makes are closed.
Init ==
    /\ free \in {s \in [1 .. NHandles -> Handles] : IsInjective(s)}
    /\ waiting = FALSE /\ bounces = 0
    /\ connected = [h \in Handles |-> FALSE] /\ stale = [h \in Handles |-> FALSE]
    /\ staleOnClose = [h \in Handles |-> 0] /\ openedAt = [h \in Handles |-> 0]
    /\ pc = [p \in Procs |-> "idle"]
    /\ nwant = [t \in Threads |-> 0] /\ timed = [t \in Threads |-> FALSE]
    /\ got = [t \in Threads |-> <<>>] /\ count = [t \in Threads |-> 0]
    /\ putting = [t \in Threads |-> NoHandle]
    /\ unchecked = [p \in Procs |-> <<>>] /\ checked = [p \in Procs |-> <<>>]

-----------------------------------------------------------------------------
(* ReturnHandle for each handle of s in turn: open handles are pushed on   *)
(* the front of the list, closed ones appended to its end.                 *)

Closed == {h \in Handles : ~connected[h]}

Returned(s) == Reverse(Filter(s, Handles \ Closed)) \o free \o Filter(s, Closed)

\* p goes on at q, after Ns_CondSignal for the threads blocked at "place".
SignalAndGoto(p, q, place, woken) ==
    \/ At(place) = {} /\ pc' = [pc EXCEPT ![p] = q]
    \/ \E w \in At(place) : pc' = [pc EXCEPT ![w] = woken, ![p] = q]

\* Mutant: the thread that gathers is not signalled.
FaultySignalGet(p, q) == pc' = [pc EXCEPT ![p] = q]

SignalGet(p, q) ==
    IF waiting THEN SignalAndGoto(p, q, "getBlocked", "getWoken")
    ELSE pc' = [pc EXCEPT ![p] = q]

\* The loop of the thread that gathers: it takes what there is.
Collect(t, n, sofar) ==
    LET need == n - Len(sofar) IN
    IF need <= Len(free)
    THEN /\ got' = [got EXCEPT ![t] = sofar \o SubSeq(free, 1, need)]
         /\ free' = SubSeq(free, need + 1, Len(free))
         /\ waiting' = FALSE
         /\ SignalAndGoto(t, "connect", "waitBlocked", "waitWoken")
    ELSE /\ got' = [got EXCEPT ![t] = sofar \o free]
         /\ free' = <<>>
         /\ waiting' = TRUE
         /\ pc' = [pc EXCEPT ![t] = "getBlocked"]

(* A thread that owns handles of the pool, or asks for more than there     *)
(* are, is refused: nothing changes.                                       *)
MayGet(t, n) == n <= NHandles /\ count[t] = 0

Get(t, n, limited) ==
    /\ pc[t] \in {"idle", "using"} /\ MayGet(t, n)
    /\ nwant' = [nwant EXCEPT ![t] = n]
    /\ timed' = [timed EXCEPT ![t] = limited]
    /\ count' = [count EXCEPT ![t] = n]
    /\ IF waiting
       THEN /\ pc' = [pc EXCEPT ![t] = "waitBlocked"]
            /\ UNCHANGED <<free, waiting, got>>
       ELSE Collect(t, n, <<>>)
    /\ UNCHANGED <<bounces, handleVars, putting, checkVars>>

\* Back from waitCond with a signal: it tests "waiting" again.
Turn(t) ==
    /\ pc[t] = "waitWoken"
    /\ IF waiting
       THEN /\ pc' = [pc EXCEPT ![t] = "waitBlocked"]
            /\ UNCHANGED <<free, waiting, got>>
       ELSE Collect(t, nwant[t], <<>>)
    /\ UNCHANGED <<bounces, handleVars, nwant, timed, count, putting, checkVars>>

\* Back from getCond with a signal.
GetMore(t) ==
    /\ pc[t] = "getWoken"
    /\ Collect(t, nwant[t], got[t])
    /\ UNCHANGED <<bounces, handleVars, nwant, timed, count, putting, checkVars>>

\* A timed wait ends; the thread still has to get the lock.
Expire(t) ==
    /\ timed[t]
    /\ \/ pc[t] = "waitBlocked" /\ pc' = [pc EXCEPT ![t] = "fail"]
       \/ pc[t] = "getBlocked" /\ pc' = [pc EXCEPT ![t] = "getExpired"]
    /\ UNCHANGED <<poolVars, handleVars, getVars, putting, checkVars>>

(* After its timeout the thread takes one handle more if there is one, and *)
(* succeeds if that was the last it wanted.                                *)
\* Mutant: the next thread is not given its turn after a timeout.
FaultyGiveUp(t) ==
    /\ pc[t] = "getExpired"
    /\ LET k == IF free = <<>> THEN 0 ELSE 1
           all == got[t] \o SubSeq(free, 1, k)
       IN  /\ got' = [got EXCEPT ![t] = all]
           /\ free' = SubSeq(free, k + 1, Len(free))
           /\ pc' = [pc EXCEPT ![t] = IF Len(all) = nwant[t] THEN "connect" ELSE "fail"]
    /\ waiting' = FALSE
    /\ UNCHANGED <<bounces, handleVars, nwant, timed, count, putting, checkVars>>

\* Mutant: a thread whose wait timed out is served with what it has.
HastyGiveUp(t) ==
    /\ pc[t] = "getExpired"
    /\ LET k == IF free = <<>> THEN 0 ELSE 1
           all == got[t] \o SubSeq(free, 1, k)
       IN  /\ got' = [got EXCEPT ![t] = all]
           /\ free' = SubSeq(free, k + 1, Len(free))
           /\ SignalAndGoto(t, IF Len(all) > 0 THEN "connect" ELSE "fail",
                            "waitBlocked", "waitWoken")
    /\ waiting' = FALSE
    /\ UNCHANGED <<bounces, handleVars, nwant, timed, count, putting, checkVars>>

GiveUp(t) ==
    /\ pc[t] = "getExpired"
    /\ LET k == IF free = <<>> THEN 0 ELSE 1
           all == got[t] \o SubSeq(free, 1, k)
       IN  /\ got' = [got EXCEPT ![t] = all]
           /\ free' = SubSeq(free, k + 1, Len(free))
           /\ SignalAndGoto(t, IF Len(all) = nwant[t] THEN "connect" ELSE "fail",
                            "waitBlocked", "waitWoken")
    /\ waiting' = FALSE
    /\ UNCHANGED <<bounces, handleVars, nwant, timed, count, putting, checkVars>>

-----------------------------------------------------------------------------
(* Outside the lock the handles are opened in order, until one fails.      *)

Unopened(t) == Filter(got[t], Closed)

SetClosed(h) ==
    /\ connected' = [connected EXCEPT ![h] = FALSE]
    /\ stale' = [stale EXCEPT ![h] = FALSE]

Connect(t) ==
    /\ pc[t] = "connect" /\ Unopened(t) /= <<>>
    /\ LET h == Head(Unopened(t)) IN
       \/ /\ connected' = [connected EXCEPT ![h] = TRUE]
          /\ openedAt' = [openedAt EXCEPT ![h] = bounces]
          /\ UNCHANGED <<stale, pc>>
       \/ /\ SetClosed(h)
          /\ pc' = [pc EXCEPT ![t] = "fail"]
          /\ UNCHANGED openedAt
    /\ UNCHANGED <<poolVars, staleOnClose, getVars, putting, checkVars>>

\* The call returns: its parameters are gone.
Return(t) == nwant' = [nwant EXCEPT ![t] = 0] /\ timed' = [timed EXCEPT ![t] = FALSE]

Granted(t) ==
    /\ pc[t] = "connect" /\ Unopened(t) = <<>>
    /\ pc' = [pc EXCEPT ![t] = "using"]
    /\ Return(t)
    /\ UNCHANGED <<poolVars, handleVars, got, count, putting, checkVars>>

\* The handles of a get that failed go back, the last one first.
Fail(t) ==
    /\ pc[t] = "fail"
    /\ free' = Returned(Reverse(got[t]))
    /\ got' = [got EXCEPT ![t] = <<>>]
    /\ count' = [count EXCEPT ![t] = @ - nwant[t]]
    /\ SignalGet(t, "idle")
    /\ Return(t)
    /\ UNCHANGED <<waiting, bounces, handleVars, putting, checkVars>>

-----------------------------------------------------------------------------
(* Age or a bounce make an open handle stale; it is closed by whoever      *)
(* finds it so.                                                            *)

\* Mutant: only the mark left on free handles counts.
FaultyBounceStale(h) == stale[h]

BounceStale(h) == stale[h] \/ bounces > staleOnClose[h]

IsStale(h, aged) == connected[h] /\ (aged \/ BounceStale(h))

CloseIfStale(h) ==
    \E aged \in BOOLEAN :
       /\ connected' = [connected EXCEPT ![h] = @ /\ ~IsStale(h, aged)]
       /\ stale' = [stale EXCEPT ![h] = @ /\ ~IsStale(h, aged)]

\* "ns_db disconnect" on a handle in use.
Disconnect(t) ==
    /\ pc[t] = "using"
    /\ \E h \in ToSet(got[t]) : connected[h] /\ SetClosed(h)
    /\ UNCHANGED <<poolVars, staleOnClose, openedAt, pc, getVars, putting, checkVars>>

Put(t, h) ==
    /\ pc[t] = "using" /\ h \in ToSet(got[t])
    /\ CloseIfStale(h)
    /\ count' = [count EXCEPT ![t] = @ - 1]
    /\ got' = [got EXCEPT ![t] = Filter(@, Handles \ {h})]
    /\ putting' = [putting EXCEPT ![t] = h]
    /\ pc' = [pc EXCEPT ![t] = "put"]
    /\ UNCHANGED <<poolVars, staleOnClose, openedAt, nwant, timed, checkVars>>

Rest(t) == IF got[t] = <<>> THEN "idle" ELSE "using"

PutBack(t) ==
    /\ pc[t] = "put"
    /\ free' = Returned(<<putting[t]>>)
    /\ putting' = [putting EXCEPT ![t] = NoHandle]
    /\ SignalGet(t, Rest(t))
    /\ UNCHANGED <<waiting, bounces, handleVars, getVars, checkVars>>

\* What is still held when the interpreter is put away goes back.
ReleaseDbs(t) == \E h \in Handles : Put(t, h)

-----------------------------------------------------------------------------
Bounce(t) ==
    /\ pc[t] \in {"idle", "using"} /\ bounces < MaxBounce
    /\ bounces' = bounces + 1
    /\ stale' = [h \in Handles |-> stale[h] \/ (h \in ToSet(free) /\ connected[h])]
    /\ staleOnClose' = [h \in Handles |->
           IF h \in ToSet(free) THEN bounces' ELSE staleOnClose[h]]
    /\ pc' = [pc EXCEPT ![t] = "grab"]
    /\ UNCHANGED <<free, waiting, connected, openedAt, getVars, putting, checkVars>>

Scheduled ==
    /\ pc[Checker] = "idle"
    /\ pc' = [pc EXCEPT ![Checker] = "grab"]
    /\ UNCHANGED <<poolVars, handleVars, getVars, putting, checkVars>>

After(p) == IF p = Checker THEN "idle" ELSE Rest(p)

(* CheckPool: take the list, judge each handle without the lock, return    *)
(* them all.                                                               *)
Grab(p) ==
    /\ pc[p] = "grab"
    /\ unchecked' = [unchecked EXCEPT ![p] = free]
    /\ free' = <<>>
    /\ pc' = [pc EXCEPT ![p] = IF free = <<>> THEN After(p) ELSE "check"]
    /\ UNCHANGED <<waiting, bounces, handleVars, getVars, putting, checked>>

CheckOne(p) ==
    /\ pc[p] = "check" /\ unchecked[p] /= <<>>
    /\ CloseIfStale(Head(unchecked[p]))
    /\ checked' = [checked EXCEPT ![p] = <<Head(unchecked[p])>> \o @]
    /\ unchecked' = [unchecked EXCEPT ![p] = Tail(@)]
    /\ UNCHANGED <<poolVars, staleOnClose, openedAt, pc, getVars, putting>>

\* Mutant: the checked handles replace what was returned meanwhile.
FaultyReturnAll(p) ==
    /\ pc[p] = "check" /\ unchecked[p] = <<>>
    /\ free' = checked[p]
    /\ checked' = [checked EXCEPT ![p] = <<>>]
    /\ SignalGet(p, After(p))
    /\ UNCHANGED <<waiting, bounces, handleVars, getVars, putting, unchecked>>

ReturnAll(p) ==
    /\ pc[p] = "check" /\ unchecked[p] = <<>>
    /\ free' = Returned(checked[p])
    /\ checked' = [checked EXCEPT ![p] = <<>>]
    /\ SignalGet(p, After(p))
    /\ UNCHANGED <<waiting, bounces, handleVars, getVars, putting, unchecked>>

CheckPool(p) == Grab(p) \/ CheckOne(p) \/ ReturnAll(p)

-----------------------------------------------------------------------------
GetStep(t) == Turn(t) \/ GetMore(t) \/ GiveUp(t) \/ Connect(t) \/ Granted(t) \/ Fail(t)

Next ==
    \/ \E t \in Threads :
          \/ \E n \in 1 .. NHandles, limited \in BOOLEAN : Get(t, n, limited)
          \/ GetStep(t) \/ Expire(t)
          \/ Disconnect(t) \/ ReleaseDbs(t) \/ PutBack(t) \/ Bounce(t)
    \/ Scheduled
    \/ \E p \in Procs : CheckPool(p)

Spec == Init /\ [][Next]_vars

(* Threads run, and give back what they hold: ReleaseDbs runs whenever an  *)
(* interpreter is done with a connection.  Nobody need come to get, and    *)
(* the database need not answer.  CheckPool runs minutes apart, so it does *)
(* not take the handles from a woken thread each time (strong fairness).   *)
FairSpec ==
    /\ Spec
    /\ \A t \in Threads :
          /\ WF_vars(GetStep(t)) /\ SF_vars(GetMore(t) /\ free /= <<>>)
          /\ WF_vars(ReleaseDbs(t) \/ PutBack(t))
    /\ \A p \in Procs : WF_vars(CheckPool(p))

-----------------------------------------------------------------------------
GetPlaces == {"waitBlocked", "waitWoken", "getBlocked", "getWoken", "getExpired",
              "connect", "fail"}

TypeOK ==
    /\ free \in Seq(Handles) /\ waiting \in BOOLEAN /\ bounces \in 0 .. MaxBounce
    /\ connected \in [Handles -> BOOLEAN] /\ stale \in [Handles -> BOOLEAN]
    /\ staleOnClose \in [Handles -> Nat] /\ openedAt \in [Handles -> Nat]
    /\ pc \in [Procs -> {"idle", "using", "put", "grab", "check"} \cup GetPlaces]
    /\ nwant \in [Threads -> 0 .. NHandles] /\ timed \in [Threads -> BOOLEAN]
    /\ got \in [Threads -> Seq(Handles)] /\ count \in [Threads -> Nat]
    /\ putting \in [Threads -> Handles \cup {NoHandle}]
    /\ unchecked \in [Procs -> Seq(Handles)] /\ checked \in [Procs -> Seq(Handles)]

(* A handle is in one place only: on the free list, with the thread that   *)
(* got it or is putting it back, or with a CheckPool; and nowhere twice.   *)
Places(h) ==
    {<<"free", i>> : i \in {j \in DOMAIN free : free[j] = h}}
    \cup {<<"put", t>> : t \in {u \in Threads : putting[u] = h}}
    \cup (UNION {{<<"got", t, i>> : i \in {j \in DOMAIN got[t] : got[t][j] = h}} : t \in Threads})
    \cup (UNION {{<<"check", p, i>> : i \in {j \in DOMAIN unchecked[p] : unchecked[p][j] = h}} : p \in Procs})
    \cup (UNION {{<<"checked", p, i>> : i \in {j \in DOMAIN checked[p] : checked[p][j] = h}} : p \in Procs})

HandlesConserved == \A h \in Handles : Cardinality(Places(h)) = 1

(* One thread at a time gathers handles, so no two of them can each hold   *)
(* a part of what they need and wait for the other.                        *)
OneGathers ==
    Cardinality(At("getBlocked") \cup At("getWoken") \cup At("getExpired"))
        = IF waiting THEN 1 ELSE 0

(* The thread-local count says how many handles the thread owns, or asks   *)
(* for: after a timeout or a failed open it may ask again.                 *)
CountAgrees ==
    \A t \in Threads :
       count[t] = IF pc[t] \in GetPlaces THEN nwant[t] ELSE Len(got[t])

(* No signal is lost: the thread that gathers does not sleep while handles *)
(* are free, and a thread sleeps for its turn only while another gathers   *)
(* or has been woken.                                                      *)
NoLostWakeup ==
    /\ At("getBlocked") /= {} => free = <<>>
    /\ At("waitBlocked") /= {} => waiting \/ At("waitWoken") /= {}

(* A closed handle is never taken while an open one is free.               *)
OpenFirst ==
    \A i, j \in DOMAIN free : i < j /\ connected[free[j]] => connected[free[i]]

(* A thread that got its handles got as many as it asked for, all open.    *)
GrantedOpen ==
    [][\A t \in Threads : pc[t] = "connect" /\ pc'[t] = "using"
          => Len(got[t]) = nwant[t] /\ \A h \in ToSet(got[t]) : connected[h]]_vars

(* A connection older than the last bounce is known to be stale, wherever  *)
(* its handle was when the pool was bounced.                               *)
BounceSeen ==
    \A h \in Handles : connected[h] /\ openedAt[h] < bounces => BounceStale(h)

(* The thread that gathers gets its handles, or gives up: the others give  *)
(* back what they hold.                                                    *)
GatheringEnds == waiting ~> ~waiting

(* The handles and their counts stay sound over timeouts, failed opens and *)
(* checks of the pool: none is lost or in two places, each thread's count  *)
(* is right, and open handles are used first.                              *)
HandlesSound == TypeOK /\ HandlesConserved /\ CountAgrees /\ OpenFirst

(* One thread at a time gathers, and no one sleeps past his turn.          *)
TurnsKept == OneGathers /\ NoLostWakeup
=============================================================================
