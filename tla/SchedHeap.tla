----------------------------- MODULE SchedHeap -----------------------------
(***************************************************************************)
(* The event queue of nsd/sched.c on its own: an event is nothing but its  *)
(* nextqueue time, so the heap is a sequence of times.  Events enter by    *)
(* QueueEvent, fire from the top (SchedThread), and are taken out of the   *)
(* middle by Ns_Cancel and Ns_Pause.                                       *)
(***************************************************************************)
EXTENDS EventHeap

CONSTANTS Times,        \* the times events are queued for
          MaxQueue,     \* bound: events queued at once
          MaxCancel     \* bound: events queued when one is taken out of the middle

VARIABLE queue

nextqueue == [t \in Times |-> t]

\* Definitions named Faulty... are plausible bugs, which no action uses.
FaultyQueueEvent(t) ==      \* a new event stays at the end of the array
    /\ Len(queue) < MaxQueue
    /\ queue' = Append(queue, t)

(* Ns_ScheduleProcEx, Ns_Resume, and the re-queueing of a finished event. *)
QueueEvent(t) ==
    /\ Len(queue) < MaxQueue
    /\ queue' = Inserted(queue, nextqueue, t)

FaultyFireFirst ==          \* nqueue is not decremented
    /\ queue /= <<>>
    /\ queue' = [queue EXCEPT ![1] = queue[Len(queue)]]

(* SchedThread takes the event it believes to be the earliest. *)
FireFirst ==
    /\ queue /= <<>>
    /\ queue' = TakenOut(queue, nextqueue, 1)

(* Ns_Cancel and Ns_Pause take an event out by its qid. *)
TakeOut(k) ==
    /\ Len(queue) <= MaxCancel
    /\ queue' = TakenOut(queue, nextqueue, k)

Init == queue = <<>>

Next ==
    \/ \E t \in Times : QueueEvent(t)
    \/ FireFirst
    \/ \E k \in DOMAIN queue : TakeOut(k)

Spec == Init /\ [][Next]_queue
-----------------------------------------------------------------------------
(***************************************************************************)
(* Properties.                                                             *)
(***************************************************************************)

(* The event at the top is the earliest of all, so SchedThread neither     *)
(* fires one event before another that was due earlier nor sleeps past     *)
(* the time of any: it looks at queue[1] alone.                            *)
EarliestFirst == \A i \in DOMAIN queue : queue[1] <= queue[i]

(* How often time t is queued. *)
Copies(q, t) == Cardinality({i \in DOMAIN q : q[i] = t})

(* Heaping an element up or down neither loses nor duplicates another: a   *)
(* step adds one event and keeps all, or removes one (the top one, when    *)
(* the queue was too long to take one out of the middle) and keeps all     *)
(* others.                                                                 *)
NoneLost ==
    [][LET delta(t) == Copies(queue', t) - Copies(queue, t)
       IN  \E t \in Times :
               /\ \A u \in Times \ {t} : delta(u) = 0
               /\ \/ delta(t) = 1
                  \/ delta(t) = -1 /\ (t = queue[1] \/ Len(queue) <= MaxCancel)]_queue
=============================================================================
