----------------------------- MODULE EventHeap -----------------------------
(***************************************************************************)
(* The priority queue of nsd/sched.c as pure operators: queue[1..nqueue]   *)
(* is a binary heap on nextqueue, entered by QueueEvent and left by        *)
(* DeQueueEvent.  key maps an element of the heap to its time.             *)
(*                                                                         *)
(* Both loops exchange (EXCH) one element, of time t, with one after the   *)
(* other on its way; a way is a function from the positions at which the   *)
(* loop goes on to the next position.                                      *)
(***************************************************************************)
EXTENDS Lists

(* The loop of QueueEvent. *)
WayUp(q, key, t) ==
    [i \in {j \in 2 .. Len(q) : key[q[j \div 2]] > t} |-> i \div 2]

(* The child with which DeQueueEvent compares position i, the right one    *)
(* only when it is strictly smaller.                                       *)
SmallerChild(q, key, i) ==
    IF 2 * i < Len(q) /\ key[q[2 * i]] > key[q[2 * i + 1]]
        THEN 2 * i + 1 ELSE 2 * i

(* The loop of DeQueueEvent, which never moves an element up. *)
WayDown(q, key, t) ==
    [i \in {j \in 1 .. Len(q) : 2 * j <= Len(q) /\ ~(key[q[SmallerChild(q, key, j)]] > t)} |->
        SmallerChild(q, key, i)]

(* QueueEvent puts e at the end of the heap q, whence it rises. *)
Rise(q, key, e) == WayUp(Append(q, e), key, key[e])

Inserted(q, key, e) == Exchanged(Append(q, e), Len(q) + 1, Rise(q, key, e))

(* DeQueueEvent takes out the element at k, and the last one, which takes  *)
(* its place, sinks.                                                       *)
LastTo(q, k) == SubSeq([q EXCEPT ![k] = q[Len(q)]], 1, Len(q) - 1)

Sink(q, key, k) == WayDown(LastTo(q, k), key, key[q[Len(q)]])

TakenOut(q, key, k) == Exchanged(LastTo(q, k), k, Sink(q, key, k))

(* Every element is at least as late as the one above it. *)
HeapOrder(q, key) == \A i \in 2 .. Len(q) : key[q[i \div 2]] <= key[q[i]]
=============================================================================
