------------------------------- MODULE Sched -------------------------------
(***************************************************************************)
(* The event scheduler of nsd/sched.c: clients schedule, cancel, pause and *)
(* resume events; SchedThread runs the synchronous ones itself and hands   *)
(* the others to EventThreads; nsmain shuts the whole down.                *)
(*                                                                         *)
(* A critical section of the code (between Ns_MutexLock(&lock) and the     *)
(* next unlock or wait) is one action, except where a loop inside it takes *)
(* several: then lock names the thread that holds it in between.  Event    *)
(* procs run without the lock.  An event is a slot of memory; the list     *)
(* heads readyPtr and threadEventPtr are sequences (nextPtr links an event *)
(* into one of them at a time, which OneHolder checks).                    *)
(***************************************************************************)
EXTENDS EventHeap, FiniteSets

CONSTANTS
    Events,      \* memory for events
    Kinds,       \* [once, thread : BOOLEAN, interval, period : Nat]: flags and interval
    Ops,         \* what clients and nsmain may do, see SchedAssumption
    MaxClock,    \* bound: time stops here
    NoEvent      \* a NULL pointer

ASSUME SchedAssumption ==
    /\ IsFiniteSet(Events) /\ NoEvent \notin Events
    /\ Kinds /= {}
    /\ Kinds \subseteq [once : BOOLEAN, thread : BOOLEAN, interval : Nat, period : Nat]
    /\ Ops \subseteq {"cancel", "pause", "resume", "stop", "resumeUnderway"}
    /\ MaxClock \in Nat

(* An EventThread is created only when every other one runs an event. *)
Threads == 1 .. Cardinality(Events)
SchedThread == Cardinality(Events) + 1
None == 0
Never == MaxClock + 1
Unused == -1   \* bound: memory is used for one event, the due time of which is set then

VARIABLES
    clock,          \* time(2)
    lock,           \* None, or the thread that holds it between two actions
    kind,           \* ePtr->flags (ONCE, THREAD, DAILY, WEEKLY) and ePtr->interval
    due,            \* ePtr->nextqueue
    qid,            \* ePtr->qid
    live,           \* the events allocated and not freed
    hashed,         \* the events with ePtr->hPtr /= NULL: an id finds them
    paused,         \* the events with NS_SCHED_PAUSED
    freeing,        \* cancelled events Ns_Cancel is about to free
    queue,          \* queue[1..nqueue]
    readyPtr,       \* synchronous events ready to run, last collected first
    threadEventPtr, \* events waiting for an EventThread, last collected first
    nThreads,       \* EventThreads created
    nIdleThreads,
    onSched,        \* the waiters on schedcond: "sched" and "main"
    onEvent,        \* the EventThreads waiting on eventcond
    shutdownPending,
    spc, sev, snow, \* SchedThread: where it is, its ePtr and its now
    wakeAt,         \* the timeout of its wait
    tpc, tev,       \* EventThreads: where each is and its ePtr
    mpc             \* nsmain

eventVars  == <<kind, live, hashed, paused, freeing>>
queueVars  == <<due, qid, queue>>
threadVars == <<nThreads, nIdleThreads, onEvent, tpc, tev, threadEventPtr>>
schedVars  == <<spc, sev, snow, wakeAt, readyPtr>>
vars == <<clock, lock, eventVars, queueVars, threadVars, schedVars,
          onSched, shutdownPending, mpc>>

(* SchedThread exists and has not said that it is done. *)
running == spc \notin {"none", "exited"}
LockFree == lock = None

Init ==
    /\ clock = 0 /\ lock = None
    /\ kind \in [Events -> {CHOOSE k \in Kinds : TRUE}]
    /\ due = [e \in Events |-> Unused] /\ qid = [e \in Events |-> 0]
    /\ live = {} /\ hashed = {} /\ paused = {} /\ freeing = {}
    /\ queue = <<>> /\ readyPtr = <<>> /\ threadEventPtr = <<>>
    /\ nThreads = 0 /\ nIdleThreads = 0
    /\ onSched = {} /\ onEvent = {} /\ shutdownPending = FALSE
    /\ spc = "none" /\ sev = NoEvent /\ snow = 0 /\ wakeAt = Never
    /\ tpc = [t \in Threads |-> "none"] /\ tev = [t \in Threads |-> NoEvent]
    /\ mpc = "up"

-----------------------------------------------------------------------------
\* Definitions named Faulty... are plausible bugs.  No action uses them: each
\* replaces the definition after it in a run that must find the bug.

(***************************************************************************)
(* Condition variables: a signal wakes one waiter, whichever it is.        *)
(***************************************************************************)
SignalSched ==
    IF onSched = {} THEN UNCHANGED onSched
    ELSE \E w \in onSched : onSched' = onSched \ {w}

SignalEvent ==
    IF onEvent = {} THEN UNCHANGED onEvent
    ELSE \E t \in onEvent : onEvent' = onEvent \ {t}

(***************************************************************************)
(* The queue.                                                              *)
(***************************************************************************)

(* When an event of kind k, queued at now, is to run: after its interval,  *)
(* or at the next time of day or of the week.                              *)
NextTime(k, now) ==
    IF k.period = 0 THEN now + k.interval
    ELSE LET slot == k.interval % k.period
             today == now - (now % k.period) + slot
         IN  IF today <= now THEN today + k.period ELSE today

(* EXCH renumbers the events it moves, which end at the places of walk. *)
Renumber(walk) ==
    LET places == walk \cap DOMAIN queue'
    IN  [e \in Events |-> IF \E i \in places : queue'[i] = e
                              THEN CHOOSE i \in places : queue'[i] = e ELSE qid[e]]

(* QueueEvent of an event that is not paused, up to the signal. *)
Enqueue(e, now) ==
    /\ due' = [due EXCEPT ![e] = NextTime(kind'[e], now)]
    /\ queue' = Inserted(queue, due', e)
    /\ qid' = Renumber(Walk(Len(queue) + 1, Rise(queue, due', e)))

(* DeQueueEvent(k). *)
Dequeue(k) ==
    /\ queue' = TakenOut(queue, due, k)
    /\ qid' = [Renumber(Walk(k, Sink(queue, due, k))) EXCEPT ![queue[k]] = 0]
    /\ UNCHANGED due

(* QueueEvent at the end of a run: a paused event stays out. *)
Requeue(e, now) ==
    IF e \in paused THEN UNCHANGED <<queueVars, onSched>>
    ELSE Enqueue(e, now) /\ SignalSched

FaultyQueueAndWake(e) ==                 \* SchedThread is not told
    /\ Enqueue(e, clock)
    /\ UNCHANGED onSched
    /\ IF running THEN UNCHANGED spc ELSE spc' = "start"

(* QueueEvent for a client: the first event creates SchedThread. *)
QueueAndWake(e) ==
    /\ Enqueue(e, clock)
    /\ IF running THEN SignalSched /\ UNCHANGED spc
       ELSE spc' = "start" /\ UNCHANGED onSched

Free(e) == live' = live \ {e}

Occurrences(s, e) == Cardinality({i \in DOMAIN s : s[i] = e})

(* How many hold a pointer to event e other than the hash table: the       *)
(* queue, the lists, the threads that run it, a client about to free it.   *)
Holders(e) ==
    Occurrences(queue, e) + Occurrences(readyPtr, e) + Occurrences(threadEventPtr, e)
    + Cardinality({t \in Threads : tev[t] = e})
    + (IF sev = e THEN 1 ELSE 0) + (IF e \in freeing THEN 1 ELSE 0)

-----------------------------------------------------------------------------
(***************************************************************************)
(* Clients.  An id finds the event that is in the hash table under it, so  *)
(* a client's call is about a hashed event; any other id changes nothing.  *)
(* The code also lets a client resume an event that was paused while it    *)
(* was about to run or running, "resumeUnderway" in Ops: the event is then *)
(* queued twice, with one qid, and freed while it is still queued.         *)
(***************************************************************************)

(* Ns_ScheduleProcEx, to which Ns_After, Ns_ScheduleProc, Ns_ScheduleDaily *)
(* and Ns_ScheduleWeekly lead with their own flags and interval.           *)
Schedule(e, k) ==
    /\ LockFree /\ ~shutdownPending
    /\ due[e] = Unused
    /\ live' = live \cup {e}
    /\ hashed' = hashed \cup {e}
    /\ paused' = paused \ {e}
    /\ kind' = [kind EXCEPT ![e] = k]
    /\ QueueAndWake(e)
    /\ UNCHANGED <<clock, lock, freeing, threadVars, sev, snow, wakeAt, readyPtr,
                   shutdownPending, mpc>>

(* Ns_Cancel, under the lock. *)
Cancel(e) ==
    /\ "cancel" \in Ops
    /\ LockFree /\ ~shutdownPending /\ e \in hashed
    /\ hashed' = hashed \ {e}
    /\ IF qid[e] > 0 THEN Dequeue(qid[e]) /\ freeing' = freeing \cup {e}
                     ELSE UNCHANGED <<queueVars, freeing>>
    /\ UNCHANGED <<clock, lock, kind, live, paused, threadVars, schedVars, onSched,
                   shutdownPending, mpc>>

(* Its FreeEvent, after the unlock. *)
FreeCancelled(e) ==
    /\ e \in freeing
    /\ freeing' = freeing \ {e}
    /\ Free(e)
    /\ UNCHANGED <<clock, lock, kind, hashed, paused, queueVars, threadVars, schedVars,
                   onSched, shutdownPending, mpc>>

(* Ns_Pause. *)
Pause(e) ==
    /\ "pause" \in Ops
    /\ LockFree /\ ~shutdownPending /\ e \in hashed \ paused
    /\ paused' = paused \cup {e}
    /\ IF qid[e] > 0 THEN Dequeue(qid[e]) ELSE UNCHANGED queueVars
    /\ UNCHANGED <<clock, lock, kind, live, hashed, freeing, threadVars, schedVars,
                   onSched, shutdownPending, mpc>>

(* Ns_Resume. *)
Resume(e) ==
    /\ "resume" \in Ops
    /\ LockFree /\ ~shutdownPending /\ e \in hashed \cap paused
    /\ Holders(e) > 0 => "resumeUnderway" \in Ops
    /\ paused' = paused \ {e}
    /\ UNCHANGED kind
    /\ QueueAndWake(e)
    /\ UNCHANGED <<clock, lock, live, hashed, freeing, threadVars, sev, snow, wakeAt,
                   readyPtr, shutdownPending, mpc>>

-----------------------------------------------------------------------------
(***************************************************************************)
(* SchedThread.                                                            *)
(***************************************************************************)

(* The top of its loop, with the lock: "collect" and "join" hold it. *)
LoopTop ==
    /\ lock' = SchedThread
    /\ spc' = IF shutdownPending THEN "join" ELSE "collect"
    /\ snow' = clock

(* The thread starts, or its wait ends: signalled or timed out. *)
SchedEnter ==
    /\ LockFree
    /\ \/ spc = "start"
       \/ spc = "wait" /\ ("sched" \notin onSched \/ wakeAt <= clock)
    /\ LoopTop
    /\ onSched' = onSched \ {"sched"} /\ wakeAt' = Never
    /\ UNCHANGED <<clock, eventVars, queueVars, threadVars, sev, readyPtr,
                   shutdownPending, mpc>>

FirstDue == queue /= <<>> /\ due[queue[1]] <= snow

(* One round of the loop that collects the events that are due. *)
Collect ==
    /\ spc = "collect"
    /\ FirstDue
    /\ LET e == queue[1]
       IN  /\ Dequeue(1)
           /\ hashed' = IF kind[e].once THEN hashed \ {e} ELSE hashed
           /\ IF kind[e].thread
              THEN threadEventPtr' = <<e>> \o threadEventPtr /\ UNCHANGED readyPtr
              ELSE readyPtr' = <<e>> \o readyPtr /\ UNCHANGED threadEventPtr
    /\ UNCHANGED <<clock, lock, kind, live, paused, freeing, nThreads, nIdleThreads,
                   onEvent, tpc, tev, spc, sev, snow, wakeAt, onSched,
                   shutdownPending, mpc>>

(* The end of a pass: the next synchronous event, or else the wait, which  *)
(* is without a timeout when nothing is queued, and is skipped only when   *)
(* something is queued and a shutdown pends.                               *)
NextReady ==
    \/ /\ readyPtr /= <<>>
       /\ sev' = Head(readyPtr) /\ readyPtr' = Tail(readyPtr)
       /\ spc' = "proc" /\ lock' = None
       /\ UNCHANGED <<wakeAt, snow>>
    \/ /\ readyPtr = <<>>
       /\ queue' /= <<>> /\ shutdownPending
       /\ LoopTop
       /\ sev' = NoEvent
       /\ UNCHANGED <<readyPtr, wakeAt>>
    \/ /\ readyPtr = <<>>
       /\ queue' = <<>> \/ ~shutdownPending
       /\ spc' = "wait" /\ lock' = None /\ sev' = NoEvent
       /\ wakeAt' = IF queue' = <<>> \/ due'[queue'[1]] > MaxClock
                        THEN Never ELSE due'[queue'[1]]
       /\ UNCHANGED <<readyPtr, snow>>

(* SchedThread starts to wait exactly when NextReady says so. *)
JoinWaiters(waiters) ==
    IF spc' = "wait" THEN waiters \cup {"sched"} ELSE waiters

(* Nothing more is due: an EventThread is created if none is idle, or one  *)
(* is signalled, and the first synchronous event is run.                   *)
Dispatch ==
    /\ spc = "collect"
    /\ ~FirstDue
    /\ IF threadEventPtr /= <<>>
       THEN /\ IF nIdleThreads = 0
               THEN /\ nThreads' = nThreads + 1
                    /\ nIdleThreads' = 1
                    /\ tpc' = [tpc EXCEPT ![nThreads + 1] = "loop"]
               ELSE UNCHANGED <<nThreads, nIdleThreads, tpc>>
            /\ SignalEvent
       ELSE UNCHANGED <<nThreads, nIdleThreads, tpc, onEvent>>
    /\ UNCHANGED queueVars
    /\ NextReady
    /\ onSched' = JoinWaiters(onSched)
    /\ UNCHANGED <<clock, eventVars, tev, threadEventPtr, shutdownPending, mpc>>

FaultySchedProcDone ==                   \* drops a cancelled event without freeing it
    /\ spc = "proc"
    /\ snow' = clock
    /\ spc' = "relock"
    /\ sev' = IF sev \in hashed THEN sev ELSE NoEvent
    /\ UNCHANGED <<clock, lock, kind, live, hashed, paused, freeing, queueVars, threadVars,
                   wakeAt, readyPtr, onSched, shutdownPending, mpc>>

(* The proc of a synchronous event returns; without the lock, its hPtr     *)
(* says whether it is to be freed.                                         *)
SchedProcDone ==
    /\ spc = "proc"
    /\ snow' = clock
    /\ spc' = "relock"
    /\ IF sev \in hashed THEN UNCHANGED <<live, sev>>
                         ELSE Free(sev) /\ sev' = NoEvent
    /\ UNCHANGED <<clock, lock, kind, hashed, paused, freeing, queueVars, threadVars,
                   wakeAt, readyPtr, onSched, shutdownPending, mpc>>

(* With the lock again it is queued, if it was not freed. *)
SchedRequeue ==
    /\ spc = "relock" /\ LockFree
    /\ UNCHANGED kind
    /\ IF sev = NoEvent \/ sev \in paused
       THEN UNCHANGED queueVars /\ NextReady /\ onSched' = JoinWaiters(onSched)
       ELSE /\ Enqueue(sev, snow)
            /\ NextReady
            /\ \E woken \in IF onSched = {} THEN {{}} ELSE {{w} : w \in onSched} :
                   onSched' = JoinWaiters(onSched \ woken)
    /\ UNCHANGED <<clock, live, hashed, paused, freeing, threadVars, shutdownPending, mpc>>

FaultyWakeThreads ==                     \* no broadcast
    /\ spc = "join"
    /\ lock' = None
    /\ nThreads' = 0
    /\ spc' = IF nThreads > 0 THEN "joining" ELSE "teardown"
    /\ UNCHANGED <<clock, eventVars, queueVars, nIdleThreads, onEvent, tpc, tev,
                   threadEventPtr, sev, snow, wakeAt, readyPtr, onSched,
                   shutdownPending, mpc>>

(* Shutdown: all EventThreads are woken, then joined without the lock. *)
WakeThreads ==
    /\ spc = "join"
    /\ lock' = None
    /\ IF nThreads > 0
       THEN onEvent' = {} /\ nThreads' = 0 /\ spc' = "joining"
       ELSE spc' = "teardown" /\ UNCHANGED <<onEvent, nThreads>>
    /\ UNCHANGED <<clock, eventVars, queueVars, nIdleThreads, tpc, tev, threadEventPtr,
                   sev, snow, wakeAt, readyPtr, onSched, shutdownPending, mpc>>

JoinThreads ==
    /\ spc = "joining" /\ LockFree
    /\ \A t \in Threads : tpc[t] \in {"none", "exited"}
    /\ spc' = "join" /\ lock' = SchedThread
    /\ UNCHANGED <<clock, eventVars, queueVars, threadVars, sev, snow, wakeAt, readyPtr,
                   onSched, shutdownPending, mpc>>

(* The events still queued are freed from the end of the array. *)
FreeQueued ==
    /\ spc = "teardown" /\ queue /= <<>>
    /\ Free(queue[Len(queue)])
    /\ queue' = SubSeq(queue, 1, Len(queue) - 1)
    /\ qid' = [qid EXCEPT ![queue[Len(queue)]] = 0]
    /\ UNCHANGED <<clock, lock, kind, hashed, paused, freeing, due, threadVars, schedVars,
                   onSched, shutdownPending, mpc>>

(* running = 0, and everybody waiting on schedcond is told. *)
SchedExit ==
    /\ spc = "teardown" /\ queue = <<>> /\ LockFree
    /\ spc' = "exited"
    /\ hashed' = {}
    /\ onSched' = {}
    /\ UNCHANGED <<clock, lock, kind, live, paused, freeing, queueVars, threadVars, sev,
                   snow, wakeAt, readyPtr, shutdownPending, mpc>>

-----------------------------------------------------------------------------
(***************************************************************************)
(* An EventThread.                                                         *)
(***************************************************************************)

(* The top of its loop, with the lock: the thread was just created, was    *)
(* woken, or has finished an event.  It waits, exits or takes an event.    *)
ThreadLoop(t) ==
    /\ tpc[t] = "loop" /\ t \notin onEvent /\ lock \in {None, t}
    /\ lock' = None
    /\ \/ /\ threadEventPtr = <<>> /\ ~shutdownPending
          /\ onEvent' = onEvent \cup {t}
          /\ UNCHANGED <<tpc, tev, threadEventPtr, nIdleThreads>>
       \/ /\ threadEventPtr = <<>> /\ shutdownPending
          /\ tpc' = [tpc EXCEPT ![t] = "exited"]
          /\ UNCHANGED <<tev, threadEventPtr, nIdleThreads, onEvent>>
       \/ /\ threadEventPtr /= <<>>
          /\ tev' = [tev EXCEPT ![t] = Head(threadEventPtr)]
          /\ threadEventPtr' = Tail(threadEventPtr)
          /\ IF threadEventPtr' /= <<>> THEN SignalEvent ELSE UNCHANGED onEvent
          /\ nIdleThreads' = nIdleThreads - 1
          /\ tpc' = [tpc EXCEPT ![t] = "proc"]
    /\ UNCHANGED <<clock, eventVars, queueVars, nThreads, schedVars, onSched,
                   shutdownPending, mpc>>

FaultyThreadProcDone(t) ==               \* counts itself as idle only to queue again
    /\ tpc[t] = "proc" /\ LockFree
    /\ UNCHANGED kind
    /\ IF tev[t] \in hashed
       THEN /\ nIdleThreads' = nIdleThreads + 1
            /\ Requeue(tev[t], clock)
            /\ tpc' = [tpc EXCEPT ![t] = "loop"]
            /\ tev' = [tev EXCEPT ![t] = NoEvent]
            /\ lock' = t
       ELSE /\ tpc' = [tpc EXCEPT ![t] = "free"]
            /\ UNCHANGED <<queueVars, onSched, tev, lock, nIdleThreads>>
    /\ UNCHANGED <<clock, live, hashed, paused, freeing, nThreads, onEvent,
                   threadEventPtr, schedVars, shutdownPending, mpc>>

(* The proc returns: the event is queued again, or else is to be freed. *)
ThreadProcDone(t) ==
    /\ tpc[t] = "proc" /\ LockFree
    /\ nIdleThreads' = nIdleThreads + 1
    /\ UNCHANGED kind
    /\ IF tev[t] \in hashed
       THEN /\ Requeue(tev[t], clock)
            /\ tpc' = [tpc EXCEPT ![t] = "loop"]
            /\ tev' = [tev EXCEPT ![t] = NoEvent]
            /\ lock' = t
       ELSE /\ tpc' = [tpc EXCEPT ![t] = "free"]
            /\ UNCHANGED <<queueVars, onSched, tev, lock>>
    /\ UNCHANGED <<clock, live, hashed, paused, freeing, nThreads, onEvent,
                   threadEventPtr, schedVars, shutdownPending, mpc>>

(* FreeEvent, without the lock. *)
ThreadFree(t) ==
    /\ tpc[t] = "free"
    /\ Free(tev[t])
    /\ tpc' = [tpc EXCEPT ![t] = "loop"]
    /\ tev' = [tev EXCEPT ![t] = NoEvent]
    /\ UNCHANGED <<clock, lock, kind, hashed, paused, freeing, queueVars, nThreads,
                   nIdleThreads, onEvent, threadEventPtr, schedVars, onSched,
                   shutdownPending, mpc>>

-----------------------------------------------------------------------------
(***************************************************************************)
(* nsmain, and time.                                                       *)
(***************************************************************************)

NsStartSchedShutdown ==
    /\ "stop" \in Ops
    /\ mpc = "up" /\ LockFree
    /\ mpc' = "stopping"
    /\ IF running THEN shutdownPending' = TRUE /\ SignalSched
                  ELSE UNCHANGED <<shutdownPending, onSched>>
    /\ UNCHANGED <<clock, lock, eventVars, queueVars, threadVars, schedVars>>

(* The loop of NsWaitSchedShutdown, entered or woken. *)
NsWaitSchedShutdown ==
    /\ LockFree
    /\ mpc = "stopping" \/ (mpc = "wait" /\ "main" \notin onSched)
    /\ IF running THEN mpc' = "wait" /\ onSched' = onSched \cup {"main"}
                  ELSE mpc' = "done" /\ UNCHANGED onSched
    /\ UNCHANGED <<clock, lock, eventVars, queueVars, threadVars, schedVars, shutdownPending>>

NsWaitTimeout ==
    /\ LockFree /\ mpc = "wait" /\ "main" \in onSched
    /\ mpc' = "timedout" /\ onSched' = onSched \ {"main"}
    /\ UNCHANGED <<clock, lock, eventVars, queueVars, threadVars, schedVars, shutdownPending>>

Tick ==
    /\ clock < MaxClock
    /\ clock' = clock + 1
    /\ UNCHANGED <<lock, eventVars, queueVars, threadVars, schedVars, onSched,
                   shutdownPending, mpc>>

SchedNext ==
    \/ SchedEnter \/ Collect \/ Dispatch \/ SchedProcDone \/ SchedRequeue
    \/ WakeThreads \/ JoinThreads \/ FreeQueued \/ SchedExit

ThreadNext(t) == ThreadLoop(t) \/ ThreadProcDone(t) \/ ThreadFree(t)

ClientNext ==
    \E e \in Events :
        \/ \E k \in Kinds : Schedule(e, k)
        \/ Cancel(e) \/ FreeCancelled(e) \/ Pause(e) \/ Resume(e)

MainNext == NsStartSchedShutdown \/ NsWaitSchedShutdown \/ NsWaitTimeout

Next == SchedNext \/ (\E t \in Threads : ThreadNext(t)) \/ ClientNext \/ MainNext \/ Tick

Spec == Init /\ [][Next]_vars

(* Threads run, event procs return, and time passes; the mutex is fair to  *)
(* every thread that keeps asking for it.  Nothing makes a client call or  *)
(* nsmain stop the server.                                                 *)
Fairness ==
    /\ WF_vars(Tick)
    /\ SF_vars(SchedNext)
    /\ \A t \in Threads : SF_vars(ThreadNext(t))
    /\ \A e \in Events : WF_vars(FreeCancelled(e))

FairSpec == Spec /\ Fairness
-----------------------------------------------------------------------------
(***************************************************************************)
(* Properties.                                                             *)
(***************************************************************************)

Elements(s) == {s[i] : i \in DOMAIN s}

TypeOK ==
    /\ clock \in 0 .. MaxClock /\ snow \in 0 .. MaxClock /\ wakeAt \in 0 .. Never
    /\ lock \in {None, SchedThread} \cup Threads
    /\ kind \in [Events -> Kinds] /\ due \in [Events -> Nat \cup {Unused}] /\ qid \in [Events -> Nat]
    /\ {live, hashed, paused, freeing} \subseteq SUBSET Events
    /\ UNION {Elements(queue), Elements(readyPtr), Elements(threadEventPtr)} \subseteq Events
    /\ nThreads \in {0} \cup Threads /\ nIdleThreads \in {0} \cup Threads
    /\ onSched \subseteq {"sched", "main"} /\ onEvent \subseteq Threads
    /\ spc \in {"none", "start", "collect", "proc", "relock", "wait", "join", "joining",
                "teardown", "exited"}
    /\ sev \in Events \cup {NoEvent} /\ tev \in [Threads -> Events \cup {NoEvent}]
    /\ tpc \in [Threads -> {"none", "loop", "proc", "free", "exited"}]
    /\ shutdownPending \in BOOLEAN
    /\ mpc \in {"up", "stopping", "wait", "timedout", "done"}

(* An event is in at most one place at a time, whatever clients, the       *)
(* threads and the shutdown do, and nobody is left with a pointer to one   *)
(* that was freed: it runs once each time it is due, is freed once, and    *)
(* nextPtr links it into one list only.                                    *)
OneHolder == \A e \in Events : Holders(e) <= (IF e \in live THEN 1 ELSE 0)

(* An event nobody holds can still be found by its id, so it is freed in   *)
(* the end: no order of cancellation, run and shutdown leaks it (and       *)
(* leaves its deleteProc uncalled).  Only events that are paused when they *)
(* are cancelled, or when the scheduler ends, stay behind: they have qid 0 *)
(* like those that run, and Ns_Cancel leaves them to a thread that is not. *)
NoneLeaked == \A e \in live : Holders(e) = 0 => e \in hashed \cup paused

(* qid says where in the heap an event is, and 0 that it is elsewhere:     *)
(* Ns_Cancel and Ns_Pause remove whatever stands at that place.            *)
QidAgrees ==
    \A e \in live : IF qid[e] = 0 THEN e \notin Elements(queue)
                                  ELSE qid[e] \in DOMAIN queue /\ queue[qid[e]] = e

(* nIdleThreads is the number of EventThreads not running an event, from   *)
(* which SchedThread decides whether to create another; so a thread is     *)
(* created only when every other one is busy.                              *)
IdleAgrees == nIdleThreads = Cardinality({t \in Threads : tpc[t] \in {"loop", "free"}})
                           \/ shutdownPending

(* The scheduler keeps its books: the heap's places, the idle threads.     *)
BooksAgree == TypeOK /\ QidAgrees /\ IdleAgrees

(* Each event has one holder while it lives and none afterwards, and one   *)
(* that no one holds can be found: none is run or freed twice, or leaked.  *)
EventsOwned == OneHolder /\ NoneLeaked

(* Whatever is due is run, cancelled or paused, unless nsmain stops all:   *)
(* SchedThread never sleeps past the earliest event, including one that    *)
(* was queued in front of the event it sleeps for, and an event handed to  *)
(* the EventThreads finds one.                                             *)
Underway(e) == sev = e \/ \E t \in Threads : tev[t] = e
DueRuns ==
    \A e \in Events :
        (qid[e] > 0 /\ due[e] <= clock)
            ~> (Underway(e) \/ e \notin hashed \/ e \in paused \/ mpc /= "up")

(* A shutdown, once begun, ends: every EventThread finishes what was       *)
(* handed out and exits, and SchedThread frees what is queued and says     *)
(* that it is done.  This is what sched.c means to do.                     *)
ShutdownEnds == shutdownPending ~> spc = "exited"

(* It does so unless SchedThread went to wait after the only signal had    *)
(* been sent, while it ran a proc, with nothing left to queue: that wait   *)
(* has no end.                                                             *)
SignalMissed == spc = "wait" /\ "sched" \in onSched /\ wakeAt = Never
ShutdownEndsUnlessMissed == shutdownPending ~> (spc = "exited" \/ SignalMissed)
=============================================================================
