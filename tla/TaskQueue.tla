----------------------------- MODULE TaskQueue -----------------------------
(***************************************************************************)
(* A task queue of nsd/task.c, its TaskThread, and the ns_http requests of *)
(* nsd/tclhttp.c that are its tasks: each is queued (or run directly),     *)
(* waited for or cancelled, and freed by the one thread that owns it.      *)
(*                                                                         *)
(* The wait list and the signal list are linked through the tasks          *)
(* themselves, as in the code.  A critical section on queuePtr->lock is    *)
(* one action, except that TaskThread holds the lock all the time it is at *)
(* "signals".  Sockets become ready, and timeouts pass, at any time.       *)
(***************************************************************************)
EXTENDS Integers, FiniteSets

CONSTANTS
    Tasks,   \* the requests; each is made once
    NoTask,  \* a NULL pointer
    Ops      \* what may happen, see TaskAssumption

(* "run": Ns_TaskRun.  "cancel": a request is cancelled while its peer is  *)
(* silent and its timeout far; "cancelLate": also when it completes, or    *)
(* times out, before TaskThread sees the cancellation: the task is then    *)
(* freed while it is on the signal list, or linked twice.                  *)
ASSUME TaskAssumption ==
    /\ NoTask \notin Tasks
    /\ IsFiniteSet(Tasks)
    /\ Ops \subseteq {"run", "cancel", "cancelLate", "stop"}

VARIABLES
    signal,       \* taskPtr->signal, without the TASK_ prefix
    flags,        \* taskPtr->flags
    nextWaitPtr,
    nextSignalPtr,
    firstSignalPtr,
    trigger,      \* bytes in the trigger pipe
    shutdown, stopped,
    tpc,          \* where TaskThread is
    cur,          \* its taskPtr
    following,    \* its nextPtr
    firstWaitPtr,
    ready,        \* the tasks whose revents are not empty
    stopping,     \* its shutdown
    broadcast,
    blocked,      \* the owners waiting on queuePtr->cond
    opc,          \* where the owner of each task is
    expired,      \* the tasks whose timeout has passed
    completed,    \* the tasks whose proc has called Ns_TaskDone
    freed         \* the tasks given to Ns_TaskFree

threadVars == <<tpc, cur, following, firstWaitPtr, ready, stopping, broadcast, nextWaitPtr>>
signalVars == <<signal, firstSignalPtr, nextSignalPtr>>
queueVars == <<trigger, shutdown, stopped, blocked>>
taskVars == <<flags, completed>>
vars == <<threadVars, signalVars, queueVars, taskVars, opc, expired, freed>>

LockFree == tpc /= "signals"

Init ==
    /\ signal = [t \in Tasks |-> {}] /\ flags = [t \in Tasks |-> {}]
    /\ nextWaitPtr = [t \in Tasks |-> NoTask] /\ nextSignalPtr = [t \in Tasks |-> NoTask]
    /\ firstSignalPtr = NoTask /\ firstWaitPtr = NoTask
    /\ trigger = 0 /\ shutdown = FALSE /\ stopped = FALSE
    /\ tpc = "top" /\ cur = NoTask /\ following = NoTask /\ ready = {}
    /\ stopping = FALSE /\ broadcast = FALSE /\ blocked = {}
    /\ opc = [t \in Tasks |-> "new"]
    /\ expired = {} /\ completed = {} /\ freed = {}

Goto(t, pc) == opc' = [opc EXCEPT ![t] = pc]

(* The tasks on a list. *)
List(first, next) ==
    LET hop[n \in 0 .. Cardinality(Tasks)] ==
            IF n = 0 THEN {first} ELSE hop[n - 1] \cup {next[t] : t \in hop[n - 1] \ {NoTask}}
    IN  hop[Cardinality(Tasks)] \ {NoTask}

-----------------------------------------------------------------------------
(***************************************************************************)
(* HttpProc, the callback of every task: a request is done after an I/O    *)
(* error or the end of the response, and after anything that is not I/O.   *)
(***************************************************************************)
Continue == {}
Done(t) == {t}

HttpIO(t) == {Continue, Done(t)}

(* Ns_TaskCallback with the timeout of the request, as HttpProc calls it.  *)
Awaiting(f) == f \cup {"WAIT", "TIMEOUT"}

TimedOut(t) == t \in expired /\ "TIMEOUT" \in flags[t]

-----------------------------------------------------------------------------
(***************************************************************************)
(* The owner of a task.                                                    *)
(***************************************************************************)

\* Definitions named Faulty... are plausible bugs.  No action uses them: each
\* replaces a definition after it in a run that must find the bug.

FaultySendSignal(t, bit) ==                 \* drops the signals before it
    /\ signal' = [signal EXCEPT ![t] = @ \cup {bit, "PENDING"}]
    /\ IF "PENDING" \in signal[t] THEN UNCHANGED <<firstSignalPtr, nextSignalPtr>>
       ELSE /\ UNCHANGED nextSignalPtr
            /\ firstSignalPtr' = t

(* SignalQueue under the lock, when the queue is not shutting down: marks  *)
(* the signal, and links the task into the signal list if it is not there. *)
SendSignal(t, bit) ==
    /\ signal' = [signal EXCEPT ![t] = @ \cup {bit, "PENDING"}]
    /\ IF "PENDING" \in signal[t] THEN UNCHANGED <<firstSignalPtr, nextSignalPtr>>
       ELSE /\ nextSignalPtr' = [nextSignalPtr EXCEPT ![t] = firstSignalPtr]
            /\ firstSignalPtr' = t

(* ns_http queue: Ns_TaskEnqueue; the request is freed if it fails. *)
Enqueue(t) ==
    /\ opc[t] = "new" /\ LockFree
    /\ IF shutdown
       THEN Goto(t, "freed") /\ freed' = freed \cup {t} /\ UNCHANGED signalVars
       ELSE SendSignal(t, "INIT") /\ Goto(t, "trigger") /\ UNCHANGED freed
    /\ UNCHANGED <<threadVars, queueVars, taskVars, expired>>

(* TriggerQueue, after the unlock. *)
Trigger(t) ==
    /\ opc[t] \in {"trigger", "cancelTrigger"}
    /\ trigger' = trigger + 1
    /\ Goto(t, IF opc[t] = "trigger" THEN "queued" ELSE "wait")
    /\ UNCHANGED <<threadVars, signalVars, shutdown, stopped, blocked, taskVars,
                   expired, freed>>

(* ns_http cancel, ns_http cleanup: HttpAbort cancels the task, waits for  *)
(* it and frees it.  The signal is not sent when the queue shuts down.     *)
HttpAbort(t) ==
    /\ "cancel" \in Ops
    /\ opc[t] = "queued" /\ LockFree
    /\ t \in ready \cup completed \cup expired => "cancelLate" \in Ops
    /\ IF shutdown THEN UNCHANGED signalVars /\ Goto(t, "wait")
       ELSE /\ SendSignal(t, "CANCEL")
            /\ Goto(t, IF "PENDING" \in signal[t] THEN "wait" ELSE "cancelTrigger")
    /\ UNCHANGED <<threadVars, queueVars, taskVars, expired, freed>>

(* ns_http wait, and one turn of the loop of Ns_TaskWait, with no timeout. *)
NsTaskWait(t) ==
    /\ opc[t] \in {"queued", "wait"} /\ t \notin blocked /\ LockFree
    /\ IF "DONE" \in signal[t]
       THEN Goto(t, "close") /\ UNCHANGED blocked
       ELSE Goto(t, "wait") /\ blocked' = blocked \cup {t}
    /\ UNCHANGED <<threadVars, signalVars, trigger, shutdown, stopped, taskVars,
                   expired, freed>>

(* HttpClose. *)
HttpClose(t) ==
    /\ opc[t] = "close"
    /\ Goto(t, "freed")
    /\ freed' = freed \cup {t}
    /\ UNCHANGED <<threadVars, signalVars, queueVars, taskVars, expired>>

(* ns_http run: Ns_TaskRun calls back in the owner's thread, with          *)
(* NS_SOCK_INIT and then whenever its poll finds the socket ready, until   *)
(* the proc is done or the poll times out, of which it tells nobody.       *)
(* ns_http wait then finds the task done, without a queue to look at.      *)
NsTaskRun(t) ==
    /\ "run" \in Ops
    /\ \/ /\ opc[t] = "new"
          /\ flags' = [flags EXCEPT ![t] = Awaiting(@)]
          /\ Goto(t, "running") /\ UNCHANGED <<signal, completed>>
       \/ /\ opc[t] = "running"
          /\ \E done \in HttpIO(t) :
                 /\ completed' = completed \cup done
                 /\ IF done = {} THEN UNCHANGED <<flags, signal, opc>>
                    ELSE /\ flags' = [flags EXCEPT ![t] = @ \cup {"DONE"}]
                         /\ signal' = [signal EXCEPT ![t] = @ \cup {"DONE"}]
                         /\ Goto(t, "close")
       \/ /\ opc[t] = "running" /\ TimedOut(t)
          /\ signal' = [signal EXCEPT ![t] = @ \cup {"DONE"}]
          /\ Goto(t, "close") /\ UNCHANGED taskVars
    /\ UNCHANGED <<threadVars, firstSignalPtr, nextSignalPtr, queueVars, expired, freed>>

(* The timeout of a request passes; that of a cancelled one too, if a      *)
(* cancellation may meet a timeout.                                        *)
Expire(t) ==
    /\ t \notin expired /\ opc[t] /= "new"
    /\ ("CANCEL" \in signal[t] \cup flags[t]) => "cancelLate" \in Ops
    /\ expired' = expired \cup {t}
    /\ UNCHANGED <<threadVars, signalVars, queueVars, taskVars, opc, freed>>

(* NsStartQueueShutdown, Ns_DestroyTaskQueue: StopQueue. *)
StopQueue ==
    /\ "stop" \in Ops
    /\ ~shutdown /\ LockFree
    /\ shutdown' = TRUE
    /\ trigger' = trigger + 1
    /\ UNCHANGED <<threadVars, signalVars, stopped, blocked, taskVars, opc, expired, freed>>

-----------------------------------------------------------------------------
(***************************************************************************)
(* TaskThread.                                                             *)
(***************************************************************************)

TakeLock ==
    /\ tpc = "top"
    /\ tpc' = "signals"
    /\ stopping' = shutdown
    /\ UNCHANGED <<cur, following, firstWaitPtr, ready, broadcast, nextWaitPtr, signalVars,
                   queueVars, taskVars, opc, expired, freed>>

FaultyRelink ==                             \* links a task that already waits
    /\ tpc = "signals" /\ firstSignalPtr /= NoTask
    /\ LET t == firstSignalPtr
       IN  /\ firstSignalPtr' = nextSignalPtr[t]
           /\ nextSignalPtr' = [nextSignalPtr EXCEPT ![t] = NoTask]
           /\ signal' = [signal EXCEPT ![t] = @ \ {"INIT", "CANCEL", "PENDING"}]
           /\ flags' = [flags EXCEPT ![t] =
                            @ \cup {"WAIT"} \cup (signal[t] \cap {"INIT", "CANCEL"})]
           /\ nextWaitPtr' = [nextWaitPtr EXCEPT ![t] = firstWaitPtr]
           /\ firstWaitPtr' = t
    /\ UNCHANGED <<tpc, cur, following, ready, stopping, broadcast, queueVars, completed,
                   opc, expired, freed>>

(* One signal: a task that is not waiting is put on the wait list. *)
TakeSignal ==
    /\ tpc = "signals" /\ firstSignalPtr /= NoTask
    /\ LET t == firstSignalPtr
       IN  /\ firstSignalPtr' = nextSignalPtr[t]
           /\ nextSignalPtr' = [nextSignalPtr EXCEPT ![t] = NoTask]
           /\ signal' = [signal EXCEPT ![t] = @ \ {"INIT", "CANCEL", "PENDING"}]
           /\ flags' = [flags EXCEPT ![t] =
                            @ \cup {"WAIT"} \cup (signal[t] \cap {"INIT", "CANCEL"})]
           /\ IF "WAIT" \in flags[t] THEN UNCHANGED <<firstWaitPtr, nextWaitPtr>>
              ELSE /\ nextWaitPtr' = [nextWaitPtr EXCEPT ![t] = firstWaitPtr]
                   /\ firstWaitPtr' = t
    /\ UNCHANGED <<tpc, cur, following, ready, stopping, broadcast, queueVars, completed,
                   opc, expired, freed>>

SignalsDone ==
    /\ tpc = "signals" /\ firstSignalPtr = NoTask
    /\ tpc' = "calls"
    /\ cur' = firstWaitPtr /\ firstWaitPtr' = NoTask
    /\ broadcast' = FALSE
    /\ UNCHANGED <<following, ready, stopping, nextWaitPtr, signalVars, queueVars, taskVars,
                   opc, expired, freed>>

(* The pre-poll callbacks of one task, up to the unlock after its          *)
(* completion is announced.                                                *)
PrePoll ==
    /\ tpc = "calls" /\ cur /= NoTask
    /\ tpc' = "link"
    /\ following' = nextWaitPtr[cur]
    /\ LET f == flags[cur]
           init == IF "INIT" \in f THEN Awaiting(f \ {"INIT"}) ELSE f
           cancelled == "CANCEL" \in f
           done == cancelled \/ "DONE" \in f
       IN  /\ flags' = [flags EXCEPT ![cur] =
                            IF done THEN init \ {"CANCEL", "DONE", "WAIT"} ELSE init]
           /\ completed' = IF cancelled THEN completed \cup Done(cur) ELSE completed
           /\ signal' = IF done THEN [signal EXCEPT ![cur] = @ \cup {"DONE"}] ELSE signal
           /\ broadcast' = (broadcast \/ done)
    /\ UNCHANGED <<cur, firstWaitPtr, ready, stopping, nextWaitPtr, firstSignalPtr,
                   nextSignalPtr, queueVars, opc, expired, freed>>

(* Without the lock, the task's flags say whether it still waits. *)
Link ==
    /\ tpc = "link"
    /\ tpc' = "calls"
    /\ cur' = following
    /\ IF "WAIT" \in flags[cur]
       THEN /\ nextWaitPtr' = [nextWaitPtr EXCEPT ![cur] = firstWaitPtr]
            /\ firstWaitPtr' = cur
       ELSE UNCHANGED <<nextWaitPtr, firstWaitPtr>>
    /\ UNCHANGED <<following, ready, stopping, broadcast, signalVars, queueVars, taskVars,
                   opc, expired, freed>>

FaultyPassDone ==                           \* no broadcast
    /\ tpc = "calls" /\ cur = NoTask
    /\ UNCHANGED blocked
    /\ IF stopping THEN tpc' = "exit" /\ cur' = firstWaitPtr
                   ELSE tpc' = "poll" /\ UNCHANGED cur
    /\ UNCHANGED <<following, firstWaitPtr, ready, stopping, broadcast, nextWaitPtr,
                   signalVars, trigger, shutdown, stopped, taskVars, opc, expired, freed>>

(* The end of the pass: waiting owners are told, and the thread polls, or  *)
(* exits if it saw the shutdown before it took the signals.                *)
PassDone ==
    /\ tpc = "calls" /\ cur = NoTask
    /\ blocked' = IF broadcast THEN {} ELSE blocked
    /\ IF stopping THEN tpc' = "exit" /\ cur' = firstWaitPtr
                   ELSE tpc' = "poll" /\ UNCHANGED cur
    /\ UNCHANGED <<following, firstWaitPtr, ready, stopping, broadcast, nextWaitPtr,
                   signalVars, trigger, shutdown, stopped, taskVars, opc, expired, freed>>

(* NsPoll returns when the trigger pipe holds a byte, of which it reads    *)
(* one, when some sockets are ready, or when the first timeout passes.     *)
Poll ==
    /\ tpc = "poll"
    /\ LET waiting == List(firstWaitPtr, nextWaitPtr)
           silent == {t \in Tasks : "CANCEL" \in signal[t] /\ "cancelLate" \notin Ops}
       IN  /\ ready' \in SUBSET (waiting \ silent)
           /\ trigger > 0 \/ ready' /= {} \/ \E t \in waiting : TimedOut(t)
    /\ trigger' = IF trigger > 0 THEN trigger - 1 ELSE 0
    /\ tpc' = "run" /\ cur' = firstWaitPtr
    /\ UNCHANGED <<following, firstWaitPtr, stopping, broadcast, nextWaitPtr, signalVars,
                   shutdown, stopped, blocked, taskVars, opc, expired, freed>>

FaultyRunTask ==                            \* a timeout is not called back
    /\ tpc = "run" /\ cur /= NoTask
    /\ \/ /\ cur \in ready
          /\ \E done \in HttpIO(cur) :
                 /\ completed' = completed \cup done
                 /\ flags' = IF done = {} THEN flags
                             ELSE [flags EXCEPT ![cur] = @ \cup {"DONE"}]
       \/ /\ cur \notin ready /\ TimedOut(cur)
          /\ UNCHANGED completed
          /\ flags' = [flags EXCEPT ![cur] = (@ \ {"WAIT"}) \cup {"DONE"}]
       \/ cur \notin ready /\ ~TimedOut(cur) /\ UNCHANGED taskVars
    /\ cur' = nextWaitPtr[cur]
    /\ UNCHANGED <<tpc, following, firstWaitPtr, ready, stopping, broadcast, nextWaitPtr,
                   signalVars, queueVars, opc, expired, freed>>

(* One task of the loop over the wait list that calls RunTask. *)
RunTask ==
    /\ tpc = "run" /\ cur /= NoTask
    /\ \/ /\ cur \in ready
          /\ \E done \in HttpIO(cur) :
                 /\ completed' = completed \cup done
                 /\ flags' = IF done = {} THEN flags
                             ELSE [flags EXCEPT ![cur] = @ \cup {"DONE"}]
       \/ /\ cur \notin ready /\ TimedOut(cur)
          /\ completed' = completed \cup Done(cur)
          /\ flags' = [flags EXCEPT ![cur] = (@ \ {"WAIT"}) \cup {"DONE"}]
       \/ cur \notin ready /\ ~TimedOut(cur) /\ UNCHANGED taskVars
    /\ cur' = nextWaitPtr[cur]
    /\ UNCHANGED <<tpc, following, firstWaitPtr, ready, stopping, broadcast, nextWaitPtr,
                   signalVars, queueVars, opc, expired, freed>>

RunDone ==
    /\ tpc = "run" /\ cur = NoTask
    /\ tpc' = "top" /\ ready' = {}
    /\ UNCHANGED <<cur, following, firstWaitPtr, stopping, broadcast, nextWaitPtr,
                   signalVars, queueVars, taskVars, opc, expired, freed>>

(* The exit callback of one task that still waits. *)
CallExit ==
    /\ tpc = "exit" /\ cur /= NoTask
    /\ completed' = completed \cup Done(cur)
    /\ flags' = [flags EXCEPT ![cur] = @ \cup {"DONE"}]
    /\ cur' = nextWaitPtr[cur]
    /\ UNCHANGED <<tpc, following, firstWaitPtr, ready, stopping, broadcast, nextWaitPtr,
                   signalVars, queueVars, opc, expired, freed>>

(* All of them are done, and so is the thread. *)
Stopped ==
    /\ tpc = "exit" /\ cur = NoTask
    /\ signal' = [t \in Tasks |-> IF t \in List(firstWaitPtr, nextWaitPtr)
                                      THEN signal[t] \cup {"DONE"} ELSE signal[t]]
    /\ firstWaitPtr' = NoTask
    /\ stopped' = TRUE /\ blocked' = {}
    /\ tpc' = "exited"
    /\ UNCHANGED <<cur, following, ready, stopping, broadcast, nextWaitPtr,
                   firstSignalPtr, nextSignalPtr, trigger, shutdown, taskVars, opc,
                   expired, freed>>

ThreadNext ==
    \/ TakeLock \/ TakeSignal \/ SignalsDone \/ PrePoll \/ Link \/ PassDone
    \/ Poll \/ RunTask \/ RunDone \/ CallExit \/ Stopped

OwnerNext(t) ==
    \/ Enqueue(t) \/ Trigger(t) \/ HttpAbort(t) \/ NsTaskWait(t)
    \/ HttpClose(t) \/ NsTaskRun(t)

Next == ThreadNext \/ (\E t \in Tasks : OwnerNext(t) \/ Expire(t)) \/ StopQueue

Spec == Init /\ [][Next]_vars

(* The threads run, every timeout passes, and a response has an end (as    *)
(* long as data keeps coming, RunTask does not look at the timeout).       *)
(* Nobody has to queue, cancel or wait, nor need a socket ever be ready.   *)
Fairness ==
    /\ WF_vars(ThreadNext)
    /\ \A t \in Tasks : SF_vars(RunTask /\ t \in completed' \ completed)
    /\ \A t \in Tasks : 
         /\ WF_vars(Trigger(t)) /\ WF_vars(Expire(t))
         /\ SF_vars(opc[t] = "wait" /\ NsTaskWait(t))

FairSpec == Spec /\ Fairness

-----------------------------------------------------------------------------
(***************************************************************************)
(* Properties.                                                             *)
(***************************************************************************)
TypeOK ==
    /\ signal \in [Tasks -> SUBSET {"INIT", "CANCEL", "DONE", "PENDING"}]
    /\ flags \in [Tasks -> SUBSET {"INIT", "CANCEL", "DONE", "WAIT", "TIMEOUT"}]
    /\ {nextWaitPtr, nextSignalPtr} \subseteq [Tasks -> Tasks \cup {NoTask}]
    /\ {firstSignalPtr, firstWaitPtr, cur, following} \subseteq Tasks \cup {NoTask}
    /\ trigger \in 0 .. 2 * Cardinality(Tasks) + 1
    /\ {shutdown, stopped, stopping, broadcast} \subseteq BOOLEAN
    /\ tpc \in {"top", "signals", "calls", "link", "poll", "run", "exit", "exited"}
    /\ opc \in [Tasks -> {"new", "trigger", "queued", "cancelTrigger", "wait", "running",
                          "close", "freed"}]
    /\ {ready, blocked, expired, completed, freed} \subseteq SUBSET Tasks

Signalled == List(firstSignalPtr, nextSignalPtr)
Waiting == List(firstWaitPtr, nextWaitPtr)

(* TaskThread has no freed task on a list, nor at hand when it is about to *)
(* call its proc: the owner frees a task when it is done, and it is done   *)
(* only after the last callback and once no list holds it.                 *)
ListsLive ==
    /\ (Signalled \cup Waiting) \cap freed = {}
    /\ tpc \in {"calls", "run", "exit"} => cur \notin freed

(* The end of a list is reached: a task is on a list at most once.         *)
Ends(first, next) == \A t \in List(first, next) : t \notin List(next[t], next)
NoCycle ==
    /\ Ends(firstSignalPtr, nextSignalPtr)
    /\ tpc \in {"top", "poll", "run"} => Ends(firstWaitPtr, nextWaitPtr)

(* Each request that was queued and is not done is known to TaskThread: it *)
(* waits, or its signal does.  None is lost when tasks come, are           *)
(* cancelled, time out and complete in any order.                          *)
NoneForgotten ==
    tpc \in {"top", "poll", "run"} =>
        \A t \in Tasks :
            opc[t] \notin {"new", "running"} /\ "DONE" \notin signal[t] /\ t \notin freed
                => t \in Signalled \cup Waiting

(* A signal is not left lying while TaskThread sleeps: either a byte is in *)
(* the pipe, or someone is about to send it.                               *)
SignalSeen ==
    tpc = "poll" /\ (firstSignalPtr /= NoTask \/ shutdown)
        => \/ trigger > 0
           \/ \E t \in Tasks : opc[t] \in {"trigger", "cancelTrigger"}

(* What an owner gets from Ns_TaskWait has been completed by the proc: the *)
(* result, the error and the end time are there.  The exception is a task  *)
(* that Ns_TaskRun gave up on when its poll timed out: nobody told its     *)
(* proc, and it is left as it was polled, waiting with a timeout.          *)
GaveUp(t) == TimedOut(t) /\ "WAIT" \in flags[t] /\ "DONE" \notin flags[t]
DoneIsComplete == \A t \in Tasks : "DONE" \in signal[t] => t \in completed \/ GaveUp(t)

(* Waiting for a request, cancelled or not, ends.                          *)
WaitEnds == \A t \in Tasks : opc[t] = "wait" ~> opc[t] = "close"

(* A queue that is told to stop stops, whatever its tasks do.              *)
StopEnds == shutdown ~> stopped

(* The two lists of the queue hold tasks that live, each once.             *)
ListsSound == TypeOK /\ ListsLive /\ NoCycle

(* TaskThread knows of every request and is woken for every signal.        *)
NoneUnseen == NoneForgotten /\ SignalSeen

(* Who waits for a request or for the end of the queue does not in vain.   *)
WaitsEnd == WaitEnds /\ StopEnds
=============================================================================
