------------------------------ MODULE JobQueue ------------------------------
(***************************************************************************)
(* The job queues of nsd/tcljob.c: ns_job puts scripts on named queues and *)
(* waits for them, a pool of threads runs them, no more of a queue at once *)
(* than its limit.                                                         *)
(*                                                                         *)
(* tp.queuelock guards the pool and the list of scheduled jobs, the lock   *)
(* of each queue its jobs.  A command of ns_job is one action from         *)
(* LookupQueue to ReleaseQueue; the two moments when a thread holds one of *)
(* the locks and waits for the other are places of their own, "blocked"    *)
(* and "deleting".                                                         *)
(***************************************************************************)
EXTENDS Lists, SequencesExt

CONSTANTS
    Clients,        \* threads that call ns_job
    Workers,        \* slots of job threads
    Jobs,           \* slots of Job structures
    Queues,         \* names of queues
    Limits,         \* the limits ns_job create is given
    MaxLimit,       \* a bound on them
    NoJob

ASSUME JobAssumption ==
    /\ IsFiniteSet(Clients) /\ IsFiniteSet(Workers) /\ Clients \cap Workers = {}
    /\ IsFiniteSet(Jobs) /\ NoJob \notin Jobs
    /\ IsFiniteSet(Queues) /\ "none" \notin Queues
    /\ MaxLimit \in Nat /\ Limits \subseteq 0 .. MaxLimit

VARIABLES
    queue,          \* the JobQueue of each name; made: it is in tp.queues
    job,            \* the Job of each slot; in the table of its queue unless "free"
    scheduled,      \* the list from tp.firstPtr
    nthreads, nidle, stop,      \* of tp; stop: req is THREADPOOL_REQ_STOP
    pc,             \* where each thread is
    target,         \* the queue and the job of each client's command
    work            \* the job each job thread runs

pool == <<nthreads, nidle, stop>>
vars == <<queue, job, scheduled, pool, pc, target, work>>

NoQueue == [made |-> FALSE, delete |-> FALSE, max |-> 0, running |-> 0, refs |-> 0]
FreeJob == [state |-> "free", req |-> "none", detached |-> FALSE, on |-> "none"]

Nothing == [on |-> "none", of |-> NoJob]

Init ==
    /\ queue = [q \in Queues |-> NoQueue] /\ job = [j \in Jobs |-> FreeJob]
    /\ scheduled = <<>> /\ nthreads = 0 /\ nidle = 0 /\ stop = FALSE
    /\ pc = [t \in Clients \cup Workers |-> IF t \in Clients THEN "out" ELSE "none"]
    /\ target = [c \in Clients |-> Nothing]
    /\ work = [w \in Workers |-> NoJob]

At(threads, p) == {t \in threads : pc[t] = p}

(* The table of queue q, for jobs js. *)
Table(js, q) == {j \in Jobs : js[j].state # "free" /\ js[j].on = q}

(* tp.maxThreads, the sum of the limits, which changes when a queue comes  *)
(* or goes: each queue adds as many places for threads as its limit.       *)
maxThreads == Cardinality({x \in Queues \X (1 .. MaxLimit) : x[2] <= queue[x[1]].max})

-----------------------------------------------------------------------------
(* The locks, and the conditions. *)

QueueLockFree == At(Clients, "blocked") = {}
LockFree(q) == \A c \in At(Clients, "deleting") : target[c].on # q

(* LookupQueue finds q, and gets both locks. *)
Lookup(q) == QueueLockFree /\ queue[q].made /\ LockFree(q)

(* ReleaseQueue deletes a queue that is to be deleted, has no jobs and is  *)
(* not referenced.                                                         *)
MayDelete(qs, js, q) == qs[q].delete /\ qs[q].refs <= 0 /\ Table(js, q) = {}

(* ReleaseQueue(queuePtr, 0), with which the command of client c ends: if  *)
(* it deletes the queue it needs tp.queuelock, and keeps the lock of the   *)
(* queue until it has it.                                                  *)
Release(c, qs, js, q, p) ==
    IF MayDelete(qs, js, q)
    THEN /\ pc' = [p EXCEPT ![c] = "deleting"]
         /\ target' = [target EXCEPT ![c] = [Nothing EXCEPT !.on = q]]
    ELSE /\ pc' = [p EXCEPT ![c] = "out"]
         /\ target' = [target EXCEPT ![c] = Nothing]

(* ReleaseQueue(queuePtr, 1). *)
Removed(qs, js, q) == IF MayDelete(qs, js, q) THEN [qs EXCEPT ![q] = NoQueue] ELSE qs

(* Ns_CondBroadcast for tp.cond and for the condition of queue q.          *)
PoolWoken(p) == [t \in DOMAIN p |-> IF p[t] = "sleep" THEN "woken" ELSE p[t]]

QueueWoken(p, q) ==
    [t \in DOMAIN p |->
        IF t \notin Clients \/ target[t].on # q THEN p[t]
        ELSE IF p[t] = "wait" THEN "waitWoken"
        ELSE IF p[t] = "any" THEN "anyWoken" ELSE p[t]]

-----------------------------------------------------------------------------
(* The commands of ns_job.  One that fails changes nothing. *)

Enter(c) == pc[c] = "out"

(* A command that names a queue whose lock is held waits for it, and holds *)
(* tp.queuelock.                                                           *)
Block(c) ==
    /\ Enter(c) /\ QueueLockFree
    /\ \E q \in Queues :
         /\ queue[q].made /\ ~LockFree(q)
         /\ target' = [target EXCEPT ![c] = [Nothing EXCEPT !.on = q]]
    /\ pc' = [pc EXCEPT ![c] = "blocked"]
    /\ UNCHANGED <<queue, job, scheduled, pool, work>>

Create(c) ==
    /\ Enter(c) /\ QueueLockFree
    /\ \E q \in Queues, max \in Limits :
         /\ ~queue[q].made
         /\ queue' = [queue EXCEPT ![q] = [NoQueue EXCEPT !.made = TRUE, !.max = max]]
    /\ UNCHANGED <<job, scheduled, pool, pc, target, work>>

FaultyQueueJob(c, q, j) ==          \* idle threads are not woken
    /\ Enter(c) /\ Lookup(q) /\ ~stop /\ ~queue[q].delete /\ job[j].state = "free"
    /\ \E d \in BOOLEAN :
         job' = [job EXCEPT ![j] = [state |-> "scheduled", req |-> "none", detached |-> d, on |-> q]]
    /\ scheduled' = Append(scheduled, j)
    /\ IF nidle = 0 /\ nthreads < maxThreads
       THEN nthreads' = nthreads + 1 /\ pc' = [pc EXCEPT ![c] = "create"]
       ELSE UNCHANGED <<nthreads, pc>>
    /\ UNCHANGED <<queue, nidle, stop, target, work>>

QueueJob(c, q, j) ==
    /\ Enter(c) /\ Lookup(q) /\ ~stop /\ ~queue[q].delete /\ job[j].state = "free"
    /\ \E d \in BOOLEAN :
         job' = [job EXCEPT ![j] = [state |-> "scheduled", req |-> "none", detached |-> d, on |-> q]]
    /\ scheduled' = Append(scheduled, j)
    /\ IF nidle = 0 /\ nthreads < maxThreads
       THEN nthreads' = nthreads + 1 /\ pc' = [PoolWoken(pc) EXCEPT ![c] = "create"]
       ELSE pc' = PoolWoken(pc) /\ UNCHANGED nthreads
    /\ UNCHANGED <<queue, nidle, stop, target, work>>

(* Ns_ThreadCreate, without the locks. *)
CreateThread(c) ==
    /\ pc[c] = "create"
    /\ \E w \in At(Workers, "none") : pc' = [pc EXCEPT ![w] = "start", ![c] = "out"]
    /\ UNCHANGED <<queue, job, scheduled, pool, target, work>>

(* The end of wait: the job leaves its queue and is freed. *)
TakeResult(c, j, qs) ==
    /\ job' = [job EXCEPT ![j] = FreeJob] /\ queue' = qs
    /\ Release(c, qs, job', job[j].on, pc)
    /\ UNCHANGED <<scheduled, pool, work>>

Wait(c, j) ==
    LET q == job[j].on IN
    /\ Enter(c) /\ job[j].state # "free" /\ Lookup(q)
    /\ ~job[j].detached /\ job[j].req = "none"
    /\ IF job[j].state = "done"
       THEN TakeResult(c, j, queue)
       ELSE /\ target' = [target EXCEPT ![c] = [on |-> q, of |-> j]]
            /\ job' = [job EXCEPT ![j].req = "wait"]
            /\ queue' = [queue EXCEPT ![q].refs = @ + 1]
            /\ pc' = [pc EXCEPT ![c] = "wait"]
            /\ UNCHANGED <<scheduled, pool, work>>

WaitAny(c, q) ==
    /\ Enter(c) /\ Lookup(q)
    /\ Table(job, q) # {} /\ \A j \in Table(job, q) : job[j].state # "done"
    /\ target' = [target EXCEPT ![c] = [on |-> q, of |-> NoJob]]
    /\ queue' = [queue EXCEPT ![q].refs = @ + 1]
    /\ pc' = [pc EXCEPT ![c] = "any"]
    /\ UNCHANGED <<job, scheduled, pool, work>>

Unreferenced(q) == [queue EXCEPT ![q].refs = @ - 1]

(* Ns_CondWait returns, and the predicate is tested again.                 *)
Waited(c) ==
    LET q == target[c].on
        j == target[c].of
    IN  /\ pc[c] = "waitWoken" /\ LockFree(q)
        /\ IF job[j].state = "done"
           THEN TakeResult(c, j, Unreferenced(q))
           ELSE /\ pc' = [pc EXCEPT ![c] = "wait"]
                /\ UNCHANGED <<queue, job, scheduled, pool, target, work>>

WaitedAny(c) ==
    LET q == target[c].on IN
    /\ pc[c] = "anyWoken" /\ LockFree(q)
    /\ IF Table(job, q) = {} \/ \E j \in Table(job, q) : job[j].state = "done"
       THEN queue' = Unreferenced(q) /\ Release(c, queue', job, q, pc)
       ELSE pc' = [pc EXCEPT ![c] = "any"] /\ UNCHANGED <<queue, target>>
    /\ UNCHANGED <<job, scheduled, pool, work>>

(* Ns_CondTimedWait returns NS_TIMEOUT, if the command has a time limit;   *)
(* the predicate is not tested.                                            *)
TimeOut(c) ==
    LET q == target[c].on IN
    /\ pc[c] \in {"wait", "waitWoken", "any", "anyWoken"} /\ LockFree(q)
    /\ job' = IF target[c].of = NoJob THEN job ELSE [job EXCEPT ![target[c].of].req = "none"]
    /\ queue' = Unreferenced(q)
    /\ Release(c, queue', job', q, pc)
    /\ UNCHANGED <<scheduled, pool, work>>

Cancel(c, j) ==
    LET q == job[j].on IN
    /\ Enter(c) /\ job[j].state # "free" /\ Lookup(q) /\ job[j].req # "wait"
    /\ job' = [job EXCEPT ![j] = IF @.state = "done" THEN FreeJob ELSE [@ EXCEPT !.req = "cancel"]]
    /\ Release(c, queue, job', q, PoolWoken(QueueWoken(pc, q)))
    /\ UNCHANGED <<queue, scheduled, pool, work>>

(* The broadcast for the pool, which comes last, finds nothing changed.    *)
DeleteQueue(c, q) ==
    /\ Enter(c) /\ Lookup(q)
    /\ queue' = [queue EXCEPT ![q].delete = TRUE]
    /\ Release(c, queue', job, q, PoolWoken(pc))
    /\ UNCHANGED <<job, scheduled, pool, work>>

Delete(c) ==
    /\ pc[c] = "deleting" /\ QueueLockFree
    /\ queue' = [queue EXCEPT ![target[c].on] = NoQueue]
    /\ pc' = [pc EXCEPT ![c] = "out"] /\ target' = [target EXCEPT ![c] = Nothing]
    /\ UNCHANGED <<job, scheduled, pool, work>>

-----------------------------------------------------------------------------
(* The job threads. *)

FaultyRunnable(qs, js, j) ==        \* an off-by-one
    js[j].req # "cancel" /\ qs[js[j].on].running <= qs[js[j].on].max

Runnable(qs, js, j) ==
    js[j].req # "cancel" /\ qs[js[j].on].running < qs[js[j].on].max

(* NextJob: the first job of the list whose queue is below its limit, and  *)
(* the cancelled jobs before it.                                           *)
NextJob(qs, js) ==
    LET i      == FirstIn(scheduled, {j \in ToSet(scheduled) : Runnable(qs, js, j)})
        passed == IF i = 0 THEN scheduled ELSE SubSeq(scheduled, 1, i - 1)
    IN  [job |-> IF i = 0 THEN NoJob ELSE scheduled[i],
         gone |-> {j \in ToSet(passed) : js[j].req = "cancel"}]

(* NextJob has passed: the jobs gone are freed, with their queue if it was *)
(* to be deleted and is now empty, and the job found is running.           *)
Freed(js, gone) == [j \in Jobs |-> IF j \in gone THEN FreeJob ELSE js[j]]

JobsPassed(js, next) ==
    [j \in Jobs |-> IF j = next.job THEN [js[j] EXCEPT !.state = "running"]
                    ELSE Freed(js, next.gone)[j]]

QueuesPassed(qs, js, next) ==
    [q \in Queues |->
        IF (\E j \in next.gone : js[j].on = q) /\ MayDelete(qs, Freed(js, next.gone), q) THEN NoQueue
        ELSE IF next.job # NoJob /\ js[next.job].on = q THEN [qs[q] EXCEPT !.running = @ + 1]
        ELSE qs[q]]

(* The loop of JobThread from where it counts itself as idle (it is        *)
(* counted already when it comes from Ns_CondWait) to the next job, to     *)
(* sleep, or out; p are the places of the threads meanwhile.               *)
Look(w, qs, js, p, counted) ==
    \E next \in {NextJob(qs, js)} :
        /\ queue' = QueuesPassed(qs, js, next) /\ job' = JobsPassed(js, next)
        /\ scheduled' = Filter(scheduled, Jobs \ (next.gone \cup {next.job}))
        /\ IF stop
           THEN /\ nthreads' = nthreads - 1 /\ nidle' = nidle - counted
                /\ pc' = [PoolWoken(p) EXCEPT ![w] = "none"]
                /\ work' = [work EXCEPT ![w] = NoJob]
           ELSE /\ work' = [work EXCEPT ![w] = next.job]
                /\ IF next.job = NoJob
                   THEN nidle' = nidle - counted + 1 /\ pc' = [p EXCEPT ![w] = "sleep"]
                   ELSE nidle' = nidle - counted /\ pc' = [p EXCEPT ![w] = "run"]
                /\ UNCHANGED nthreads
        /\ UNCHANGED <<stop, target>>

Start(w) == pc[w] = "start" /\ QueueLockFree /\ Look(w, queue, job, pc, 0)

Awake(w) == pc[w] = "woken" /\ QueueLockFree /\ Look(w, queue, job, pc, 1)

(* The script has ended. *)
Finish(w) ==
    LET j  == work[w]
        q  == job[j].on
    IN  /\ pc[w] = "run" /\ Lookup(q)
        /\ \E js \in {[job EXCEPT ![j] = IF @.req = "cancel" \/ @.detached THEN FreeJob
                                 ELSE [@ EXCEPT !.state = "done"]]},
             qs \in {[queue EXCEPT ![q].running = @ - 1]} :
            Look(w, Removed(qs, js, q), js, QueueWoken(pc, q), 0)

(* Ns_CondWait may return with no broadcast. *)
Spurious(t) ==
    /\ \/ pc[t] = "sleep" /\ pc' = [pc EXCEPT ![t] = "woken"]
       \/ pc[t] = "wait" /\ pc' = [pc EXCEPT ![t] = "waitWoken"]
       \/ pc[t] = "any" /\ pc' = [pc EXCEPT ![t] = "anyWoken"]
    /\ UNCHANGED <<queue, job, scheduled, pool, target, work>>

FaultyNsStartJobsShutdown ==        \* sleeping threads are not told
    /\ QueueLockFree /\ ~stop /\ \E q \in Queues : queue[q].made
    /\ stop' = TRUE
    /\ UNCHANGED <<queue, job, scheduled, nthreads, nidle, pc, target, work>>

(* Only if there is a queue are the threads told to stop. *)
NsStartJobsShutdown ==
    /\ QueueLockFree /\ ~stop /\ \E q \in Queues : queue[q].made
    /\ stop' = TRUE
    /\ pc' = PoolWoken(pc)
    /\ UNCHANGED <<queue, job, scheduled, nthreads, nidle, target, work>>

-----------------------------------------------------------------------------
Command(c) ==
    \/ Create(c) \/ Block(c)
    \/ \E q \in Queues : WaitAny(c, q) \/ DeleteQueue(c, q) \/ \E j \in Jobs : QueueJob(c, q, j)
    \/ \E j \in Jobs : Wait(c, j) \/ Cancel(c, j)

GoOn(c) == CreateThread(c) \/ Waited(c) \/ WaitedAny(c) \/ Delete(c)

JobThread(w) == Start(w) \/ Awake(w) \/ Finish(w)

Next ==
    \/ \E c \in Clients : Command(c) \/ GoOn(c) \/ TimeOut(c)
    \/ \E w \in Workers : JobThread(w)
    \/ \E t \in Clients \cup Workers : Spurious(t)
    \/ NsStartJobsShutdown

Spec == Init /\ [][Next]_vars

(* Threads go on when the locks they need are free, and scripts end.       *)
Fairness ==
    /\ \A c \in Clients : WF_<<pc, work>>(GoOn(c))
    /\ \A w \in Workers : WF_<<pc, work>>(JobThread(w))

FairSpec == Spec /\ Fairness

-----------------------------------------------------------------------------
TypeOK ==
    /\ queue \in [Queues -> [made : BOOLEAN, delete : BOOLEAN, max : Limits \cup {0},
                             running : Nat, refs : Nat]]
    /\ job \in [Jobs -> [state : {"free", "scheduled", "running", "done"},
                         req : {"none", "wait", "cancel"}, detached : BOOLEAN,
                         on : Queues \cup {"none"}]]
    /\ stop \in BOOLEAN /\ work \in [Workers -> Jobs \cup {NoJob}]

Waiting(c) == pc[c] \in {"wait", "waitWoken"}
WaitingAny(c) == pc[c] \in {"any", "anyWoken"}

(* A job is on the list of the pool exactly while it is scheduled, runs in *)
(* one thread (or is dropped by one that stops), and is freed once, by the *)
(* thread that waited for it, cancelled it, ran it or passed it; the one   *)
(* that a client waits for is not freed by anybody else.                   *)
JobsOwned ==
    /\ IsInjective(scheduled)
    /\ ToSet(scheduled) = {j \in Jobs : job[j].state = "scheduled"}
    /\ \A w \in Workers : pc[w] = "run" <=> work[w] # NoJob
    /\ \A j \in Jobs :
         /\ Cardinality({w \in Workers : work[w] = j}) <= 1
         /\ (\E w \in Workers : work[w] = j) => job[j].state = "running"
         /\ job[j].state = "running" => stop \/ \E w \in Workers : work[w] = j
         /\ Cardinality({c \in Clients : Waiting(c) /\ target[c].of = j})
              = IF job[j].req = "wait" THEN 1 ELSE 0

(* The counts of a queue are right, no more of its jobs run than its limit *)
(* allows, a queue with jobs or references stays, and one that is to be    *)
(* deleted goes with the last of them, once.                               *)
QueuesCounted ==
    \A q \in Queues :
        /\ queue[q].running = Cardinality({j \in Table(job, q) : job[j].state = "running"})
        /\ queue[q].running <= queue[q].max
        /\ queue[q].refs = Cardinality({c \in Clients : (Waiting(c) \/ WaitingAny(c)) /\ target[c].on = q})
        /\ Table(job, q) # {} \/ queue[q].refs # 0 => queue[q].made
        /\ Cardinality({c \in At(Clients, "deleting") : target[c].on = q})
             = IF MayDelete(queue, job, q) THEN 1 ELSE 0

(* The counts of the pool are right, and there are never more threads than *)
(* the limits of the queues there may be.                                  *)
PoolCounted ==
    /\ nidle = Cardinality(At(Workers, "sleep") \cup At(Workers, "woken"))
    /\ nthreads = Cardinality(At(Clients, "create")) + Cardinality(Workers \ At(Workers, "none"))
    /\ nthreads <= Cardinality(Queues) * MaxLimit

JobsSound == TypeOK /\ JobsOwned /\ QueuesCounted /\ PoolCounted

(* No job thread sleeps beside a job it could run or that was cancelled;   *)
(* while jobs of a queue with a limit above 0 are scheduled there is a     *)
(* thread; no client sleeps that waits for a job that is done.             *)
NobodyForgotten ==
    /\ At(Workers, "sleep") # {} =>
         \A j \in ToSet(scheduled) : job[j].req # "cancel" /\ ~Runnable(queue, job, j)
    /\ (\E j \in ToSet(scheduled) : queue[job[j].on].max > 0) => stop \/ nthreads > 0
    /\ \A c \in At(Clients, "wait") : job[target[c].of].state # "done"
    /\ \A c \in At(Clients, "any") : \A j \in Table(job, target[c].on) : job[j].state # "done"

(* Two clients wait for the lock that the other holds.  ("To avoid         *)
(* deadlock, when locking both the queuelock and queue's lock lock the     *)
(* queuelock first", says tcljob.c.)                                       *)
Stuck == At(Clients, "blocked") # {}

(* Every client that waits for a job comes back, so that its job has run;  *)
(* unless the server stops or two clients block each other.  One that      *)
(* waits for any job of a queue does too, once no more jobs come; except   *)
(* when the last job of the queue was cancelled and is passed by a job     *)
(* thread, which tells nobody.  Told to stop, all job threads exit.        *)
JobsEnd ==
    /\ \A c \in Clients : Waiting(c) ~> ~Waiting(c) \/ stop \/ Stuck
    /\ <>[][Len(scheduled') <= Len(scheduled)]_scheduled =>
          \A c \in Clients :
              WaitingAny(c) ~> ~WaitingAny(c) \/ Table(job, target[c].on) = {} \/ stop \/ Stuck
    /\ stop ~> nthreads = 0 \/ Stuck
=============================================================================
