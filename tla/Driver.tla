------------------------------- MODULE Driver -------------------------------
(***************************************************************************)
(* A socket driver (nsd/driver.c): the driver thread, its reader threads,  *)
(* and those who deal with them: connection threads that give back sockets *)
(* and Conns, ns_driver query, the main thread that starts and stops the   *)
(* driver, and, by the Limits they share with it (nsd/limits.c), other     *)
(* drivers and ns_limits set.                                              *)
(*                                                                         *)
(* One spin of DriverThread is the action Spin (poll, the lists it takes   *)
(* over, the sockets that are ready, accept), followed by FreeConn for     *)
(* each Conn that is done, HandOver (to the readers), QueueConn for each   *)
(* Conn of the queue and Answer (the query), each of which locks the       *)
(* driver or the Limits once; what is between the locks touches only lists *)
(* of the driver thread.  A socket stands for the Conn it waits for or     *)
(* runs with.  HTTP/2 and HTTP/3 sockets are left out.                     *)
(***************************************************************************)
EXTENDS Functions, Lists

CONSTANTS
    Socks,      \* the preallocated Sock structures (maxsock)
    Readers,    \* the reader threads that may be created (maxreaders)
    Queriers,   \* threads that may evaluate ns_driver query
    Others,     \* requests of other drivers under the same Limits
    Setters,    \* threads that evaluate ns_limits set, and fail once
    Nothing,    \* no socket
    Word,       \* how many values an unsigned int has
    Limit,      \* the <<maxrun, maxwait>> that ns_limits set may set
    Modes       \* <<async, around>>: NS_DRIVER_ASYNC or not, and who is there

\* maxreaders is at least 1; ns_limits set takes any number, modulo Word.
ASSUME DriverAssumption ==
    /\ IsFiniteSet(Socks) /\ Nothing \notin Socks
    /\ IsFiniteSet(Readers) /\ Readers /= {}
    /\ IsFiniteSet(Others) /\ Word \in Nat \ {0}
    /\ Limit \subseteq (0 .. Word - 1) \X (0 .. Word - 1)
    /\ Modes \subseteq BOOLEAN \X SUBSET (Socks \cup Queriers \cup Others \cup Setters)

VARIABLES
    async,      \* the driver reads by itself (NS_DRIVER_ASYNC), for good
    around,     \* who is there: clients (their Socks), queriers, others, setters
    dpc,        \* where the driver thread is in its spin
    stop,       \* its copy of DRIVER_SHUTDOWN
    flags,      \* the DRIVER_ flags, guarded by the lock
    trigger,    \* whether the trigger pipe has a byte
    state,      \* the SOCK_ state of each socket
    place,      \* the list or the thread each socket is with
    hasConn,    \* whether sockPtr->connPtr is set
    connq,      \* firstConnPtr: sockets in RUNWAIT
    todo,       \* connPtr and its successors: what this spin still has to queue
    due,        \* what poll said of those: to be queued, dropped or expired
    freeing,    \* freeConnPtr of this spin: limited Conns still to be freed
    readList,   \* readSockPtr, a stack
    idle,       \* idlereaders
    rpc,        \* where each reader is
    rsock,      \* the socket each reader reads
    maxrun, maxwait, nrunning, nwaiting,    \* the Limits
    other,      \* where the requests of other drivers are
    spc, saved, \* where each setter is, and its saveLimits
    undone,     \* history: what write-backs of saveLimits added to the counts
    closing,    \* limited Conns that still run and have given back the socket
    done,       \* limited Conns on freeConnPtr
    query,      \* whether this spin has seen DRIVER_QUERY
    qpc,        \* where each querier is
    mpc         \* where the main thread is

limits == <<maxrun, maxwait, nrunning, nwaiting>>
theirs == <<async, around, other, spc, saved, undone>>   \* the driver writes none
queueVars == <<connq, todo, due, freeing>>
sockVars == <<state, place, hasConn>>
readVars == <<readList, idle, rpc, rsock>>
connVars == <<closing, done>>
vars == <<theirs, dpc, stop, flags, trigger, sockVars, queueVars, readVars, limits,
          connVars, query, qpc, mpc>>

Orders(S) == Bijection(1 .. Cardinality(S), S)
With(p) == {s \in Socks : place[s] = p}
Active == {s \in Socks : place[s] /= "free"}            \* nactive
nreaders == Cardinality({r \in Readers : rpc[r] /= "none"})
Shutdown == "SHUTDOWN" \in flags

Init ==
    /\ \E mode \in Modes : async = mode[1] /\ around = mode[2]
    /\ dpc = "listen" /\ stop = FALSE /\ flags = {} /\ trigger = FALSE
    /\ state = [s \in Socks |-> "CLOSED"]
    /\ place = [s \in Socks |-> "free"]
    /\ hasConn = [s \in Socks |-> FALSE]
    /\ connq = <<>> /\ todo = <<>> /\ due = [s \in Socks |-> "queue"] /\ freeing = 0
    /\ readList = <<>> /\ idle = 0
    /\ rpc = [r \in Readers |-> "none"] /\ rsock = [r \in Readers |-> Nothing]
    /\ \E limit \in Limit : maxrun = limit[1] /\ maxwait = limit[2]
    /\ nrunning = 0 /\ nwaiting = 0
    /\ other = [o \in Others |-> "none"]
    /\ spc = [c \in Setters |-> "before"] /\ saved = [c \in Setters |-> <<>>]
    /\ undone = [running |-> 0, waiting |-> 0]
    /\ closing = 0 /\ done = 0 /\ query = FALSE
    /\ qpc = [q \in Queriers |-> "idle"]
    /\ mpc = "starting"

-----------------------------------------------------------------------------
(* drvPtr->cond: readers, queriers and the main thread all wait on it.  The *)
(* main thread waits for flags that are set once, with a broadcast; whether  *)
(* it sleeps yet is not told apart.                                          *)

Roused(p) ==
    CASE p = "sleep"       -> "awake"
      [] p = "turnSleep"   -> "turn"
      [] OTHER             -> p

Sleeps(p) == Roused(p) /= p

MainSleeps == mpc = "stopping" /\ "STOPPED" \notin flags

\* Ns_CondSignal wakes any one of them; rpcNow is what becomes of rpc besides.
Signal(rpcNow) ==
    \/ /\ \A r \in Readers : ~Sleeps(rpc[r])
       /\ \A q \in Queriers : ~Sleeps(qpc[q])
       /\ rpc' = rpcNow /\ UNCHANGED qpc
    \/ MainSleeps /\ rpc' = rpcNow /\ UNCHANGED qpc
    \/ \E r \in Readers : /\ Sleeps(rpc[r])
                          /\ rpc' = [rpcNow EXCEPT ![r] = Roused(@)]
                          /\ UNCHANGED qpc
    \/ \E q \in Queriers : /\ Sleeps(qpc[q])
                           /\ qpc' = [qpc EXCEPT ![q] = Roused(@)]
                           /\ rpc' = rpcNow

Broadcast ==
    /\ rpc' = [r \in Readers |-> Roused(rpc[r])]
    /\ qpc' = [q \in Queriers |-> Roused(qpc[q])]

-----------------------------------------------------------------------------
(* The driver thread starts: it may fail to listen. *)

Listen(ok) ==
    /\ dpc = "listen"
    /\ flags' = flags \cup IF ok THEN {"STARTED"} ELSE {"STARTED", "FAILED", "SHUTDOWN"}
    /\ stop' = ~ok
    /\ dpc' = "poll"
    /\ Broadcast
    /\ UNCHANGED <<theirs, trigger, sockVars, queueVars, readList, idle, rsock, limits,
                   connVars, query, mpc>>

-----------------------------------------------------------------------------
(* What a spin may do with a socket, given the events and timeouts that    *)
(* poll reports and what its callbacks and filters return.                 *)

\* On to the queue; the time a Conn may wait there (-timeout) can be none.
ToQueue == {"queue", "expire"}

\* Pre-queue filters: an error or a close, a wait for another socket, or on.
PreQueue == {"close", "quewait"} \cup ToQueue

\* A SockRead by the driver: more to read, an error, or the request is read.
ReadNow == {"stay", "close"} \cup PreQueue

FromReadWait(s, stopping) ==
    IF ~hasConn[s]
    THEN {"close", "crash"}     \* with input, connPtr->ibuf is read through NULL
    ELSE (IF async THEN ReadNow ELSE {"read"})
            \cup IF stopping THEN {"close"} ELSE {"stay", "close"}

FromWait(s, stopping) ==
    CASE state[s] = "CLOSEWAIT" -> IF stopping THEN {"close"} ELSE {"stay", "close"}
      [] state[s] = "QUEWAIT"   -> {"stay", "close"} \cup ToQueue    \* RunQueWaits
      [] state[s] = "RUNWAIT"   -> {"queue", "drop", "expire"}
      [] state[s] = "READWAIT"  -> FromReadWait(s, stopping)

\* Returned by a reader.
FromReader(s) == IF state[s] = "PREQUE" THEN PreQueue ELSE {"close"}

\* Returned by NsSockClose, for keep-alive or to close gracefully, if
\* closewait is set and shutdown(2) works.
FromClose(s, stopping) ==
    IF ~stopping /\ state[s] = "READWAIT" THEN {"keep"} ELSE {"close", "drain"}

Fates(s, stopping) ==
    CASE place[s] = "wait"  -> FromWait(s, stopping)
      [] place[s] = "run"   -> FromReader(s)
      [] place[s] = "close" -> FromClose(s, stopping)
      [] OTHER              -> {"none"}

-----------------------------------------------------------------------------
(* One spin.  Poll returns for the trigger pipe, for events or timeouts of *)
(* sockets, or for a client to accept if a Sock was free before it.        *)

Reported(s, fate) ==
    /\ place[s] = "wait" /\ fate[s] /= "stay"
    /\ state[s] = "RUNWAIT" => fate[s] /= "queue"

PollReturns(fate, accepted) ==
    trigger \/ accepted /= Nothing \/ \E s \in Socks : Reported(s, fate)

\* What comes next, with n Conns to free and the queue q.
Phase(n, reads, q, asked) ==
    IF n > 0 THEN "free" ELSE IF reads THEN "hand" ELSE IF q /= <<>> THEN "queue"
    ELSE IF asked THEN "answer" ELSE "poll"

\* The Conns that come to the queue behind those that wait in it.
Coming(fate) == {s \in Socks : state[s] /= "RUNWAIT" /\ fate[s] \in ToQueue}

\* Mutant: they go before those.
FaultyQueued(new) == new \o connq

Queued(new) == connq \o new

NewState(s, fate) ==
    CASE fate[s] = "close"      -> "CLOSED"
      [] fate[s] = "quewait"    -> "QUEWAIT"
      [] s \in Coming(fate) /\ state[s] /= "QUEWAIT"     -> "PREQUE"
      [] OTHER                  -> state[s]

NewPlace(s, fate) ==
    CASE fate[s] = "close"                          -> "free"       \* SockClose
      [] fate[s] = "read"                           -> "toread"
      [] fate[s] \in {"keep", "drain", "quewait"}   -> "wait"
      [] fate[s] \in ToQueue \cup {"drop"}          -> "queue"
      [] OTHER                                      -> place[s]

Spin(fate, new, accepted) ==
    /\ dpc = "poll" /\ (stop => Active /= {})
    /\ \A s \in Socks : fate[s] \in Fates(s, Shutdown)
    /\ PollReturns(fate, accepted)
    /\ Range(new) = Coming(fate)
    /\ accepted /= Nothing => ~stop /\ ~Shutdown /\ place[accepted] = "free"
    /\ IF \E s \in Socks : fate[s] = "crash"
       THEN /\ dpc' = "crashed"
            /\ UNCHANGED <<stop, trigger, sockVars, queueVars, done, query>>
       ELSE /\ stop' = Shutdown
            /\ trigger' = FALSE
            /\ state' = [s \in Socks |->
                    IF s = accepted THEN "READWAIT" ELSE NewState(s, fate)]
            /\ place' = [s \in Socks |-> IF s = accepted THEN "wait" ELSE NewPlace(s, fate)]
            /\ hasConn' = [s \in Socks |->
                    \/ s = accepted \/ fate[s] = "keep"
                    \/ hasConn[s] /\ fate[s] /= "close"]
            /\ connq' = <<>> /\ todo' = Queued(new)
            /\ due' = [s \in Socks |-> IF fate[s] \in {"drop", "expire"} THEN fate[s]
                                                                         ELSE "queue"]
            /\ freeing' = done /\ done' = 0
            /\ query' = ("QUERY" \in flags)
            /\ dpc' = Phase(done, \E s \in Socks : fate[s] = "read", todo', query')
    /\ UNCHANGED <<theirs, flags, readVars, limits, closing, qpc, mpc>>

(* The counts of Limits are unsigned.                                      *)
More(n) == IF n = Word - 1 THEN 0 ELSE n + 1
Less(n) == IF n = 0 THEN Word - 1 ELSE n - 1

\* A Conn that is done has run under the limits.
FreeConn ==
    /\ dpc = "free"
    /\ nrunning' = Less(nrunning)
    /\ freeing' = freeing - 1
    /\ dpc' = Phase(freeing', With("toread") /= {}, todo, query)
    /\ UNCHANGED <<theirs, stop, flags, trigger, sockVars, connq, todo, due, readVars,
                   maxrun, maxwait, nwaiting, connVars, query, qpc, mpc>>

(* Sockets to read go to the readers; more are created if too few idle.    *)

TooFew(n, k) == n - k > idle + k

\* How many the loop creates for n sockets.
Created(n) ==
    CHOOSE k \in 0 .. Cardinality(Readers) - nreaders :
        /\ k = Cardinality(Readers) - nreaders \/ ~TooFew(n, k)
        /\ \A j \in 0 .. k - 1 : TooFew(n, j)

NewReaders(k) ==
    {R \in SUBSET {r \in Readers : rpc[r] = "none"} : Cardinality(R) = k}

HandOver ==
    /\ dpc = "hand"
    /\ LET n == Cardinality(With("toread"))
           k == Created(n)
       IN  /\ \E socks \in Orders(With("toread")) : readList' = socks \o readList
           /\ idle' = idle + k
           /\ \E R \in NewReaders(k) :
                LET created == [r \in Readers |-> IF r \in R THEN "awake" ELSE rpc[r]]
                IN  IF n > k THEN Signal(created)
                    ELSE rpc' = created /\ UNCHANGED qpc
    /\ place' = [s \in Socks |-> IF place[s] = "toread" THEN "read" ELSE place[s]]
    /\ dpc' = Phase(0, FALSE, todo, query)
    /\ UNCHANGED <<theirs, stop, flags, trigger, state, hasConn, queueVars, rsock, limits,
                   connVars, query, mpc>>

(* The Conns of the queue in order, each under the lock of the Limits.     *)

\* What becomes of a Conn, and the counts: waits, if it waited before.
\* Mutant: the place of a Conn that stops waiting is not given back.
FaultyRunNext(waits, poll) ==
    LET outcome ==
            IF waits /\ poll = "drop" THEN "DROPPED"
            ELSE IF nrunning < maxrun THEN "RUNNING"
            ELSE IF poll = "expire" THEN "TIMEOUT"
            ELSE IF nwaiting < maxwait THEN "RUNWAIT"
            ELSE "OVERFLOW"
    IN  [state    |-> outcome,
         nrunning |-> IF outcome = "RUNNING" THEN More(nrunning) ELSE nrunning,
         nwaiting |-> IF outcome = "RUNWAIT" THEN More(nwaiting) ELSE nwaiting]

RunNext(waits, poll) ==
    LET waiting == IF waits THEN Less(nwaiting) ELSE nwaiting
        outcome ==
            IF waits /\ poll = "drop" THEN "DROPPED"
            ELSE IF nrunning < maxrun THEN "RUNNING"
            ELSE IF poll = "expire" THEN "TIMEOUT"
            ELSE IF waiting < maxwait THEN "RUNWAIT"
            ELSE "OVERFLOW"
    IN  [state    |-> outcome,
         nrunning |-> IF outcome = "RUNNING" THEN More(nrunning) ELSE nrunning,
         nwaiting |-> IF outcome = "RUNWAIT" THEN More(waiting) ELSE waiting]

QueueConn ==
    /\ dpc = "queue"
    /\ LET s    == Head(todo)
           next == RunNext(state[s] = "RUNWAIT", due[s])
       IN  /\ nrunning' = next.nrunning /\ nwaiting' = next.nwaiting
           /\ state' = [state EXCEPT ![s] =
                            IF next.state = "DROPPED" THEN "CLOSED" ELSE next.state]
           /\ place' = [place EXCEPT ![s] = CASE next.state = "DROPPED" -> "free"
                                              [] next.state = "RUNWAIT" -> "wait"
                                              [] OTHER                  -> "conn"]
           /\ hasConn' = [hasConn EXCEPT ![s] = @ /\ next.state = "RUNWAIT"]
           /\ connq' = IF next.state = "RUNWAIT" THEN Append(connq, s) ELSE connq
           /\ due' = [due EXCEPT ![s] = "queue"]
    /\ todo' = Tail(todo)
    /\ dpc' = Phase(0, FALSE, todo', query)
    /\ UNCHANGED <<theirs, stop, flags, trigger, freeing, readVars, maxrun, maxwait,
                   connVars, query, qpc, mpc>>

\* Mutant: one thread is woken, any one.
FaultyAnswered == Signal(rpc)

Answered == Broadcast

Answer ==
    /\ dpc = "answer"
    /\ flags' = flags \ {"QUERY"}
    /\ query' = FALSE
    /\ Answered
    /\ dpc' = "poll"
    /\ UNCHANGED <<theirs, stop, trigger, sockVars, queueVars, readList, idle, rsock, limits,
                   connVars, mpc>>

\* All sockets are closed: the readers are joined.
Stopped ==
    /\ dpc = "poll" /\ stop /\ Active = {}
    /\ \A r \in Readers : rpc[r] \in {"none", "gone"}
    /\ dpc' = "exit"
    /\ flags' = flags \cup {"STOPPED"}
    /\ Broadcast
    /\ UNCHANGED <<theirs, stop, trigger, sockVars, queueVars, readList, idle, rsock, limits,
                   connVars, query, mpc>>

-----------------------------------------------------------------------------
(* Reader threads: the lock is taken with rpc "awake", and held from one   *)
(* socket to the next.                                                     *)

Busy(nowIdle) == nowIdle - 1

Rest == Tail(readList)

TakeSock(r, nowIdle) ==
    IF readList = <<>>
    THEN /\ rpc' = [rpc EXCEPT ![r] = IF Shutdown THEN "gone" ELSE "sleep"]
         /\ rsock' = [rsock EXCEPT ![r] = Nothing]
         /\ idle' = nowIdle
         /\ UNCHANGED <<readList, qpc>>
    ELSE LET busy == [rpc EXCEPT ![r] = "reading"]
         IN  /\ readList' = Rest
             /\ rsock' = [rsock EXCEPT ![r] = Head(readList)]
             /\ idle' = Busy(nowIdle)
             /\ IF Rest /= <<>> THEN Signal(busy)
                ELSE rpc' = busy /\ UNCHANGED qpc

ReaderThread(r) ==
    /\ rpc[r] = "awake"
    /\ TakeSock(r, idle)
    /\ place' = [s \in Socks |-> IF s = rsock'[r] THEN "reading" ELSE place[s]]
    /\ UNCHANGED <<theirs, dpc, stop, flags, trigger, state, hasConn, queueVars, limits,
                   connVars, query, mpc>>

\* SockRead until the request is read or failed; then the socket goes back.
ReaderDone(r, outcome) ==
    /\ rpc[r] = "reading"
    /\ state' = [state EXCEPT ![rsock[r]] = outcome]
    /\ TakeSock(r, idle + 1)
    /\ place' = [s \in Socks |-> IF s = rsock[r] THEN "run"
                                 ELSE IF s = rsock'[r] THEN "reading"
                                 ELSE place[s]]
    /\ trigger' = TRUE
    /\ UNCHANGED <<theirs, dpc, stop, flags, hasConn, queueVars, limits, connVars,
                   query, mpc>>

-----------------------------------------------------------------------------
(* Connection threads. *)

\* NsSockClose.  A socket that was not running is only marked: a timed out
\* or overflowed request has left SOCK_RUNNING, and no thread has it now.
NsSockClose(s, keep) ==
    /\ place[s] = "conn"
    /\ IF state[s] /= "RUNNING"
       THEN /\ state' = [state EXCEPT ![s] = "CLOSEREQ"]
            /\ place' = [place EXCEPT ![s] = "lost"]
            /\ UNCHANGED closing
       ELSE /\ state' = [state EXCEPT ![s] = IF keep THEN "READWAIT" ELSE "CLOSEWAIT"]
            /\ place' = [place EXCEPT ![s] = "close"]
            /\ closing' = closing + 1
    /\ trigger' = TRUE     \* here or, of a lost socket, by NsFreeConn
    /\ UNCHANGED <<theirs, dpc, stop, flags, hasConn, queueVars, readVars, limits, done,
                   query, qpc, mpc>>

NsFreeConn ==
    /\ closing > 0
    /\ closing' = closing - 1 /\ done' = done + 1
    /\ trigger' = TRUE
    /\ UNCHANGED <<theirs, dpc, stop, flags, sockVars, queueVars, readVars, limits, query,
                   qpc, mpc>>

(* ns_driver query, by any thread. *)

AskQuery(q) ==
    IF "QUERY" \in flags
    THEN /\ qpc' = [qpc EXCEPT ![q] = "turnSleep"]
         /\ UNCHANGED <<flags, trigger>>
    ELSE /\ flags' = flags \cup {"QUERY"}
         /\ qpc' = [qpc EXCEPT ![q] = "sleep"]
         /\ trigger' = TRUE

Query(q) ==
    /\ qpc[q] \in {"idle", "turn"}
    /\ "STARTED" \in flags
    /\ AskQuery(q)
    /\ UNCHANGED <<theirs, dpc, stop, sockVars, queueVars, readVars, limits, connVars,
                   query, mpc>>

QueryWake(q) ==
    /\ qpc[q] = "awake"
    /\ qpc' = [qpc EXCEPT ![q] = IF "QUERY" \in flags THEN "sleep" ELSE "idle"]
    /\ UNCHANGED <<theirs, dpc, stop, flags, trigger, sockVars, queueVars, readVars, limits,
                   connVars, query, mpc>>

-----------------------------------------------------------------------------
(* The Limits, elsewhere.  ns_limits set works without the lock: it copies *)
(* them, sets one option after the other, and writes the copy back, counts *)
(* and all, when it comes to an option it does not know.                   *)

Elsewhere ==
    UNCHANGED <<async, around, dpc, stop, flags, trigger, sockVars, queueVars, readVars,
                connVars, query, qpc, mpc>>

Saves(c) ==
    /\ spc[c] = "before"
    /\ spc' = [spc EXCEPT ![c] = "sets"]
    /\ saved' = [saved EXCEPT ![c] = limits]
    /\ UNCHANGED <<limits, undone>>

Sets(c, limit) ==
    /\ spc[c] = "sets"
    /\ \/ maxrun' = limit[1] /\ UNCHANGED maxwait
       \/ maxwait' = limit[2] /\ UNCHANGED maxrun
    /\ UNCHANGED <<nrunning, nwaiting, spc, saved, undone>>

Ends(c) ==
    /\ spc[c] = "sets"
    /\ spc' = [spc EXCEPT ![c] = "gone"]
    /\ saved' = [saved EXCEPT ![c] = <<>>]
    /\ UNCHANGED <<limits, undone>>

Fails(c) ==
    /\ spc[c] = "sets"
    /\ spc' = [spc EXCEPT ![c] = "gone"]
    /\ saved' = [saved EXCEPT ![c] = <<>>]
    /\ maxrun' = saved[c][1] /\ maxwait' = saved[c][2]
    /\ nrunning' = saved[c][3] /\ nwaiting' = saved[c][4]
    /\ undone' = [running |-> undone.running + (saved[c][3] - nrunning),
                  waiting |-> undone.waiting + (saved[c][4] - nwaiting)]

SetLimits(c) ==
    /\ Saves(c) \/ (\E limit \in Limit : Sets(c, limit)) \/ Ends(c) \/ Fails(c)
    /\ UNCHANGED other
    /\ Elsewhere

\* QueueConn, and FreeConn, of another driver's thread.
OtherQueued(o, poll) ==
    /\ other[o] \in {"none", "RUNWAIT"}
    /\ LET next == RunNext(other[o] = "RUNWAIT", poll)
       IN  /\ nrunning' = next.nrunning /\ nwaiting' = next.nwaiting
           /\ other' = [other EXCEPT ![o] =
                    IF next.state \in {"RUNNING", "RUNWAIT"} THEN next.state ELSE "none"]
    /\ UNCHANGED <<maxrun, maxwait, spc, saved, undone>>
    /\ Elsewhere

OtherFreed(o) ==
    /\ other[o] = "RUNNING"
    /\ nrunning' = Less(nrunning)
    /\ other' = [other EXCEPT ![o] = "none"]
    /\ UNCHANGED <<maxrun, maxwait, nwaiting, spc, saved, undone>>
    /\ Elsewhere

-----------------------------------------------------------------------------
(* The main thread. *)

MainTo(p) ==
    /\ mpc' = p
    /\ UNCHANGED <<theirs, dpc, stop, sockVars, queueVars, readList, idle, rsock, limits,
                   connVars, query>>

NsStartDrivers ==
    /\ mpc = "starting" /\ "STARTED" \in flags
    /\ MainTo("up")
    /\ UNCHANGED <<flags, trigger, rpc, qpc>>

\* Mutant: the driver is not told.
FaultyNsStopDrivers ==
    /\ mpc = "up"
    /\ flags' = flags \cup {"SHUTDOWN"}
    /\ Broadcast
    /\ UNCHANGED trigger
    /\ MainTo("stopping")

NsStopDrivers ==
    /\ mpc = "up"
    /\ flags' = flags \cup {"SHUTDOWN"}
    /\ Broadcast
    /\ trigger' = TRUE
    /\ MainTo("stopping")

\* Ends with the driver joined or, by Ns_CondTimedWait, without.
NsWaitDriversShutdown ==
    /\ mpc = "stopping"
    /\ MainTo("down")
    /\ UNCHANGED <<flags, trigger, rpc, qpc>>

-----------------------------------------------------------------------------
AnySpin(fates) ==
    \E fate \in fates, accepted \in (Socks \cap around) \cup {Nothing} :
        \E new \in Orders(Coming(fate)) : Spin(fate, new, accepted)

AllFates ==
    {fate \in [Socks -> UNION {Fates(s, Shutdown) : s \in Socks}] :
        \A s \in Socks : fate[s] \in Fates(s, Shutdown)}

RestOfSpin == FreeConn \/ HandOver \/ QueueConn \/ Answer \/ Stopped

DriverThread == AnySpin(AllFates) \/ RestOfSpin

Reader(r) == ReaderThread(r) \/ \E o \in {"PREQUE", "ERROR"} : ReaderDone(r, o)

Worker(s) == \E keep \in BOOLEAN : NsSockClose(s, keep)

Next ==
    \/ \E ok \in BOOLEAN : Listen(ok)
    \/ DriverThread
    \/ \E r \in Readers : Reader(r)
    \/ \E s \in Socks : Worker(s)
    \/ NsFreeConn
    \/ \E q \in Queriers \cap around : Query(q) \/ QueryWake(q)
    \/ \E o \in Others \cap around :
            OtherFreed(o) \/ \E poll \in ToQueue \cup {"drop"} : OtherQueued(o, poll)
    \/ \E c \in Setters \cap around : SetLimits(c)
    \/ NsStartDrivers \/ NsStopDrivers \/ NsWaitDriversShutdown

Spec == Init /\ [][Next]_vars

\* The driver thread spins when triggered, and poll reports in the end
\* something for each socket that waits: its timeout if nothing else.  These
\* are WF of a triggered spin and SF of a spin that moves s, whose ENABLED
\* are Spins /\ trigger and Spins /\ place[s] = "wait".
Spins == dpc = "poll" /\ (stop => Active /= {})
Moves(s) ==
    /\ dpc = "poll"
    /\ IF state[s] = "RUNWAIT" THEN due'[s] /= "queue"
       ELSE place'[s] /= "wait" \/ state'[s] /= state[s]

\* The driver thread and the readers run, and requests end.  No client need
\* come and nobody need ask, change the limits or stop the driver, nor do
\* other drivers end what they run; the main thread need not even run.
Fairness ==
    /\ WF_vars(RestOfSpin)
    /\ []<>~(Spins /\ trigger)
    /\ \A s \in Socks :
        /\ []<>(Spins /\ place[s] = "wait") => []<><<place[s] = "wait" /\ Moves(s)>>_vars
        /\ WF_vars(Worker(s))
    /\ \A r \in Readers : WF_vars(Reader(r))

FairSpec == Spec /\ Fairness

-----------------------------------------------------------------------------
(* Properties. *)

States == {"CLOSED", "READWAIT", "PREQUE", "QUEWAIT", "RUNWAIT", "RUNNING",
           "CLOSEWAIT", "CLOSEREQ", "TIMEOUT", "OVERFLOW", "ERROR"}
Places == {"free", "wait", "queue", "toread", "read", "reading", "run", "conn", "close", "lost"}

\* The variables have their types; the lists hold what place says, once.
TypeOK ==
    /\ async \in BOOLEAN /\ stop \in BOOLEAN /\ trigger \in BOOLEAN /\ query \in BOOLEAN
    /\ dpc \in {"listen", "poll", "free", "hand", "queue", "answer", "exit", "crashed"}
    /\ flags \subseteq {"STARTED", "FAILED", "SHUTDOWN", "QUERY", "STOPPED"}
    /\ state \in [Socks -> States] /\ place \in [Socks -> Places]
    /\ hasConn \in [Socks -> BOOLEAN]
    /\ IsInjective(readList) /\ Range(readList) = With("read")
    /\ IsInjective(connq) /\ Range(connq) = {s \in With("wait") : state[s] = "RUNWAIT"}
    /\ IsInjective(todo) /\ Range(todo) = With("queue")
    /\ due \in [Socks -> ToQueue \cup {"drop"}]
    /\ rpc \in [Readers -> {"none", "awake", "sleep", "reading", "gone"}]
    /\ rsock \in [Readers -> Socks \cup {Nothing}]
    /\ qpc \in [Queriers -> {"idle", "sleep", "awake", "turnSleep", "turn"}]
    /\ mpc \in {"starting", "up", "stopping", "down"}
    /\ {maxrun, maxwait, nrunning, nwaiting} \subseteq 0 .. Word - 1
    /\ other \in [Others -> {"none", "RUNWAIT", "RUNNING"}]
    /\ spc \in [Setters -> {"before", "sets", "gone"}]
    /\ undone \in [running : Int, waiting : Int]
    /\ {closing, done, freeing, idle} \subseteq Nat

\* The limits count what their names say: the limited Conns that drivers have
\* handed to connection threads and not yet had back, and those that wait in
\* their queues (nrunning, nwaiting of Limits), as far as an ns_limits set
\* that failed has not written old counts back.  Every path by which a Conn
\* leaves a queue or a thread must account for it.
Agrees(n, count) == (count - n) % Word = 0
Elsewheres(p) == Cardinality({o \in Others : other[o] = p})
LimitsAgree ==
    /\ Agrees(nrunning, Cardinality({s \in With("conn") : state[s] = "RUNNING"})
                            + closing + done + freeing + Elsewheres("RUNNING") + undone.running)
    /\ Agrees(nwaiting, Cardinality({s \in Socks : state[s] = "RUNWAIT"})
                            + Elsewheres("RUNWAIT") + undone.waiting)

\* Until the shutdown idlereaders is the number of readers without a socket,
\* by which DriverThread decides whether to create one.
ReadersAgree ==
    ~Shutdown => idle = Cardinality({r \in Readers : rpc[r] \in {"awake", "sleep"}})

\* Until the shutdown every socket whose input the driver polls for has the
\* Conn into which DriverThread reads (connPtr->ibuf, without a test).
ReadHasConn ==
    ~stop => \A s \in With("wait") : state[s] = "READWAIT" => hasConn[s]

\* The queue keeps its order: those that wait on stay behind those that came
\* before them.
Ahead(q, s, t) == \E i, j \in DOMAIN q : i < j /\ q[i] = s /\ q[j] = t
OrderKept ==
    [][\A s, t \in Socks :
        Ahead(connq \o todo, s, t) /\ {s, t} \subseteq Range((connq \o todo)')
            => Ahead((connq \o todo)', s, t)]_vars

\* A driver that has its Limits for itself, and unchanged, runs no Conn past
\* one that has waited longer and goes on waiting.
Overtakes(t, s) ==
    /\ state[t] /= "RUNNING" /\ state'[t] = "RUNNING"
    /\ state[s] = "RUNWAIT" /\ state'[s] = "RUNWAIT"
    /\ state[t] = "RUNWAIT" => Ahead(connq \o todo, s, t)
NoOvertaking ==
    [][around \cap (Others \cup Setters) = {}
        => \A s, t \in Socks : ~Overtakes(t, s)]_vars

\* Room for a Conn that has been left waiting is made only by those that do
\* not tell the driver: a request of another driver that ends, ns_limits set.
Room == connq /= <<>> /\ nrunning < maxrun
RoomFromElsewhere ==
    [][Room' /\ ~Room => other' /= other \/ maxrun' /= maxrun \/ spc' /= spc]_vars

\* No socket is forgotten on the list of the readers: a reader is awake or
\* busy and will look there, or a query is pending.  A signal meant for a
\* reader may wake a querier, but queriers sleep only while the flag is set,
\* and the broadcast that follows the answer wakes the readers too.
ReadersWoken ==
    readList /= <<>> /\ ~Shutdown =>
        "QUERY" \in flags \/ \E r \in Readers : rpc[r] \in {"awake", "reading"}

\* No thread waits for the answer of ns_driver query, or for its turn to ask,
\* when there is no query, unless the driver is stopping.
QueriersWoken ==
    "QUERY" \in flags \/ \A q \in Queriers : ~Sleeps(qpc[q])

\* The driver does not poll while there is something for it: sockets and
\* Conns that have come back, a query, the shutdown.
DriverWoken ==
    trigger \/ /\ done = 0 /\ With("run") \cup With("close") = {}
               /\ "QUERY" \in flags => query
               /\ Shutdown => stop

\* Whoever sleeps in poll, or on the condition shared by the readers and
\* those that ask, is woken when there is something for them.
NobodyForgotten == ReadersWoken /\ QueriersWoken /\ DriverWoken

\* The driver's books agree: what is counted in the limits, which other
\* drivers share and ns_limits set may undo, and in idlereaders is what there
\* is, and each socket is where its state says, with the Conn that state
\* relies on.
BooksAgree == TypeOK /\ LimitsAgree /\ ReadersAgree /\ ReadHasConn

\* The queue of Conns moves in order, and no Conn that waits is left room by
\* its own driver.
QueueMoves == OrderKept /\ NoOvertaking /\ RoomFromElsewhere

\* A driver told to stop does, unless a socket was lost by NsSockClose, left
\* for readers that are gone, or read without a Conn (see the README).
StopEndsUnless ==
    Shutdown ~> \/ "STOPPED" \in flags
                \/ With("lost") /= {} \/ readList /= <<>> \/ dpc = "crashed"

\* NsStopDrivers (driver.c): "Driver threads will close listen sockets and
\* exit after all outstanding connections are complete and closed."
ShutdownEnds == Shutdown ~> ("STOPPED" \in flags)
=============================================================================
