--------------------------- MODULE Driver_proofs ---------------------------
(***************************************************************************)
(* Proofs about a driver, for any number of sockets, readers, threads that *)
(* ask, requests of other drivers and uses of ns_limits set: the books of  *)
(* the driver agree, nobody is forgotten in poll or on the condition they  *)
(* share, and the queue of Conns moves in order.                           *)
(***************************************************************************)
EXTENDS Driver, Lemmas

-----------------------------------------------------------------------------
(* The inductive invariant.                                                *)

(* The states of a socket at each place.                                   *)
StatesAt(p) ==
    CASE p = "free"                         -> {"CLOSED"}
      [] p = "wait"                         -> {"CLOSEWAIT", "QUEWAIT", "RUNWAIT", "READWAIT"}
      [] p \in {"toread", "read", "reading"} -> {"READWAIT"}
      [] p = "run"                          -> {"PREQUE", "ERROR"}
      [] p = "queue"                        -> {"PREQUE", "QUEWAIT", "RUNWAIT"}
      [] p = "conn"                         -> {"RUNNING", "TIMEOUT", "OVERFLOW"}
      [] p = "close"                        -> {"READWAIT", "CLOSEWAIT"}
      [] p = "lost"                         -> {"CLOSEREQ"}

Scalars ==
    /\ async \in BOOLEAN /\ stop \in BOOLEAN /\ trigger \in BOOLEAN /\ query \in BOOLEAN
    /\ dpc \in {"listen", "poll", "free", "hand", "queue", "answer", "exit", "crashed"}
    /\ flags \subseteq {"STARTED", "FAILED", "SHUTDOWN", "QUERY", "STOPPED"}
    /\ mpc \in {"starting", "up", "stopping", "down"}
    /\ mpc = "stopping" => Shutdown
    /\ stop => Shutdown
    /\ dpc = "listen" => ~stop

(* A socket is where its state says, and one that is read for by the       *)
(* driver has its Conn.                                                    *)
Sockets ==
    /\ state \in [Socks -> States] /\ place \in [Socks -> Places]
    /\ hasConn \in [Socks -> BOOLEAN]
    /\ \A s \in Socks : state[s] \in StatesAt(place[s])
    /\ ReadHasConn

(* The counts of the Limits, modulo Word: the sockets in two states, the    *)
(* Conns that are done, the requests of other drivers, and what ns_limits  *)
(* set has undone.  What it has saved are limits.                          *)
Words == 0 .. Word - 1
Saved == [1 .. 4 -> Words]

RunningNow ==
    Count(state, Socks, {"RUNNING"}) + Count(other, Others, {"RUNNING"})
        + (closing + done + freeing) + undone.running
WaitingNow ==
    Count(state, Socks, {"RUNWAIT"}) + Count(other, Others, {"RUNWAIT"}) + undone.waiting

Counted ==
    /\ maxrun \in Words /\ maxwait \in Words /\ nrunning \in Words /\ nwaiting \in Words
    /\ closing \in Nat /\ done \in Nat /\ freeing \in Nat
    /\ other \in [Others -> {"none", "RUNWAIT", "RUNNING"}]
    /\ spc \in [Setters -> {"before", "sets", "gone"}]
    /\ saved \in [Setters -> {<<>>} \cup Saved]
    /\ \A c \in Setters : spc[c] = "sets" => saved[c] \in Saved
    /\ undone \in [running : Int, waiting : Int]
    /\ Agrees(nrunning, RunningNow)
    /\ Agrees(nwaiting, WaitingNow)

(* The queue: those left waiting, and those that this spin still has to    *)
(* queue, of which those that wait come first.                             *)
Queue ==
    /\ connq \in Seq(Socks) /\ IsInjective(connq)
    /\ Range(connq) = {s \in With("wait") : state[s] = "RUNWAIT"}
    /\ todo \in Seq(Socks) /\ IsInjective(todo) /\ Range(todo) = With("queue")
    /\ \A i, j \in DOMAIN todo : i < j /\ state[todo[j]] = "RUNWAIT" => state[todo[i]] = "RUNWAIT"
    /\ due \in [Socks -> ToQueue \cup {"drop"}]

(* What there is to do tells where the spin is.                            *)
Phases ==
    /\ dpc = "free" <=> freeing > 0
    /\ dpc \in {"free", "hand"} => connq = <<>>
    /\ dpc = "queue" => todo # <<>>
    /\ todo # <<>> => dpc \in {"free", "hand", "queue"}

(* A driver that has its Limits for itself leaves nobody waiting for room. *)
Alone == around \cap (Others \cup Setters) = {} => ~Room

ReadList ==
    /\ readList \in Seq(Socks) /\ IsInjective(readList)
    /\ Range(readList) = With("read")
    /\ dpc = "hand" => With("toread") # {}

(* Each reader that reads has a socket of its own.  One that is gone is    *)
(* still counted in idlereaders.                                           *)
ReaderSocks ==
    /\ rpc \in [Readers -> {"none", "awake", "sleep", "reading", "gone"}]
    /\ rsock \in [Readers -> Socks \cup {Nothing}]
    /\ \A r \in Readers : rpc[r] = "reading" => rsock[r] \in With("reading")
    /\ \A q, r \in Readers :
          rpc[q] = "reading" /\ rpc[r] = "reading" /\ rsock[q] = rsock[r] => q = r

IdleCounted ==
    /\ idle = Count(rpc, Readers, {"awake", "sleep", "gone"})
    /\ (\E r \in Readers : rpc[r] = "gone") => Shutdown

Sleepers ==
    /\ qpc \in [Queriers -> {"idle", "sleep", "awake", "turnSleep", "turn"}]
    /\ readList # <<>> => \E r \in Readers : rpc[r] # "none"
    /\ ReadersWoken
    /\ QueriersWoken

DriverInv ==
    /\ Scalars /\ Sockets /\ Counted /\ Queue /\ Phases /\ Alone
    /\ ReadList /\ ReaderSocks /\ IdleCounted /\ Sleepers /\ DriverWoken

-----------------------------------------------------------------------------
(* The condition of the driver: whom a signal or a broadcast wakes.        *)

ReaderPlaces == {"none", "awake", "sleep", "reading", "gone"}
QuerierPlaces == {"idle", "sleep", "awake", "turnSleep", "turn"}

(* Some of the readers at now, and of those that ask, may have been roused. *)
Woken(now) ==
    /\ rpc' \in [Readers -> ReaderPlaces] /\ qpc' \in [Queriers -> QuerierPlaces]
    /\ \A r \in Readers : rpc'[r] \in {now[r], Roused(now[r])}
    /\ \A q \in Queriers : qpc'[q] \in {qpc[q], Roused(qpc[q])}

LEMMA SignalWakes ==
    ASSUME NEW now \in [Readers -> ReaderPlaces], qpc \in [Queriers -> QuerierPlaces], Signal(now)
    PROVE  Woken(now)
<1>1. CASE rpc' = now /\ UNCHANGED qpc
  BY <1>1 DEF Woken
<1>2. CASE \E r \in Readers : rpc' = [now EXCEPT ![r] = Roused(@)] /\ UNCHANGED qpc
  BY <1>2 DEF Woken, Roused, ReaderPlaces
<1>3. CASE \E q \in Queriers : qpc' = [qpc EXCEPT ![q] = Roused(@)] /\ rpc' = now
  BY <1>3 DEF Woken, Roused, QuerierPlaces
<1> QED  BY <1>1, <1>2, <1>3 DEF Signal

LEMMA BroadcastWakes ==
    ASSUME rpc \in [Readers -> ReaderPlaces], qpc \in [Queriers -> QuerierPlaces], Broadcast
    PROVE  /\ Woken(rpc)
           /\ \A r \in Readers : ~Sleeps(rpc'[r])
           /\ \A q \in Queriers : ~Sleeps(qpc'[q])
BY DEF Broadcast, Woken, Roused, Sleeps, ReaderPlaces, QuerierPlaces

(* Those that are roused are where they were for idlereaders, and none of  *)
(* those that ask falls asleep.                                            *)
LEMMA WokenAre ==
    ASSUME NEW now \in [Readers -> ReaderPlaces], Woken(now)
    PROVE  /\ Count(rpc', Readers, {"awake", "sleep", "gone"})
                = Count(now, Readers, {"awake", "sleep", "gone"})
           /\ \A r \in Readers : \A p \in {"none", "reading", "gone"} :
                rpc'[r] = p <=> now[r] = p
           /\ \A r \in Readers : now[r] = "awake" => rpc'[r] = "awake"
           /\ \A q \in Queriers : Sleeps(qpc'[q]) => Sleeps(qpc[q])
<1>1. \A r \in Readers : rpc'[r] \in {"awake", "sleep", "gone"} <=> now[r] \in {"awake", "sleep", "gone"}
  BY DEF Woken, Roused, ReaderPlaces
<1>2. \A r \in Readers : \A p \in {"none", "reading", "gone"} : rpc'[r] = p <=> now[r] = p
  BY DEF Woken, Roused, ReaderPlaces
<1>3. \A q \in Queriers : Sleeps(qpc'[q]) => Sleeps(qpc[q])
  BY DEF Woken, Roused, Sleeps, QuerierPlaces
<1>4. Count(rpc', Readers, {"awake", "sleep", "gone"})
        = Count(now, Readers, {"awake", "sleep", "gone"})
  BY <1>1, CountSame
<1>5. \A r \in Readers : now[r] = "awake" => rpc'[r] = "awake"
  BY DEF Woken, Roused
<1> QED  BY <1>2, <1>3, <1>4, <1>5

(* Waking and nothing else, but for a flag that is set, keeps what is said *)
(* of the readers and of those that ask.                                   *)
LEMMA WakingKeeps ==
    ASSUME ReaderSocks, IdleCounted, Sleepers, Woken(rpc), flags \subseteq flags',
           UNCHANGED <<rsock, place, idle, readList>>
    PROVE  ReaderSocks' /\ IdleCounted' /\ Sleepers'
<1>1. rpc \in [Readers -> ReaderPlaces]
  BY DEF ReaderSocks, ReaderPlaces
<1>2. /\ Count(rpc', Readers, {"awake", "sleep", "gone"})
           = Count(rpc, Readers, {"awake", "sleep", "gone"})
      /\ \A r \in Readers : \A p \in {"none", "reading", "gone"} : rpc'[r] = p <=> rpc[r] = p
      /\ \A r \in Readers : rpc[r] = "awake" => rpc'[r] = "awake"
      /\ \A q \in Queriers : Sleeps(qpc'[q]) => Sleeps(qpc[q])
  BY <1>1, WokenAre
<1>3. ReaderSocks'
  BY <1>2 DEF ReaderSocks, Woken, ReaderPlaces, With
<1>4. IdleCounted'
  BY <1>2 DEF IdleCounted, Shutdown
<1>5. Sleepers'
  BY <1>2 DEF Sleepers, Woken, QuerierPlaces, ReadersWoken, QueriersWoken, Shutdown
<1> QED  BY <1>3, <1>4, <1>5

-----------------------------------------------------------------------------
(* The invariant, action by action.                                        *)

(* What DriverInv says of the variables that an action leaves alone.       *)
LEMMA SocketsKept ==
    ASSUME Sockets, UNCHANGED <<state, place, hasConn>>, stop => stop' PROVE Sockets'
BY DEF Sockets, ReadHasConn, With

LEMMA LimitsKept ==
    ASSUME Counted, UNCHANGED <<theirs, state, freeing, limits, connVars>> PROVE Counted'
BY DEF Counted, RunningNow, WaitingNow, theirs, limits, connVars

LEMMA QueueKept ==
    ASSUME Queue, UNCHANGED <<state, place, connq, todo, due>> PROVE Queue'
BY DEF Queue, With

LEMMA PhasesKept ==
    ASSUME Phases, UNCHANGED <<connq, todo, freeing>>,
           \/ UNCHANGED dpc
           \/ {dpc, dpc'} \cap {"free", "hand", "queue"} = {}
    PROVE  Phases'
BY DEF Phases

LEMMA AloneKept ==
    ASSUME Alone, UNCHANGED <<around, connq, nrunning, maxrun>> PROVE Alone'
BY DEF Alone, Room

LEMMA BooksKept ==
    ASSUME DriverInv, UNCHANGED <<theirs, sockVars, queueVars, limits, connVars>>, stop => stop',
           \/ UNCHANGED dpc
           \/ {dpc, dpc'} \cap {"free", "hand", "queue"} = {}
    PROVE  Sockets' /\ Counted' /\ Queue' /\ Phases' /\ Alone'
<1>1. /\ UNCHANGED <<state, place, hasConn, connq, todo, due, freeing>>
      /\ UNCHANGED <<around, nrunning, maxrun>>
  BY DEF sockVars, queueVars, theirs, limits
<1> QED  BY <1>1, SocketsKept, LimitsKept, QueueKept, PhasesKept, AloneKept DEF DriverInv

(* The driver is told of what comes for it.                                *)
LEMMA ToldKept ==
    ASSUME DriverWoken, UNCHANGED <<place, done, query, stop, trigger>>,
           flags' \cap {"QUERY", "SHUTDOWN"} \subseteq flags
    PROVE  DriverWoken'
<1>1. With("run")' = With("run") /\ With("close")' = With("close")
  BY DEF With
<1>2. ("QUERY" \in flags' => "QUERY" \in flags) /\ (Shutdown' => Shutdown)
  BY DEF Shutdown
<1>3. (trigger' <=> trigger) /\ done' = done /\ (query' <=> query) /\ (stop' <=> stop)
  OBVIOUS
<1> QED  BY <1>1, <1>2, <1>3 DEF DriverWoken

LEMMA ReadListKept ==
    ASSUME ReadList, UNCHANGED <<place, readList>>, dpc' = "hand" => dpc = "hand" PROVE ReadList'
BY DEF ReadList, With

LEMMA ReadersKept ==
    ASSUME ReaderSocks, UNCHANGED <<rpc, rsock, place>> PROVE ReaderSocks'
BY DEF ReaderSocks, With

LEMMA ListenKeeps == ASSUME DriverInv, NEW ok \in BOOLEAN, Listen(ok) PROVE DriverInv'
<1>1. Scalars'
  BY DEF DriverInv, Scalars, Listen, Shutdown, theirs
<1>2. Sockets' /\ Counted' /\ Queue' /\ Phases' /\ Alone'
  BY BooksKept DEF DriverInv, Scalars, Listen
<1>3. DriverWoken'
  BY DEF DriverInv, Scalars, DriverWoken, With, Shutdown, Listen, sockVars, connVars
<1>4. ReadList'
  BY ReadListKept DEF DriverInv, Listen, sockVars
<1>5. Woken(rpc)
  BY BroadcastWakes DEF DriverInv, Listen, ReaderSocks, Sleepers, ReaderPlaces, QuerierPlaces
<1>6. ReaderSocks' /\ IdleCounted' /\ Sleepers'
  BY <1>5, WakingKeeps DEF DriverInv, Listen, sockVars
<1> QED  BY <1>1, <1>2, <1>3, <1>4, <1>6 DEF DriverInv

LEMMA AnswerKeeps == ASSUME DriverInv, Answer PROVE DriverInv'
<1>1. Scalars'
  BY DEF DriverInv, Scalars, Answer, Shutdown, theirs
<1>2. Sockets' /\ Counted' /\ Queue' /\ Phases' /\ Alone' /\ ReadList' /\ DriverWoken'
  <2>1. Sockets' /\ Counted' /\ Queue' /\ Phases' /\ Alone'
    BY BooksKept DEF Answer
  <2>2. ReadList'
    BY ReadListKept DEF DriverInv, Answer, sockVars
  <2>3. DriverWoken'
    <3>1. UNCHANGED <<place, done, stop, trigger>> /\ flags' = flags \ {"QUERY"} /\ ~query'
      BY DEF Answer, sockVars, connVars
    <3>2. With("run")' = With("run") /\ With("close")' = With("close") /\ (Shutdown' => Shutdown)
      BY <3>1 DEF With, Shutdown
    <3>3. /\ "QUERY" \notin flags' /\ done' = done /\ (stop' <=> stop)
          /\ (trigger' <=> trigger)
      BY <3>1
    <3>4. DriverWoken
      BY DEF DriverInv
    <3> QED  BY <3>2, <3>3, <3>4 DEF DriverWoken
  <2> QED  BY <2>1, <2>2, <2>3
<1>3. rpc \in [Readers -> ReaderPlaces] /\ qpc \in [Queriers -> QuerierPlaces]
  BY DEF DriverInv, ReaderSocks, Sleepers, ReaderPlaces, QuerierPlaces
<1>4. /\ Woken(rpc)
      /\ \A r \in Readers : ~Sleeps(rpc'[r])
      /\ \A q \in Queriers : ~Sleeps(qpc'[q])
  BY <1>3, BroadcastWakes DEF Answer, Answered
<1>5. /\ Count(rpc', Readers, {"awake", "sleep", "gone"})
           = Count(rpc, Readers, {"awake", "sleep", "gone"})
      /\ \A r \in Readers : \A p \in {"none", "reading", "gone"} : rpc'[r] = p <=> rpc[r] = p
  BY <1>3, <1>4, WokenAre
<1>6. ReaderSocks'
  BY <1>4, <1>5 DEF DriverInv, ReaderSocks, Woken, ReaderPlaces, With, Answer, sockVars
<1>7. IdleCounted'
  BY <1>5 DEF DriverInv, IdleCounted, Shutdown, Answer
<1>8. Sleepers'
  <2>1. qpc' \in [Queriers -> QuerierPlaces] /\ QueriersWoken'
    BY <1>4 DEF Woken, QueriersWoken
  <2>2. readList' # <<>> => \E r \in Readers : rpc'[r] # "none"
    BY <1>5 DEF DriverInv, Sleepers, Answer
  <2>3. ReadersWoken'
    <3>1. ASSUME readList' # <<>>, ~Shutdown' PROVE \E r \in Readers : rpc'[r] \in {"awake", "reading"}
      <4>1. PICK r \in Readers : rpc'[r] # "none"
        BY <2>2, <3>1
      <4>2. rpc'[r] # "gone"
        BY <1>7, <3>1 DEF IdleCounted
      <4>3. rpc'[r] \in ReaderPlaces /\ rpc'[r] # "sleep"
        BY <1>4 DEF Woken, Sleeps, Roused
      <4> QED  BY <4>1, <4>2, <4>3 DEF ReaderPlaces
    <3> QED  BY <3>1 DEF ReadersWoken
  <2> QED  BY <2>1, <2>2, <2>3 DEF Sleepers, QuerierPlaces
<1> QED  BY <1>1, <1>2, <1>6, <1>7, <1>8 DEF DriverInv

LEMMA StoppedKeeps == ASSUME DriverInv, Stopped PROVE DriverInv'
<1>1. Scalars'
  BY DEF DriverInv, Scalars, Stopped, Shutdown, theirs
<1>2. Sockets' /\ Counted' /\ Queue' /\ Phases' /\ Alone' /\ ReadList' /\ DriverWoken'
  <2>1. Sockets' /\ Counted' /\ Queue' /\ Phases' /\ Alone'
    BY BooksKept DEF Stopped
  <2>2. ReadList'
    BY ReadListKept DEF DriverInv, Stopped, sockVars
  <2>3. DriverWoken'
    BY ToldKept DEF DriverInv, Stopped, sockVars, connVars
  <2> QED  BY <2>1, <2>2, <2>3
<1>3. Woken(rpc)
  BY BroadcastWakes DEF DriverInv, Stopped, ReaderSocks, Sleepers, ReaderPlaces, QuerierPlaces
<1>4. ReaderSocks' /\ IdleCounted' /\ Sleepers'
  BY <1>3, WakingKeeps DEF DriverInv, Stopped, sockVars
<1> QED  BY <1>1, <1>2, <1>4 DEF DriverInv

LEMMA MainKeeps ==
    ASSUME DriverInv, NsStartDrivers \/ NsStopDrivers \/ NsWaitDriversShutdown PROVE DriverInv'
<1>1. Scalars'
  <2>1. CASE NsStopDrivers
    BY <2>1 DEF DriverInv, Scalars, NsStopDrivers, MainTo, Shutdown, theirs
  <2>2. CASE NsStartDrivers \/ NsWaitDriversShutdown
    <3>1. UNCHANGED <<async, stop, trigger, query, dpc, flags>> /\ mpc' \in {"up", "down"}
      BY <2>2 DEF NsStartDrivers, NsWaitDriversShutdown, MainTo, theirs
    <3> QED  BY <3>1 DEF DriverInv, Scalars, Shutdown
  <2> QED  BY <2>1, <2>2
<1>2. Sockets' /\ Counted' /\ Queue' /\ Phases' /\ Alone' /\ ReadList' /\ DriverWoken'
  <2>1. UNCHANGED <<theirs, dpc, stop, sockVars, queueVars, readList, limits, connVars, query>>
    BY DEF NsStartDrivers, NsStopDrivers, NsWaitDriversShutdown, MainTo
  <2>2. Sockets' /\ Counted' /\ Queue' /\ Phases' /\ Alone'
    BY <2>1, BooksKept
  <2>3. ReadList'
    BY <2>1, ReadListKept DEF DriverInv, sockVars
  <2>4. trigger' \/ UNCHANGED <<flags, trigger>>
    BY DEF NsStartDrivers, NsStopDrivers, NsWaitDriversShutdown
  <2>5. DriverWoken'
    BY <2>1, <2>4, ToldKept DEF DriverInv, DriverWoken, sockVars, connVars
  <2> QED  BY <2>2, <2>3, <2>5
<1>3. Woken(rpc)
  <2>1. CASE NsStopDrivers
    BY <2>1, BroadcastWakes
       DEF DriverInv, NsStopDrivers, ReaderSocks, Sleepers, ReaderPlaces, QuerierPlaces
  <2>2. CASE UNCHANGED <<rpc, qpc>>
    BY <2>2 DEF DriverInv, Woken, ReaderSocks, Sleepers, ReaderPlaces, QuerierPlaces
  <2> QED  BY <2>1, <2>2 DEF NsStartDrivers, NsWaitDriversShutdown
<1>4. ReaderSocks' /\ IdleCounted' /\ Sleepers'
  BY <1>3, WakingKeeps
     DEF DriverInv, NsStartDrivers, NsStopDrivers, NsWaitDriversShutdown, MainTo, sockVars
<1> QED  BY <1>1, <1>2, <1>4 DEF DriverInv

LEMMA QueryKeeps ==
    ASSUME DriverInv, NEW q \in Queriers, Query(q) \/ QueryWake(q) PROVE DriverInv'
<1>1. Scalars'
  <2>1. /\ UNCHANGED <<async, dpc, stop, query, mpc>>
        /\ flags' \in {flags, flags \cup {"QUERY"}} /\ trigger' \in {trigger, TRUE}
    BY DEF Query, QueryWake, AskQuery, theirs
  <2> QED  BY <2>1 DEF DriverInv, Scalars, Shutdown
<1>2. /\ UNCHANGED <<theirs, dpc, stop, sockVars, queueVars, readVars, limits, connVars, query>>
      /\ trigger' \/ UNCHANGED <<flags, trigger>>
  BY DEF Query, QueryWake, AskQuery
<1>3. /\ Sockets' /\ Counted' /\ Queue' /\ Phases' /\ Alone' /\ ReadList' /\ ReaderSocks'
      /\ DriverWoken'
  <2>1. Sockets' /\ Counted' /\ Queue' /\ Phases' /\ Alone'
    BY <1>2, BooksKept
  <2>2. ReadList' /\ ReaderSocks'
    BY <1>2, ReadListKept, ReadersKept DEF DriverInv, sockVars, readVars
  <2>3. DriverWoken'
    BY <1>2, ToldKept DEF DriverInv, DriverWoken, sockVars, connVars
  <2> QED  BY <2>1, <2>2, <2>3
<1>4. flags' \in {flags, flags \cup {"QUERY"}}
  BY DEF Query, QueryWake, AskQuery
<1>5. IdleCounted'
  BY <1>2, <1>4 DEF DriverInv, IdleCounted, Shutdown, readVars
<1>6. QueriersWoken' /\ qpc' \in [Queriers -> QuerierPlaces]
  BY DEF DriverInv, Sleepers, QueriersWoken, Query, QueryWake, AskQuery, Sleeps, Roused, QuerierPlaces
<1>7. Sleepers'
  BY <1>2, <1>4, <1>6 DEF DriverInv, Sleepers, ReadersWoken, Shutdown, QuerierPlaces, readVars
<1> QED  BY <1>1, <1>3, <1>5, <1>7 DEF DriverInv

(* The arithmetic of the counts.                                           *)
LEMMA MultipleIs ==
    ASSUME NEW W \in Nat \ {0}, NEW x \in Int, x % W = 0 PROVE \E k \in Int : x = k * W
OBVIOUS

LEMMA IsMultiple == ASSUME NEW W \in Nat \ {0}, NEW k \in Int PROVE (k * W) % W = 0
OBVIOUS

LEMMA Around ==
    ASSUME NEW W \in Nat \ {0}, NEW x \in Int, x % W = 0
    PROVE  (x + W) % W = 0 /\ (x - W) % W = 0
<1>1. PICK k \in Int : x = k * W
  BY MultipleIs
<1>2. x + W = (k + 1) * W /\ x - W = (k - 1) * W /\ k + 1 \in Int /\ k - 1 \in Int
  BY <1>1
<1>3. ((k + 1) * W) % W = 0 /\ ((k - 1) * W) % W = 0
  BY <1>2, IsMultiple
<1> QED  BY <1>2, <1>3

LEMMA CountsOn ==
    ASSUME NEW n \in Words, NEW c \in Int, Agrees(n, c)
    PROVE  /\ More(n) \in Words /\ Less(n) \in Words
           /\ Agrees(More(n), c + 1) /\ Agrees(Less(n), c - 1)
<1>1. Word \in Nat \ {0} /\ n \in Int /\ c - n \in Int /\ (c - n) % Word = 0
  BY DriverAssumption DEF Words, Agrees
<1>2. (c - n + Word) % Word = 0 /\ (c - n - Word) % Word = 0
  BY <1>1, Around
<1>3. More(n) \in Words /\ Less(n) \in Words
  BY <1>1 DEF Words, More, Less
<1>4. /\ c + 1 - More(n) = c - n \/ c + 1 - More(n) = c - n + Word
      /\ c - 1 - Less(n) = c - n \/ c - 1 - Less(n) = c - n - Word
  BY <1>1 DEF More, Less
<1>5. (c + 1 - More(n)) % Word = 0 /\ (c - 1 - Less(n)) % Word = 0
  <2>1. (c + 1 - More(n)) % Word = 0
    BY <1>1, <1>2, <1>4
  <2>2. (c - 1 - Less(n)) % Word = 0
    BY <1>1, <1>2, <1>4
  <2> QED  BY <2>1, <2>2
<1>6. Agrees(More(n), c + 1) /\ Agrees(Less(n), c - 1)
  <2>1. More(n) \in Int /\ Less(n) \in Int
    BY <1>1, <1>3 DEF Words
  <2>2. \A m, d \in Int : (d - m) % Word = 0 => Agrees(m, d)
    BY DEF Agrees
  <2>3. c + 1 \in Int /\ c - 1 \in Int
    OBVIOUS
  <2> QED  BY <1>5, <2>1, <2>2, <2>3
<1> QED  BY <1>3, <1>6

LEMMA CountsAre ==
    ASSUME Counted
    PROVE  /\ Count(state, Socks, {"RUNNING"}) \in Nat /\ Count(state, Socks, {"RUNWAIT"}) \in Nat
           /\ Count(other, Others, {"RUNNING"}) \in Nat /\ Count(other, Others, {"RUNWAIT"}) \in Nat
           /\ undone.running \in Int /\ undone.waiting \in Int
           /\ RunningNow \in Int /\ WaitingNow \in Int
<1>1. Count(state, Socks, {"RUNNING"}) \in Nat
  BY CountType, DriverAssumption
<1>2. Count(state, Socks, {"RUNWAIT"}) \in Nat
  BY CountType, DriverAssumption
<1>3. Count(other, Others, {"RUNNING"}) \in Nat
  BY CountType, DriverAssumption
<1>4. Count(other, Others, {"RUNWAIT"}) \in Nat
  BY CountType, DriverAssumption
<1>5. undone.running \in Int /\ undone.waiting \in Int
  BY DEF Counted
<1> QED  BY <1>1, <1>2, <1>3, <1>4, <1>5 DEF Counted, RunningNow, WaitingNow

(* A driver, this one or another, queues a Conn under the Limits: it runs  *)
(* if there is room, and waits only if there is none.                      *)
Outcomes == {"DROPPED", "RUNNING", "TIMEOUT", "RUNWAIT", "OVERFLOW"}

Turn(next, waits) ==
    /\ next.state \in Outcomes /\ next.nrunning \in Words /\ next.nwaiting \in Words
    /\ Agrees(next.nrunning, RunningNow + Here(next.state, {"RUNNING"}))
    /\ Agrees(next.nwaiting, WaitingNow + Here(next.state, {"RUNWAIT"}) - (IF waits THEN 1 ELSE 0))
    /\ next.state = "RUNNING" => nrunning < maxrun /\ next.nrunning = nrunning + 1
    /\ next.state # "RUNNING" => next.nrunning = nrunning
    /\ next.state = "RUNWAIT" => nrunning >= maxrun

LEMMA RunNextIs ==
    ASSUME Counted, NEW waits \in BOOLEAN, NEW poll PROVE Turn(RunNext(waits, poll), waits)
<1> DEFINE w == IF waits THEN Less(nwaiting) ELSE nwaiting
           o == IF waits /\ poll = "drop" THEN "DROPPED"
                ELSE IF nrunning < maxrun THEN "RUNNING"
                ELSE IF poll = "expire" THEN "TIMEOUT"
                ELSE IF w < maxwait THEN "RUNWAIT"
                ELSE "OVERFLOW"
           next == RunNext(waits, poll)
<1>1. /\ next.state = o
      /\ next.nrunning = IF o = "RUNNING" THEN More(nrunning) ELSE nrunning
      /\ next.nwaiting = IF o = "RUNWAIT" THEN More(w) ELSE w
  BY DEF RunNext
<1>2. /\ RunningNow \in Int /\ WaitingNow \in Int /\ nrunning \in Words /\ nwaiting \in Words
      /\ Agrees(nrunning, RunningNow) /\ Agrees(nwaiting, WaitingNow)
      /\ maxrun \in Words /\ Word \in Nat \ {0}
  BY CountsAre, DriverAssumption DEF Counted
<1>3. /\ o \in Outcomes
      /\ o = "RUNNING" => nrunning < maxrun
      /\ o = "RUNWAIT" => ~(nrunning < maxrun)
  BY DEF Outcomes
<1> DEFINE before == WaitingNow - (IF waits THEN 1 ELSE 0)
<1>4. w \in Words /\ Agrees(w, before) /\ before \in Int
  BY <1>2, CountsOn
<1> HIDE DEF o, next, w, before
<1>5. /\ Here(o, {"RUNNING"}) = IF o = "RUNNING" THEN 1 ELSE 0
      /\ Here(o, {"RUNWAIT"}) = IF o = "RUNWAIT" THEN 1 ELSE 0
  BY DEF Here
<1>6. next.nrunning \in Words /\ Agrees(next.nrunning, RunningNow + Here(o, {"RUNNING"}))
  <2>1. RunningNow + 0 = RunningNow
    BY <1>2
  <2> QED  BY <1>1, <1>2, <1>5, <2>1, CountsOn
<1>7. next.nwaiting \in Words /\ Agrees(next.nwaiting, before + Here(o, {"RUNWAIT"}))
  <2>1. before + 0 = before
    BY <1>4
  <2> QED  BY <1>1, <1>4, <1>5, <2>1, CountsOn
<1>8. before + Here(o, {"RUNWAIT"}) = WaitingNow + Here(o, {"RUNWAIT"}) - (IF waits THEN 1 ELSE 0)
  BY <1>2, <1>5 DEF before
<1>9. o = "RUNNING" => next.nrunning = nrunning + 1
  BY <1>1, <1>2, <1>3 DEF More, Words
<1>10. o = "RUNWAIT" => nrunning >= maxrun
  BY <1>2, <1>3 DEF Words
<1>11. Turn(next, waits)
  BY <1>1, <1>3, <1>6, <1>7, <1>8, <1>9, <1>10 DEF Turn
<1> QED  BY <1>11 DEF next

(* Elsewhere the Limits and nothing else is written.                       *)
LEMMA ElsewhereKeeps ==
    ASSUME DriverInv, Elsewhere, Counted', Alone' PROVE DriverInv'
<1>1. /\ UNCHANGED <<async, dpc, stop, flags, trigger, query, qpc, mpc, closing, done>>
      /\ UNCHANGED <<state, place, hasConn, connq, todo, due, freeing, readList, idle, rpc, rsock>>
  BY DEF Elsewhere, sockVars, queueVars, readVars, connVars
<1>2. Scalars' /\ Sockets' /\ Queue' /\ Phases' /\ ReadList' /\ ReaderSocks' /\ DriverWoken'
  BY <1>1, SocketsKept, QueueKept, PhasesKept, ReadListKept, ReadersKept, ToldKept
     DEF DriverInv, Scalars, Shutdown
<1>3. IdleCounted' /\ Sleepers'
  BY <1>1 DEF DriverInv, IdleCounted, Sleepers, ReadersWoken, QueriersWoken, Shutdown
<1> QED  BY <1>2, <1>3 DEF DriverInv

(* ns_limits set undoes, when it fails, as much as it adds to undone.      *)
LEMMA SetLimitsKeeps ==
    ASSUME DriverInv, NEW c \in Setters \cap around, SetLimits(c) PROVE DriverInv'
<1>1. Elsewhere /\ UNCHANGED other
  BY DEF SetLimits
<1>2. UNCHANGED <<around, state, closing, done, freeing>>
  BY <1>1 DEF Elsewhere, sockVars, queueVars, connVars
<1>3. Alone'
  BY <1>2 DEF Alone
<1>4. /\ maxrun \in Words /\ maxwait \in Words /\ nrunning \in Words /\ nwaiting \in Words
      /\ spc \in [Setters -> {"before", "sets", "gone"}]
      /\ saved \in [Setters -> {<<>>} \cup Saved]
      /\ \A d \in Setters : spc[d] = "sets" => saved[d] \in Saved
      /\ undone \in [running : Int, waiting : Int]
      /\ Agrees(nrunning, RunningNow) /\ Agrees(nwaiting, WaitingNow)
      /\ closing \in Nat /\ done \in Nat /\ freeing \in Nat
      /\ other \in [Others -> {"none", "RUNWAIT", "RUNNING"}]
  BY DEF DriverInv, Counted
<1>5. Counted'
  <2>1. CASE Saves(c)
    <3>1. limits \in Saved
      BY <1>4 DEF limits, Saved
    <3>2. /\ spc' \in [Setters -> {"before", "sets", "gone"}]
          /\ saved' \in [Setters -> {<<>>} \cup Saved]
          /\ \A d \in Setters : spc'[d] = "sets" => saved'[d] \in Saved
      BY <1>4, <2>1, <3>1 DEF Saves
    <3>3. UNCHANGED <<maxrun, maxwait, nrunning, nwaiting, undone>>
      BY <2>1 DEF Saves, limits
    <3> QED  BY <1>1, <1>2, <1>4, <3>2, <3>3 DEF Counted, RunningNow, WaitingNow
  <2>2. CASE \E limit \in Limit : Sets(c, limit)
    <3>1. PICK limit \in Limit : Sets(c, limit)
      BY <2>2
    <3>2. limit[1] \in Words /\ limit[2] \in Words
      BY DriverAssumption DEF Words
    <3> QED  BY <1>1, <1>2, <1>4, <3>1, <3>2 DEF Sets, Counted, RunningNow, WaitingNow
  <2>3. CASE Ends(c)
    <3>1. UNCHANGED <<maxrun, maxwait, nrunning, nwaiting, undone>>
      BY <2>3 DEF Ends, limits
    <3>2. /\ spc' \in [Setters -> {"before", "sets", "gone"}]
          /\ saved' \in [Setters -> {<<>>} \cup Saved]
          /\ \A d \in Setters : spc'[d] = "sets" => saved'[d] \in Saved
      BY <1>4, <2>3 DEF Ends
    <3> QED  BY <1>1, <1>2, <1>4, <3>1, <3>2 DEF Counted, RunningNow, WaitingNow
  <2>4. CASE Fails(c)
    <3>1. saved[c] \in Saved
      BY <1>4, <2>4 DEF Fails
    <3>2. /\ saved[c][1] \in Words /\ saved[c][2] \in Words /\ saved[c][3] \in Words
          /\ saved[c][4] \in Words
      BY <3>1 DEF Saved
    <3>3. /\ spc' \in [Setters -> {"before", "sets", "gone"}]
          /\ saved' \in [Setters -> {<<>>} \cup Saved]
          /\ \A d \in Setters : spc'[d] = "sets" => saved'[d] \in Saved
      BY <1>4, <2>4 DEF Fails
    <3>4. /\ maxrun' \in Words /\ maxwait' \in Words /\ nrunning' \in Words /\ nwaiting' \in Words
          /\ nrunning' = saved[c][3] /\ nwaiting' = saved[c][4]
          /\ undone'.running = undone.running + (nrunning' - nrunning)
          /\ undone'.waiting = undone.waiting + (nwaiting' - nwaiting)
      BY <2>4, <3>2 DEF Fails
    <3>5. /\ nrunning \in Int /\ nrunning' \in Int /\ nwaiting \in Int /\ nwaiting' \in Int
      BY <1>4, <3>4, DriverAssumption DEF Words
    <3>6. undone' \in [running : Int, waiting : Int]
      <4>1. undone.running \in Int /\ undone.waiting \in Int
        BY <1>4
      <4>2. undone'.running \in Int /\ undone'.waiting \in Int
        BY <3>4, <3>5, <4>1
      <4>3. undone' = [running |-> undone'.running, waiting |-> undone'.waiting]
        BY <2>4 DEF Fails
      <4> QED  BY <4>2, <4>3
    <3>7. RunningNow' - nrunning' = RunningNow - nrunning /\ WaitingNow' - nwaiting' = WaitingNow - nwaiting
      <4> DEFINE x == Count(state, Socks, {"RUNNING"}) + Count(other, Others, {"RUNNING"})
                        + (closing + done + freeing)
                 y == Count(state, Socks, {"RUNWAIT"}) + Count(other, Others, {"RUNWAIT"})
      <4>1. x \in Int /\ y \in Int /\ undone.running \in Int /\ undone.waiting \in Int
        BY <1>4, CountsAre DEF DriverInv
      <4>2. /\ RunningNow = x + undone.running /\ RunningNow' = x + undone'.running
            /\ WaitingNow = y + undone.waiting /\ WaitingNow' = y + undone'.waiting
        BY <1>1, <1>2 DEF RunningNow, WaitingNow
      <4> HIDE DEF x, y
      <4>3. RunningNow' - nrunning' = RunningNow - nrunning
        BY <3>4, <3>5, <4>1, <4>2
      <4>4. WaitingNow' - nwaiting' = WaitingNow - nwaiting
        BY <3>4, <3>5, <4>1, <4>2
      <4> QED  BY <4>3, <4>4
    <3>8. Agrees(nrunning', RunningNow') /\ Agrees(nwaiting', WaitingNow')
      BY <1>4, <3>7 DEF Agrees
    <3> QED  BY <1>1, <1>2, <1>4, <3>3, <3>4, <3>6, <3>8 DEF Counted
  <2> QED  BY <2>1, <2>2, <2>3, <2>4 DEF SetLimits
<1> QED  BY <1>1, <1>3, <1>5, ElsewhereKeeps

(* A request of another driver moves in the counts, as a Conn of this one. *)
LEMMA OtherKeeps ==
    ASSUME DriverInv, NEW o \in Others \cap around, NEW p \in {"none", "RUNWAIT", "RUNNING"},
           Elsewhere, UNCHANGED <<maxrun, maxwait, spc, saved, undone>>,
           other' = [other EXCEPT ![o] = p], nrunning' \in Words, nwaiting' \in Words,
           Agrees(nrunning', RunningNow + Here(p, {"RUNNING"}) - Here(other[o], {"RUNNING"})),
           Agrees(nwaiting', WaitingNow + Here(p, {"RUNWAIT"}) - Here(other[o], {"RUNWAIT"}))
    PROVE  DriverInv'
<1>1. UNCHANGED <<around, state, closing, done, freeing>>
  BY DEF Elsewhere, sockVars, queueVars, connVars
<1>2. Alone'
  BY <1>1 DEF Alone
<1>3. other \in [Others -> {"none", "RUNWAIT", "RUNNING"}] /\ closing \in Nat /\ done \in Nat
      /\ freeing \in Nat
  BY DEF DriverInv, Counted
<1>4. /\ Shifted(Count(other', Others, {"RUNNING"}), Count(other, Others, {"RUNNING"}),
                 other[o], p, {"RUNNING"})
      /\ Shifted(Count(other', Others, {"RUNWAIT"}), Count(other, Others, {"RUNWAIT"}),
                 other[o], p, {"RUNWAIT"})
  <2>1. Shifted(Count(other', Others, {"RUNNING"}), Count(other, Others, {"RUNNING"}),
                other[o], p, {"RUNNING"})
    BY <1>3, CountPut, DriverAssumption
  <2>2. Shifted(Count(other', Others, {"RUNWAIT"}), Count(other, Others, {"RUNWAIT"}),
                other[o], p, {"RUNWAIT"})
    BY <1>3, CountPut, DriverAssumption
  <2> QED  BY <2>1, <2>2
<1>5. /\ RunningNow' = RunningNow + Here(p, {"RUNNING"}) - Here(other[o], {"RUNNING"})
      /\ WaitingNow' = WaitingNow + Here(p, {"RUNWAIT"}) - Here(other[o], {"RUNWAIT"})
  <2> DEFINE n == Count(state, Socks, {"RUNNING"})
             v == Count(state, Socks, {"RUNWAIT"})
             m == Count(other, Others, {"RUNNING"})
             w == Count(other, Others, {"RUNWAIT"})
             d == closing + done + freeing
             h == Here(p, {"RUNNING"})
             g == Here(other[o], {"RUNNING"})
             k == Here(p, {"RUNWAIT"})
             l == Here(other[o], {"RUNWAIT"})
  <2>1. /\ n \in Nat /\ m \in Nat /\ v \in Nat /\ w \in Nat
        /\ undone.running \in Int /\ undone.waiting \in Int
    BY CountsAre DEF DriverInv
  <2>2. h \in Int /\ g \in Int /\ k \in Int /\ l \in Int /\ d \in Nat
    BY <1>3 DEF Here
  <2>3. /\ RunningNow = n + m + d + undone.running
        /\ RunningNow' = n + (m + h - g) + d + undone.running
        /\ WaitingNow = v + w + undone.waiting
        /\ WaitingNow' = v + (w + k - l) + undone.waiting
    BY <1>1, <1>4 DEF RunningNow, WaitingNow, Shifted
  <2> HIDE DEF n, m, v, w, d, h, g, k, l
  <2>4. RunningNow' = RunningNow + h - g
    BY <2>1, <2>2, <2>3
  <2>5. WaitingNow' = WaitingNow + k - l
    BY <2>1, <2>2, <2>3
  <2> QED  BY <2>4, <2>5 DEF h, g, k, l
<1>6. Counted'
  BY <1>1, <1>3, <1>5 DEF DriverInv, Counted
<1> QED  BY <1>2, <1>6, ElsewhereKeeps

LEMMA OtherQueuedKeeps ==
    ASSUME DriverInv, NEW o \in Others \cap around, NEW poll, OtherQueued(o, poll)
    PROVE  DriverInv'
<1> DEFINE waits == other[o] = "RUNWAIT"
           next == RunNext(waits, poll)
           p == IF next.state \in {"RUNNING", "RUNWAIT"} THEN next.state ELSE "none"
<1>1. /\ other[o] \in {"none", "RUNWAIT"} /\ Elsewhere
      /\ nrunning' = next.nrunning /\ nwaiting' = next.nwaiting
      /\ other' = [other EXCEPT ![o] = p]
      /\ UNCHANGED <<maxrun, maxwait, spc, saved, undone>>
  BY DEF OtherQueued
<1>2. Turn(next, waits)
  BY RunNextIs DEF DriverInv
<1>3. /\ p \in {"none", "RUNWAIT", "RUNNING"}
      /\ Here(p, {"RUNNING"}) = Here(next.state, {"RUNNING"})
      /\ Here(p, {"RUNWAIT"}) = Here(next.state, {"RUNWAIT"})
      /\ Here(other[o], {"RUNNING"}) = 0
      /\ Here(other[o], {"RUNWAIT"}) = IF waits THEN 1 ELSE 0
      /\ Here(p, {"RUNNING"}) \in Int
  BY <1>1 DEF Here
<1> HIDE DEF p, next, waits
<1>4. RunningNow + Here(p, {"RUNNING"}) = RunningNow + Here(p, {"RUNNING"}) - 0
  BY <1>3, CountsAre DEF DriverInv
<1>5. /\ Agrees(nrunning', RunningNow + Here(p, {"RUNNING"}) - Here(other[o], {"RUNNING"}))
      /\ Agrees(nwaiting', WaitingNow + Here(p, {"RUNWAIT"}) - Here(other[o], {"RUNWAIT"}))
  BY <1>1, <1>2, <1>3, <1>4 DEF Turn
<1> QED  BY <1>1, <1>2, <1>3, <1>5, OtherKeeps DEF Turn

LEMMA OtherFreedKeeps ==
    ASSUME DriverInv, NEW o \in Others \cap around, OtherFreed(o) PROVE DriverInv'
<1>1. /\ other[o] = "RUNNING" /\ Elsewhere /\ nrunning' = Less(nrunning) /\ nwaiting' = nwaiting
      /\ other' = [other EXCEPT ![o] = "none"] /\ UNCHANGED <<maxrun, maxwait, spc, saved, undone>>
  BY DEF OtherFreed
<1>2. /\ Here("none", {"RUNNING"}) = 0 /\ Here("none", {"RUNWAIT"}) = 0
      /\ Here(other[o], {"RUNNING"}) = 1 /\ Here(other[o], {"RUNWAIT"}) = 0
  BY <1>1 DEF Here
<1>3. /\ RunningNow \in Int /\ WaitingNow \in Int /\ nrunning \in Words /\ nwaiting \in Words
      /\ Agrees(nrunning, RunningNow) /\ Agrees(nwaiting, WaitingNow)
  BY CountsAre DEF DriverInv, Counted
<1>4. Less(nrunning) \in Words /\ Agrees(Less(nrunning), RunningNow - 1)
  BY <1>3, CountsOn
<1>5. RunningNow + 0 - 1 = RunningNow - 1 /\ WaitingNow + 0 - 0 = WaitingNow
  BY <1>3
<1>6. /\ Agrees(nrunning', RunningNow + Here("none", {"RUNNING"}) - Here(other[o], {"RUNNING"}))
      /\ Agrees(nwaiting', WaitingNow + Here("none", {"RUNWAIT"}) - Here(other[o], {"RUNWAIT"}))
  BY <1>1, <1>2, <1>3, <1>4, <1>5
<1> QED  BY <1>1, <1>3, <1>4, <1>6, OtherKeeps

(* Neither the counts nor the queue see a socket that goes elsewhere, nor  *)
(* the counts a Conn that is done rather than closing.                     *)
LEMMA CountedKept ==
    ASSUME Counted, UNCHANGED <<theirs, limits>>,
           \A s \in Socks : \A st \in {"RUNNING", "RUNWAIT"} : state'[s] = st <=> state[s] = st,
           closing' \in Nat, done' \in Nat, freeing' \in Nat,
           closing' + done' + freeing' = closing + done + freeing
    PROVE  Counted'
<1>1. Count(state', Socks, {"RUNNING"}) = Count(state, Socks, {"RUNNING"})
  <2>1. \A s \in Socks : state'[s] \in {"RUNNING"} <=> state[s] \in {"RUNNING"}
    OBVIOUS
  <2> QED  BY <2>1, CountSame
<1>2. Count(state', Socks, {"RUNWAIT"}) = Count(state, Socks, {"RUNWAIT"})
  <2>1. \A s \in Socks : state'[s] \in {"RUNWAIT"} <=> state[s] \in {"RUNWAIT"}
    OBVIOUS
  <2> QED  BY <2>1, CountSame
<1>3. RunningNow' = RunningNow /\ WaitingNow' = WaitingNow
  BY <1>1, <1>2 DEF RunningNow, WaitingNow, theirs
<1> QED  BY <1>3 DEF Counted, theirs, limits

LEMMA QueueSame ==
    ASSUME Queue, UNCHANGED <<connq, todo, due>>,
           \A s \in Socks :
               /\ place'[s] = "queue" <=> place[s] = "queue"
               /\ place[s] = "queue" => state'[s] = state[s]
               /\ place'[s] = "wait" /\ state'[s] = "RUNWAIT"
                     <=> place[s] = "wait" /\ state[s] = "RUNWAIT"
    PROVE  Queue'
<1>1. With("queue")' = With("queue")
  BY DEF With
<1>2. {s \in With("wait") : state[s] = "RUNWAIT"}' = {s \in With("wait") : state[s] = "RUNWAIT"}
  BY DEF With
<1>3. \A j \in DOMAIN todo : state'[todo[j]] = state[todo[j]]
  BY DEF Queue, With, Range
<1> QED  BY <1>1, <1>2, <1>3 DEF Queue

LEMMA NsFreeConnKeeps == ASSUME DriverInv, NsFreeConn PROVE DriverInv'
<1>1. /\ closing > 0 /\ closing' = closing - 1 /\ done' = done + 1 /\ trigger' = TRUE
      /\ UNCHANGED <<theirs, dpc, stop, flags, sockVars, queueVars, readVars, limits, query, qpc, mpc>>
  BY DEF NsFreeConn
<1>2. UNCHANGED <<async, around, state, place, hasConn, connq, todo, due, freeing, nrunning, maxrun>>
  BY <1>1 DEF theirs, sockVars, queueVars, limits
<1>3. Scalars' /\ Sockets' /\ Queue' /\ Phases' /\ Alone' /\ ReadList' /\ ReaderSocks'
  BY <1>1, <1>2, SocketsKept, QueueKept, PhasesKept, AloneKept, ReadListKept, ReadersKept
     DEF DriverInv, Scalars, Shutdown, readVars
<1>4. Counted'
  <2>1. closing \in Nat /\ done \in Nat /\ freeing \in Nat
    BY DEF DriverInv, Counted
  <2>2. /\ closing' \in Nat /\ done' \in Nat /\ freeing' \in Nat
        /\ closing' + done' + freeing' = closing + done + freeing
    BY <1>1, <1>2, <2>1
  <2> QED  BY <1>1, <1>2, <2>2, CountedKept DEF DriverInv
<1>5. IdleCounted' /\ Sleepers'
  BY <1>1 DEF DriverInv, IdleCounted, Sleepers, ReadersWoken, QueriersWoken, Shutdown, readVars
<1>6. DriverWoken'
  BY <1>1 DEF DriverWoken
<1> QED  BY <1>3, <1>4, <1>5, <1>6 DEF DriverInv

(* A connection thread gives a socket back, or only marks it.              *)
LEMMA NsSockCloseKeeps ==
    ASSUME DriverInv, NEW s \in Socks, NEW keep \in BOOLEAN, NsSockClose(s, keep)
    PROVE  DriverInv'
<1>0. /\ state \in [Socks -> States] /\ place \in [Socks -> Places] /\ place[s] = "conn"
      /\ state[s] \in {"RUNNING", "TIMEOUT", "OVERFLOW"}
  BY DEF DriverInv, Sockets, NsSockClose, StatesAt
<1> DEFINE st == IF state[s] # "RUNNING" THEN "CLOSEREQ" ELSE IF keep THEN "READWAIT" ELSE "CLOSEWAIT"
           pl == IF state[s] # "RUNNING" THEN "lost" ELSE "close"
<1>1. /\ state' = [state EXCEPT ![s] = st] /\ place' = [place EXCEPT ![s] = pl]
      /\ closing' = closing + (IF state[s] = "RUNNING" THEN 1 ELSE 0)
      /\ UNCHANGED <<theirs, dpc, stop, flags, hasConn, queueVars, readVars, limits, done, query,
                     qpc, mpc>>
      /\ trigger' = TRUE
  BY DEF NsSockClose, DriverInv, Counted
<1>2. st \in {"CLOSEREQ", "READWAIT", "CLOSEWAIT"} /\ pl \in {"lost", "close"} /\ st \in StatesAt(pl)
  BY DEF StatesAt
<1>3. state[s] = "RUNNING" \/ state[s] \in {"TIMEOUT", "OVERFLOW"}
  BY <1>0
<1> HIDE DEF st, pl
<1>4. Scalars' /\ DriverWoken'
  BY <1>1 DEF DriverInv, Scalars, Shutdown, theirs, DriverWoken
<1>5. Sockets'
  <2>1. state' \in [Socks -> States] /\ place' \in [Socks -> Places]
    BY <1>0, <1>1, <1>2 DEF States, Places
  <2>2. \A u \in Socks : state'[u] \in StatesAt(place'[u])
    BY <1>0, <1>1, <1>2 DEF DriverInv, Sockets
  <2>3. ReadHasConn'
    BY <1>0, <1>1, <1>2 DEF DriverInv, Sockets, ReadHasConn, With
  <2> QED  BY <1>1, <2>1, <2>2, <2>3 DEF DriverInv, Sockets
<1>6. \A p \in {"read", "reading", "toread"} : With(p)' = With(p)
  BY <1>0, <1>1, <1>2 DEF With
<1>7. ReadList' /\ ReaderSocks'
  BY <1>1, <1>6 DEF DriverInv, ReadList, ReaderSocks, readVars
<1>8. IdleCounted' /\ Sleepers'
  BY <1>1 DEF DriverInv, IdleCounted, Sleepers, ReadersWoken, QueriersWoken, Shutdown, readVars
<1>9. Queue' /\ Phases' /\ Alone'
  <2>1. UNCHANGED <<connq, todo, due, freeing, dpc, around, nrunning, maxrun>>
    BY <1>1 DEF queueVars, theirs, limits
  <2>2. \A u \in Socks :
            /\ place'[u] = "queue" <=> place[u] = "queue"
            /\ place[u] = "queue" => state'[u] = state[u]
            /\ place'[u] = "wait" /\ state'[u] = "RUNWAIT"
                  <=> place[u] = "wait" /\ state[u] = "RUNWAIT"
    BY <1>0, <1>1, <1>2
  <2> QED  BY <2>1, <2>2, QueueSame, PhasesKept, AloneKept DEF DriverInv
<1>10. Counted'
  <2>1. Shifted(Count(state', Socks, {"RUNNING"}), Count(state, Socks, {"RUNNING"}),
                state[s], st, {"RUNNING"})
    BY <1>0, <1>1, CountPut, DriverAssumption
  <2>2. Count(state', Socks, {"RUNWAIT"}) = Count(state, Socks, {"RUNWAIT"})
    <3>1. \A u \in Socks : state[u] \in {"RUNWAIT"} <=> state'[u] \in {"RUNWAIT"}
      BY <1>0, <1>1, <1>2
    <3> QED  BY <3>1, CountSame
  <2>3. /\ Here(state[s], {"RUNNING"}) = IF state[s] = "RUNNING" THEN 1 ELSE 0
        /\ Here(st, {"RUNNING"}) = 0
    BY <1>2 DEF Here
  <2>4. UNCHANGED <<done, freeing, other, undone>>
    BY <1>1 DEF queueVars, theirs
  <2>5. closing \in Nat /\ done \in Nat /\ freeing \in Nat
    BY DEF DriverInv, Counted
  <2> DEFINE n == Count(state, Socks, {"RUNNING"})
             m == Count(state', Socks, {"RUNNING"})
             k == Count(other, Others, {"RUNNING"})
             c == IF state[s] = "RUNNING" THEN 1 ELSE 0
  <2>6. n \in Nat /\ k \in Nat /\ undone.running \in Int /\ c \in Nat
    BY CountsAre DEF DriverInv
  <2>7. /\ m = n + 0 - c /\ closing' = closing + c
        /\ RunningNow = n + k + (closing + done + freeing) + undone.running
        /\ RunningNow' = m + k + (closing' + done + freeing) + undone.running
    BY <1>1, <2>1, <2>3, <2>4 DEF RunningNow, Shifted
  <2> HIDE DEF n, m, k, c
  <2>8. RunningNow' = RunningNow /\ closing' \in Nat
    BY <2>5, <2>6, <2>7
  <2>9. WaitingNow' = WaitingNow
    BY <2>2, <2>4 DEF WaitingNow
  <2> QED  BY <1>1, <2>4, <2>8, <2>9 DEF DriverInv, Counted, limits, theirs
<1> QED  BY <1>4, <1>5, <1>7, <1>8, <1>9, <1>10 DEF DriverInv

(* A reader, free or done with a socket, takes the next one or rests.      *)
TakesPlaces(r) ==
    /\ place' \in [Socks -> Places]
    /\ \A s \in Socks : place'[s] =
          IF rpc[r] = "reading" /\ s = rsock[r] THEN "run"
          ELSE IF s = rsock'[r] THEN "reading"
          ELSE place[s]

LEMMA TakeSockKeeps ==
    ASSUME DriverInv, NEW r \in Readers, rpc[r] \in {"awake", "reading"},
           NEW nowIdle, nowIdle = idle + Here(rpc[r], {"reading"}),
           TakeSock(r, nowIdle), TakesPlaces(r), UNCHANGED <<flags, dpc>>
    PROVE  ReadList' /\ ReaderSocks' /\ IdleCounted' /\ Sleepers'
<1> DEFINE A == {"awake", "sleep", "gone"}
<1>0. /\ rpc \in [Readers -> ReaderPlaces] /\ rsock \in [Readers -> Socks \cup {Nothing}]
      /\ qpc \in [Queriers -> QuerierPlaces]
      /\ readList \in Seq(Socks) /\ IsInjective(readList) /\ Range(readList) = With("read")
      /\ \A q \in Readers : rpc[q] = "reading" => rsock[q] \in With("reading")
  BY DEF DriverInv, ReaderSocks, Sleepers, ReadList, ReaderPlaces, QuerierPlaces
<1>00. /\ Count(rpc, Readers, A) \in Nat /\ idle = Count(rpc, Readers, A)
       /\ rpc[r] = "awake" => Here(rpc[r], A) = 1 /\ Here(rpc[r], {"reading"}) = 0
       /\ rpc[r] = "reading" => Here(rpc[r], A) = 0 /\ Here(rpc[r], {"reading"}) = 1
  <2>1. Count(rpc, Readers, A) \in Nat
    <3> HIDE DEF A
    <3> QED  BY CountType, DriverAssumption
  <2>2. idle = Count(rpc, Readers, A)
    BY DEF DriverInv, IdleCounted
  <2>3. /\ rpc[r] = "awake" => Here(rpc[r], A) = 1 /\ Here(rpc[r], {"reading"}) = 0
        /\ rpc[r] = "reading" => Here(rpc[r], A) = 0 /\ Here(rpc[r], {"reading"}) = 1
    BY DEF Here
  <2> QED  BY <2>1, <2>2, <2>3
<1>1. CASE readList = <<>>
  <2> DEFINE p == IF Shutdown THEN "gone" ELSE "sleep"
  <2>1. /\ rpc' = [rpc EXCEPT ![r] = p] /\ rsock' = [rsock EXCEPT ![r] = Nothing]
        /\ idle' = nowIdle /\ UNCHANGED <<readList, qpc>>
    BY <1>1 DEF TakeSock
  <2>2. p \in {"gone", "sleep"} /\ (p = "gone" => Shutdown) /\ p \in ReaderPlaces
    BY DEF ReaderPlaces
  <2> HIDE DEF p
  <2>3. /\ rpc' \in [Readers -> ReaderPlaces] /\ rsock' \in [Readers -> Socks \cup {Nothing}]
        /\ rsock'[r] = Nothing /\ rpc'[r] # "reading"
    BY <1>0, <2>1, <2>2
  <2>4. \A s \in Socks : s # rsock'[r]
    BY <2>3, DriverAssumption
  <2>5. With("read")' = With("read") /\ With("toread")' = With("toread")
    BY <1>0, <2>4 DEF TakesPlaces, With
  <2>6. ReadList'
    BY <2>1, <2>5 DEF DriverInv, ReadList
  <2>7. ReaderSocks'
    <3>1. ASSUME NEW q \in Readers, rpc'[q] = "reading" PROVE rsock'[q] \in With("reading")'
      <4>1. q # r /\ rpc[q] = "reading" /\ rsock'[q] = rsock[q] /\ rsock[q] \in Socks
        BY <1>0, <2>1, <2>3, <3>1 DEF With
      <4>2. ~(rpc[r] = "reading" /\ rsock[q] = rsock[r])
        BY <4>1 DEF DriverInv, ReaderSocks
      <4> QED  BY <1>0, <2>4, <4>1, <4>2 DEF TakesPlaces, With
    <3>2. \A q, u \in Readers :
             rpc'[q] = "reading" /\ rpc'[u] = "reading" /\ rsock'[q] = rsock'[u] => q = u
      BY <1>0, <2>1, <2>3 DEF DriverInv, ReaderSocks
    <3> QED  BY <2>3, <3>1, <3>2 DEF ReaderSocks, ReaderPlaces
  <2>8. IdleCounted'
    <3>1. Shifted(Count(rpc', Readers, A), Count(rpc, Readers, A), rpc[r], p, A)
      BY <1>0, <2>1, CountPut, DriverAssumption
    <3>2. Here(p, A) = 1
      BY <2>2 DEF Here
    <3>3. idle' = Count(rpc', Readers, A)
      <4> HIDE DEF A
      <4> QED  BY <1>00, <2>1, <3>1, <3>2 DEF Shifted
    <3>4. ASSUME NEW q \in Readers, rpc'[q] = "gone" PROVE Shutdown'
      BY <1>0, <2>1, <2>2, <3>4 DEF DriverInv, IdleCounted, Shutdown
    <3> QED  BY <3>3, <3>4 DEF IdleCounted
  <2>9. Sleepers'
    BY <1>1, <2>1 DEF DriverInv, Sleepers, ReadersWoken, QueriersWoken
  <2> QED  BY <2>6, <2>7, <2>8, <2>9
<1>2. CASE readList # <<>>
  <2> DEFINE h == Head(readList)
             busy == [rpc EXCEPT ![r] = "reading"]
  <2>1. /\ readList' = Tail(readList) /\ rsock' = [rsock EXCEPT ![r] = h]
        /\ idle' = nowIdle - 1
        /\ Signal(busy) \/ (rpc' = busy /\ UNCHANGED qpc)
    BY <1>2 DEF TakeSock, Rest, Busy
  <2>2. /\ h \in Socks /\ h \in With("read") /\ Tail(readList) \in Seq(Socks)
        /\ IsInjective(Tail(readList)) /\ Range(Tail(readList)) = With("read") \ {h}
    BY <1>0, <1>2, HeadTailHas
  <2>3. busy \in [Readers -> ReaderPlaces] /\ busy[r] = "reading"
        /\ \A q \in Readers : q # r => busy[q] = rpc[q]
    BY <1>0 DEF ReaderPlaces
  <2>4. Shifted(Count(busy, Readers, A), Count(rpc, Readers, A), rpc[r], "reading", A)
    BY <1>0, CountPut, DriverAssumption
  <2> HIDE DEF h, busy
  <2>5. Woken(busy)
    <3>1. CASE Signal(busy)
      BY <1>0, <2>3, <3>1, SignalWakes
    <3>2. CASE rpc' = busy /\ UNCHANGED qpc
      BY <1>0, <2>3, <3>2 DEF Woken
    <3> QED  BY <2>1, <3>1, <3>2
  <2>6. /\ Count(rpc', Readers, A) = Count(busy, Readers, A)
        /\ \A q \in Readers : \A p \in {"none", "reading", "gone"} : rpc'[q] = p <=> busy[q] = p
        /\ \A q \in Queriers : Sleeps(qpc'[q]) => Sleeps(qpc[q])
    BY <2>3, <2>5, WokenAre
  <2>7. /\ rsock' \in [Readers -> Socks \cup {Nothing}] /\ rsock'[r] = h
        /\ \A q \in Readers : q # r => rsock'[q] = rsock[q]
    BY <1>0, <2>1, <2>2
  <2>8. place[h] = "read" /\ ~(rpc[r] = "reading" /\ h = rsock[r])
    BY <1>0, <2>2 DEF With
  <2>9. /\ place'[h] = "reading"
        /\ \A s \in Socks : s # h => place'[s] = place[s] \/ (rpc[r] = "reading" /\ s = rsock[r]
                                                             /\ place'[s] = "run")
    BY <2>2, <2>7, <2>8 DEF TakesPlaces
  <2>10. ReadList'
    <3>1. \A s \in Socks : rpc[r] = "reading" /\ s = rsock[r] => place[s] = "reading"
      BY <1>0 DEF With
    <3>2. With("read")' = With("read") \ {h} /\ With("toread")' = With("toread")
      BY <2>2, <2>8, <2>9, <3>1 DEF With
    <3> QED  BY <2>1, <2>2, <3>2 DEF DriverInv, ReadList
  <2>11. ReaderSocks'
    <3>1. ASSUME NEW q \in Readers, rpc'[q] = "reading" PROVE rsock'[q] \in With("reading")'
      <4>1. CASE q = r
        BY <2>2, <2>7, <2>9, <4>1 DEF With
      <4>2. CASE q # r
        <5>1. rpc[q] = "reading" /\ rsock'[q] = rsock[q] /\ rsock[q] \in With("reading")
          BY <1>0, <2>3, <2>6, <2>7, <3>1, <4>2
        <5>2. ~(rpc[r] = "reading" /\ rsock[q] = rsock[r])
          BY <4>2, <5>1 DEF DriverInv, ReaderSocks
        <5> QED  BY <2>8, <2>9, <5>1, <5>2 DEF With
      <4> QED  BY <4>1, <4>2
    <3>2. ASSUME NEW q \in Readers, NEW u \in Readers, rpc'[q] = "reading", rpc'[u] = "reading",
                 rsock'[q] = rsock'[u]
          PROVE  q = u
      <4>1. \A v \in Readers : v # r /\ rpc'[v] = "reading" =>
                rpc[v] = "reading" /\ rsock'[v] = rsock[v] /\ rsock[v] # h
        BY <1>0, <2>3, <2>6, <2>7, <2>8 DEF With
      <4> QED  BY <2>7, <3>2, <4>1 DEF DriverInv, ReaderSocks
    <3>3. rpc' \in [Readers -> ReaderPlaces]
      BY <2>5 DEF Woken
    <3> QED  BY <2>7, <3>1, <3>2, <3>3 DEF ReaderSocks, ReaderPlaces
  <2>12. IdleCounted'
    <3>1. Here("reading", A) = 0
      BY DEF Here
    <3>2. idle' = Count(rpc', Readers, A)
      <4> HIDE DEF A
      <4> QED  BY <1>00, <2>1, <2>4, <2>6, <3>1 DEF Shifted
    <3>3. ASSUME NEW q \in Readers, rpc'[q] = "gone" PROVE Shutdown'
      <4>1. rpc[q] = "gone"
        BY <2>3, <2>6, <3>3
      <4> QED  BY <4>1 DEF DriverInv, IdleCounted, Shutdown
    <3> QED  BY <3>2, <3>3 DEF IdleCounted
  <2>13. Sleepers'
    <3>1. rpc'[r] = "reading"
      BY <2>3, <2>6
    <3>2. qpc' \in [Queriers -> QuerierPlaces]
      BY <2>5 DEF Woken
    <3> QED  BY <2>6, <3>1, <3>2 DEF DriverInv, Sleepers, ReadersWoken, QueriersWoken, QuerierPlaces
  <2> QED  BY <2>10, <2>11, <2>12, <2>13
<1> QED  BY <1>1, <1>2

LEMMA ReaderThreadKeeps == ASSUME DriverInv, NEW r \in Readers, ReaderThread(r) PROVE DriverInv'
<1>0. /\ rpc[r] = "awake" /\ TakeSock(r, idle)
      /\ place' = [s \in Socks |-> IF s = rsock'[r] THEN "reading" ELSE place[s]]
      /\ UNCHANGED <<theirs, dpc, stop, flags, trigger, state, hasConn, queueVars, limits,
                     connVars, query, mpc>>
  BY DEF ReaderThread
<1>1. /\ place \in [Socks -> Places] /\ idle \in Nat
      /\ Here(rpc[r], {"reading"}) = 0
  <2>1. Count(rpc, Readers, {"awake", "sleep", "gone"}) \in Nat
    BY CountType, DriverAssumption
  <2> QED  BY <1>0, <2>1 DEF DriverInv, Sockets, IdleCounted, Here
<1>2. rsock'[r] \in Socks => place[rsock'[r]] = "read"
  <2>1. CASE readList = <<>>
    BY <1>0, <2>1, DriverAssumption DEF TakeSock, DriverInv, ReaderSocks
  <2>2. CASE readList # <<>>
    <3>1. Head(readList) \in With("read")
      BY <2>2, HeadTailHas DEF DriverInv, ReadList
    <3>2. rsock'[r] = Head(readList)
      BY <1>0, <2>2 DEF TakeSock, DriverInv, ReaderSocks
    <3> QED  BY <3>1, <3>2 DEF With
  <2> QED  BY <2>1, <2>2
<1>3. TakesPlaces(r)
  BY <1>0, <1>1 DEF TakesPlaces, Places
<1>4. ReadList' /\ ReaderSocks' /\ IdleCounted' /\ Sleepers'
  BY <1>0, <1>1, <1>3, TakeSockKeeps
<1>5. Scalars' /\ Counted' /\ Queue' /\ Phases' /\ Alone'
  <2>1. UNCHANGED <<async, connq, todo, due, freeing, around, nrunning, maxrun>>
    BY <1>0 DEF queueVars, theirs, limits
  <2>2. \A s \in Socks : \A p \in {"queue", "wait"} : place'[s] = p <=> place[s] = p
    BY <1>0, <1>1, <1>2
  <2>3. Queue'
    BY <1>0, <2>1, <2>2, QueueSame DEF DriverInv
  <2> QED  BY <1>0, <2>1, <2>3, LimitsKept, PhasesKept, AloneKept DEF DriverInv, Scalars, Shutdown
<1>6. Sockets'
  <2>1. \A s \in Socks : state'[s] \in StatesAt(place'[s])
    <3>1. ASSUME NEW s \in Socks PROVE state[s] \in StatesAt(place'[s])
      <4>1. CASE s = rsock'[r]
        BY <1>0, <1>1, <1>2, <4>1 DEF DriverInv, Sockets, StatesAt
      <4>2. CASE s # rsock'[r]
        BY <1>0, <1>1, <4>2 DEF DriverInv, Sockets
      <4> QED  BY <4>1, <4>2
    <3> QED  BY <1>0, <3>1
  <2>2. ReadHasConn'
    BY <1>0, <1>1 DEF DriverInv, Sockets, ReadHasConn, With
  <2> QED  BY <1>0, <1>3, <2>1, <2>2 DEF DriverInv, Sockets, TakesPlaces
<1>7. DriverWoken'
  <2>1. With("run")' = With("run") /\ With("close")' = With("close")
    BY <1>0, <1>1, <1>2 DEF With
  <2>2. /\ (trigger' <=> trigger) /\ done' = done /\ (query' <=> query) /\ (stop' <=> stop)
        /\ flags' = flags
    BY <1>0 DEF connVars
  <2> QED  BY <2>1, <2>2 DEF DriverInv, DriverWoken, Shutdown
<1> QED  BY <1>4, <1>5, <1>6, <1>7 DEF DriverInv

LEMMA ReaderDoneKeeps ==
    ASSUME DriverInv, NEW r \in Readers, NEW o \in {"PREQUE", "ERROR"}, ReaderDone(r, o)
    PROVE  DriverInv'
<1> DEFINE d == rsock[r]
<1>0. /\ rpc[r] = "reading" /\ TakeSock(r, idle + 1) /\ state' = [state EXCEPT ![d] = o]
      /\ place' = [s \in Socks |-> IF s = d THEN "run"
                                   ELSE IF s = rsock'[r] THEN "reading"
                                   ELSE place[s]]
      /\ trigger' = TRUE
      /\ UNCHANGED <<theirs, dpc, stop, flags, hasConn, queueVars, limits, connVars, query, mpc>>
  BY DEF ReaderDone
<1>1. /\ place \in [Socks -> Places] /\ idle \in Nat /\ state \in [Socks -> States]
      /\ d \in Socks /\ place[d] = "reading" /\ state[d] = "READWAIT"
  <2>1. Count(rpc, Readers, {"awake", "sleep", "gone"}) \in Nat
    BY CountType, DriverAssumption
  <2>2. d \in Socks /\ place[d] = "reading"
    BY <1>0 DEF DriverInv, ReaderSocks, With
  <2>3. state[d] \in StatesAt("reading")
    BY <2>2 DEF DriverInv, Sockets
  <2> QED  BY <2>1, <2>2, <2>3 DEF DriverInv, Sockets, IdleCounted, StatesAt
<1> HIDE DEF d
<1>2. rsock'[r] \in Socks => place[rsock'[r]] = "read"
  <2>1. CASE readList = <<>>
    BY <1>0, <2>1, DriverAssumption DEF TakeSock, DriverInv, ReaderSocks
  <2>2. CASE readList # <<>>
    <3>1. Head(readList) \in With("read")
      BY <2>2, HeadTailHas DEF DriverInv, ReadList
    <3>2. rsock'[r] = Head(readList)
      BY <1>0, <2>2 DEF TakeSock, DriverInv, ReaderSocks
    <3> QED  BY <3>1, <3>2 DEF With
  <2> QED  BY <2>1, <2>2
<1>3. TakesPlaces(r)
  <2>1. place' \in [Socks -> Places]
    BY <1>0, <1>1 DEF Places
  <2> QED  BY <1>0, <2>1 DEF TakesPlaces, d
<1>4. ReadList' /\ ReaderSocks' /\ IdleCounted' /\ Sleepers'
  <2>1. idle + 1 = idle + Here(rpc[r], {"reading"}) /\ rpc[r] \in {"awake", "reading"}
    BY <1>0 DEF Here
  <2> QED  BY <1>0, <1>3, <2>1, TakeSockKeeps
<1>5. Scalars' /\ DriverWoken'
  BY <1>0 DEF DriverInv, Scalars, Shutdown, theirs, DriverWoken
<1>6. Sockets'
  <2>1. \A s \in Socks : state'[s] \in StatesAt(place'[s])
    <3>1. ASSUME NEW s \in Socks PROVE state'[s] \in StatesAt(place'[s])
      <4>1. CASE s = d
        <5>1. state'[s] = o /\ place'[s] = "run"
          BY <1>0, <1>1, <4>1
        <5> QED  BY <5>1 DEF StatesAt
      <4>2. CASE s # d /\ s = rsock'[r]
        BY <1>0, <1>1, <1>2, <4>2 DEF DriverInv, Sockets, StatesAt
      <4>3. CASE s # d /\ s # rsock'[r]
        BY <1>0, <1>1, <4>3 DEF DriverInv, Sockets
      <4> QED  BY <4>1, <4>2, <4>3
    <3> QED  BY <3>1
  <2>2. ReadHasConn'
    BY <1>0, <1>1 DEF DriverInv, Sockets, ReadHasConn, With
  <2>3. state' \in [Socks -> States]
    BY <1>0, <1>1 DEF States
  <2> QED  BY <1>0, <1>3, <2>1, <2>2, <2>3 DEF DriverInv, Sockets, TakesPlaces
<1>7. UNCHANGED <<connq, todo, due, freeing, closing, done, around, nrunning, maxrun>>
  BY <1>0 DEF queueVars, theirs, limits, connVars
<1>8. Queue' /\ Phases' /\ Alone'
  <2>1. \A s \in Socks :
            /\ place'[s] = "queue" <=> place[s] = "queue"
            /\ place[s] = "queue" => state'[s] = state[s]
            /\ place'[s] = "wait" /\ state'[s] = "RUNWAIT"
                  <=> place[s] = "wait" /\ state[s] = "RUNWAIT"
    BY <1>0, <1>1, <1>2
  <2> QED  BY <1>0, <1>7, <2>1, QueueSame, PhasesKept, AloneKept DEF DriverInv
<1>9. Counted'
  <2>1. \A s \in Socks : \A st \in {"RUNNING", "RUNWAIT"} : state'[s] = st <=> state[s] = st
    BY <1>0, <1>1
  <2>2. closing \in Nat /\ done \in Nat /\ freeing \in Nat
    BY DEF DriverInv, Counted
  <2> QED  BY <1>0, <1>7, <2>1, <2>2, CountedKept DEF DriverInv
<1> QED  BY <1>4, <1>5, <1>6, <1>8, <1>9 DEF DriverInv

(* The sockets of a set, in some order.                                    *)
LEMMA OrdersAre ==
    ASSUME NEW S \in SUBSET Socks, NEW q \in Orders(S)
    PROVE  q \in Seq(Socks) /\ IsInjective(q) /\ Range(q) = S
<1>1. Cardinality(S) \in Nat
  BY DriverAssumption, FS_Subset, FS_CardinalityType
<1>2. /\ q \in [1 .. Cardinality(S) -> S] /\ IsInjective(q)
      /\ \A s \in S : \E i \in 1 .. Cardinality(S) : q[i] = s
  BY DEF Orders, Bijection, Injection, Surjection
<1>3. q \in Seq(Socks)
  BY <1>1, <1>2
<1>4. Range(q) = S
  BY <1>2 DEF Range
<1> QED  BY <1>2, <1>3, <1>4

(* The loop that creates readers ends, and does not leave the driver       *)
(* without one.                                                            *)
LEMMA CreatedIs ==
    ASSUME ReaderSocks, IdleCounted, NEW n \in Nat
    PROVE  /\ Created(n) \in Nat
           /\ n > 0 /\ Created(n) = 0 => \E r \in Readers : rpc[r] # "none"
<1> DEFINE M == Cardinality(Readers) - nreaders
           Enough(k) == k = M \/ ~TooFew(n, k)
<1>1. /\ nreaders \in Nat /\ Cardinality(Readers) \in Nat /\ M \in Nat
      /\ nreaders = 0 <=> \A r \in Readers : rpc[r] = "none"
  <2> DEFINE there == {r \in Readers : rpc[r] # "none"}
  <2>1. /\ IsFiniteSet(there) /\ Cardinality(there) \in Nat /\ Cardinality(Readers) \in Nat
        /\ Cardinality(there) <= Cardinality(Readers)
    BY DriverAssumption, FS_Subset, FS_CardinalityType
  <2>2. Cardinality(there) = 0 <=> there = {}
    BY <2>1, FS_EmptySet
  <2>3. nreaders = Cardinality(there)
    BY DEF nreaders
  <2>4. there = {} <=> \A r \in Readers : rpc[r] = "none"
    OBVIOUS
  <2> HIDE DEF there
  <2> QED  BY <2>1, <2>2, <2>3, <2>4
<1>2. Cardinality(Readers) > 0
  BY DriverAssumption, FS_EmptySet, <1>1
<1>3. idle \in Nat /\ ((\A r \in Readers : rpc[r] = "none") => idle = 0)
  <2> DEFINE A == {"awake", "sleep", "gone"}
  <2>1. /\ Count(rpc, Readers, A) \in Nat
        /\ Count(rpc, Readers, A) = 0 <=> \A r \in Readers : rpc[r] \notin A
    <3> HIDE DEF A
    <3> QED  BY CountType, DriverAssumption
  <2>2. (\A r \in Readers : rpc[r] = "none") => \A r \in Readers : rpc[r] \notin A
    OBVIOUS
  <2>3. idle = Count(rpc, Readers, A)
    BY DEF IdleCounted
  <2> HIDE DEF A
  <2> QED  BY <2>1, <2>2, <2>3
<1>4. PICK m \in {k \in Nat : Enough(k)} : \A k \in {k \in Nat : Enough(k)} : m <= k
  <2>1. M \in {k \in Nat : Enough(k)}
    BY <1>1
  <2> HIDE DEF M
  <2> QED  BY <2>1, LeastNat
<1>5. m <= M /\ m \in 0 .. M
  BY <1>1, <1>4
<1>6. \A j \in 0 .. m - 1 : TooFew(n, j)
  <2>1. ASSUME NEW j \in 0 .. m - 1, ~TooFew(n, j) PROVE FALSE
    <3>1. j \in Nat /\ Enough(j) /\ j < m
      BY <2>1, <1>4
    <3> QED  BY <3>1, <1>4
  <2> QED  BY <2>1
<1>7. /\ Created(n) \in 0 .. M
      /\ Created(n) = M \/ ~TooFew(n, Created(n))
  <2> DEFINE P(k) == Enough(k) /\ \A j \in 0 .. k - 1 : TooFew(n, j)
  <2>1. Created(n) = CHOOSE k \in 0 .. M : P(k)
    BY DEF Created
  <2>2. P(m)
    BY <1>4, <1>6
  <2>3. \E k \in 0 .. M : P(k)
    BY <1>5, <2>2
  <2> HIDE DEF M, P
  <2>4. Created(n) \in 0 .. M /\ P(Created(n))
    BY <2>1, <2>3
  <2> QED  BY <2>4 DEF P
<1>8. ASSUME n > 0, Created(n) = 0, \A r \in Readers : rpc[r] = "none" PROVE FALSE
  <2>1. M = Cardinality(Readers) /\ idle = 0
    BY <1>1, <1>3, <1>8
  <2>2. TooFew(n, 0)
    BY <1>8, <2>1 DEF TooFew
  <2> QED  BY <1>2, <1>7, <1>8, <2>1, <2>2
<1> QED  BY <1>1, <1>7, <1>8

LEMMA HandOverKeeps == ASSUME DriverInv, HandOver PROVE DriverInv'
<1> DEFINE n == Cardinality(With("toread"))
           k == Created(n)
           A == {"awake", "sleep", "gone"}
<1>1. PICK socks \in Orders(With("toread")) : readList' = socks \o readList
  BY DEF HandOver
<1>2. PICK R \in NewReaders(k) :
        LET created == [r \in Readers |-> IF r \in R THEN "awake" ELSE rpc[r]]
        IN  IF n > k THEN Signal(created) ELSE rpc' = created /\ UNCHANGED qpc
  BY DEF HandOver
<1> DEFINE created == [r \in Readers |-> IF r \in R THEN "awake" ELSE rpc[r]]
<1>3. IF n > k THEN Signal(created) ELSE rpc' = created /\ UNCHANGED qpc
  BY <1>2
<1>4. /\ idle' = idle + k /\ dpc = "hand" /\ dpc' = Phase(0, FALSE, todo, query)
      /\ place' = [s \in Socks |-> IF place[s] = "toread" THEN "read" ELSE place[s]]
      /\ UNCHANGED <<theirs, stop, flags, trigger, state, hasConn, queueVars, rsock, limits,
                     connVars, query, mpc>>
  BY DEF HandOver
<1>5. /\ rpc \in [Readers -> ReaderPlaces] /\ qpc \in [Queriers -> QuerierPlaces]
      /\ place \in [Socks -> Places] /\ state \in [Socks -> States]
  BY DEF DriverInv, ReaderSocks, Sleepers, Sockets, ReaderPlaces, QuerierPlaces
<1>6. With("toread") # {} /\ With("toread") \in SUBSET Socks
  BY <1>4 DEF DriverInv, ReadList, With
<1>7. n \in Nat /\ n > 0
  BY <1>6, DriverAssumption, FS_Subset, FS_CardinalityType, FS_EmptySet
<1> HIDE DEF n
<1>8. k \in Nat /\ (k = 0 => \E r \in Readers : rpc[r] # "none")
  BY <1>7, CreatedIs DEF DriverInv
<1> HIDE DEF k
<1>9. R \in SUBSET Readers /\ (\A r \in R : rpc[r] = "none") /\ Cardinality(R) = k
  BY DEF NewReaders
<1>10. /\ created \in [Readers -> ReaderPlaces]
       /\ \A r \in Readers : created[r] = IF r \in R THEN "awake" ELSE rpc[r]
  BY <1>5 DEF ReaderPlaces
<1> HIDE DEF created
<1>11. Count(created, Readers, A) = Count(rpc, Readers, A) + k
  <2> DEFINE before == {r \in Readers : rpc[r] \in A}
  <2>1. {r \in Readers : created[r] \in A} = before \cup R
    BY <1>9, <1>10
  <2>2. before \cap R = {}
    BY <1>9
  <2>3. IsFiniteSet(before) /\ IsFiniteSet(R)
    BY <1>9, DriverAssumption, FS_Subset
  <2>4. Cardinality(before \cup R) = Cardinality(before) + Cardinality(R)
    <3> HIDE DEF before
    <3> QED  BY <2>2, <2>3, CountDisjoint
  <2>5. Count(rpc, Readers, A) = Cardinality(before) /\ Count(created, Readers, A) = Cardinality(before \cup R)
    BY <2>1 DEF Count
  <2> QED  BY <1>9, <2>4, <2>5
<1>12. Woken(created)
  <2>1. CASE Signal(created)
    BY <1>5, <1>10, <2>1, SignalWakes
  <2>2. CASE rpc' = created /\ UNCHANGED qpc
    BY <1>5, <1>10, <2>2 DEF Woken
  <2> QED  BY <1>3, <2>1, <2>2
<1>13. /\ Count(rpc', Readers, A) = Count(created, Readers, A)
       /\ \A r \in Readers : \A p \in {"none", "reading", "gone"} : rpc'[r] = p <=> created[r] = p
       /\ \A r \in Readers : created[r] = "awake" => rpc'[r] = "awake"
       /\ \A q \in Queriers : Sleeps(qpc'[q]) => Sleeps(qpc[q])
  BY <1>10, <1>12, WokenAre
<1>14. /\ dpc' \in {"queue", "answer", "poll"} /\ (dpc' = "queue" => todo # <<>>)
       /\ todo # <<>> => dpc' = "queue"
  BY <1>4 DEF Phase
<1>15. Scalars' /\ Counted' /\ Queue' /\ Phases' /\ Alone' /\ DriverWoken'
  <2>1. UNCHANGED <<async, connq, todo, due, freeing, around, nrunning, maxrun>>
    BY <1>4 DEF queueVars, theirs, limits
  <2>2. Scalars' /\ Counted' /\ Alone'
    BY <1>4, <1>14, <2>1, LimitsKept, AloneKept DEF DriverInv, Scalars, Shutdown
  <2>3. \A s \in Socks : \A p \in {"queue", "wait", "run", "close"} : place'[s] = p <=> place[s] = p
    BY <1>4, <1>5
  <2>4. Queue'
    BY <1>4, <2>1, <2>3, QueueSame DEF DriverInv
  <2>5. Phases'
    BY <1>4, <1>14, <2>1 DEF DriverInv, Phases
  <2>6. With("run")' = With("run") /\ With("close")' = With("close")
    BY <2>3 DEF With
  <2>7. /\ (trigger' <=> trigger) /\ done' = done /\ (query' <=> query) /\ (stop' <=> stop)
        /\ flags' = flags
    BY <1>4 DEF connVars
  <2>8. DriverWoken'
    BY <2>6, <2>7 DEF DriverInv, DriverWoken, Shutdown
  <2> QED  BY <2>2, <2>4, <2>5, <2>8
<1>16. Sockets'
  <2>1. \A s \in Socks : state'[s] \in StatesAt(place'[s])
    BY <1>4, <1>5 DEF DriverInv, Sockets, StatesAt
  <2>2. ReadHasConn'
    BY <1>4, <1>5 DEF DriverInv, Sockets, ReadHasConn, With
  <2>3. place' \in [Socks -> Places]
    BY <1>4, <1>5 DEF Places
  <2> QED  BY <1>4, <2>1, <2>2, <2>3 DEF DriverInv, Sockets
<1>17. ReadList'
  <2>1. socks \in Seq(Socks) /\ IsInjective(socks) /\ Range(socks) = With("toread")
    BY <1>6, OrdersAre
  <2>2. readList \in Seq(Socks) /\ IsInjective(readList) /\ Range(readList) = With("read")
    BY DEF DriverInv, ReadList
  <2>3. Range(socks) \cap Range(readList) = {}
    BY <2>1, <2>2 DEF With
  <2>4. /\ socks \o readList \in Seq(Socks) /\ IsInjective(socks \o readList)
        /\ Range(socks \o readList) = Range(socks) \cup Range(readList)
    BY <2>1, <2>2, <2>3, ConcatHas
  <2>5. With("read")' = With("toread") \cup With("read")
    BY <1>4, <1>5 DEF With
  <2> QED  BY <1>1, <1>14, <2>1, <2>2, <2>4, <2>5 DEF ReadList
<1>18. ReaderSocks'
  <2>1. \A r \in Readers : rpc'[r] = "reading" => rpc[r] = "reading"
    BY <1>10, <1>13
  <2>2. With("reading")' = With("reading")
    BY <1>4, <1>5 DEF With
  <2>3. rpc' \in [Readers -> ReaderPlaces]
    BY <1>12 DEF Woken
  <2> QED  BY <1>4, <2>1, <2>2, <2>3 DEF DriverInv, ReaderSocks, ReaderPlaces
<1>19. IdleCounted'
  <2>1. idle = Count(rpc, Readers, A) /\ ((\E r \in Readers : rpc[r] = "gone") => Shutdown)
    BY DEF DriverInv, IdleCounted
  <2>2. idle' = Count(rpc', Readers, A)
    BY <1>4, <1>11, <1>13, <2>1
  <2>3. \A r \in Readers : rpc'[r] = "gone" => rpc[r] = "gone"
    BY <1>10, <1>13
  <2> QED  BY <1>4, <2>1, <2>2, <2>3 DEF IdleCounted, Shutdown
<1>20. Sleepers'
  <2>1. qpc' \in [Queriers -> QuerierPlaces] /\ QueriersWoken'
    BY <1>4, <1>12, <1>13 DEF DriverInv, Sleepers, QueriersWoken, Woken
  <2>2. \A r \in R : r \in Readers /\ rpc'[r] = "awake"
    BY <1>9, <1>10, <1>13
  <2>3. R = {} => k = 0
    BY <1>9, FS_EmptySet
  <2>4. \A r \in Readers : rpc[r] # "none" => rpc'[r] # "none"
    BY <1>10, <1>13
  <2>5. \E r \in Readers : rpc'[r] # "none"
    BY <1>8, <2>2, <2>3, <2>4
  <2>6. ASSUME ~Shutdown, R = {}, "QUERY" \notin flags
        PROVE  \E r \in Readers : rpc'[r] \in {"awake", "reading"}
    <3>1. Signal(created) /\ created = rpc
      <4>1. \A r \in Readers : created[r] = rpc[r]
        BY <1>10, <2>6
      <4>2. created = rpc
        BY <1>5, <1>10, <4>1
      <4> QED  BY <1>3, <1>7, <2>3, <2>6, <4>2
    <3>2. CASE (\A r \in Readers : ~Sleeps(rpc[r])) /\ rpc' = created
      <4>1. PICK r \in Readers : rpc'[r] # "none"
        BY <2>5
      <4>2. rpc[r] \in ReaderPlaces /\ rpc'[r] = rpc[r] /\ rpc[r] # "sleep" /\ rpc[r] # "gone"
        BY <1>5, <2>6, <3>1, <3>2 DEF DriverInv, IdleCounted, Sleeps, Roused
      <4> QED  BY <4>1, <4>2 DEF ReaderPlaces
    <3>3. ~MainSleeps
      BY <2>6 DEF MainSleeps, DriverInv, Scalars
    <3>4. CASE \E r \in Readers : Sleeps(rpc[r]) /\ rpc' = [created EXCEPT ![r] = Roused(@)]
      <4>1. PICK r \in Readers : Sleeps(rpc[r]) /\ rpc' = [created EXCEPT ![r] = Roused(@)]
        BY <3>4
      <4>2. rpc[r] = "sleep"
        BY <1>5, <4>1 DEF Sleeps, Roused, ReaderPlaces
      <4>3. rpc'[r] = "awake"
        BY <1>5, <3>1, <4>1, <4>2 DEF Roused
      <4> QED  BY <4>3
    <3>5. \A q \in Queriers : ~Sleeps(qpc[q])
      BY <2>6 DEF DriverInv, Sleepers, QueriersWoken
    <3> QED  BY <3>1, <3>2, <3>3, <3>4, <3>5 DEF Signal
  <2>7. ReadersWoken'
    BY <1>4, <2>2, <2>6 DEF ReadersWoken, Shutdown
  <2> QED  BY <2>1, <2>5, <2>7 DEF Sleepers, QuerierPlaces
<1> QED  BY <1>15, <1>16, <1>17, <1>18, <1>19, <1>20 DEF DriverInv

-----------------------------------------------------------------------------
(* The driver thread under the lock of the Limits.                         *)

LEMMA FreeConnKeeps == ASSUME DriverInv, FreeConn PROVE DriverInv'
<1>1. /\ dpc = "free" /\ nrunning' = Less(nrunning) /\ freeing' = freeing - 1
      /\ dpc' = Phase(freeing', With("toread") # {}, todo, query)
      /\ UNCHANGED <<theirs, stop, flags, trigger, sockVars, connq, todo, due, readVars, maxrun,
                     maxwait, nwaiting, connVars, query, qpc, mpc>>
  BY DEF FreeConn
<1>2. UNCHANGED <<async, around, other, spc, saved, undone, state, place, hasConn, readList, idle,
                  rpc, rsock, closing, done>>
  BY <1>1 DEF theirs, sockVars, readVars, connVars
<1>3. closing \in Nat /\ done \in Nat /\ freeing \in Nat /\ freeing > 0 /\ freeing' \in Nat
  <2>1. closing \in Nat /\ done \in Nat /\ freeing \in Nat /\ freeing > 0
    BY <1>1 DEF DriverInv, Counted, Phases
  <2> QED  BY <1>1, <2>1
<1>4. /\ dpc' \in {"free", "hand", "queue", "answer", "poll"}
      /\ dpc' = "free" <=> freeing' > 0
      /\ dpc' = "hand" => With("toread") # {}
      /\ dpc' = "queue" => todo # <<>>
      /\ todo # <<>> => dpc' \in {"free", "hand", "queue"}
  BY <1>1, <1>3 DEF Phase
<1>5. Scalars' /\ Sockets' /\ Queue' /\ ReaderSocks'
  BY <1>1, <1>2, <1>4, SocketsKept, QueueKept, ReadersKept DEF DriverInv, Scalars, Shutdown
<1>6. connq = <<>> /\ Phases' /\ Alone'
  BY <1>1, <1>4 DEF DriverInv, Phases, Alone, Room
<1>7. ReadList'
  BY <1>1, <1>2, <1>4 DEF DriverInv, ReadList, With
<1>8. IdleCounted' /\ Sleepers' /\ DriverWoken'
  <2>1. IdleCounted' /\ Sleepers'
    BY <1>1, <1>2 DEF DriverInv, IdleCounted, Sleepers, ReadersWoken, QueriersWoken, Shutdown
  <2> QED  BY <1>1, <1>2, <2>1, ToldKept DEF DriverInv
<1>9. Counted'
  <2>1. /\ RunningNow \in Int /\ nrunning \in Words /\ Agrees(nrunning, RunningNow)
    BY CountsAre DEF DriverInv, Counted
  <2>2. nrunning' \in Words /\ Agrees(nrunning', RunningNow - 1)
    BY <1>1, <2>1, CountsOn
  <2> DEFINE x == Count(state, Socks, {"RUNNING"}) + Count(other, Others, {"RUNNING"})
  <2>3. x \in Nat /\ undone.running \in Int
    BY CountsAre DEF DriverInv
  <2>4. /\ RunningNow = x + (closing + done + freeing) + undone.running
        /\ RunningNow' = x + (closing + done + freeing') + undone.running
    BY <1>2 DEF RunningNow
  <2> HIDE DEF x
  <2>5. RunningNow' = RunningNow - 1
    BY <1>1, <1>3, <2>3, <2>4
  <2>6. WaitingNow' = WaitingNow
    BY <1>2 DEF WaitingNow
  <2> QED  BY <1>1, <1>2, <1>3, <2>2, <2>5, <2>6 DEF DriverInv, Counted
<1> QED  BY <1>5, <1>6, <1>7, <1>8, <1>9 DEF DriverInv

(* One Conn of the queue: s, whose outcome is next, goes to state st and   *)
(* place pl.                                                               *)
Queues(s, next, st, pl) ==
    /\ s = Head(todo) /\ s \in Socks /\ place[s] = "queue"
    /\ Turn(next, state[s] = "RUNWAIT")
    /\ st = (IF next.state = "DROPPED" THEN "CLOSED" ELSE next.state)
    /\ pl = (IF next.state = "DROPPED" THEN "free"
             ELSE IF next.state = "RUNWAIT" THEN "wait" ELSE "conn")
    /\ state' = [state EXCEPT ![s] = st] /\ place' = [place EXCEPT ![s] = pl]
    /\ connq' = IF next.state = "RUNWAIT" THEN Append(connq, s) ELSE connq
    /\ todo' = Tail(todo)
    /\ nrunning' = next.nrunning /\ nwaiting' = next.nwaiting
    /\ UNCHANGED <<around, maxrun>>

LEMMA QueueConnIs ==
    ASSUME DriverInv, QueueConn PROVE \E s, next, st, pl : Queues(s, next, st, pl)
<1> DEFINE s == Head(todo)
           next == RunNext(state[s] = "RUNWAIT", due[s])
           st == IF next.state = "DROPPED" THEN "CLOSED" ELSE next.state
           pl == CASE next.state = "DROPPED" -> "free"
                   [] next.state = "RUNWAIT" -> "wait"
                   [] OTHER                  -> "conn"
<1>1. /\ nrunning' = next.nrunning /\ nwaiting' = next.nwaiting
      /\ state' = [state EXCEPT ![s] = st] /\ place' = [place EXCEPT ![s] = pl]
      /\ connq' = IF next.state = "RUNWAIT" THEN Append(connq, s) ELSE connq
      /\ todo' = Tail(todo) /\ UNCHANGED <<theirs, maxrun>>
  BY DEF QueueConn
<1>2. s \in Socks /\ place[s] = "queue"
  <2>1. todo # <<>> /\ todo \in Seq(Socks) /\ IsInjective(todo) /\ Range(todo) = With("queue")
    BY DEF DriverInv, Queue, Phases, QueueConn
  <2> QED  BY <2>1, HeadTailHas DEF With
<1>3. Turn(next, state[s] = "RUNWAIT")
  BY RunNextIs DEF DriverInv
<1>4. pl = IF next.state = "DROPPED" THEN "free"
           ELSE IF next.state = "RUNWAIT" THEN "wait" ELSE "conn"
  OBVIOUS
<1> HIDE DEF s, next, pl
<1>5. Queues(s, next, st, pl)
  BY <1>1, <1>2, <1>3, <1>4 DEF Queues, theirs, s
<1> QED  BY <1>5

(* A Conn is not left waiting beside room, and one that runs leaves none   *)
(* that was not there.                                                     *)
LEMMA QueueLeavesNoRoom ==
    ASSUME Counted, NEW s, NEW next, NEW st, NEW pl, Queues(s, next, st, pl), Room' PROVE Room
<1>1. /\ nrunning \in Int /\ maxrun \in Int
  BY DriverAssumption DEF Counted, Words
<1>2. /\ connq' # <<>> /\ nrunning' < maxrun /\ nrunning' = next.nrunning
      /\ connq' = IF next.state = "RUNWAIT" THEN Append(connq, s) ELSE connq
      /\ next.state = "RUNNING" => next.nrunning = nrunning + 1
      /\ next.state # "RUNNING" => next.nrunning = nrunning
      /\ next.state = "RUNWAIT" => nrunning >= maxrun
  BY DEF Queues, Turn, Room
<1>3. next.state # "RUNWAIT" /\ nrunning < maxrun
  BY <1>1, <1>2
<1> QED  BY <1>2, <1>3 DEF Room

LEMMA QueueConnKeeps == ASSUME DriverInv, QueueConn PROVE DriverInv'
<1>1. PICK s, next, st, pl : Queues(s, next, st, pl)
  BY QueueConnIs
<1>2. /\ dpc = "queue" /\ dpc' = Phase(0, FALSE, todo', query)
      /\ hasConn' = [hasConn EXCEPT ![Head(todo)] = @ /\ state'[Head(todo)] = "RUNWAIT"]
      /\ due' = [due EXCEPT ![Head(todo)] = "queue"]
      /\ UNCHANGED <<theirs, stop, flags, trigger, freeing, readVars, maxrun, maxwait, connVars,
                     query, qpc, mpc>>
  <2>1. state \in [Socks -> States] /\ Head(todo) \in Socks
    BY <1>1 DEF Queues, DriverInv, Sockets
  <2> QED  BY <2>1 DEF QueueConn
<1>3. UNCHANGED <<async, around, other, spc, saved, undone, readList, idle, rpc, rsock, closing, done>>
  BY <1>2 DEF theirs, readVars, connVars
<1>4. /\ s = Head(todo) /\ s \in Socks /\ place[s] = "queue"
      /\ state[s] \in {"PREQUE", "QUEWAIT", "RUNWAIT"}
      /\ state \in [Socks -> States] /\ place \in [Socks -> Places] /\ hasConn \in [Socks -> BOOLEAN]
      /\ Turn(next, state[s] = "RUNWAIT") /\ next.state \in Outcomes
      /\ st = (IF next.state = "DROPPED" THEN "CLOSED" ELSE next.state)
      /\ pl = (IF next.state = "DROPPED" THEN "free"
               ELSE IF next.state = "RUNWAIT" THEN "wait" ELSE "conn")
      /\ state' = [state EXCEPT ![s] = st] /\ place' = [place EXCEPT ![s] = pl]
      /\ connq' = IF next.state = "RUNWAIT" THEN Append(connq, s) ELSE connq
      /\ todo' = Tail(todo)
      /\ nrunning' = next.nrunning /\ nwaiting' = next.nwaiting
  BY <1>1 DEF Queues, Turn, DriverInv, Sockets, StatesAt
<1>5. /\ st \in States /\ pl \in Places /\ st \in StatesAt(pl)
      /\ pl \in {"free", "wait", "conn"} /\ (pl = "wait" <=> st = "RUNWAIT")
      /\ st = "RUNNING" <=> next.state = "RUNNING"
      /\ st = "RUNWAIT" <=> next.state = "RUNWAIT"
  BY <1>4 DEF Outcomes, States, Places, StatesAt
<1>6. /\ state' \in [Socks -> States] /\ place' \in [Socks -> Places]
      /\ state'[s] = st /\ place'[s] = pl
      /\ \A u \in Socks : u # s => state'[u] = state[u] /\ place'[u] = place[u]
  BY <1>4, <1>5
<1>7. /\ dpc' \in {"queue", "answer", "poll"}
      /\ dpc' = "queue" => todo' # <<>>
      /\ todo' # <<>> => dpc' = "queue"
  BY <1>2 DEF Phase
<1>8. Scalars'
  BY <1>2, <1>3, <1>7 DEF DriverInv, Scalars, Shutdown
<1>9. Sockets'
  <2>1. \A u \in Socks : state'[u] \in StatesAt(place'[u])
    BY <1>5, <1>6 DEF DriverInv, Sockets
  <2>2. hasConn' \in [Socks -> BOOLEAN] /\ \A u \in Socks : u # s => hasConn'[u] = hasConn[u]
    BY <1>2, <1>4
  <2>3. ReadHasConn'
    BY <1>2, <1>5, <1>6, <2>2 DEF DriverInv, Sockets, ReadHasConn, With
  <2> QED  BY <1>6, <2>1, <2>2, <2>3 DEF Sockets
<1>10. Counted'
  <2>1. Shifted(Count(state', Socks, {"RUNNING"}), Count(state, Socks, {"RUNNING"}),
                state[s], st, {"RUNNING"})
    BY <1>4, CountPut, DriverAssumption
  <2>2. Shifted(Count(state', Socks, {"RUNWAIT"}), Count(state, Socks, {"RUNWAIT"}),
                state[s], st, {"RUNWAIT"})
    BY <1>4, CountPut, DriverAssumption
  <2>3. /\ Here(state[s], {"RUNNING"}) = 0
        /\ Here(state[s], {"RUNWAIT"}) = IF state[s] = "RUNWAIT" THEN 1 ELSE 0
        /\ Here(st, {"RUNNING"}) = Here(next.state, {"RUNNING"})
        /\ Here(st, {"RUNWAIT"}) = Here(next.state, {"RUNWAIT"})
        /\ Here(next.state, {"RUNNING"}) \in Int /\ Here(next.state, {"RUNWAIT"}) \in Int
    BY <1>4, <1>5 DEF Here
  <2> DEFINE n == Count(state, Socks, {"RUNNING"})
             m == Count(state', Socks, {"RUNNING"})
             k == Count(other, Others, {"RUNNING"})
             d == closing + done + freeing
             h == Here(next.state, {"RUNNING"})
             v == Count(state, Socks, {"RUNWAIT"})
             w == Count(state', Socks, {"RUNWAIT"})
             l == Count(other, Others, {"RUNWAIT"})
             g == Here(next.state, {"RUNWAIT"})
             c == IF state[s] = "RUNWAIT" THEN 1 ELSE 0
  <2>4. /\ n \in Nat /\ k \in Nat /\ v \in Nat /\ l \in Nat /\ h \in Int /\ g \in Int /\ c \in Int
        /\ undone.running \in Int /\ undone.waiting \in Int /\ d \in Nat
    BY <2>3, CountsAre DEF DriverInv, Counted
  <2>5. /\ m = n + h - 0 /\ w = v + g - c
        /\ RunningNow = n + k + d + undone.running /\ RunningNow' = m + k + d + undone.running
        /\ WaitingNow = v + l + undone.waiting /\ WaitingNow' = w + l + undone.waiting
    BY <1>2, <1>3, <2>1, <2>2, <2>3 DEF Shifted, RunningNow, WaitingNow
  <2>6. /\ Agrees(nrunning', RunningNow + h) /\ Agrees(nwaiting', WaitingNow + g - c)
        /\ nrunning' \in Words /\ nwaiting' \in Words
    BY <1>4 DEF Turn
  <2> HIDE DEF n, m, k, d, h, v, w, l, g, c
  <2>7. RunningNow' = RunningNow + h
    BY <2>4, <2>5
  <2>8. WaitingNow' = WaitingNow + g - c
    BY <2>4, <2>5
  <2> QED  BY <1>2, <1>3, <2>6, <2>7, <2>8 DEF DriverInv, Counted
<1>11. /\ connq \in Seq(Socks) /\ IsInjective(connq)
       /\ Range(connq) = {u \in With("wait") : state[u] = "RUNWAIT"}
       /\ todo \in Seq(Socks) /\ IsInjective(todo) /\ Range(todo) = With("queue") /\ todo # <<>>
       /\ \A i, j \in DOMAIN todo : i < j /\ state[todo[j]] = "RUNWAIT" => state[todo[i]] = "RUNWAIT"
       /\ due \in [Socks -> ToQueue \cup {"drop"}]
  BY <1>2 DEF DriverInv, Queue, Phases
<1>12. /\ todo' \in Seq(Socks) /\ IsInjective(todo') /\ Range(todo') = Range(todo) \ {s}
  BY <1>4, <1>11, HeadTailHas
<1>13. Queue'
  <2>1. Range(todo') = With("queue")'
    BY <1>5, <1>6, <1>11, <1>12 DEF With
  <2>2. /\ connq' \in Seq(Socks) /\ IsInjective(connq')
        /\ Range(connq') = {u \in Socks : place'[u] = "wait" /\ state'[u] = "RUNWAIT"}
    <3>1. Range(connq) = {u \in Socks : place[u] = "wait" /\ state[u] = "RUNWAIT"}
      BY <1>11 DEF With
    <3>2. s \notin Range(connq)
      BY <1>4, <3>1
    <3>3. CASE next.state = "RUNWAIT"
      <4>1. connq' \in Seq(Socks) /\ IsInjective(connq') /\ Range(connq') = Range(connq) \cup {s}
        BY <1>4, <1>11, <3>2, <3>3, AppendHas
      <4> QED  BY <1>4, <1>5, <1>6, <3>1, <3>3, <4>1
    <3>4. CASE next.state # "RUNWAIT"
      BY <1>4, <1>5, <1>6, <1>11, <3>1, <3>4
    <3> QED  BY <3>3, <3>4
  <2>3. \A i, j \in DOMAIN todo' : i < j /\ state'[todo'[j]] = "RUNWAIT" => state'[todo'[i]] = "RUNWAIT"
    <3>1. \A i \in DOMAIN todo' : i + 1 \in DOMAIN todo /\ todo'[i] = todo[i + 1] /\ i \in Int
      BY <1>4, <1>11
    <3>2. \A i \in DOMAIN todo' : state'[todo'[i]] = state[todo'[i]]
      <4>1. \A i \in DOMAIN todo' : todo'[i] \in Range(todo')
        BY DEF Range
      <4> QED  BY <1>6, <1>11, <1>12, <4>1 DEF With
    <3> QED  BY <1>11, <3>1, <3>2
  <2>4. due' \in [Socks -> ToQueue \cup {"drop"}]
    BY <1>2, <1>11 DEF ToQueue
  <2>5. {u \in With("wait") : state[u] = "RUNWAIT"}'
          = {u \in Socks : place'[u] = "wait" /\ state'[u] = "RUNWAIT"}
    BY DEF With
  <2> QED  BY <1>12, <2>1, <2>2, <2>3, <2>4, <2>5 DEF Queue
<1>14. Phases'
  BY <1>2, <1>7 DEF DriverInv, Phases
<1>15. Alone'
  BY <1>1, QueueLeavesNoRoom DEF DriverInv, Alone, Queues
<1>16. \A p \in {"toread", "read", "reading", "run", "close"} : With(p)' = With(p)
  BY <1>4, <1>5, <1>6 DEF With
<1>17. ReadList' /\ ReaderSocks'
  BY <1>3, <1>7, <1>16 DEF DriverInv, ReadList, ReaderSocks
<1>18. IdleCounted' /\ Sleepers'
  BY <1>2, <1>3 DEF DriverInv, IdleCounted, Sleepers, ReadersWoken, QueriersWoken, Shutdown
<1>19. DriverWoken'
  <2>1. /\ (trigger' <=> trigger) /\ done' = done /\ (query' <=> query) /\ (stop' <=> stop)
        /\ flags' = flags
    BY <1>2, <1>3
  <2> QED  BY <1>16, <2>1 DEF DriverInv, DriverWoken, Shutdown
<1> QED  BY <1>8, <1>9, <1>10, <1>13, <1>14, <1>15, <1>17, <1>18, <1>19 DEF DriverInv

-----------------------------------------------------------------------------
(* A spin.                                                                 *)

(* Whether a socket is in the queue after the spin.                        *)
InQueue(s, fate) == state[s] = "RUNWAIT" \/ s \in Coming(fate)

(* Socket s goes to state n and place p.                                   *)
Spun(s, fate, n, p) ==
    /\ n \in States /\ p \in Places /\ n \in StatesAt(p)
    /\ n = "RUNWAIT" <=> state[s] = "RUNWAIT"
    /\ n = "RUNNING" <=> state[s] = "RUNNING"
    /\ p = "queue" <=> InQueue(s, fate)
    /\ p = "wait" => n # "RUNWAIT"
    /\ p \notin {"run", "close"}
    /\ p = "read" <=> place[s] = "read"
    /\ p = "reading" <=> place[s] = "reading"
    /\ fate[s] = "read" => p = "toread"
    /\ p = "wait" /\ n = "READWAIT" =>
          fate[s] = "keep" \/ Shutdown \/ (place[s] = "wait" /\ state[s] = "READWAIT")

LEMMA SpinSocket ==
    ASSUME Sockets, NEW s \in Socks, NEW fate, fate[s] \in Fates(s, Shutdown), fate[s] # "crash",
           place[s] # "queue"
    PROVE  Spun(s, fate, NewState(s, fate), NewPlace(s, fate))
<1> DEFINE f == fate[s]
           n == NewState(s, fate)
           p == NewPlace(s, fate)
           q == InQueue(s, fate)
<1>1. state[s] \in States /\ place[s] \in Places /\ state[s] \in StatesAt(place[s])
  BY DEF Sockets
<1>2. n = CASE f = "close" -> "CLOSED"
            [] f = "quewait" -> "QUEWAIT"
            [] state[s] # "RUNWAIT" /\ f \in ToQueue /\ state[s] # "QUEWAIT" -> "PREQUE"
            [] OTHER -> state[s]
  BY DEF NewState, Coming
<1>3. p = CASE f = "close" -> "free"
            [] f = "read" -> "toread"
            [] f \in {"keep", "drain", "quewait"} -> "wait"
            [] f \in ToQueue \cup {"drop"} -> "queue"
            [] OTHER -> place[s]
  BY DEF NewPlace
<1>4. f \in Fates(s, Shutdown) /\ f # "crash"
  OBVIOUS
<1>5. q <=> state[s] = "RUNWAIT" \/ f \in ToQueue
  BY DEF InQueue, Coming
<1> SUFFICES /\ n \in States /\ p \in Places /\ n \in StatesAt(p)
             /\ n = "RUNWAIT" <=> state[s] = "RUNWAIT"
             /\ n = "RUNNING" <=> state[s] = "RUNNING"
             /\ p = "queue" <=> q
             /\ p = "wait" => n # "RUNWAIT"
             /\ p \notin {"run", "close"}
             /\ p = "read" <=> place[s] = "read"
             /\ p = "reading" <=> place[s] = "reading"
             /\ f = "read" => p = "toread"
             /\ p = "wait" /\ n = "READWAIT" =>
                   f = "keep" \/ Shutdown \/ (place[s] = "wait" /\ state[s] = "READWAIT")
  BY DEF Spun
<1> HIDE DEF f, n, p, q
<1>6. CASE place[s] = "wait"
  <2>1. f \in FromWait(s, Shutdown) /\ state[s] \in {"CLOSEWAIT", "QUEWAIT", "RUNWAIT", "READWAIT"}
    BY <1>1, <1>4, <1>6 DEF Fates, StatesAt
  <2>2. CASE state[s] = "CLOSEWAIT"
    <3>1. f \in {"stay", "close"}
      BY <2>1, <2>2 DEF FromWait
    <3> QED  BY <1>2, <1>3, <1>5, <1>6, <2>2, <3>1 DEF States, Places, StatesAt, ToQueue
  <2>3. CASE state[s] = "QUEWAIT"
    <3>1. f \in {"stay", "close", "queue", "expire"}
      BY <2>1, <2>3 DEF FromWait, ToQueue
    <3> QED  BY <1>2, <1>3, <1>5, <1>6, <2>3, <3>1 DEF States, Places, StatesAt, ToQueue
  <2>4. CASE state[s] = "RUNWAIT"
    <3>1. f \in {"queue", "drop", "expire"}
      BY <2>1, <2>4 DEF FromWait
    <3> QED  BY <1>2, <1>3, <1>5, <1>6, <2>4, <3>1 DEF States, Places, StatesAt, ToQueue
  <2>5. CASE state[s] = "READWAIT"
    <3>1. f \in {"close", "stay", "quewait", "queue", "expire", "read"}
      BY <1>4, <2>1, <2>5 DEF FromWait, FromReadWait, ReadNow, PreQueue, ToQueue
    <3> QED  BY <1>2, <1>3, <1>5, <1>6, <2>5, <3>1 DEF States, Places, StatesAt, ToQueue
  <2> QED  BY <2>1, <2>2, <2>3, <2>4, <2>5
<1>7. CASE place[s] = "run"
  <2>1. f \in {"close", "quewait", "queue", "expire"} /\ state[s] \in {"PREQUE", "ERROR"}
    BY <1>1, <1>4, <1>7 DEF Fates, FromReader, PreQueue, ToQueue, StatesAt
  <2>2. state[s] = "ERROR" => f = "close"
    BY <1>4, <1>7, <2>1 DEF Fates, FromReader
  <2> QED  BY <1>2, <1>3, <1>5, <1>7, <2>1, <2>2 DEF States, Places, StatesAt, ToQueue
<1>8. CASE place[s] = "close"
  <2>1. state[s] \in {"READWAIT", "CLOSEWAIT"}
    BY <1>1, <1>8 DEF StatesAt
  <2>2. \/ f = "keep" /\ state[s] = "READWAIT"
        \/ f \in {"close", "drain"} /\ (Shutdown \/ state[s] = "CLOSEWAIT")
    BY <1>4, <1>8, <2>1 DEF Fates, FromClose
  <2> QED  BY <1>2, <1>3, <1>5, <1>8, <2>1, <2>2 DEF States, Places, StatesAt, ToQueue
<1>9. CASE place[s] \notin {"wait", "run", "close"}
  <2>1. f = "none"
    BY <1>4, <1>9 DEF Fates
  <2>2. state[s] # "RUNWAIT"
    BY <1>1, <1>9 DEF StatesAt, Places
  <2>3. n = state[s] /\ p = place[s] /\ ~q
    BY <1>2, <1>3, <1>5, <2>1, <2>2 DEF ToQueue
  <2> QED  BY <1>1, <1>9, <2>1, <2>2, <2>3
<1> QED  BY <1>6, <1>7, <1>8, <1>9

(* What a spin that does not crash does: q are the Conns it has to queue.  *)
SpinDoes(fate, accepted, new) ==
    /\ dpc = "poll" /\ freeing = 0 /\ todo = <<>>
    /\ \A s \in Socks : fate[s] \in Fates(s, Shutdown) /\ fate[s] # "crash"
    /\ state' \in [Socks -> States] /\ place' \in [Socks -> Places]
    /\ hasConn' \in [Socks -> BOOLEAN]
    /\ \A s \in Socks :
          IF s = accepted
          THEN /\ state'[s] = "READWAIT" /\ place'[s] = "wait" /\ hasConn'[s]
               /\ place[s] = "free" /\ state[s] = "CLOSED" /\ fate[s] = "none"
          ELSE Spun(s, fate, state'[s], place'[s])
    /\ \A s \in Socks : /\ fate[s] = "keep" => hasConn'[s]
                        /\ hasConn[s] /\ place'[s] = "wait" => hasConn'[s]
    /\ new \in Seq(Socks) /\ IsInjective(new) /\ Range(new) = Coming(fate)
    /\ connq' = <<>> /\ todo' = connq \o new
    /\ due' \in [Socks -> ToQueue \cup {"drop"}]
    /\ freeing' = done /\ done' = 0
    /\ stop' = Shutdown /\ trigger' = FALSE /\ query' = ("QUERY" \in flags)
    /\ dpc' = Phase(done, \E s \in Socks : fate[s] = "read", todo', query')

LEMMA SpinIs ==
    ASSUME DriverInv, NEW fate, NEW accepted \in Socks \cup {Nothing},
           NEW new \in Orders(Coming(fate)), Spin(fate, new, accepted),
           ~\E s \in Socks : fate[s] = "crash"
    PROVE  SpinDoes(fate, accepted, new)
<1> DEFINE st(s) == IF s = accepted THEN "READWAIT" ELSE NewState(s, fate)
           at(s) == IF s = accepted THEN "wait" ELSE NewPlace(s, fate)
           on(s) == IF fate[s] \in {"drop", "expire"} THEN fate[s] ELSE "queue"
<1>1. /\ dpc = "poll" /\ \A s \in Socks : fate[s] \in Fates(s, Shutdown) /\ fate[s] # "crash"
      /\ accepted # Nothing => place[accepted] = "free"
      /\ stop' = Shutdown /\ trigger' = FALSE
      /\ state' = [s \in Socks |-> st(s)] /\ place' = [s \in Socks |-> at(s)]
      /\ hasConn' = [s \in Socks |-> \/ s = accepted \/ fate[s] = "keep"
                                     \/ hasConn[s] /\ fate[s] # "close"]
      /\ connq' = <<>> /\ todo' = connq \o new
      /\ due' = [s \in Socks |-> on(s)]
      /\ freeing' = done /\ done' = 0
      /\ query' = ("QUERY" \in flags)
      /\ dpc' = Phase(done, \E s \in Socks : fate[s] = "read", todo', query')
  BY DEF Spin, Queued
<1>2. /\ Sockets /\ state \in [Socks -> States] /\ hasConn \in [Socks -> BOOLEAN]
      /\ todo = <<>> /\ freeing = 0 /\ Range(todo) = With("queue")
  <2>1. freeing \in Nat /\ ~(freeing > 0)
    BY <1>1 DEF DriverInv, Counted, Phases
  <2> QED  BY <1>1, <2>1 DEF DriverInv, Sockets, Queue, Phases
<1>3. new \in Seq(Socks) /\ IsInjective(new) /\ Range(new) = Coming(fate)
  <2>1. Coming(fate) \in SUBSET Socks
    BY DEF Coming
  <2> QED  BY <2>1, OrdersAre
<1>4. \A s \in Socks : place[s] # "queue"
  BY <1>2 DEF With, Range
<1>5. ASSUME NEW s \in Socks
      PROVE  IF s = accepted
             THEN /\ st(s) = "READWAIT" /\ at(s) = "wait"
                  /\ place[s] = "free" /\ state[s] = "CLOSED" /\ fate[s] = "none"
             ELSE Spun(s, fate, st(s), at(s))
  <2>1. CASE s = accepted
    <3>1. place[s] = "free" /\ fate[s] = "none"
      BY <1>1, <2>1, DriverAssumption DEF Fates
    <3> QED  BY <1>2, <2>1, <3>1 DEF Sockets, StatesAt
  <2>2. CASE s # accepted
    BY <1>1, <1>2, <1>4, <2>2, SpinSocket
  <2> QED  BY <2>1, <2>2
<1>6. \A s \in Socks : on(s) \in ToQueue \cup {"drop"}
  BY DEF ToQueue
<1>7. ASSUME NEW s \in Socks, fate[s] = "close", s # accepted PROVE at(s) = "free"
  <2>1. NewPlace(s, fate) = "free"
    BY <1>7 DEF NewPlace, ToQueue
  <2> QED  BY <1>7, <2>1
<1> HIDE DEF st, at, on
<1>8. \A s \in Socks : state'[s] = st(s) /\ place'[s] = at(s)
  BY <1>1
<1>9. state' \in [Socks -> States] /\ place' \in [Socks -> Places]
  <2>1. \A s \in Socks : st(s) \in States /\ at(s) \in Places
    BY <1>5 DEF Spun, States, Places
  <2> QED  BY <1>1, <2>1
<1>10. hasConn' \in [Socks -> BOOLEAN] /\ due' \in [Socks -> ToQueue \cup {"drop"}]
  BY <1>1, <1>2, <1>6
<1>11. \A s \in Socks : /\ fate[s] = "keep" => hasConn'[s]
                        /\ s = accepted => hasConn'[s]
                        /\ hasConn[s] /\ place'[s] = "wait" => hasConn'[s]
  BY <1>1, <1>2, <1>7, <1>8
<1>12. \A s \in Socks :
          IF s = accepted
          THEN /\ state'[s] = "READWAIT" /\ place'[s] = "wait" /\ hasConn'[s]
               /\ place[s] = "free" /\ state[s] = "CLOSED" /\ fate[s] = "none"
          ELSE Spun(s, fate, state'[s], place'[s])
  BY <1>5, <1>8, <1>11
<1> QED  BY <1>1, <1>2, <1>3, <1>9, <1>10, <1>11, <1>12 DEF SpinDoes

LEMMA SpinKeeps ==
    ASSUME DriverInv, NEW fate, NEW accepted \in Socks \cup {Nothing}, NEW new,
           SpinDoes(fate, accepted, new),
           UNCHANGED <<theirs, flags, readVars, limits, closing, qpc, mpc>>
    PROVE  DriverInv'
<1>1. /\ dpc = "poll" /\ freeing = 0 /\ todo = <<>>
      /\ state' \in [Socks -> States] /\ place' \in [Socks -> Places]
      /\ hasConn' \in [Socks -> BOOLEAN]
      /\ new \in Seq(Socks) /\ IsInjective(new) /\ Range(new) = Coming(fate)
      /\ connq' = <<>> /\ todo' = connq \o new
      /\ due' \in [Socks -> ToQueue \cup {"drop"}]
      /\ freeing' = done /\ done' = 0
      /\ stop' = Shutdown /\ trigger' = FALSE /\ query' = ("QUERY" \in flags)
      /\ dpc' = Phase(done, \E s \in Socks : fate[s] = "read", todo', query')
  BY DEF SpinDoes
<1>2. \A s \in Socks :
         IF s = accepted
         THEN /\ state'[s] = "READWAIT" /\ place'[s] = "wait" /\ hasConn'[s]
              /\ place[s] = "free" /\ state[s] = "CLOSED" /\ fate[s] = "none"
         ELSE Spun(s, fate, state'[s], place'[s])
  BY DEF SpinDoes
<1>3. /\ done \in Nat /\ closing \in Nat
      /\ UNCHANGED <<async, around, other, spc, saved, undone, nrunning, maxrun, closing>>
      /\ UNCHANGED <<readList, idle, rpc, rsock>>
  BY DEF DriverInv, Counted, theirs, limits, readVars
<1>4. /\ dpc' \in {"free", "hand", "queue", "answer", "poll"}
      /\ dpc' = "free" <=> done > 0
      /\ dpc' = "hand" => \E s \in Socks : fate[s] = "read"
      /\ dpc' = "queue" => todo' # <<>>
      /\ todo' # <<>> => dpc' \in {"free", "hand", "queue"}
  BY <1>1, <1>3 DEF Phase
<1>5. Scalars'
  <2>1. /\ query' = ("QUERY" \in flags) /\ stop' = ("SHUTDOWN" \in flags)
        /\ trigger' = FALSE
    BY <1>1 DEF Shutdown
  <2>2. query' \in BOOLEAN /\ stop' \in BOOLEAN /\ trigger' \in BOOLEAN
    <3>1. ("QUERY" \in flags) \in BOOLEAN /\ ("SHUTDOWN" \in flags) \in BOOLEAN
      OBVIOUS
    <3>2. query' \in BOOLEAN
      BY <2>1, <3>1, Zenon
    <3>3. stop' \in BOOLEAN
      BY <2>1, <3>1, Zenon
    <3> QED  BY <2>1, <3>2, <3>3
  <2>3. stop' => Shutdown'
    BY <2>1 DEF Shutdown
  <2>4. mpc' = "stopping" => Shutdown'
    BY DEF DriverInv, Scalars, Shutdown
  <2> QED  BY <1>3, <1>4, <2>2, <2>3, <2>4 DEF DriverInv, Scalars
<1>6. Sockets'
  <2>1. \A s \in Socks : state'[s] \in StatesAt(place'[s])
    BY <1>2 DEF Spun, StatesAt
  <2>2. ASSUME ~stop', NEW s \in Socks, place'[s] = "wait", state'[s] = "READWAIT"
        PROVE  hasConn'[s]
    <3>1. CASE s = accepted
      BY <1>2, <3>1
    <3>2. CASE s # accepted
      <4>1. fate[s] = "keep" \/ (place[s] = "wait" /\ state[s] = "READWAIT")
        BY <1>1, <1>2, <2>2, <3>2 DEF Spun
      <4>2. ~stop
        BY <1>1, <2>2 DEF DriverInv, Scalars
      <4>3. place[s] = "wait" /\ state[s] = "READWAIT" => hasConn[s]
        BY <4>2 DEF DriverInv, Sockets, ReadHasConn, With
      <4> QED  BY <2>2, <4>1, <4>3 DEF SpinDoes
    <3> QED  BY <3>1, <3>2
  <2>3. ReadHasConn'
    BY <2>2 DEF ReadHasConn, With
  <2> QED  BY <1>1, <2>1, <2>3 DEF Sockets
<1>7. \A s \in Socks : /\ state'[s] = "RUNWAIT" <=> state[s] = "RUNWAIT"
                       /\ state'[s] = "RUNNING" <=> state[s] = "RUNNING"
                       /\ place'[s] = "queue" <=> InQueue(s, fate)
                       /\ place'[s] = "wait" => state'[s] # "RUNWAIT"
                       /\ place'[s] \notin {"run", "close"}
                       /\ place'[s] = "read" <=> place[s] = "read"
                       /\ place'[s] = "reading" <=> place[s] = "reading"
  <2> TAKE s \in Socks
  <2>1. CASE s = accepted
    <3>1. ~InQueue(s, fate)
      BY <1>2, <2>1 DEF InQueue, Coming, ToQueue
    <3> QED  BY <1>2, <2>1, <3>1
  <2>2. CASE s # accepted
    BY <1>2, <2>2 DEF Spun
  <2> QED  BY <2>1, <2>2
<1>8. Counted'
  <2>1. done' \in Nat /\ freeing' \in Nat /\ closing' + done' + freeing' = closing + done + freeing
    BY <1>1, <1>3
  <2> QED  BY <1>3, <1>7, <2>1, CountedKept DEF DriverInv
<1>9. /\ connq \in Seq(Socks) /\ IsInjective(connq)
      /\ Range(connq) = {s \in Socks : state[s] = "RUNWAIT"}
  <2>1. \A s \in Socks : state[s] = "RUNWAIT" => place[s] \in {"wait", "queue"}
    BY DEF DriverInv, Sockets, StatesAt, Places
  <2>2. With("queue") = {}
    BY <1>1 DEF DriverInv, Queue, Range
  <2> QED  BY <2>1, <2>2 DEF DriverInv, Queue, With
<1>10. Queue'
  <2>1. Range(connq) \cap Range(new) = {}
    BY <1>1, <1>9 DEF Coming
  <2>2. todo' \in Seq(Socks) /\ IsInjective(todo') /\ Range(todo') = Range(connq) \cup Range(new)
    BY <1>1, <1>9, <2>1, ConcatHas
  <2>3. Range(todo') = With("queue")'
    BY <1>1, <1>7, <1>9, <2>2 DEF With, InQueue, Coming
  <2>4. {s \in With("wait") : state[s] = "RUNWAIT"}' = {}
    BY <1>7 DEF With
  <2>5. connq' \in Seq(Socks) /\ IsInjective(connq') /\ Range(connq') = {}
    BY <1>1 DEF IsInjective, Range
  <2>6. ASSUME NEW i \in DOMAIN todo', NEW j \in DOMAIN todo', i < j, state'[todo'[j]] = "RUNWAIT"
        PROVE  state'[todo'[i]] = "RUNWAIT"
    <3>1. /\ Len(connq) \in Nat /\ Len(new) \in Nat /\ DOMAIN todo' = 1 .. (Len(connq) + Len(new))
          /\ \A k \in 1 .. Len(connq) : todo'[k] = connq[k]
          /\ \A k \in DOMAIN todo' : k > Len(connq) => todo'[k] = new[k - Len(connq)]
      BY <1>1, <1>9
    <3>2. j <= Len(connq)
      <4>1. SUFFICES ASSUME j > Len(connq) PROVE FALSE
        BY <3>1
      <4>2. j - Len(connq) \in DOMAIN new
        BY <1>1, <3>1, <4>1
      <4>3. todo'[j] \in Coming(fate)
        BY <1>1, <3>1, <4>1, <4>2 DEF Range
      <4> QED  BY <1>7, <2>6, <4>3 DEF Coming
    <3>3. i \in 1 .. Len(connq) /\ todo'[i] = connq[i]
      BY <2>6, <3>1, <3>2
    <3>4. connq[i] \in Range(connq)
      BY <1>9, <3>3 DEF Range
    <3> QED  BY <1>7, <1>9, <3>3, <3>4
  <2> QED  BY <1>1, <2>2, <2>3, <2>4, <2>5, <2>6 DEF Queue
<1>11. Phases' /\ Alone'
  BY <1>1, <1>4 DEF Phases, Alone, Room
<1>12. With("read")' = With("read") /\ With("reading")' = With("reading")
  BY <1>7 DEF With
<1>13. ReadList'
  <2>1. ASSUME dpc' = "hand" PROVE With("toread")' # {}
    <3>1. PICK s \in Socks : fate[s] = "read"
      BY <1>4, <2>1
    <3>2. s # accepted
      BY <1>2, <3>1
    <3>3. place'[s] = "toread"
      BY <1>2, <3>1, <3>2 DEF Spun
    <3> QED  BY <3>3 DEF With
  <2> QED  BY <1>3, <1>12, <2>1 DEF DriverInv, ReadList
<1>14. ReaderSocks'
  BY <1>3, <1>12 DEF DriverInv, ReaderSocks
<1>15. IdleCounted' /\ Sleepers'
  BY <1>3 DEF DriverInv, IdleCounted, Sleepers, ReadersWoken, QueriersWoken, Shutdown
<1>16. DriverWoken'
  <2>1. With("run")' = {} /\ With("close")' = {}
    BY <1>7 DEF With
  <2>2. done' = 0 /\ ("QUERY" \in flags' => query') /\ (Shutdown' => stop')
    BY <1>1 DEF Shutdown
  <2> QED  BY <2>1, <2>2 DEF DriverWoken
<1> QED  BY <1>5, <1>6, <1>8, <1>10, <1>11, <1>13, <1>14, <1>15, <1>16 DEF DriverInv

(* Input was read for a socket without a Conn.                             *)
LEMMA CrashKeeps ==
    ASSUME DriverInv, NEW fate, NEW new, NEW accepted, Spin(fate, new, accepted),
           \E s \in Socks : fate[s] = "crash"
    PROVE  DriverInv'
<1>1. /\ dpc' = "crashed" /\ dpc = "poll"
      /\ UNCHANGED <<stop, trigger, sockVars, queueVars, done, query>>
      /\ UNCHANGED <<theirs, flags, readVars, limits, closing, qpc, mpc>>
  BY DEF Spin
<1>2. Scalars'
  BY <1>1 DEF DriverInv, Scalars, Shutdown, theirs
<1>3. Sockets' /\ Counted' /\ Queue' /\ Phases' /\ Alone'
  BY <1>1, BooksKept DEF connVars
<1>4. ReadList' /\ ReaderSocks'
  BY <1>1, ReadListKept, ReadersKept DEF DriverInv, sockVars, readVars
<1>5. IdleCounted' /\ Sleepers' /\ DriverWoken'
  <2>1. IdleCounted' /\ Sleepers'
    BY <1>1 DEF DriverInv, IdleCounted, Sleepers, ReadersWoken, QueriersWoken, Shutdown, readVars
  <2> QED  BY <1>1, <2>1, ToldKept DEF DriverInv, sockVars
<1> QED  BY <1>2, <1>3, <1>4, <1>5 DEF DriverInv

LEMMA SpunKeeps == ASSUME DriverInv, AnySpin(AllFates) PROVE DriverInv'
<1>1. PICK fate \in AllFates, accepted \in (Socks \cap around) \cup {Nothing} :
        \E new \in Orders(Coming(fate)) : Spin(fate, new, accepted)
  BY DEF AnySpin
<1>2. PICK new \in Orders(Coming(fate)) : Spin(fate, new, accepted)
  BY <1>1
<1>3. CASE \E s \in Socks : fate[s] = "crash"
  BY <1>2, <1>3, CrashKeeps
<1>4. CASE ~\E s \in Socks : fate[s] = "crash"
  <2>1. SpinDoes(fate, accepted, new)
    BY <1>2, <1>4, SpinIs
  <2>2. UNCHANGED <<theirs, flags, readVars, limits, closing, qpc, mpc>>
    BY <1>2 DEF Spin
  <2> QED  BY <2>1, <2>2, SpinKeeps
<1> QED  BY <1>3, <1>4

-----------------------------------------------------------------------------
(* The theorems.                                                           *)

LEMMA DriverInit == ASSUME Init PROVE DriverInv
<1>1. Scalars
  BY DriverAssumption DEF Init, Scalars, Shutdown
<1>2. Sockets
  BY DEF Init, Sockets, ReadHasConn, With, StatesAt, States, Places
<1>3. Counted
  <2>1. Count(state, Socks, {"RUNNING"}) = 0 /\ Count(state, Socks, {"RUNWAIT"}) = 0
    <3>1. \A s \in Socks : state[s] \notin {"RUNNING"} /\ state[s] \notin {"RUNWAIT"}
      BY DEF Init
    <3> QED  BY <3>1, CountType, DriverAssumption
  <2>2. Count(other, Others, {"RUNNING"}) = 0 /\ Count(other, Others, {"RUNWAIT"}) = 0
    <3>1. \A o \in Others : other[o] \notin {"RUNNING"} /\ other[o] \notin {"RUNWAIT"}
      BY DEF Init
    <3> QED  BY <3>1, CountType, DriverAssumption
  <2>3. RunningNow = 0 /\ WaitingNow = 0
    BY <2>1, <2>2 DEF Init, RunningNow, WaitingNow
  <2>4. Agrees(0, 0)
    BY IsMultiple, DriverAssumption DEF Agrees
  <2>5. maxrun \in Words /\ maxwait \in Words /\ 0 \in Words
    BY DriverAssumption DEF Init, Words
  <2> QED  BY <2>3, <2>4, <2>5 DEF Init, Counted
<1>4. Queue /\ ReadList
  BY DEF Init, Queue, ReadList, With, IsInjective, Range, ToQueue
<1>5. Phases /\ Alone
  BY DEF Init, Phases, Alone, Room
<1>6. ReaderSocks
  BY DEF Init, ReaderSocks
<1>7. IdleCounted
  <2> DEFINE A == {"awake", "sleep", "gone"}
  <2>1. \A r \in Readers : rpc[r] \notin A
    BY DEF Init
  <2>2. Count(rpc, Readers, A) = 0
    <3> HIDE DEF A
    <3> QED  BY <2>1, CountType, DriverAssumption
  <2> QED  BY <2>2 DEF Init, IdleCounted
<1>8. Sleepers /\ DriverWoken
  BY DEF Init, Sleepers, ReadersWoken, QueriersWoken, Sleeps, Roused, DriverWoken, With, Shutdown
<1> QED  BY <1>1, <1>2, <1>3, <1>4, <1>5, <1>6, <1>7, <1>8 DEF DriverInv

LEMMA DriverNext == ASSUME DriverInv, [Next]_vars PROVE DriverInv'
<1>1. CASE UNCHANGED vars
  <2>1. /\ UNCHANGED <<theirs, dpc, stop, flags, trigger, sockVars, queueVars, readVars>>
        /\ UNCHANGED <<limits, connVars, query, qpc, mpc>>
    BY <1>1 DEF vars
  <2>2. UNCHANGED <<async, place, readList, idle, rpc, rsock, done>>
    BY <2>1 DEF theirs, sockVars, readVars, connVars
  <2>3. Sockets' /\ Counted' /\ Queue' /\ Phases' /\ Alone'
    BY <2>1, BooksKept
  <2>4. Scalars' /\ ReadList' /\ ReaderSocks'
    BY <2>1, <2>2, ReadListKept, ReadersKept DEF DriverInv, Scalars, Shutdown
  <2>5. IdleCounted' /\ Sleepers'
    BY <2>1, <2>2 DEF DriverInv, IdleCounted, Sleepers, ReadersWoken, QueriersWoken, Shutdown
  <2>6. DriverWoken'
    BY <2>1, <2>2, ToldKept DEF DriverInv
  <2> QED  BY <2>3, <2>4, <2>5, <2>6 DEF DriverInv
<1>2. CASE \E ok \in BOOLEAN : Listen(ok)
  BY <1>2, ListenKeeps
<1>3. CASE DriverThread
  BY <1>3, SpunKeeps, FreeConnKeeps, HandOverKeeps, QueueConnKeeps, AnswerKeeps, StoppedKeeps
     DEF DriverThread, RestOfSpin
<1>4. CASE \E r \in Readers : Reader(r)
  BY <1>4, ReaderThreadKeeps, ReaderDoneKeeps DEF Reader
<1>5. CASE \E s \in Socks : Worker(s)
  BY <1>5, NsSockCloseKeeps DEF Worker
<1>6. CASE NsFreeConn
  BY <1>6, NsFreeConnKeeps
<1>7. CASE \E q \in Queriers \cap around : Query(q) \/ QueryWake(q)
  BY <1>7, QueryKeeps
<1>8. CASE \E o \in Others \cap around :
              OtherFreed(o) \/ \E poll \in ToQueue \cup {"drop"} : OtherQueued(o, poll)
  BY <1>8, OtherFreedKeeps, OtherQueuedKeeps
<1>9. CASE \E c \in Setters \cap around : SetLimits(c)
  BY <1>9, SetLimitsKeeps
<1>10. CASE NsStartDrivers \/ NsStopDrivers \/ NsWaitDriversShutdown
  BY <1>10, MainKeeps
<1> QED  BY <1>1, <1>2, <1>3, <1>4, <1>5, <1>6, <1>7, <1>8, <1>9, <1>10 DEF Next

(* The invariant of the driver holds for any number of sockets, threads,   *)
(* requests of other drivers and uses of ns_limits set, those that fail    *)
(* and write back old counts included.                                     *)
THEOREM DriverInvHolds == Spec => []DriverInv
<1>1. Init => DriverInv
  BY DriverInit
<1>2. DriverInv /\ [Next]_vars => DriverInv'
  BY DriverNext
<1> QED  BY <1>1, <1>2, PTL DEF Spec

LEMMA BooksFollow == ASSUME DriverInv PROVE BooksAgree
<1>1. /\ Count(state, Socks, {"RUNNING"}) \in Nat /\ Count(state, Socks, {"RUNWAIT"}) \in Nat
      /\ Count(other, Others, {"RUNNING"}) \in Nat /\ Count(other, Others, {"RUNWAIT"}) \in Nat
      /\ undone.running \in Int /\ undone.waiting \in Int
  BY CountsAre DEF DriverInv
<1>2. closing \in Nat /\ done \in Nat /\ freeing \in Nat
  BY DEF DriverInv, Counted
<1>3. idle = Count(rpc, Readers, {"awake", "sleep", "gone"}) /\ idle \in Nat
  <2>1. Count(rpc, Readers, {"awake", "sleep", "gone"}) \in Nat
    BY CountType, DriverAssumption
  <2> QED  BY <2>1 DEF DriverInv, IdleCounted
<1>4. TypeOK
  <2>1. /\ async \in BOOLEAN /\ stop \in BOOLEAN /\ trigger \in BOOLEAN /\ query \in BOOLEAN
        /\ dpc \in {"listen", "poll", "free", "hand", "queue", "answer", "exit", "crashed"}
        /\ flags \subseteq {"STARTED", "FAILED", "SHUTDOWN", "QUERY", "STOPPED"}
        /\ mpc \in {"starting", "up", "stopping", "down"}
    BY DEF DriverInv, Scalars
  <2>2. /\ state \in [Socks -> States] /\ place \in [Socks -> Places]
        /\ hasConn \in [Socks -> BOOLEAN]
    BY DEF DriverInv, Sockets
  <2>3. /\ IsInjective(readList) /\ Range(readList) = With("read")
        /\ IsInjective(connq) /\ Range(connq) = {s \in With("wait") : state[s] = "RUNWAIT"}
        /\ IsInjective(todo) /\ Range(todo) = With("queue")
        /\ due \in [Socks -> ToQueue \cup {"drop"}]
    BY DEF DriverInv, ReadList, Queue
  <2>4. /\ rpc \in [Readers -> {"none", "awake", "sleep", "reading", "gone"}]
        /\ rsock \in [Readers -> Socks \cup {Nothing}]
        /\ qpc \in [Queriers -> {"idle", "sleep", "awake", "turnSleep", "turn"}]
    BY DEF DriverInv, ReaderSocks, Sleepers
  <2>5. /\ {maxrun, maxwait, nrunning, nwaiting} \subseteq 0 .. Word - 1
        /\ other \in [Others -> {"none", "RUNWAIT", "RUNNING"}]
        /\ spc \in [Setters -> {"before", "sets", "gone"}]
        /\ undone \in [running : Int, waiting : Int]
    BY DEF DriverInv, Counted, Words
  <2>6. {closing, done, freeing, idle} \subseteq Nat
    BY <1>2, <1>3
  <2> QED  BY <2>1, <2>2, <2>3, <2>4, <2>5, <2>6 DEF TypeOK
<1>5. LimitsAgree
  <2> DEFINE running == Cardinality({s \in With("conn") : state[s] = "RUNNING"})
             waiting == Cardinality({s \in Socks : state[s] = "RUNWAIT"})
  <2>1. running = Count(state, Socks, {"RUNNING"})
    <3>1. {s \in With("conn") : state[s] = "RUNNING"} = {s \in Socks : state[s] \in {"RUNNING"}}
      BY DEF DriverInv, Sockets, StatesAt, With, Places
    <3> QED  BY <3>1 DEF Count
  <2>2. waiting = Count(state, Socks, {"RUNWAIT"})
    <3>1. {s \in Socks : state[s] = "RUNWAIT"} = {s \in Socks : state[s] \in {"RUNWAIT"}}
      OBVIOUS
    <3> QED  BY <3>1 DEF Count
  <2>3. ASSUME NEW p PROVE Elsewheres(p) = Count(other, Others, {p})
    <3>1. {o \in Others : other[o] = p} = {o \in Others : other[o] \in {p}}
      OBVIOUS
    <3> QED  BY <3>1 DEF Count, Elsewheres
  <2> HIDE DEF running, waiting
  <2>4. RunningNow = running + closing + done + freeing + Elsewheres("RUNNING") + undone.running
    BY <1>1, <1>2, <2>1, <2>3 DEF RunningNow
  <2>5. WaitingNow = waiting + Elsewheres("RUNWAIT") + undone.waiting
    BY <1>1, <2>2, <2>3 DEF WaitingNow
  <2>6. Agrees(nrunning, RunningNow) /\ Agrees(nwaiting, WaitingNow)
    BY DEF DriverInv, Counted
  <2> QED  BY <2>4, <2>5, <2>6 DEF LimitsAgree, running, waiting
<1>6. ReadersAgree
  <2>1. ASSUME ~Shutdown
        PROVE  {r \in Readers : rpc[r] \in {"awake", "sleep"}}
                 = {r \in Readers : rpc[r] \in {"awake", "sleep", "gone"}}
    BY <2>1 DEF DriverInv, IdleCounted
  <2> QED  BY <1>3, <2>1 DEF ReadersAgree, Count
<1>7. ReadHasConn
  BY DEF DriverInv, Sockets
<1> QED  BY <1>4, <1>5, <1>6, <1>7 DEF BooksAgree

(* The books of the driver agree: what the limits and idlereaders count is *)
(* what there is, here and with other drivers, as far as an ns_limits set  *)
(* that failed has not put old counts back, and each socket is where its   *)
(* state says.                                                             *)
THEOREM BooksAgreeCorrect == Spec => []BooksAgree
<1>1. DriverInv => BooksAgree
  BY BooksFollow
<1> QED  BY <1>1, DriverInvHolds, PTL

(* No socket is forgotten on the list of the readers, nobody waits for an  *)
(* answer or for its turn when there is no query, and the driver does not  *)
(* poll untriggered while something has come for it.                       *)
THEOREM NobodyForgottenCorrect == Spec => []NobodyForgotten
<1>1. DriverInv => NobodyForgotten
  BY DEF DriverInv, Sleepers, NobodyForgotten
<1> QED  BY <1>1, DriverInvHolds, PTL

-----------------------------------------------------------------------------
(* The queue.                                                              *)

(* What a step does that is neither a spin nor the queueing of a Conn.     *)
Quiet ==
    /\ UNCHANGED <<connq, todo>>
    /\ \A s \in Socks : state'[s] = "RUNNING" => state[s] = "RUNNING"
    /\ Room' /\ ~Room => other' # other \/ maxrun' # maxrun \/ spc' # spc

(* It lets nobody run and, but for the Limits that others change, makes no *)
(* room.                                                                   *)
LEMMA OthersQuiet ==
    ASSUME DriverInv, [Next]_vars PROVE Quiet \/ QueueConn \/ AnySpin(AllFates)
<1>0. state \in [Socks -> States]
  BY DEF DriverInv, Sockets
<1>1. CASE UNCHANGED vars
  BY <1>1 DEF vars, Quiet, Room, sockVars, queueVars, limits
<1>2. CASE \E ok \in BOOLEAN : Listen(ok)
  BY <1>2 DEF Listen, Quiet, Room, sockVars, queueVars, limits
<1>3. CASE FreeConn
  <2>1. connq' = <<>>
    BY <1>3 DEF FreeConn, DriverInv, Phases
  <2> QED  BY <1>3, <2>1 DEF FreeConn, Quiet, Room, sockVars
<1>4. CASE HandOver \/ Answer \/ Stopped
  BY <1>4 DEF HandOver, Answer, Stopped, Quiet, Room, sockVars, queueVars, limits
<1>5. CASE \E r \in Readers : Reader(r)
  <2>1. PICK r \in Readers : ReaderThread(r) \/ \E o \in {"PREQUE", "ERROR"} : ReaderDone(r, o)
    BY <1>5 DEF Reader
  <2>2. CASE ReaderThread(r)
    BY <2>2 DEF ReaderThread, Quiet, Room, queueVars, limits
  <2>3. CASE \E o \in {"PREQUE", "ERROR"} : ReaderDone(r, o)
    BY <1>0, <2>3 DEF ReaderDone, Quiet, Room, queueVars, limits
  <2> QED  BY <2>1, <2>2, <2>3
<1>6. CASE \E s \in Socks : Worker(s)
  BY <1>0, <1>6 DEF Worker, NsSockClose, Quiet, Room, queueVars, limits
<1>7. CASE NsFreeConn
  BY <1>7 DEF NsFreeConn, Quiet, Room, sockVars, queueVars, limits
<1>8. CASE \E q \in Queriers \cap around : Query(q) \/ QueryWake(q)
  BY <1>8 DEF Query, QueryWake, Quiet, Room, sockVars, queueVars, limits
<1>9. CASE \E o \in Others \cap around :
              OtherFreed(o) \/ \E poll \in ToQueue \cup {"drop"} : OtherQueued(o, poll)
  <2>1. PICK o \in Others \cap around :
            OtherFreed(o) \/ \E poll \in ToQueue \cup {"drop"} : OtherQueued(o, poll)
    BY <1>9
  <2>2. other \in [Others -> {"none", "RUNWAIT", "RUNNING"}]
    BY DEF DriverInv, Counted
  <2>3. CASE OtherFreed(o)
    <3>1. other'[o] # other[o]
      BY <2>2, <2>3 DEF OtherFreed
    <3> QED  BY <2>3, <3>1 DEF OtherFreed, Elsewhere, Quiet, sockVars, queueVars
  <2>4. CASE \E poll \in ToQueue \cup {"drop"} : OtherQueued(o, poll)
    <3>1. PICK poll \in ToQueue \cup {"drop"} : OtherQueued(o, poll)
      BY <2>4
    <3> DEFINE next == RunNext(other[o] = "RUNWAIT", poll)
    <3>2. /\ next.state = "RUNNING" => other'[o] # other[o]
          /\ nrunning' = next.nrunning /\ UNCHANGED maxrun /\ Elsewhere
      BY <2>2, <3>1 DEF OtherQueued
    <3>3. next.state # "RUNNING" => next.nrunning = nrunning
      BY RunNextIs DEF DriverInv, Turn
    <3> HIDE DEF next
    <3> QED  BY <3>2, <3>3 DEF Elsewhere, Quiet, Room, sockVars, queueVars
  <2> QED  BY <2>1, <2>3, <2>4
<1>10. CASE \E c \in Setters \cap around : SetLimits(c)
  <2>1. PICK c \in Setters \cap around : SetLimits(c)
    BY <1>10
  <2>2. spc \in [Setters -> {"before", "sets", "gone"}]
    BY DEF DriverInv, Counted
  <2>3. spc'[c] # spc[c] \/ UNCHANGED nrunning
    BY <2>1, <2>2 DEF SetLimits, Saves, Sets, Ends, Fails
  <2> QED  BY <2>1, <2>3 DEF SetLimits, Elsewhere, Quiet, Room, sockVars, queueVars
<1>11. CASE NsStartDrivers \/ NsStopDrivers \/ NsWaitDriversShutdown
  BY <1>11 DEF NsStartDrivers, NsStopDrivers, NsWaitDriversShutdown, MainTo, Quiet, Room,
               sockVars, queueVars, limits
<1> QED  BY <1>1, <1>2, <1>3, <1>4, <1>5, <1>6, <1>7, <1>8, <1>9, <1>10, <1>11
         DEF Next, DriverThread, RestOfSpin

(* A spin crashes, and leaves the queue alone, or makes one queue of those *)
(* that waited and those that come.                                        *)
LEMMA SpinRuns ==
    ASSUME DriverInv, AnySpin(AllFates)
    PROVE  \/ Quiet
           \/ /\ \E new \in Seq(Socks) : connq \o todo = connq /\ connq' \o todo' = connq \o new
              /\ \A s \in Socks : state'[s] = "RUNNING" => state[s] = "RUNNING"
              /\ ~Room'
<1>1. PICK fate \in AllFates, accepted \in (Socks \cap around) \cup {Nothing} :
        \E new \in Orders(Coming(fate)) : Spin(fate, new, accepted)
  BY DEF AnySpin
<1>2. PICK new \in Orders(Coming(fate)) : Spin(fate, new, accepted)
  BY <1>1
<1>3. CASE \E s \in Socks : fate[s] = "crash"
  BY <1>2, <1>3 DEF Spin, Quiet, Room, sockVars, queueVars, limits
<1>4. CASE ~\E s \in Socks : fate[s] = "crash"
  <2>1. SpinDoes(fate, accepted, new)
    BY <1>2, <1>4, SpinIs
  <2>2. connq \in Seq(Socks)
    BY DEF DriverInv, Queue
  <2>3. /\ new \in Seq(Socks) /\ todo = <<>> /\ connq' = <<>> /\ todo' = connq \o new
        /\ \A s \in Socks : state'[s] = "RUNNING" => state[s] = "RUNNING"
    BY <2>1 DEF SpinDoes, Spun
  <2>4. connq \o new \in Seq(Socks)
    BY <2>2, <2>3
  <2>5. connq \o todo = connq /\ connq' \o todo' = connq \o new
    BY <2>2, <2>3, <2>4
  <2> QED  BY <2>3, <2>5 DEF Room
<1> QED  BY <1>3, <1>4

(* A Conn queued goes behind those that wait, or leaves the queue: the     *)
(* others keep their order.                                                *)
LEMMA HeadMoves ==
    ASSUME NEW T, NEW p \in Seq(T), NEW q \in Seq(T), q # <<>>
    PROVE  Append(p, Head(q)) \o Tail(q) = p \o q
<1>1. /\ Head(q) \in T /\ Tail(q) \in Seq(T) /\ Len(Tail(q)) = Len(q) - 1
      /\ Head(q) = q[1] /\ \A i \in 1 .. Len(q) - 1 : Tail(q)[i] = q[i + 1]
      /\ Len(p) \in Nat /\ Len(q) \in Nat /\ Len(q) > 0
  OBVIOUS
<1> DEFINE h == Head(q)  r == Tail(q)
<1>2. Append(p, h) \in Seq(T) /\ Len(Append(p, h)) = Len(p) + 1
      /\ \A i \in 1 .. Len(p) + 1 : Append(p, h)[i] = IF i <= Len(p) THEN p[i] ELSE h
  BY <1>1
<1> DEFINE a == Append(p, h)
<1> HIDE DEF a, h, r
<1>3. /\ a \o r \in Seq(T) /\ Len(a \o r) = Len(p) + Len(q)
      /\ p \o q \in Seq(T) /\ Len(p \o q) = Len(p) + Len(q)
  BY <1>1, <1>2 DEF a, h, r
<1>4. ASSUME NEW i \in 1 .. Len(p) + Len(q) PROVE (a \o r)[i] = (p \o q)[i]
  <2>1. CASE i <= Len(p)
    BY <1>1, <1>2, <2>1 DEF a, h, r
  <2>2. CASE i = Len(p) + 1
    BY <1>1, <1>2, <2>2 DEF a, h, r
  <2>3. CASE i > Len(p) + 1
    <3>1. i - (Len(p) + 1) \in 1 .. Len(q) - 1 /\ i - Len(p) = i - (Len(p) + 1) + 1
      BY <1>1, <2>3
    <3>2. (a \o r)[i] = r[i - (Len(p) + 1)]
      BY <1>1, <1>2, <2>3 DEF a, h, r
    <3>3. (p \o q)[i] = q[i - Len(p)]
      BY <1>1, <2>3
    <3> QED  BY <1>1, <3>1, <3>2, <3>3 DEF r
  <2>4. i <= Len(p) \/ i = Len(p) + 1 \/ i > Len(p) + 1
    BY <1>1
  <2> QED  BY <2>1, <2>2, <2>3, <2>4
<1>5. a \o r = p \o q
  BY <1>3, <1>4
<1> QED  BY <1>5 DEF a, h, r

LEMMA HeadLeaves ==
    ASSUME NEW T, NEW p \in Seq(T), NEW q \in Seq(T), q # <<>>, NEW s, NEW t,
           Ahead(p \o q, s, t), s # Head(q), t # Head(q)
    PROVE  Ahead(p \o Tail(q), s, t)
<1>1. /\ Tail(q) \in Seq(T) /\ Len(Tail(q)) = Len(q) - 1
      /\ Head(q) = q[1] /\ \A i \in 1 .. Len(q) - 1 : Tail(q)[i] = q[i + 1]
      /\ Len(p) \in Nat /\ Len(q) \in Nat /\ Len(q) > 0
  OBVIOUS
<1>2. PICK i \in 1 .. Len(p) + Len(q), j \in 1 .. Len(p) + Len(q) :
        i < j /\ (p \o q)[i] = s /\ (p \o q)[j] = t
  BY <1>1 DEF Ahead
<1> DEFINE to(k) == IF k <= Len(p) THEN k ELSE k - 1
<1>3. ASSUME NEW k \in 1 .. Len(p) + Len(q), (p \o q)[k] # Head(q)
      PROVE  /\ k # Len(p) + 1 /\ to(k) \in DOMAIN (p \o Tail(q))
             /\ (p \o Tail(q))[to(k)] = (p \o q)[k]
  <2>1. k # Len(p) + 1
    BY <1>1, <1>3
  <2>2. DOMAIN (p \o Tail(q)) = 1 .. Len(p) + Len(q) - 1
    BY <1>1
  <2>3. CASE k <= Len(p)
    BY <1>1, <2>1, <2>2, <2>3
  <2>4. CASE k > Len(p) + 1
    <3>1. k - 1 - Len(p) \in 1 .. Len(q) - 1 /\ k - Len(p) = k - 1 - Len(p) + 1
      BY <1>1, <2>4
    <3>2. (p \o Tail(q))[k - 1] = Tail(q)[k - 1 - Len(p)]
      BY <1>1, <2>4
    <3>3. (p \o q)[k] = q[k - Len(p)]
      BY <1>1, <2>4
    <3> QED  BY <1>1, <2>1, <2>2, <2>4, <3>1, <3>2, <3>3
  <2> QED  BY <1>1, <2>1, <2>3, <2>4
<1>4. /\ to(i) \in DOMAIN (p \o Tail(q)) /\ (p \o Tail(q))[to(i)] = s
      /\ to(j) \in DOMAIN (p \o Tail(q)) /\ (p \o Tail(q))[to(j)] = t
      /\ i # Len(p) + 1 /\ j # Len(p) + 1
  BY <1>2, <1>3
<1>5. to(i) < to(j)
  BY <1>1, <1>2, <1>4
<1> QED  BY <1>4, <1>5 DEF Ahead

LEMMA QueueInOrder ==
    ASSUME DriverInv, NEW s, NEW t, NEW h, NEW next, NEW st, NEW pl, Queues(h, next, st, pl),
           todo # <<>>, Ahead(connq \o todo, s, t), {s, t} \subseteq Range((connq \o todo)')
    PROVE  Ahead((connq \o todo)', s, t)
<1>1. /\ connq \in Seq(Socks) /\ todo \in Seq(Socks) /\ IsInjective(todo)
      /\ Range(connq) \subseteq With("wait") /\ h = Head(todo) /\ place[h] = "queue"
      /\ connq' = IF next.state = "RUNWAIT" THEN Append(connq, h) ELSE connq
      /\ todo' = Tail(todo)
  BY DEF DriverInv, Queue, Queues
<1>2. CASE next.state = "RUNWAIT"
  BY <1>1, <1>2, HeadMoves
<1>3. CASE next.state # "RUNWAIT"
  <2>1. Range(connq \o Tail(todo)) \subseteq Range(connq) \cup Range(Tail(todo))
    BY <1>1 DEF Range
  <2>2. Range(Tail(todo)) = Range(todo) \ {h} /\ h \notin Range(connq)
    BY <1>1, HeadTailHas DEF With
  <2>3. s # h /\ t # h
    BY <1>1, <1>3, <2>1, <2>2
  <2> QED  BY <1>1, <1>3, <2>3, HeadLeaves
<1> QED  BY <1>2, <1>3

(* When a Conn is queued and runs, one that has waited longer and goes on  *)
(* waiting is in connq, so there was room already.                         *)
LEMMA OvertakingHasRoom ==
    ASSUME DriverInv, NEW h, NEW next, NEW st, NEW pl, Queues(h, next, st, pl), todo # <<>>,
           NEW s \in Socks, NEW t \in Socks, Overtakes(t, s)
    PROVE  Room
<1>1. /\ connq \in Seq(Socks) /\ todo \in Seq(Socks) /\ IsInjective(todo)
      /\ Range(todo) = With("queue")
      /\ Range(connq) = {u \in With("wait") : state[u] = "RUNWAIT"}
      /\ \A i, j \in DOMAIN todo : i < j /\ state[todo[j]] = "RUNWAIT" => state[todo[i]] = "RUNWAIT"
      /\ state \in [Socks -> States]
  BY DEF DriverInv, Queue, Sockets
<1>2. /\ h = Head(todo) /\ h \in Socks /\ place[h] = "queue"
      /\ state' = [state EXCEPT ![h] = st]
      /\ st = (IF next.state = "DROPPED" THEN "CLOSED" ELSE next.state)
      /\ next.state = "RUNNING" => nrunning < maxrun
  BY DEF Queues, Turn
<1>3. t = h /\ nrunning < maxrun /\ s # t /\ state[s] = "RUNWAIT"
  BY <1>1, <1>2 DEF Overtakes
<1>4. h = todo[1] /\ Len(todo) \in Nat /\ Len(todo) > 0 /\ DOMAIN todo = 1 .. Len(todo)
  BY <1>1, <1>2
<1>5. s \in With("wait") \/ s \in With("queue")
  BY <1>3 DEF DriverInv, Sockets, StatesAt, Places, With
<1>6. CASE s \in With("wait")
  <2>1. s \in Range(connq)
    BY <1>1, <1>3, <1>6
  <2> QED  BY <1>3, <2>1 DEF Room, Range
<1>7. CASE s \in With("queue")
  <2>1. PICK j \in DOMAIN todo : todo[j] = s
    BY <1>1, <1>7 DEF Range
  <2>2. 1 \in DOMAIN todo /\ 1 < j
    BY <1>3, <1>4, <2>1
  <2>3. state[t] = "RUNWAIT"
    BY <1>1, <1>3, <1>4, <2>1, <2>2
  <2>4. Ahead(connq \o todo, s, t)
    BY <2>3 DEF Overtakes
  <2>5. PICK i \in 1 .. Len(connq) + Len(todo), k \in 1 .. Len(connq) + Len(todo) :
          i < k /\ (connq \o todo)[i] = s /\ (connq \o todo)[k] = t
    BY <1>1, <2>4 DEF Ahead
  <2>6. k = Len(connq) + 1
    <3>1. CASE k <= Len(connq)
      <4>1. t \in Range(connq)
        BY <1>1, <2>5, <3>1 DEF Range
      <4> QED  BY <1>1, <1>2, <1>3, <4>1 DEF With
    <3>2. CASE k > Len(connq)
      <4>1. k - Len(connq) \in DOMAIN todo /\ todo[k - Len(connq)] = todo[1]
        BY <1>1, <1>3, <1>4, <2>5, <3>2
      <4>2. k - Len(connq) = 1
        BY <1>1, <2>2, <4>1 DEF IsInjective
      <4> QED  BY <1>1, <2>5, <4>2
    <3> QED  BY <1>1, <2>5, <3>1, <3>2
  <2>7. connq # <<>>
    BY <1>1, <2>5, <2>6
  <2> QED  BY <1>3, <2>7 DEF Room
<1> QED  BY <1>5, <1>6, <1>7

LEMMA QueueSteps ==
    ASSUME DriverInv, [Next]_vars
    PROVE  /\ \A s, t \in Socks :
                Ahead(connq \o todo, s, t) /\ {s, t} \subseteq Range((connq \o todo)')
                    => Ahead((connq \o todo)', s, t)
           /\ around \cap (Others \cup Setters) = {} => \A s, t \in Socks : ~Overtakes(t, s)
           /\ Room' /\ ~Room => other' # other \/ maxrun' # maxrun \/ spc' # spc
<1>1. CASE Quiet
  BY <1>1 DEF Quiet, Overtakes
<1>2. CASE /\ \E new \in Seq(Socks) : connq \o todo = connq /\ connq' \o todo' = connq \o new
           /\ \A s \in Socks : state'[s] = "RUNNING" => state[s] = "RUNNING"
           /\ ~Room'
  <2>1. PICK new \in Seq(Socks) : connq \o todo = connq /\ connq' \o todo' = connq \o new
    BY <1>2
  <2>2. connq \in Seq(Socks)
    BY DEF DriverInv, Queue
  <2>3. ASSUME NEW s, NEW t, Ahead(connq, s, t) PROVE Ahead(connq \o new, s, t)
    <3>1. /\ DOMAIN connq = 1 .. Len(connq) /\ Len(connq) \in Nat /\ Len(new) \in Nat
          /\ DOMAIN (connq \o new) = 1 .. (Len(connq) + Len(new))
          /\ \A k \in 1 .. Len(connq) : (connq \o new)[k] = connq[k]
      BY <2>1, <2>2
    <3>2. DOMAIN connq \subseteq DOMAIN (connq \o new)
      BY <3>1
    <3> QED  BY <2>3, <3>1, <3>2 DEF Ahead
  <2> QED  BY <1>2, <2>1, <2>3 DEF Overtakes
<1>3. CASE QueueConn
  <2>1. PICK h, next, st, pl : Queues(h, next, st, pl)
    BY <1>3, QueueConnIs
  <2>2. todo # <<>>
    BY <1>3 DEF QueueConn, DriverInv, Phases
  <2>3. Room' => Room
    BY <2>1, QueueLeavesNoRoom DEF DriverInv
  <2>4. around \cap (Others \cup Setters) = {} => \A s, t \in Socks : ~Overtakes(t, s)
    BY <2>1, <2>2, OvertakingHasRoom DEF DriverInv, Alone
  <2> QED  BY <2>1, <2>2, <2>3, <2>4, QueueInOrder
<1> QED  BY <1>1, <1>2, <1>3, OthersQuiet, SpinRuns

(* The queue keeps its order, a driver that has its Limits for itself runs *)
(* no Conn past one that has waited longer and waits on, and room beside   *)
(* one that waits comes only of other drivers and of ns_limits set.        *)
THEOREM QueueMovesCorrect == Spec => QueueMoves
<1>1. Spec => OrderKept
  BY QueueSteps, DriverInvHolds, PTL DEF Spec, OrderKept
<1>2. Spec => NoOvertaking
  BY QueueSteps, DriverInvHolds, PTL DEF Spec, NoOvertaking
<1>3. Spec => RoomFromElsewhere
  BY QueueSteps, DriverInvHolds, PTL DEF Spec, RoomFromElsewhere
<1> QED  BY <1>1, <1>2, <1>3, PTL DEF QueueMoves
=============================================================================
