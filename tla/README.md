# A TLA+ model of AOLserver

This directory models the concurrent core of the AOLserver web server in
`src/` and the live statistics dashboard that it serves with TLA+, checks the
models with TLC on small instances, and proves theorems about several of them
with TLAPS. Every definition is translated from the C or JavaScript source;
`PROJECT.json` maps it to the lines it stands for.

Contents: [the system](#the-system), [the modules](#the-modules),
[the runs](#the-runs), [the proofs](#the-proofs),
[where code and documents disagree](#where-code-and-documents-disagree),
[what is not modelled](#what-is-not-modelled), [the plan](#the-plan).

## The system

AOLserver is one process of many threads. The main thread (`nsd/nsmain.c`)
reads the configuration, loads modules, starts everything, waits for a signal
and stops everything with a time limit. In between:

| Part | State | Operations | Talks to |
|---|---|---|---|
| socket drivers, `nsd/driver.c` | lists of `Sock`s by where they are (waiting in poll, to be read, returned by a reader, returned for keep-alive or close), queue of `Conn`s, reader threads, flags, trigger pipe | one driver thread per driver polls, accepts, reads or hands to readers, runs pre-queue filters, queues requests; readers read; `ns_driver query` | pools (`NsQueueConn`), connection threads (`NsSockClose`, `NsFreeConn`), limits |
| limits, `nsd/limits.c` | `maxrun`, `maxwait`, `nrunning`, `nwaiting` per named limit | `ns_limits`; the driver thread counts | drivers |
| connection pools, `nsd/pools.c`, `nsd/queue.c` | wait queue, counts of threads (current, idle, starting, waiting), list of exited threads | `NsQueueConn`, `NsConnThread`, start, stop | drivers, request pipeline |
| request pipeline, `nsd/conn.c`, `connio.c`, `return.c`, `filter.c`, `op.c` | the `Conn` | filters, authorization, request procedure, output, close, traces | driver, Tcl, URL space |
| scheduler, `nsd/sched.c` | heap of events by time, list of ready events, list for event threads, ids | schedule, cancel, pause, resume; scheduler and event threads | everything that needs a timer |
| socket tasks, `nsd/task.c`, `tclhttp.c` | signal list, wait list, flags per task | queue, run, wait, cancel, free; one thread per queue | `ns_http` |
| socket callbacks, `nsd/sockcallback.c` | queue of requests, table of sockets | register, cancel, shutdown | listen callbacks |
| jobs, `nsd/tcljob.c` | queues of jobs, threads, counts | queue, wait, waitany, cancel, delete | Tcl |
| caches, `nsd/cache.c` | hash table, LRU list, sizes | get or create, wait for another's value, flush, expire | ADP, file, DNS, user caches |
| process proxies, `nsproxy/` | pools of handles to child processes | get, put, evaluate with timeout, reap | child processes |
| database pools, `nsdb/` | free list, turn to gather, stale marks | get several with timeout, put, check, bounce | scheduler, driver modules |
| HTTP/2 and HTTP/3, `nsd/http2.c`, `http3.c` | sessions and streams of a socket | feed, dispatch, defer, send | driver, readers, workers |
| stats endpoint, `nsjs/pages/stats-api.js` | the answer being put together | authorizes, then asks `ns.server` and others, call by call | pools (`NsTclServerObjCmd`), connection threads that run it |
| dashboard, `nsjs/dashboard/src/` (in the browser) | history of points, what React was given to render and has rendered, open tab, sort order of tables, chart instances, log position, fragment of the URL | polls every five seconds, renders, runs effects, clicks, `hashchange` | stats endpoint |
| locks, `nsthread/` | mutexes, conditions, read/write locks, critical sections, semaphores, thread-local storage | lock, unlock, wait, post | everything |
| URL space, sets, indexes, formatting | data | pure algorithms | everything |

What is hard in it: almost all state is shared between threads under a mutex
per structure, with condition variables that serve several purposes at once
(a driver's condition wakes readers, queriers and the main thread; a signal
wakes one of them, whichever). Counters kept by hand decide whether a thread is
created or woken. Procedures run without the lock that protects the list they
came from. Objects are freed by one thread while another still has them on a
list. And the shutdown, which waits for each part with one deadline, can begin
at any of these moments. The dashboard has one thread, but its polls overlap,
React renders and runs effects in tasks of their own, and charts, scrolling and
the fragment are changed outside React and have to be kept in step. For each part, the properties that make it correct
are: counters that agree with what they count, each object in one place, no
lost wakeup, service of what waits, and a shutdown that ends. `PROJECT.json`
lists the hazards at their lines with the properties that would catch them.

## The modules

A critical section of the code is one action, unless a loop or a wait inside
it lets others see the middle; then the module says who holds the lock.
A thread's position in its function is a value of `pc` (or `tpc`, `rpc`, ...).
Memory is a set of slots that are reused. Time, peers, clients and the outcome
of system calls are nondeterministic. Definitions named `Faulty...` are
plausible bugs that no action uses; each property is known to fail with one.
A property that several parts make up is a conjunction of named ones, each with
its own comment in the module.

**`ConnPool`** (`nsd/queue.c`, `nsd/pools.c`). `NsQueueConn` appends a
connection and decides under the lock whether to create a thread, reaps exited
threads and creates the thread after unlocking: `NsQueueConn` and the
chain of `Creating`. `NsConnThread` waits with a timeout (and spurious wakeups),
takes a connection, signals another thread if more wait, runs it, counts down
its quota and on exit may create its replacement. `StartPool`, `StopPool` and
`WaitPool` are the main thread.

**`StatsApi`** (`nsjs/pages/stats-api.js`, and the `ns_server` command of
`nsd/queue.c`) extends `ConnPool`: some connections are polls of the dashboard,
whose script runs in the connection thread that serves them and is counted in
the numbers it reports. Each call of `ns.server` is a step with the pool lock of
its own (`ReadThreads`, `ReadActive`, `ReadWaiting`), and everybody else goes on
in between.

**`Driver`** (`nsd/driver.c`, `nsd/limits.c`). One turn of the loop of
`DriverThread` is `Spin` (poll, the lists taken over, ready sockets, accept),
followed by `FreeConn` for each Conn that is done, `HandOver`, `QueueConn` for
each Conn of the queue, and `Answer`. Each of these locks the driver or the limits
once, and others act in between; what is between the locks touches only the
driver thread's own lists and is folded into one step. `place` says which of the
code's lists (or which thread) a socket is with, `state` is its `SOCK_` state.
What poll reports and callbacks return is its *fate* in the spin.
`ReaderThread`/`ReaderDone` are the readers, `NsSockClose` and `NsFreeConn` the
connection threads, `Query` and `QueryWake` are `ns_driver query`. All sockets
have the same limits, and share them with requests of other drivers
(`OtherQueued`, `OtherFreed`: what those drivers' threads do to the counts) and
with `ns_limits set`, which takes no lock: it saves the structure (`Saves`), sets
options one by one (`Sets`), and at an option it does not know writes all of it
back, old counts included (`Fails`). The copy of a structure is one step. Counts
are unsigned, modulo `Word`. `undone` records what write-backs did to the counts.
Polling a socket that is already marked `SOCK_CLOSEREQ` is not reached without
HTTP/2.

**`EventHeap`, `SchedHeap`, `Sched`** (`nsd/sched.c`). `EventHeap` has the two
operations of the heap: each of the two loops exchanges one element with one
after the other on its *way*, a function from the positions at which the loop
goes on to the next position (`WayUp`, `WayDown`); the positions it comes to are
a `Walk`, and what the exchanges amount to is `Exchanged`, both of `Lists`.
`SchedHeap` checks the two operations alone; `Sched` uses them in the whole
scheduler: clients schedule, cancel, pause and
resume, `SchedThread` fires synchronous events without the lock and hands the
others to event threads, `NsStartSchedShutdown`/`NsWaitSchedShutdown` stop it.

**`TaskQueue`** (`nsd/task.c`, `nsd/tclhttp.c`). The lists are linked through
the tasks as in the code, so that freeing a linked task or linking it twice
shows. `HttpProc` and the commands of `ns_http` are the only users.

**`SharedLock`, `RWLock`, `CsLock`, `Sema`** (`nsthread/`). `SharedLock` is the
abstract lock: readers share, a writer is alone. `RWLock` (three counters, two
conditions) and `CsLock` (recursive; its owner uninitialized) implement it by
the refinement mapping `Held`. `Sema` is the counting semaphore. `SideBySide`
puts the three and `SchedHeap` side by side, each with variables of its own, and
`MCSideBySide` adds a small `StatsApi` for one run; a behaviour of it is about
one of the five.

**`Lists`** has what the linked lists and arrays of the server need beside the
library of sequences: the first place of some elements (`FirstIn`), the elements
that are kept, in their order (`Filter`), and walks. They are written without
recursive operators and without `SelectSeq`, of which the provers know nothing.
**`Lemmas`** states what they return, and what a count of the processes at some
places is when one of them moves.

**`JobQueue`** (`nsd/tcljob.c`). A command of `ns_job` is one action under the
lock of the pool and the lock of its queue (`QueueJob`, `Wait`, `WaitAny`,
`Cancel`, `DeleteQueue`, ...), with `Waited`, `WaitedAny` and `TimeOut` for the
returns of the conditions. Two places stand for a thread that has one lock and
waits for the other: `deleting` (`ReleaseQueue` holds the queue's) and
`blocked` (`LookupQueue` holds the pool's). A job thread is `Start`, `Awake` and
`Finish`, each with the whole of `NextJob`: passing jobs of busy queues, freeing
cancelled ones, deleting their queue. The `JobQueue` structure of a name and the
`Job` in each slot are records. `maxThreads` is a number of places, so limits
are natural numbers: the code would take a negative one, with which no job of the
queue ever runs.

**`DbPool`** (`nsdb/dbinit.c`, `nsdb/dbtcl.c`). One thread at a time gathers
handles (`poolPtr->waiting`), the others wait for their turn; handles are
opened, judged stale and closed outside the lock; `CheckPool` takes the free
list away and gives it back; `Ns_DbBouncePool` marks.

**`LivePage`, `Dashboard`, `Sections`, `Widgets`** (`nsjs/dashboard/src/`).
`LivePage` is what the page promises: it shows the data of the last answer that
has come and the points of the last 60. `Dashboard` implements it: a task of
the browser's thread is an action (a tick of the poll timer, an answer that
arrives or fails, React's render of what `root.render` was given, its run of
the effects, a click, a `hashchange` event). `root.render` replaces what waits;
`Tabs` re-renders itself at once, with the effects that waited before and its
own after. `charts` holds the echarts instances with the options they drew,
`effects` what a commit left to do. `Sections` says which cards,
tables and charts each tab has for an answer and the history: which fields it
reads, when a table or a chart is left out; of a card only its presence. It has
what each section makes of a row before its table sorts and shows it (`UrlRow`,
`CacheRow` and so on): a time or a share becomes a text, one that is not there a
dash, and what a cache does not report 0. A text stands for its rank in the order
of `localeCompare` (`TextRank`, `Dash`), so that 10 comes before 2 where numbers
are shown as texts. `stats-api.js` sends no null in a column that is passed
through, so that null, of which `DataTable` takes care, does not reach it; the
comparison is modelled with it all the same.
`Widgets` has the pure parts: the comparison and the sort of `DataTable`,
`fmtBytes` (a numeral is a number, its scale and a unit: 1.50 is 150 at 100), and
`formatUptime`. The behaviour of React 18 is assumed as `dashboard/package.json`
selects it: updates of `root.render` are rendered in a task of their own, those
of clicks and of `hashchange` (both discrete events) before the handler's task
ends; a render first runs the effects that wait.

## The runs

| Run | Module, cfg | Instance | Shows |
|---|---|---|---|
| `connpool` | `MCConnPool` | 2 drivers, 3 thread slots, max 2, min 0, 3 connections of which one is a poll, quota 2 | `PoolSound` (counters, range, each connection served once), `WorkSeen` (no thread sleeps beside work or leaves it to nobody), `AnswerSound` (the numbers a poll collects are possible ones) |
| `driver` | `MCDriver` | 2 sockets, 1 reader (or asynchronous), limits of none or one running, in scenes with 2 queriers, a request of another driver, and an `ns_limits set` | `BooksAgree` (limits, idle readers, Conns), `NobodyForgotten` (wakeups of the driver, readers and queriers), `QueueMoves` (order, where room comes from), `StopEndsUnless` |
| `driver_stop` | `MCDriverStop` | same | *violated*: a stop need not end |
| `sched_heap_cancel` | `MCSchedHeapCancel` | times 0-4, at most 7 queued, cancel at any size | *violated*: the top is not the earliest |
| `sched` | `MCSched` | 2 events of all kinds, 2 event threads, clock to 2 | `BooksAgree` (heap places, idle threads), `EventsOwned` (one holder, no leak), `DueRuns`, `ShutdownEndsUnlessMissed` |
| `sched_stop_lost` | `MCSchedStopLost` | 1 synchronous event | *violated*: a shutdown need not end |
| `task` | `MCTaskQueue` | 2 requests | `ListsSound`, `NoneUnseen` (requests and signals), `DoneIsComplete`, `WaitsEnd` |
| `task_cancel` | `MCTaskQueueCancel` | 2 requests, cancel at any time | *violated*: a freed task is on a list |
| `side_by_side` | `MCSideBySide` | 5 threads, depth 3, posts up to 5; heap: times 0-4, at most 7 queued, taken from the middle of at most 5; pool: 1 driver, 3 slots, max 1, min 0, 2 connections of which one is a poll, quota 1-2 | `IsLock`, `CsIsLock` (refinement), `LockSound`, `OthersSound` (counts, wakeups), `WritersFirst`, `AllServed`; `EarliestFirst` and `OthersKept`: the heap, while nothing is cancelled from the middle of six or more; `ConnsServed`, `PoolStops`: queued connections are served, joins end, all threads exit after the stop |
| `jobs` | `MCJobQueue` | 2 clients, 2 job threads, 2 jobs, 1 queue of limit 1-2 | `JobsSound` (each job in one place and freed once; counts of queues, references and threads; limits), `NobodyForgotten` (no lost wakeup of job threads or clients), `JobsEnd` (waits end, the stop ends, but for the deadlock below) |
| `dbpool` | `MCDbPool` | 2 threads, 2 handles, 1 bounce | `HandlesSound` (places, counts, order), `TurnsKept` (one gathers, no lost wakeup), `BounceSeen`, `GrantedOpen`, `GatheringEnds` |
| `dashboard` | `MCDashboard` | 3 polls, history of 2, at most 2 `hashchange` events waiting, 4 tabs, 2 kinds of answers, `K` = 16 for 1024, every amount up to 2`K`³, 54 uptimes about the units | `ScreenTrue` (charts and log follow what is rendered), `TabFollowsHash`, `TablesTrue` (each row once, in the chosen order), `NoTabBlank`, `FormatsExact`; `IsLive` (refinement of `LivePage`), `CatchesUp` |

Bounds, and why they suffice. In `ConnPool` two threads at the maximum and one
more slot for one that has exited or replaces it make every counter
differ from every other; three connections leave one queued while two run; a
poll beside two other connections sees the counts grow and shrink between its
calls, and its own thread among them. (Without a poll, four slots and `min` 1
were checked as well.) In
`Driver` two sockets are what the limits need (one runs, one waits; none runs,
one waits and one overflows) and two queriers what the flag needs; one reader
is enough for a signal to go astray, two were checked without liveness. One
request of another driver and one `ns_limits set`, which is called once, each meet
the driver between any two of its locks; who is there with whom is chosen by the
scene (`Modes`), as all at once is too much for one run. `Word` is 4, so that the
counts wrap around when a write-back puts them below what is given back later.
In `Dashboard` three polls overlap in every order and overflow a history of two;
the tabs opened are the ones with charts, with tables, with the log, and one
more; the answers differ in which lists they have, and in ties, in times
whose order as numbers is not that of their texts, and in what a cache does not
report. `SchedHeap` needs six events before taking one out of the middle can go wrong,
so seven are used. In `JobQueue` two jobs on one queue are one that runs and
one that is passed or waits; two queues and three jobs were checked for safety.
Two events or tasks suffice for everything that is about an
order between two; the lists of three are covered by `SchedHeap` and the
`Driver` only in part. Clock bounds are named `MaxClock`; `MaxBounce`,
`MaxPosted`, `MaxDepth`, `MaxQueue`, `MaxPolls` and `MaxEvents` are bounds of the model, not the code.

Fairness. Threads run: weak fairness where a step stays enabled, strong where
it needs a mutex others keep taking (`ConnPool`, `Sched`) as the mutexes of
POSIX do not starve a thread in practice. In `Driver` fairness covers only the
driver thread, its readers and that requests end; poll reports something for
every socket in the end (its timeout). (That a triggered poll returns and that a
socket comes to its timeout are stated without `ENABLED`, by when they are
possible.) In `DbPool` and `RWLock` holders
release. In `JobQueue` threads go on when the locks they need are free, and
scripts end; a time limit need not expire. In `Dashboard` React gets to what it was given to render and to
effects that wait, as both are scheduled as tasks when they come up (the
fairness is stated for `Render` and `Flush`, which say of the actions what they
take away). Nobody is assumed to ask, queue, cancel or stop. Time passes (`Tick`)
and peers of tasks either answer or time out.

Deadlock is checked in `dbpool` and `sched_heap_cancel`, whose systems go on for
ever; the other instances come to rest (all connections served, all polls over,
or stopped), as their cfg says.

## The proofs

All theorems hold for every value of the constants that satisfies the named
assumptions of the modules, and the hypotheses of the theorem where it has some.

* `Lemmas`. *Counts*: `CountMoved`, `CountPut`, `CountUnion` turn the move of one
  process into equations on the number of processes at some places. *Lists*:
  `FilterIs`, `FilterHas`, `ConcatHas`, `CutHas`, `ReverseHas`, `FirstInIs` say
  which elements a list has, and that it has each once. *Induction*: the theorems
  of the library that take a predicate cannot be used, so `LeastNat` (a set of
  numbers has a least one) takes their place. `WalkIs` is the equation of the
  recursive function `Walk`: such a function exists, because the least closed
  sets are one. `WalkHas`: a walk that goes down in some measure comes to
  each place from one other and ends at one. *Heap*: `ExchangedIs`, `InsertedIs`,
  `TakenOutIs`: both loops permute the elements; `InsertedOrder` and
  `TakenOutOrder`: they keep the order of the heap, the second where the last
  element is no earlier than what is above the place it is put in; `RootLeast`.
* `Stats_proofs`, the connection pool: `TypeCorrect`, then `PoolInvariant` for
  `PoolInv`, the
  conjunction of `Tallies` (each counter is the number of threads or creators
  in certain places, with the creations still to happen), `StopInv`, `RangeInv`,
  `WorkInv` (while a thread sleeps, no more connections are queued than threads
  on their way to the queue) and `AliveInv` (while connections are queued, a
  thread is busy or on its way, unless stopping). The listed invariants are not
  inductive: `CurrentInRange` needs that the thread a creator is about to create
  has been counted, `WorkConserving` needs the counts to be exact. Each
  action moves one process between places; `ThreadMoved` and `CreatorMoved`
  turn this into equations on the counts. `CountersCorrect`, `RangeCorrect`,
  `WorkConservingCorrect`, `NotAbandonedCorrect` follow. `ServedOnceCorrect`
  has its own invariant: what a busy thread has is a connection, on no queue
  and with no other thread. `PoolSoundCorrect` and `WorkSeenCorrect` put these
  together: they are the two invariants of the run `connpool`.
  In `StatsSpec` every step is one of the pool, or leaves it alone, by definition
  (the lemma `PoolInside`), so that all this is used with polls:
  `AnswerSoundCorrect` says that each number of an answer is possible, because a poll's thread is alive and not idle while it
  asks (`ThreadsInBooks`, `ActiveInBooks`, both from `PoolSound` and the range).
* `Stats_proofs`, the dashboard: `PageInvHolds` for `PageInv`, the conjunction of
  `Typed`, `Sorts` (a table that is shown is sorted by none or one of its
  columns), `Waiting` (what waits to be rendered and what was rendered are data
  with a history that were given to `root.render`), `Recorded` (the client's
  history is the last points of what arrived), `Drawn` and `Scrolled`
  (`ScreenTrue`, by parts) and `TabFollowsHash`. That a chart which stays
  mounted is found again needs that a name is a chart's or not on every tab for
  every answer (`Named`). `ScreenTrueCorrect`, `TabFollowsHashCorrect`,
  `NoTabBlankCorrect` follow (the last from `AnswerAssumption`: `stats-api.js`
  and `stats.jsadp` always send four fields). `IsLiveCorrect` is the refinement
  of `LivePage`: the render that takes an update takes the last answer, because
  `Waiting` says so, and the history shown is a suffix of the answers
  (`HistoryGrows`).
  The tables: V8 inserts one row after another, which a recursive function does.
  `InsertsRows` shows that the function exists, so that its equation may be used.
  The comparison says of null that it is larger than itself, so it is no order;
  what is proved covers it, should a column have it, and goes by the place of a row: `PlaceIn` and `PutBehind` say that a
  row is put behind all it does not come before, which is one end of the list
  because the rows there are `Placed` already. `TableSorted` says so of any number
  of rows, by `LeastNat`, and gives `TablesTrueCorrect`. It needs `RowsAssumption`:
  cells are numbers, texts or null. That the rows of a list have the same columns
  (`CellsAre`), and so can be sorted by any of them, is what the sections make of
  them. The numerals, for every `K` of at least 2:
  `ToFixedIs` says between which multiples the rounded number is, and from it
  `NearestGrows` (a larger amount has no smaller numeral) and `NearestMost` (what
  is below a unit is printed as no more than it), which `BytesRight` puts together;
  `UptimeRight` splits the seconds. `FormatsExactCorrect` follows, for all
  amounts and times.
* `SideBySide_proofs`, the read/write lock: `Invariance` for `IInv` (types,
  counters equal to the number of threads in places, a writer excludes all, and:
  while the lock is free and threads wait, one is woken), then `LockSoundCorrect`
  (from `TypeCorrect`, `CountersCorrect`, `WakeupsCorrect`), `WritersFirstCorrect`,
  and `Implements`: `Spec => IsLock`, the refinement of `SharedLock`, by a lemma
  that says what each step does to `Held`. The critical section: `SectionSound`
  (the count is the nesting of the owner, nobody else is inside, no wakeup is
  lost) by an invariant that adds that a waiting thread is not inside, and
  `SectionIsLock`, the refinement, from any first value of the owner. The
  semaphore: `SemaSound` (the count is what was posted less what was taken, and
  while threads sleep no more is left than threads are awake to take): a newcomer
  that takes what a woken thread was meant to get lowers both sides.
  `OthersSoundCorrect` joins the last two. The heap: `EarliestFirstCorrect`, for
  any times and any number of events, from `HeapOrder`, if none is taken out of
  the middle of six or more (`MaxCancel <= 5`): with more it is false, as
  the run `sched_heap_cancel` shows, and `FewInOrder` says why five are few.
  `OthersKeptCorrect` holds without that hypothesis.
* `Sched_proofs`: `EventsOwnedCorrect` and `BooksAgreeCorrect`, by one invariant
  `SchedInv`: types; each event is in the place its owner's `pc` says (`EachOwned`,
  `Owned`), the lists hold it once (`ListsOnce`), `qid` numbers the heap
  (`Numbers`) and ids find their event (`IdsFind`); where `SchedThread` is, what it
  holds (`SchedAt`), the same for the event threads (`ThreadsAt`); and
  `IdleCounted`. That there is room to create a thread when none is idle and
  fewer run than there are events to run is a count of threads against events,
  one event each (`RoomForThread`). The hypothesis is `"resumeUnderway" \notin
  Ops`: an event that is paused and resumed while its proc runs may be queued
  twice, so that the theorem is false without it.
* `TaskQueue_proofs`: `ListsSoundCorrect`, `NoneUnseenCorrect` and
  `DoneIsCompleteCorrect`, by one invariant `TaskInv`. `List` follows the links
  for as many steps as there are tasks; a list is a chain (`Chained`) when some
  sequence without repetitions is linked in its order up to `NULL`, and then
  `List` finds just its tasks (`ChainList`). Linking and unlinking a task are
  then `ChainPush` and `ChainFrom`. `Chains` says so of the signal list, the
  wait list and the part of the old wait list still to be called, which share no
  task; `TasksOK` what the bits of each task say of where it is, for each
  place of its owner; `Turn` that no signal comes once the thread acts on the
  shutdown; `Seen` and `Bytes` speak of the pipe. The hypothesis is
  `"cancelLate" \notin Ops`: with it a freed task is on a list (run
  `task_cancel`).
* `JobQueue_proofs`: `JobsSoundCorrect` and `NobodyForgottenCorrect` by one
  invariant `JobInv`. A command or `NextJob` does several things to the queues
  and jobs in one step, so the invariant is a predicate of those structures as
  values (`Good`), and holds between them; each part of a handler is a lemma
  that takes good structures to good structures, and the step is their chain.
* `DbPool_proofs`: `ProtocolInvariant` for `Protocol`, which relates
  `waiting`, the places of the threads and the free list; from it
  `OneGathersCorrect` and `NoLostWakeupCorrect`, together `TurnsKeptCorrect`;
  `BounceSeenCorrect` with `BounceInv` on the marks of the handles.
  `HandlesSoundCorrect` adds where each handle is (on the free list, with the
  thread that gathers it, uses it or gives it back, or with `CheckPool`), once,
  and that the counts per thread are the numbers of its handles;
  `GrantedOpenCorrect` that those are open when they are granted.
* `Driver_proofs`: `BooksAgreeCorrect`, `NobodyForgottenCorrect` and
  `QueueMovesCorrect`, by one invariant `DriverInv`, which holds between any two
  locks of a spin: where the driver thread is and what it still has to do
  (`Phases`); each socket is in a state that its place allows, and polled for
  input only with a `Conn` (`Sockets`); the limits count the sockets in two states,
  the requests of other drivers and what was written back (`Counted`, modulo
  `Word`: `Around` and `MultipleIs`); the queue and the list of the readers hold
  what they should once (`Queue`, `ReadList`); each reader reads a socket of its
  own (`ReaderSocks`); `idlereaders` counts the readers that have exited too, of
  which there are none before the shutdown (`IdleCounted`); and who sleeps
  (`Sleepers`): while a socket is on the list of the readers one was created.
  `Woken` says what any signal or broadcast does; a signal that wakes a querier in
  place of a reader is harmless because the answer is broadcast. `SetLimitsKeeps`
  has the failing `ns_limits set`: what it adds to the counts is added to `undone`.
  For the queue, `Alone` says that without others and setters there is no room
  beside a Conn that was just left waiting, which is why none is overtaken
  (`OvertakingHasRoom`); with them one may be, and `QueueMoves` does not say
  otherwise. `QueueInOrder` and `QueueLeavesNoRoom` are the other two parts.

Every safety invariant and action property of the runs that pass, and each
refinement, is thus stated by a theorem, up to fairness and to the hypotheses named
above. Only model-checked is what must eventually happen, which this prover cannot
show: `DueRuns`, `ShutdownEndsUnlessMissed`, `WaitsEnd`, `AllServed`, `ConnsServed`,
`PoolStops`, `GatheringEnds`, `StopEndsUnless`, `CatchesUp` and `JobsEnd`.

## Where code and documents disagree

Found by a run (see `findings` in `PROJECT.json`):

* `DeQueueEvent` only heaps down (`sched.c:624`): after a cancel or pause with
  six or more events the earliest is not on top. Run `sched_heap_cancel`.
* `SchedThread` waits without looking at `shutdownPending` again after it ran
  procs (`sched.c:832`): the shutdown waits until its time limit. Run
  `sched_stop_lost`.
* `HttpAbort` frees a task that may be on the signal list (`tclhttp.c:638`).
  Run `task_cancel`.
* `NsSockClose` only marks the socket of a request that timed out or overflowed
  (`driver.c:980`): the `Sock` is never used again, and the driver never stops.
  Run `driver_stop`. The same run reaches two other ways not to stop, which
  `StopEndsUnless` names: idle readers exit as soon as the shutdown begins
  (and stay counted as idle), so a socket handed to them afterwards is never
  read; and a socket that comes back for keep-alive when the shutdown has begun
  waits for input without a Conn, so that `DriverThread` reads
  `connPtr->ibuf` through NULL when input or end-of-file arrives.

Seen while modelling, without a run of their own:

* `WaitPool` (`pools.c`) returns when the wait queue is empty, although
  connections still run; nobody signals it when the last thread exits.
* `maxconns` of a pool is the quota of one thread, not a limit on queued
  connections; nothing limits the queue but `maxwait` of the limits.
* `Ns_Resume` of an event that was paused while its proc ran may queue it twice
  (`resumeUnderway` of `Sched` shows it; the run leaves it out so that the other
  properties are checked beyond it). `Ns_Cancel` of a paused event leaks it, and
  one that comes while `SchedThread` has just read the deletion mark is lost for
  one round.
* `Ns_TaskRun` reports a poll timeout without calling the proc. (The exception
  in `DoneIsComplete` is just this: the task is done for its owner while it is
  still polled, `WAIT`, with the timeout its INIT callback set, and not `DONE`.) `TaskThread`
  reads flags of a task after it has announced its end, when its owner may have
  freed it. Cancelling a task that has just expired may link it into the wait
  list twice, which makes the list circular.
* `Ns_DbBouncePool` marks handles on the free list and raises a mark for those
  in use; one that is just being judged by `Ns_DbPoolPutHandle`, before the
  lock, misses it, and stays in use with its old connection.
* A thread in `ns_driver query` may take the next query for its own and wait
  again, without end if queries keep coming; once the driver has exited it waits
  for ever. The list of the readers is a stack, so that with more than two
  sockets one may be passed over again and again. `idlereaders` counts readers
  that were signalled and have a socket to take, so a new socket may wait for a
  busy reader although another could be created.
* `tcljob.c` says "To avoid deadlock, when locking both the queuelock and queue's
  lock lock the queuelock first" (line 45), and `ReleaseQueue(queuePtr, 0)` takes
  them the other way round when it deletes the queue. If another command has
  just named that queue, both wait for ever, and all job threads with them
  (`Stuck` of `JobQueue`; `JobsEnd` allows for it).
* `NextJob` frees a cancelled job without a broadcast on the condition of its
  queue: a thread in `ns_job waitany` sleeps on although no jobs are left.
  Nor does `waitany` see a detached job end while others are scheduled.
* `NsStartJobsShutdown` promises "All pending jobs are cancelled and waiting
  threads interrupted" (line 271): jobs that nobody runs stay scheduled, the job an
  exiting thread had taken is dropped as running for ever, and threads in `wait`
  are not woken. With no queue left the stop is not even recorded, and
  `NsWaitJobsShutdown` does not wait for the threads there are.
* `ns_job cancel` of a job that is done reads its state after freeing it. The
  sanity check in `wait` is the wrong way round, but what it reports is
  overwritten by the result. An idle thread counts as idle until it runs again,
  so one that was woken for a job keeps the next job from getting a thread of
  its own.
* `ns_limits set` and `ns_pools set` work without the lock and, after a bad
  option, write back a copy of the whole structure, counters included. In `Driver`
  the counts of the limits are then off for good (`undone`; `BooksAgree` holds but
  for it). Neither raising `maxrun`, nor such a write-back, nor a request that ends
  on another driver wakes the driver whose Conns wait for room; `RoomFromElsewhere`,
  a part of `QueueMoves`, says that these are the only such cases. Such a Conn is
  run at the next spin, or timed out.
* A pre-queue, read or queue-wait callback that closes its connection leaves
  `connPtr->sockPtr` NULL, through which the driver's loops go on reading.
* `ns.server` reports 0 for "queued" always (`JsServerQueued`, `nsjs.cc:1295`),
  which the dashboard shows as "Queued Conns" (`ServerStats.jsx:59`);
  "Total Connections ... Since server start" is the number of threads
  ever started, and "busy" threads count those that still start.
* The gauges of hit rates warn below 0.5 and alarm below 0.25 or 0.2 of a scale on
  which more is worse (`JsEngine.jsx:33`, `Caches.jsx:44`): a high rate is
  red, and amber is never reached.
* Times and shares are made texts before a table sorts them, and sort as such:
  10.000000 comes before 2.000000 (`ServerStats.jsx:173`). `fmtBytes` prints "1024.0 KB"
  just below a megabyte (`FormatsExact` allows for it).
* A change of the fragment between the first render and the run of its effects
  has no listener (`missed` of `Dashboard`): the tab follows at the next change.
* Points are stamped when they are made from an answer, and answers may arrive
  in another order than they were taken: the history is in the order of arrival.
* `Overview.jsx` reads `info.config` and `info.log`, which `stats-api.js` never
  sends, and `Drivers.jsx` has a branch no answer reaches. `server-entry.jsx`
  says it is "Called from stats.jsadp", which does not call it.
* `stats.jsadp` keeps the text of the bundle and its time in two shared
  variables: two requests that reload it at once may leave an old text under
  the new time.

## What is not modelled

`PROJECT.json` lists every component with its status. Parsing of requests and
ADP, Tcl evaluation, TLS and the HTTP/2 and HTTP/3 libraries, files and
processes are outside. Of the dashboard: what is inside a card, the look of
charts (`MiniChart.jsx` and the other components without state), an amount below
zero (fragmentation is the heap less what is allocated, from two reads; `fmtBytes`
would print it in bytes), the page
template `stats.jsadp` (its shared variables are a hazard of their own, listed),
the server-side entry that nothing calls, the build and the bundles it makes.
Of `stats-api.js`: what it asks of other parts than the pool is one step
without effect; outside, too, are effects of data races below the level of
statements (double-checked creation of locks), the width of counters
but those of the limits (a schedule id wraps after 2^31 events) and memory sizes (the poll array of
`TaskThread` is reallocated to too few bytes from the hundredth task on).

## The plan

Done: pools, driver, scheduler, tasks, locks, database pools, the stats
endpoint, the dashboard and the job queues, each with proofs of its safety.

Next, each with an MC module; small ones share a run, as in `MCSideBySide`, by a
variable that says which of them a behaviour is about:

1. `ProxyPool` (`nsproxylib.c`): hands work to child processes with timeouts. A
   handle is in one place and a dead slave is not handed out.
2. `Cache` (`cache.c`): size and LRU order, one thread computes an entry, a
   flush meanwhile; refinement of an abstract map.
3. `LifeCycle` (`nsmain.c`, `callbacks.c`) and `SockCallback`
   (`sockcallback.c`, `listen.c`): order and deadline of the shutdown, with the
   abstract promise of each part (its shutdown ends or the deadline passes).
4. `ConnRun` (`queue.c`, `conn.c`, `filter.c`, `op.c`, `connio.c`, `return.c`):
   which callbacks run, in which order and how often, keep-alive.
5. `Http2` (`http2.c`): streams shared by reader, driver and workers.
6. Algorithms in one run: `urlspace.c`, `index.c`, `urlencode.c`,
   `pathname.c`, against reference definitions.
