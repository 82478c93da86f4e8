------------------------------ MODULE Sections ------------------------------
(***************************************************************************)
(* What each tab of the dashboard shows for the data of an answer and the  *)
(* history: App.jsx and sections/*.jsx.                                    *)
(*                                                                         *)
(* Data is a record that has the fields the answer has; the list of a      *)
(* field is a sequence of rows.  A view maps the name of each part of a    *)
(* tab to its kind and content: a chart's is its option, a table's its     *)
(* rows, and that of a card or a message is left out.                      *)
(***************************************************************************)
EXTENDS Widgets

Has(data, field) == field \in DOMAIN data
List(data, field) == IF Has(data, field) THEN data[field] ELSE <<>>

Empty == [name \in {} |-> <<>>]
Part(name, kind, body) == [n \in {name} |-> [kind |-> kind, body |-> body]]

(* The parts of two views. *)
v ++ w == [n \in DOMAIN v \cup DOMAIN w |-> IF n \in DOMAIN v THEN v[n] ELSE w[n]]

Card(name) == Part(name, "card", <<>>)
Message(name) == Part(name, "message", <<>>)
When(condition, view) == IF condition THEN view ELSE Empty
(* A line over time has a point for every entry of the history; one point  *)
(* is no line.                                                             *)
HistoryChart(name, hist) == When(Len(hist) > 1, Part(name, "chart", hist))

-----------------------------------------------------------------------------
(* The columns of the tables: what is made of a row of the answer before   *)
(* DataTable shows and sorts it.  Times and shares become texts, and are   *)
(* sorted as such.                                                         *)

Of(row, field) == IF Has(row, field) THEN row[field] ELSE Null
OrZero(cell) == IF cell = Null THEN 0 ELSE cell
OrDash(cell) == IF cell = Null THEN Dash ELSE cell

fmtTime(epoch) == IF epoch \in {Null, 0} THEN Dash ELSE TextRank("date", epoch)
fmtSeconds(usec) == IF usec = Null THEN Dash ELSE TextRank("seconds", usec)
fmtShare(part, whole) ==
    IF whole /= Null /\ whole > 0 THEN TextRank("share", <<part, whole>>) ELSE Dash

UrlRow(u) ==
    [url |-> Of(u, "url"), hits |-> Of(u, "hits"), waitSec |-> fmtSeconds(Of(u, "waitUsec")),
     openSec |-> fmtSeconds(Of(u, "openUsec")), closedSec |-> fmtSeconds(Of(u, "closedUsec"))]

ThreadRow(th) ==
    [name |-> Of(th, "name"), tid |-> Of(th, "tid"), flags |-> Of(th, "flags"),
     ctime |-> fmtTime(Of(th, "ctime")), proc |-> Of(th, "proc")]

(* A lock without an owner has the empty text, which stands for Null here. *)
LockRow(lk) ==
    [name |-> Of(lk, "name"), owner |-> OrDash(Of(lk, "owner")), nlock |-> Of(lk, "nlock"),
     nbusy |-> Of(lk, "nbusy"), contention |-> fmtShare(Of(lk, "nbusy"), Of(lk, "nlock"))]

ScheduledRow(s) ==
    [proc |-> Of(s, "proc"), id |-> Of(s, "id"), interval |-> Of(s, "interval"),
     nextqueue |-> fmtTime(Of(s, "nextqueue")), lastend |-> fmtTime(Of(s, "lastend"))]

(* The gauge is an element of the page: as texts they are all the same.    *)
CacheRow(c) ==
    [name |-> Of(c, "name"), entries |-> OrZero(Of(c, "entries")),
     hits |-> OrZero(Of(c, "hits")), misses |-> OrZero(Of(c, "misses")),
     flushed |-> OrZero(Of(c, "flushed")), _gauge |-> 0]

AdpRow(e) ==
    [file |-> Of(e, "file"), evals |-> Of(e, "evals"), refcnt |-> Of(e, "refcnt"),
     size |-> Of(e, "size"), blocks |-> Of(e, "blocks"), scripts |-> Of(e, "scripts"),
     mtime |-> fmtTime(Of(e, "mtime"))]

Cells(name, row) ==
    CASE name = "URL Stats"            -> UrlRow(row)
      [] name = "Running Threads"      -> ThreadRow(row)
      [] name = "Thread Locks"         -> LockRow(row)
      [] name = "Scheduled Procedures" -> ScheduledRow(row)
      [] name = "Caches"               -> CacheRow(row)
      [] name = "ADP Page Cache"       -> AdpRow(row)

TableIf(name, list) ==
    When(list /= <<>>, Part(name, "table", [i \in DOMAIN list |-> Cells(name, list[i])]))

-----------------------------------------------------------------------------
Overview(data) ==
    When(Has(data, "info"), Card("Overview") ++ Card("Server Info"))

JsEngine(data, hist) ==
    When(Has(data, "jsStats"),
         Card("JS Engine") ++ Card("Script Cache") ++ HistoryChart("Request History", hist))

-----------------------------------------------------------------------------
(* The Server tab: nothing at all without data.server. *)

ThreadPool == Card("Connections") ++ Card("Thread Pool")

Totals(server) ==
    When(Has(server, "connections"), Card("Total Connections"))
    ++ When(List(server, "pools") /= <<>>, Card("Connection Pools"))

ConnectionHistory(hist) == HistoryChart("Connection History", hist)
ThreadHistory(hist) == HistoryChart("Thread Pool History", hist)

UrlStats(server) == TableIf("URL Stats", List(server, "urlstats"))
RunningThreads(data) == TableIf("Running Threads", List(data, "threads"))
ThreadLocks(data) == TableIf("Thread Locks", List(data, "locks"))
ScheduledProcs(data) == TableIf("Scheduled Procedures", List(data, "scheduled"))

ServerStats(data, hist) ==
    When(Has(data, "server"),
         ThreadPool ++ Totals(data.server)
         ++ ConnectionHistory(hist) ++ ThreadHistory(hist)
         ++ UrlStats(data.server) ++ RunningThreads(data) ++ ThreadLocks(data)
         ++ ScheduledProcs(data))

-----------------------------------------------------------------------------
(* The Memory tab. *)

HeapUtilization(memory) ==
    When(Has(memory, "heapSize") /\ memory.heapSize > 0, Card("Heap Utilization"))

(* The twenty size classes with most free bytes, the largest first.        *)
Top == 20

SizeClasses(data) ==
    LET classes == List(data, "memorySizeClasses")
        top == DataTable(classes, [col |-> "freeBytes", asc |-> FALSE])
    IN  IF classes = <<>> THEN Message("Size class data unavailable.")
        ELSE Part("Size Classes", "chart", SubSeq(top, 1, Min({Top, Len(top)})))

Memory(data, hist) ==
    IF ~Has(data, "memory") THEN Empty
    ELSE IF ~data.memory.available THEN Message("tcmalloc stats not available")
    ELSE Card("Memory") ++ HeapUtilization(data.memory)
         ++ Card("tcmalloc Internal Caches") ++ SizeClasses(data)
         ++ HistoryChart("Memory Over Time", hist)

-----------------------------------------------------------------------------
(* The tabs without history. *)

Caches(data) ==
    IF List(data, "caches") = <<>> THEN Message("No named caches configured.")
    ELSE TableIf("Caches", data.caches)

FaultyDrivers(data) ==
    When(List(data, "drivers") /= <<>>, Card("Network Drivers"))
    ++ When(Has(data, "http2") /\ data.http2 /= <<>>, Card("HTTP/2"))
    ++ When(Has(data, "http3") /\ data.http3 /= <<>>, Card("HTTP/3"))

Drivers(data) ==
    LET view == When(List(data, "drivers") /= <<>>, Card("Network Drivers"))
                ++ When(Has(data, "http2") /\ data.http2 /= <<>>, Card("HTTP/2"))
                ++ When(Has(data, "http3") /\ data.http3 /= <<>>, Card("HTTP/3"))
    IN  IF view = Empty THEN Message("No drivers or HTTP/2/3 stats reported.") ELSE view

AdpCache(data) ==
    IF List(data, "adpStats") = <<>> THEN Message("No ADP pages cached.")
    ELSE TableIf("ADP Page Cache", data.adpStats)

Log(data) == Part("Server Log", "log", List(data, "logTail"))

-----------------------------------------------------------------------------
(* App: the tabs, in order, and the fragment of the URL that names each.   *)

TabHashes == <<"overview", "js-engine", "server", "memory", "caches", "drivers",
               "adp-cache", "log">>

TabIndexes == DOMAIN TabHashes

(* The content of tab i; App is first rendered with whatever the page has. *)
Content(i, data, hist) ==
    CASE i = 1 -> Overview(data)
      [] i = 2 -> JsEngine(data, hist)
      [] i = 3 -> ServerStats(data, hist)
      [] i = 4 -> Memory(data, hist)
      [] i = 5 -> Caches(data)
      [] i = 6 -> Drivers(data)
      [] i = 7 -> AdpCache(data)
      [] i = 8 -> Log(data)

PartsOf(view, kind) == {name \in DOMAIN view : view[name].kind = kind}
=============================================================================
