---------------------------- MODULE MCDashboard ----------------------------
(***************************************************************************)
(* A small instance of the dashboard for TLC: answers of a server that     *)
(* rests and of one at work, whose tables hold ties, times that differ in  *)
(* their order as numbers and as texts, and a cache whose statistics could *)
(* not be had.  (Without and with tcmalloc: polls go on while the server   *)
(* is restarted.)                                                          *)
(***************************************************************************)
EXTENDS Dashboard

Url(hits, wait) ==
    [url |-> wait, hits |-> hits, waitUsec |-> wait, openUsec |-> wait, closedUsec |-> wait]

Cache(hits) == [name |-> hits, entries |-> 1, hits |-> hits, misses |-> 1, flushed |-> 0]

Adp(evals) ==
    [file |-> evals, evals |-> evals, refcnt |-> 0, size |-> 1, blocks |-> 1, scripts |-> 0,
     mtime |-> evals]

Thread(n) == [name |-> n, tid |-> n, flags |-> 0, ctime |-> n, proc |-> n]
Lock(uses, waits) == [name |-> uses, owner |-> Null, nlock |-> uses, nbusy |-> waits]
Proc(n) == [proc |-> n, id |-> n, interval |-> n, nextqueue |-> n, lastend |-> 0]

Server(urls) == [connections |-> 1, pools |-> <<"default">>, urlstats |-> urls]

Resting ==
    [info |-> "info", jsStats |-> "stats", server |-> Server(<<>>),
     memory |-> [available |-> FALSE], logTail |-> <<"started">>]

Working ==
    [info |-> "info", jsStats |-> "stats",
     server |-> Server(<<Url(1, 7), Url(0, 10), Url(2, 10), Url(1, 2), Url(0, 12)>>),
     threads |-> <<Thread(4)>>, locks |-> <<Lock(2, 1), Lock(0, 0), Lock(4, 1)>>,
     scheduled |-> <<Proc(3)>>,
     memory |-> [available |-> TRUE, heapSize |-> 9],
     memorySizeClasses |-> <<[freeBytes |-> 1], [freeBytes |-> 4]>>,
     drivers |-> <<"nssock">>, caches |-> <<Cache(2), [name |-> 5], Cache(1)>>,
     adpStats |-> <<Adp(1), Adp(0)>>,
     logTail |-> <<"working">>]

Page == [Resting EXCEPT !.logTail = <<>>, !.server = Server(<<Url(1, 1), Url(0, 1)>>)]

Contents == "page" :> Page @@ "resting" :> Resting @@ "working" :> Working

(* "10" comes before "2", and the dash before both.                        *)
RankOfText(kind, x) == IF kind = "share" THEN 50 ELSE IF x < 10 THEN 10 * x ELSE x

SomeAmounts == 0 .. 2 * K ^ 3

SomeTimes ==
    {86400 * d + 3600 * h + 60 * m + s :
        d \in 0 .. 1, h \in {0, 1, 23}, m \in {0, 1, 59}, s \in {0, 1, 59}}
=============================================================================
