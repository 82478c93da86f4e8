----------------------------- MODULE Dashboard -----------------------------
(***************************************************************************)
(* The dashboard in the browser: client-entry.jsx polls the server and     *)
(* renders App; Tabs, EChartsWrapper, DataTable and Log keep state of      *)
(* their own in hooks and effects.                                         *)
(*                                                                         *)
(* One JavaScript thread runs one task after the other: a timer, an answer *)
(* of fetch, a click, a hashchange event, React's render of what           *)
(* root.render was given, and React's flush of the effects that a render   *)
(* left.  Polls are not waited for, so several may be under way.           *)
(***************************************************************************)
EXTENDS Sections

CONSTANTS
    Payloads,       \* the data of an answer of stats-api.js
    PageData,       \* window.__STATS_DATA__ of the page
    Fields,         \* the fields each of these has
    MaxPolls,       \* bound: polls sent
    MaxHistory,     \* points kept: 60
    MaxEvents,      \* bound: hashchange events that wait
    UserTabs,       \* bound: the tabs the user opens
    UserHashes,     \* bound: the fragments the user types or comes back to
    UserColumns,    \* bound: the columns the user sorts by
    K,              \* 1024: the bytes of a kilobyte
    Amounts, Times  \* amounts and uptimes, none of which depends on the state

ASSUME DashboardAssumption ==
    /\ MaxPolls \in Nat /\ MaxHistory \in Nat \ {0} /\ MaxEvents \in Nat
    /\ UserTabs \subseteq TabIndexes
    /\ K \in Nat \ {0, 1} /\ Amounts \subseteq Nat /\ Times \subseteq Nat

(* stats-api.js always sends these, and stats.jsadp puts them on the page; *)
(* any other field may be empty.                                           *)
ASSUME AnswerAssumption ==
    \A d \in Payloads \cup {PageData} : {"info", "jsStats", "server", "memory"} \subseteq DOMAIN Fields[d]

VARIABLES
    polls,          \* how far each poll is, and the answer it was given
    taken,          \* snapshots the server has taken
    currentHistory, \* of client-entry.jsx: a point for each answer
    update,         \* what root.render was last given and React has not rendered
    shown,          \* the props of App as last rendered; up: it was rendered at all
    active,         \* of Tabs
    sorts,          \* of each DataTable that is shown
    effects,        \* what the last render left to be done by effects
    charts,         \* the echarts instances, and the option each drew last
    logAt,          \* where Log is scrolled: at its end, where the user put it, behind
    hash, events,   \* location.hash, hashchange events not yet delivered
    listening,      \* Tabs listens for them
    missed,         \* history variable: the last change of the hash was not heard
    arrived         \* history variable: every answer that arrived

network == <<polls, taken, arrived, currentHistory>>
screen == <<shown, active, sorts, effects, charts, logAt, listening>>
location == <<hash, events, missed>>
pageVars == <<network, update, screen, location>>

PollNumbers == 1 .. MaxPolls

View(i, props) == IF props.up THEN Content(i, Fields[props.data], props.hist) ELSE Empty

NoEffects == [dispose |-> {}, init |-> {}, draw |-> Empty, listen |-> FALSE, scroll |-> FALSE]

(* getInitialTab. *)
TabOf(h) == IF h \in Range(TabHashes) THEN CHOOSE i \in TabIndexes : TabHashes[i] = h ELSE 1

PageInit ==
    /\ polls = [n \in PollNumbers |-> [at |-> "unsent", answer |-> <<>>]]
    /\ taken = 0 /\ arrived = <<>> /\ currentHistory = <<>>
    /\ update = <<[up |-> TRUE, data |-> PageData, hist |-> <<>>]>>
    /\ shown = [up |-> FALSE, data |-> PageData, hist |-> <<>>]
    /\ active = 1 /\ sorts = Empty /\ effects = NoEffects
    /\ charts = Empty /\ logAt = "none"
    /\ hash \in UserHashes /\ events = 0
    /\ listening = FALSE /\ missed = FALSE

-----------------------------------------------------------------------------
(* poll(), every five seconds. *)

(* The timer starts a poll whether or not the last one has been answered.  *)
Tick(n) ==
    /\ polls[n].at = "unsent" /\ \A m \in 1 .. n - 1 : polls[m].at /= "unsent"
    /\ polls' = [polls EXCEPT ![n].at = "sent"]
    /\ UNCHANGED <<taken, arrived, currentHistory, update, screen, location>>

(* The server, which answers requests in any order. *)
Reply(n) ==
    /\ polls[n].at = "sent"
    /\ taken' = taken + 1
    /\ \E d \in Payloads :
         polls' = [polls EXCEPT ![n] =
                      [at |-> "answered", answer |-> <<[data |-> d, point |-> taken']>>]]
    /\ UNCHANGED <<arrived, currentHistory, update, screen, location>>

(* The request fails, or its answer is not ok or no JSON: it is ignored.   *)
Fail(n) ==
    /\ polls[n].at \in {"sent", "answered"}
    /\ polls' = [polls EXCEPT ![n] = [at |-> "over", answer |-> <<>>]]
    /\ UNCHANGED <<taken, arrived, currentHistory, update, screen, location>>

FaultySlice(s) == SubSeq(s, 1, IF Len(s) > MaxHistory THEN MaxHistory ELSE Len(s))

(* slice(-60) *)
Slice(s) == SubSeq(s, IF Len(s) > MaxHistory THEN Len(s) - MaxHistory + 1 ELSE 1, Len(s))

FaultyRenderWithData(d, hist) ==        \* a render that waits is not replaced
    update' = IF update = <<>> THEN <<[up |-> TRUE, data |-> d, hist |-> hist]>> ELSE update

(* root.render: React renders the last of the elements it was given. *)
renderWithData(d, hist) == update' = <<[up |-> TRUE, data |-> d, hist |-> hist]>>

Arrive(n) ==
    /\ polls[n].at = "answered"
    /\ polls' = [polls EXCEPT ![n] = [at |-> "over", answer |-> <<>>]]
    /\ LET answer == polls[n].answer[1]
       IN  /\ arrived' = Append(arrived, answer)
           /\ currentHistory' = Slice(Append(currentHistory, answer.point))
           /\ renderWithData(answer.data, currentHistory')
    /\ UNCHANGED <<taken, screen, location>>

-----------------------------------------------------------------------------
(* React. *)

Options(view) == [name \in PartsOf(view, "chart") |-> view[name].body]

FaultyChartEffects(old, new, kept) ==   \* the option is drawn once
    [dispose |-> DOMAIN Options(old) \ kept, init |-> DOMAIN Options(new) \ kept,
     draw |-> [name \in DOMAIN Options(new) \ kept |-> Options(new)[name]]]

(* EChartsWrapper: the effects of the charts when view new takes the place *)
(* of old and the charts in kept stay mounted.  An option is a new object  *)
(* in every render, so that every chart draws.                             *)
ChartEffects(old, new, kept) ==
    [dispose |-> DOMAIN Options(old) \ kept, init |-> DOMAIN Options(new) \ kept,
     draw |-> Options(new)]

(* Charts c after the effects e have run: first the cleanups, then the     *)
(* effects of what is mounted.                                             *)
Flushed(c, e) ==
    LET instances == (DOMAIN c \ e.dispose) \cup e.init
    IN  [name \in instances |-> IF name \in DOMAIN e.draw THEN e.draw[name] ELSE c[name]]

LogTail(props) == List(Fields[props.data], "logTail")
LogShown(i, props) == props.up /\ i = 8

(* The tables that stay mounted keep the state of their hooks. *)
SortsAfter(new, kept) ==
    [name \in PartsOf(new, "table") |-> IF name \in kept THEN sorts[name] ELSE Unsorted]

(* A render of App, given a root update, and its commit.  Effects that     *)
(* wait are flushed before.  The first render reads the fragment.          *)
RenderRoot ==
    /\ update /= <<>> /\ effects = NoEffects
    /\ update' = <<>> /\ shown' = update[1]
    /\ active' = IF shown.up THEN active ELSE TabOf(hash)
    /\ LET old == View(active, shown)
           new == View(active', shown')
           kept == DOMAIN old \cap DOMAIN new
           chart == ChartEffects(old, new, kept)
           scroll == /\ LogShown(active', shown')
                     /\ ~shown.up \/ LogTail(shown) /= LogTail(shown')
       IN  /\ sorts' = SortsAfter(new, kept)
           /\ effects' = [dispose |-> chart.dispose, init |-> chart.init, draw |-> chart.draw,
                          listen |-> TRUE, scroll |-> scroll]
           /\ logAt' = IF scroll THEN "behind" ELSE logAt
    /\ UNCHANGED <<network, charts, listening, location>>

FlushEffects ==
    /\ effects /= NoEffects /\ effects' = NoEffects
    /\ charts' = Flushed(charts, effects)
    /\ listening' = (listening \/ effects.listen)
    /\ logAt' = IF effects.scroll THEN "end" ELSE logAt
    /\ UNCHANGED <<network, update, shown, active, sorts, location>>

(* setActive(i) in the handler of an event: effects that wait are flushed, *)
(* Tabs is rendered without App, the content of the other tab is mounted   *)
(* anew, and the effects of that render are flushed at once.  Nothing is   *)
(* rendered when i is active already.                                      *)
SetActive(i) ==
    IF i = active
    THEN UNCHANGED screen
    ELSE LET old == View(active, shown)
             new == View(i, shown)
         IN  /\ active' = i
             /\ sorts' = SortsAfter(new, {})
             /\ charts' = Flushed(Flushed(charts, effects), ChartEffects(old, new, {}))
             /\ listening' = (listening \/ effects.listen)
             /\ logAt' = IF LogShown(i, shown) THEN "end" ELSE "none"
             /\ effects' = NoEffects
             /\ UNCHANGED shown

-----------------------------------------------------------------------------
(* The user. *)

(* The fragment changes, and a hashchange event is queued. *)
SetHash(h) ==
    /\ hash' = h
    /\ events' = IF h = hash THEN events ELSE events + 1

FaultySelect(i) ==              \* the fragment is not set
    /\ shown.up /\ i \in UserTabs
    /\ SetActive(i)
    /\ UNCHANGED <<network, update, location>>

(* A click on a tab. *)
Select(i) ==
    /\ shown.up /\ i \in UserTabs /\ events < MaxEvents
    /\ SetHash(TabHashes[i])
    /\ SetActive(i)
    /\ missed' = FALSE
    /\ UNCHANGED <<network, update>>

(* The user edits the URL, or goes back. *)
GoTo(h) ==
    /\ h \in UserHashes \ {hash} /\ events < MaxEvents
    /\ SetHash(h)
    /\ UNCHANGED <<network, update, screen, missed>>

(* A hashchange event is delivered, and finds a listener or none.  The     *)
(* listener looks at the fragment of that moment.                          *)
HashChange ==
    /\ events > 0
    /\ events' = events - 1
    /\ IF listening
       THEN SetActive(TabOf(hash)) /\ missed' = FALSE
       ELSE UNCHANGED screen /\ missed' = shown.up
    /\ UNCHANGED <<network, update, hash>>

(* A click on a header of a table. *)
SortBy(name, col) ==
    /\ LET rows == View(active, shown)[name].body IN col \in DOMAIN rows[1]
    /\ sorts' = [sorts EXCEPT ![name] = handleSort(@, col)]
    /\ UNCHANGED <<network, update, shown, active, effects, charts, logAt, listening, location>>

ScrollLog ==
    /\ LogShown(active, shown) /\ effects = NoEffects
    /\ logAt' = "user"
    /\ UNCHANGED <<network, update, shown, active, sorts, effects, charts, listening, location>>

-----------------------------------------------------------------------------
Network == \E n \in PollNumbers : Tick(n) \/ Reply(n) \/ Fail(n) \/ Arrive(n)

User ==
    \/ \E i \in UserTabs : Select(i)
    \/ \E h \in UserHashes : GoTo(h)
    \/ \E name \in DOMAIN sorts : \E col \in UserColumns : SortBy(name, col)
    \/ ScrollLog

PageNext == Network \/ RenderRoot \/ FlushEffects \/ HashChange \/ User

PageSpec == PageInit /\ [][PageNext]_pageVars

(* React gets to a render and to effects that wait; neither answers nor    *)
(* the user need come.  (RenderRoot is the action that takes the update;   *)
(* FlushEffects and a click on another tab are those that run effects.)    *)
Render == update /= <<>> /\ effects = NoEffects /\ update' = <<>>
Flush == effects /= NoEffects /\ effects' = NoEffects

FairPageSpec == PageSpec /\ WF_update(Render) /\ WF_effects(Flush)

-----------------------------------------------------------------------------
(* What the page shows, and what it has recorded. *)

PageTypeOK ==
    /\ \A n \in PollNumbers : polls[n].at \in {"unsent", "sent", "answered", "over"}
    /\ Len(update) <= 1 /\ active \in TabIndexes
    /\ logAt \in {"none", "behind", "end", "user"}
    /\ events \in 0 .. MaxEvents /\ {listening, missed} \subseteq BOOLEAN

(* What is imperative on the page follows what is declared: once the       *)
(* effects of a render have run, or when those that wait will have run,    *)
(* exactly the charts of the open tab live and each has drawn its option   *)
(* of the last render (EChartsWrapper.jsx), no instance is left over when  *)
(* a tab is closed or an answer takes a chart away, and the log is at its  *)
(* end unless the user has scrolled it since it last changed (Log.jsx).    *)
ScreenTrue ==
    /\ PageTypeOK
    /\ Flushed(charts, effects) = Options(View(active, shown))
    /\ LogShown(active, shown) <=> logAt /= "none"
    /\ logAt = "behind" => effects.scroll

(* When no hashchange event waits the open tab is the one the fragment     *)
(* names, whoever changed it last and however clicks and events crossed;   *)
(* except that a change between the first render and the flush of its      *)
(* effects, which add the listener, is not heard (Tabs.jsx).               *)
TabFollowsHash ==
    shown.up /\ events = 0 => active = TabOf(hash) \/ missed

(* The tables of a tab, and the rows each of them is to show.              *)
TablesOf(i) ==
    IF i = 3 THEN {"URL Stats", "Running Threads", "Thread Locks", "Scheduled Procedures"}
    ELSE IF i = 5 THEN {"Caches"}
    ELSE IF i = 7 THEN {"ADP Page Cache"} ELSE {}

TableNames == TablesOf(3) \cup TablesOf(5) \cup TablesOf(7)

RowsOf(data, name) ==
    IF name = "URL Stats" THEN List(data.server, "urlstats")
    ELSE IF name = "Running Threads" THEN List(data, "threads")
    ELSE IF name = "Thread Locks" THEN List(data, "locks")
    ELSE IF name = "Scheduled Procedures" THEN List(data, "scheduled")
    ELSE IF name = "Caches" THEN List(data, "caches") ELSE List(data, "adpStats")

ASSUME RowsAssumption ==
    /\ Null \notin Int
    /\ \A d \in Payloads \cup {PageData} : \A name \in TableNames :
           LET rows == RowsOf(Fields[d], name)
           IN  /\ rows \in Seq(Range(rows))
               /\ \A row \in Range(rows) : \A col \in DOMAIN Cells(name, row) :
                      Cells(name, row)[col] \in Int \cup {Null}

(* Row i of a table comes after every row with a smaller cell (larger, if  *)
(* sorted downwards), one without a cell is last in both directions, and   *)
(* rows that do not differ stay as the answer has them.                    *)
Before(rows, s, j, i) ==
    LET a == rows[j][s.col]
        b == rows[i][s.col]
    IN  IF s.col = Null \/ a = b THEN j < i
        ELSE b = Null \/ (a /= Null /\ IF s.asc THEN a < b ELSE a > b)

(* A table shows each row of its list in the answer shown exactly once, in *)
(* the order the user chose, of numbers or of texts as they are shown, and *)
(* whichever answers came since (DataTable.jsx), and no list is shown by   *)
(* no table.                                                               *)
TablesTrue ==
    shown.up =>
        \A name \in TablesOf(active) :
            LET list == RowsOf(Fields[shown.data], name)
                rows == [i \in DOMAIN list |-> Cells(name, list[i])]
                table == DataTable(View(active, shown)[name].body, sorts[name])
                place(i) == Cardinality({j \in DOMAIN rows : Before(rows, sorts[name], j, i)})
            IN  list /= <<>> =>
                    /\ Len(table) = Len(list)
                    /\ \A i \in DOMAIN rows : table[1 + place(i)] = rows[i]

(* No tab is blank, whatever an answer has.                                *)
NoTabBlank ==
    shown.up => \A i \in TabIndexes : View(i, shown) /= Empty

NumeralsExact ==
    /\ \A b \in Amounts : BytesExact(b, K)
    /\ \A seconds \in Times : UptimeExact(seconds)

(* The numerals of the Memory and Overview tabs say what they stand for:   *)
(* fmtBytes is within half a unit of its last decimal, prints less than K  *)
(* of a smaller unit except where rounding carries it to K itself, and     *)
(* never makes the larger of two amounts look smaller; the parts of        *)
(* formatUptime that are printed add up to the time, and each is less than *)
(* one of the next larger unit.                                            *)
FormatsExact == shown.up => NumeralsExact

(* The page is live.                                                       *)
Abstract == INSTANCE LivePage
            WITH Datas <- Payloads \cup {PageData}, Points <- Nat, answers <- arrived,
                 data <- shown.data, history <- shown.hist

(* What the page shows is at any time the data of the last answer that had *)
(* arrived at some moment and the points of the last 60: no answer is      *)
(* dropped from the history, none is in it twice, and none that arrived    *)
(* earlier is shown again (client-entry.jsx).                              *)
IsLive == Abstract!Spec

(* Every answer that arrives is shown, or one that arrived after it: no    *)
(* render that waits, no click and no event of Tabs makes React forget it. *)
Seen(p) ==
    \E i \in DOMAIN arrived :
        /\ shown.hist /= <<>> /\ arrived[i].point = shown.hist[Len(shown.hist)]
        /\ \E j \in 1 .. i : arrived[j].point = p

CatchesUp ==
    \A p \in PollNumbers : (\E i \in DOMAIN arrived : arrived[i].point = p) ~> Seen(p)
=============================================================================
