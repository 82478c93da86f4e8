------------------------------ MODULE StatsApi ------------------------------
(***************************************************************************)
(* stats-api.js, the endpoint the dashboard polls, inside the server it    *)
(* reports on: the poll is itself a connection of the pool, and the script *)
(* runs in the connection thread that serves it.  It asks for the state of *)
(* the pool in several calls of ns.server, each of which takes and leaves  *)
(* the pool lock (NsTclServerObjCmd), while everybody else goes on.        *)
(***************************************************************************)
EXTENDS ConnPool

CONSTANT Polls       \* the connections that are requests for stats-api.js

ASSUME PollsAssumption == Polls \subseteq Conns

VARIABLES
    at,              \* how far the script of a poll has come
    data             \* data.server, as far as it is filled in

api == <<at, data>>

Steps == {"auth", "threads", "active", "waiting", "ok", "denied"}

ApiInit ==
    /\ at = [c \in Polls |-> "auth"]
    /\ data = [c \in Polls |-> [current |-> 0, idle |-> 0, active |-> 0, waiting |-> 0]]

\* Thread t runs the script of a poll that is not answered yet.
Polling(t) ==
    /\ pc[t] = "run" /\ conn[t] \in Polls
    /\ at[conn[t]] \notin {"ok", "denied"}

\* The name and password of the request are compared with the configured
\* ones; if they differ the answer is a 401.
CheckAuth(t) ==
    /\ Polling(t) /\ at[conn[t]] = "auth"
    /\ \E s \in {"threads", "denied"} : at' = [at EXCEPT ![conn[t]] = s]
    /\ UNCHANGED data

FaultyReadThreads(t) ==          \* two calls that others come between
    /\ Polling(t) /\ LockFree
    /\ \/ /\ at[conn[t]] = "threads" /\ data[conn[t]].current = 0
          /\ data' = [data EXCEPT ![conn[t]].current = current]
          /\ UNCHANGED at
       \/ /\ at[conn[t]] = "threads" /\ data[conn[t]].current # 0
          /\ data' = [data EXCEPT ![conn[t]].idle = idle]
          /\ at' = [at EXCEPT ![conn[t]] = "active"]

\* threads: one section of the lock gives both counters.
ReadThreads(t) ==
    /\ Polling(t) /\ at[conn[t]] = "threads" /\ LockFree
    /\ data' = [data EXCEPT ![conn[t]].current = current, ![conn[t]].idle = idle]
    /\ at' = [at EXCEPT ![conn[t]] = "active"]

\* active: the length of the list of running connections.
ReadActive(t) ==
    /\ Polling(t) /\ at[conn[t]] = "active" /\ LockFree
    /\ data' = [data EXCEPT ![conn[t]].active =
                    Cardinality({c \in Conns : stage[c] = "active"})]
    /\ at' = [at EXCEPT ![conn[t]] = "waiting"]

\* waiting: queue.wait.num.  (queued is parsed as a number out of a list of
\* lists, which starts with a brace, and so is always 0.)
ReadWaiting(t) ==
    /\ Polling(t) /\ at[conn[t]] = "waiting" /\ LockFree
    /\ data' = [data EXCEPT ![conn[t]].waiting = Len(waitq)]
    /\ at' = [at EXCEPT ![conn[t]] = "ok"]

PollStep(t) ==
    /\ CheckAuth(t) \/ ReadThreads(t) \/ ReadActive(t) \/ ReadWaiting(t)
    /\ UNCHANGED vars

\* The pool goes on; ConnRun of a poll ends with its script.
PoolStep ==
    /\ Next
    /\ \A t \in Threads : Polling(t) => pc'[t] = "run"
    /\ UNCHANGED api

StatsNext == PoolStep \/ \E t \in Threads : PollStep(t)

StatsInit == Init /\ ApiInit

StatsSpec == StatsInit /\ [][StatsNext]_<<vars, api>>

\* What a connection thread does by itself, when its request may be a poll;
\* fairness is about this.
RunsOn(t) == PollStep(t) \/ (ThreadStep(t) /\ ~Polling(t) /\ UNCHANGED api)

-----------------------------------------------------------------------------
(* What the Server tab makes of an answer (ServerStats.jsx).               *)

Answered == {c \in Polls : at[c] = "ok"}

\* "Active (busy) threads".
BusyShown(c) == data[c].current - data[c].idle

(* The numbers of an answer are possible ones although they are read while *)
(* the pool changes: the bars of the Server tab stay within their frames,  *)
(* as ServerStats.jsx draws them without a check, and the poll finds       *)
(* itself among the busy threads and the running connections.              *)
AnswerSound ==
    \A c \in Answered :
        /\ 1 <= BusyShown(c) /\ BusyShown(c) <= data[c].current
        /\ data[c].current <= MaxThreads
        /\ 1 <= data[c].active /\ data[c].active <= MaxThreads
=============================================================================
