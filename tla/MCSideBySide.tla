---------------------------- MODULE MCSideBySide ----------------------------
(***************************************************************************)
(* The small systems side by side for TLC: the locks of nsthread, the      *)
(* event heap, and the connection pool for its liveness.  A behaviour      *)
(* exercises one of the five, so that one run checks them all.             *)
(***************************************************************************)
EXTENDS SideBySide

CONSTANTS
    PoolThreads, DriverThreads, Main, Conns, Polls, NoConn, Nobody, MinThreads, MaxThreads, MaxConns, Quotas

VARIABLES
    used,                           \* what this behaviour exercises
    poolPc, lock, waitq, stage, current, idle, waiting, starting, conn, quota,
    timed, expired, joinList, toJoin, shutdown, at, data    \* the connection pool

Pool == INSTANCE StatsApi WITH Threads <- PoolThreads, pc <- poolPc

poolVars ==
    <<poolPc, lock, waitq, stage, current, idle, waiting, starting, conn, quota,
      timed, expired, joinList, toJoin, shutdown, at, data>>

AllInit ==
    /\ used \in {"rwlock", "cslock", "sema", "heap", "pool"}
    /\ Init
    /\ Cs!Init /\ (used /= "cslock" => csTid = CHOOSE t \in Threads : TRUE)
    /\ Sm!Init /\ (used /= "sema" => smCount = 0)
    /\ Heap!Init
    /\ Pool!StatsInit

AllNext ==
    /\ \/ used = "rwlock" /\ Next /\ UNCHANGED <<csVars, smVars, heap, poolVars>>
       \/ used = "cslock" /\ Cs!Next /\ UNCHANGED <<vars, smVars, heap, poolVars>>
       \/ used = "sema" /\ Sm!Next /\ UNCHANGED <<vars, csVars, heap, poolVars>>
       \/ used = "heap" /\ Heap!Next /\ UNCHANGED <<vars, csVars, smVars, poolVars>>
       \/ used = "pool" /\ Pool!StatsNext /\ UNCHANGED <<vars, csVars, smVars, heap>>
    /\ UNCHANGED used

(* The fairness of ConnPool, where the pool is what is exercised and some   *)
(* of the requests are polls.                                              *)
PoolFairness ==
    /\ \A p \in Pool!Creators :
         SF_poolVars(used = "pool" /\ Pool!Creating(p) /\ UNCHANGED <<at, data>>)
    /\ \A t \in PoolThreads : SF_poolVars(used = "pool" /\ Pool!RunsOn(t))
    /\ SF_poolVars(used = "pool" /\ Pool!MainStep /\ UNCHANGED <<at, data>>)

AllSpec ==
    /\ AllInit /\ [][AllNext]_<<used, vars, csVars, smVars, heap, poolVars>>
    /\ Fairness /\ Cs!Fairness /\ Sm!Fairness /\ PoolFairness

-----------------------------------------------------------------------------
(* What the pool promises; for the others see SideBySide. *)

(* Every connection that is queued is served, unless the pool stops.       *)
ConnsServed == Pool!QueuedServed

(* Creators that join exited threads go on, and after StopPool all         *)
(* connection threads exit (NsConnThread, NsStopPools).                    *)
PoolStops == Pool!StopCompletes
=============================================================================
