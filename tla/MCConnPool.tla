----------------------------- MODULE MCConnPool -----------------------------
(***************************************************************************)
(* A small instance for TLC of the connection pool with a poll of          *)
(* stats-api.js among its connections.                                     *)
(***************************************************************************)
EXTENDS StatsApi
=============================================================================
