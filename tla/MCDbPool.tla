------------------------------ MODULE MCDbPool ------------------------------
(* A small instance of DbPool for TLC. *)
EXTENDS DbPool
=============================================================================
