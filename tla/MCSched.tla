------------------------------ MODULE MCSched ------------------------------
(* Small instances of Sched for TLC. *)
EXTENDS Sched

Kind(once, thread, interval, period) ==
    [once |-> once, thread |-> thread, interval |-> interval, period |-> period]

(* A daily event at slot 0 of a day of two seconds, a recurring one and a  *)
(* threaded one-shot.                                                      *)
MixedKinds == {Kind(FALSE, FALSE, 0, 2), Kind(FALSE, TRUE, 1, 0), Kind(TRUE, TRUE, 1, 0)}
SyncKinds == {Kind(TRUE, FALSE, 0, 0), Kind(FALSE, FALSE, 1, 0)}
=============================================================================
