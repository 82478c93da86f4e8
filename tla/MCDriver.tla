------------------------------ MODULE MCDriver ------------------------------
(* Sockets with a reader, or without, in five scenes: two with a request of   *)
(* another driver; two with a thread that queries the driver; one with two of *)
(* those; two with an ns_limits set, which may fail; one with that and the    *)
(* other driver.  Either none runs and two may wait, or one runs and one may. *)
EXTENDS Driver

RunOrWait == {<<0, 2>>, <<1, 1>>}

OneOf(S) == {CHOOSE x \in S : TRUE}
Scenes ==
    (BOOLEAN \X {Socks \cup Others, Socks \cup OneOf(Queriers), OneOf(Socks) \cup Queriers})
    \cup ({TRUE} \X {Socks \cup Setters, OneOf(Socks) \cup Others \cup Setters})
=============================================================================
