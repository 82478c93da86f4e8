------------------------------- MODULE Lists -------------------------------
(***************************************************************************)
(* What the linked lists of the server need beside the library of          *)
(* sequences: to find the first of some elements, and to keep some         *)
(* elements in their order.  (SelectSeq, which does the same, is opaque to *)
(* the provers.)                                                           *)
(***************************************************************************)
EXTENDS Integers, Sequences, FiniteSets

(* The places of s that hold elements of S. *)
PlacesOf(s, S) == {i \in DOMAIN s : s[i] \in S}

(* The first place of s that holds an element of S, or 0. *)
FirstIn(s, S) ==
    LET I == PlacesOf(s, S)
    IN  IF I = {} THEN 0 ELSE CHOOSE i \in I : \A k \in I : i <= k

(* Of the places I, how many there are up to i. *)
Rank(I, i) == Cardinality({j \in I : j <= i})

(* The elements of s that are in S, in their order.                        *)
Filter(s, S) ==
    LET I == PlacesOf(s, S)
    IN  [k \in 1 .. Cardinality(I) |-> s[CHOOSE i \in I : Rank(I, i) = k]]

(* The places that something passes from k on, when next says from which   *)
(* places it goes on, and to where.                                        *)
Walk(k, next) ==
    LET from[i \in Nat] == IF i \in DOMAIN next THEN {i} \cup from[next[i]] ELSE {i}
    IN  from[k]

(* The element at k is exchanged with its neighbour at each step of the    *)
(* walk: it ends at the last place, and the others move up by one.         *)
Exchanged(s, k, next) ==
    LET walk == Walk(k, next)
    IN  [i \in DOMAIN s |-> IF i \notin walk THEN s[i]
                            ELSE IF i \in DOMAIN next THEN s[next[i]] ELSE s[k]]
=============================================================================
