------------------------------ MODULE LivePage ------------------------------
(***************************************************************************)
(* What the dashboard promises: it is a live page.  Answers of the server  *)
(* come in; the page shows the data of the last one that has come and the  *)
(* points of the last MaxHistory.                                          *)
(***************************************************************************)
EXTENDS Integers, Sequences

CONSTANTS
    Datas,          \* the data of an answer
    Points,         \* its point in the history
    MaxHistory      \* points kept

VARIABLES
    answers,        \* every answer that came, in the order of coming
    data, history   \* what the page shows

page == <<data, history>>

(* The last n elements of a sequence, or all of them. *)
LastOf(n, s) == SubSeq(s, IF Len(s) > n THEN Len(s) - n + 1 ELSE 1, Len(s))

PointsOf(s) == [i \in DOMAIN s |-> s[i].point]

Init ==
    /\ answers = <<>> /\ history = <<>>
    /\ data \in Datas

Answer ==
    /\ Len(answers') = Len(answers) + 1
    /\ SubSeq(answers', 1, Len(answers)) = answers
    /\ answers'[Len(answers')] \in [data : Datas, point : Points]
    /\ UNCHANGED page

Show ==
    /\ answers /= <<>>
    /\ data' = answers[Len(answers)].data
    /\ history' = PointsOf(LastOf(MaxHistory, answers))
    /\ UNCHANGED answers

Next == Answer \/ Show

Spec == Init /\ [][Next]_<<answers, page>>
=============================================================================
