-------------------------- MODULE TaskQueue_proofs --------------------------
(***************************************************************************)
(* Theorems about TaskQueue and their proofs.                              *)
(***************************************************************************)
EXTENDS TaskQueue, Lemmas

-----------------------------------------------------------------------------
(* Lists that are linked through their elements.                           *)

\* What a pointer to the i-th task of list L is.
At(L, i) == IF i \in 1 .. Len(L) THEN L[i] ELSE NoTask

(* The tasks of L are linked in their order, and the list ends.            *)
IsChain(L, first, next) ==
    /\ L \in Seq(Tasks) /\ IsInjective(L)
    /\ first = At(L, 1)
    /\ \A i \in 1 .. Len(L) : next[L[i]] = At(L, i + 1)

Chained(first, next) == \E L : IsChain(L, first, next)

(* A list without repetitions is not longer than there are tasks.          *)
LEMMA ChainLength ==
    ASSUME NEW L \in Seq(Tasks), IsInjective(L)
    PROVE  Len(L) <= Cardinality(Tasks) /\ Cardinality(Tasks) \in Nat
<1>1. L \in Injection(1 .. Len(L), Tasks)
  BY DEF Injection, IsInjective
<1>2. IsFiniteSet(Tasks) /\ Cardinality(Tasks) \in Nat
  BY TaskAssumption, FS_CardinalityType
<1>3. Len(L) \in Nat
  OBVIOUS
<1>4. Cardinality(1 .. Len(L)) = Len(L)
  <2>1. Cardinality(1 .. Len(L)) = IF 1 > Len(L) THEN 0 ELSE Len(L) - 1 + 1
    BY <1>3, FS_Interval
  <2> QED  BY <1>3, <2>1
<1>5. Cardinality(1 .. Len(L)) <= Cardinality(Tasks)
  BY <1>1, <1>2, FS_Injection
<1> QED  BY <1>2, <1>4, <1>5

(* List, which follows the links, finds the tasks of a chain.              *)
LEMMA ChainList ==
    ASSUME NEW L, NEW first, NEW next, IsChain(L, first, next)
    PROVE  List(first, next) = Range(L)
<1> DEFINE C == Cardinality(Tasks)
           Step(X) == X \cup {next[t] : t \in X \ {NoTask}}
           IsHop(f) == f = [n \in 0 .. C |-> IF n = 0 THEN {first} ELSE Step(f[n - 1])]
           hop == CHOOSE f : IsHop(f)
           h == [n \in 0 .. C |-> {At(L, i) : i \in 1 .. n + 1}]
<1>1. /\ L \in Seq(Tasks) /\ IsInjective(L) /\ first = At(L, 1)
      /\ \A i \in 1 .. Len(L) : next[L[i]] = At(L, i + 1)
      /\ Len(L) \in Nat /\ Len(L) <= C /\ C \in Nat /\ NoTask \notin Tasks
  BY ChainLength, TaskAssumption DEF IsChain
<1>2. \A i \in 1 .. Len(L) : At(L, i) = L[i] /\ L[i] \in Tasks
  BY <1>1 DEF At
<1>3. \A i \in Nat : i \notin 1 .. Len(L) => At(L, i) = NoTask
  BY DEF At
<1> HIDE DEF C
<1>4. ASSUME NEW n \in 0 .. C, n # 0
      PROVE  Step(h[n - 1]) = h[n]
  <2>1. n \in Nat /\ n - 1 \in 0 .. C /\ n >= 1
    BY <1>1, <1>4
  <2>2. h[n] = {At(L, i) : i \in 1 .. n + 1} /\ h[n - 1] = {At(L, i) : i \in 1 .. n}
    <3>1. h[n - 1] = {At(L, i) : i \in 1 .. (n - 1) + 1} /\ (n - 1) + 1 = n
      BY <2>1
    <3> QED  BY <3>1
  <2>3. ASSUME NEW i \in 1 .. n PROVE At(L, i) \in h[n]
    <3>1. i \in 1 .. n + 1
      BY <2>1
    <3> QED  BY <2>2, <3>1
  <2>4. ASSUME NEW t \in h[n - 1], t # NoTask PROVE next[t] \in h[n]
    <3>1. PICK i \in 1 .. n : t = At(L, i)
      BY <2>2, <2>4
    <3>2. i \in 1 .. Len(L)
      BY <1>3, <2>1, <2>4, <3>1
    <3>3. t = L[i]
      BY <1>2, <3>1, <3>2
    <3>4. next[L[i]] = At(L, i + 1)
      BY <1>1, <3>2
    <3>5. i + 1 \in 1 .. n + 1
      BY <2>1
    <3> HIDE DEF h
    <3> QED  BY <2>2, <3>3, <3>4, <3>5
  <2>5. ASSUME NEW i \in 1 .. n + 1 PROVE At(L, i) \in Step(h[n - 1])
    <3>1. CASE i \in 1 .. n
      BY <2>2, <3>1
    <3>2. CASE i = n + 1 /\ n \in 1 .. Len(L)
      <4>1. At(L, n) \in h[n - 1] /\ At(L, n) = L[n] /\ L[n] # NoTask /\ next[L[n]] = At(L, i)
        BY <1>1, <1>2, <2>1, <2>2, <3>2
      <4> QED  BY <4>1
    <3>3. CASE i = n + 1 /\ n \notin 1 .. Len(L)
      <4>1. At(L, i) = NoTask /\ At(L, n) = NoTask
        BY <1>1, <1>3, <2>1, <3>3
      <4>2. At(L, n) \in h[n - 1]
        BY <2>1, <2>2
      <4> QED  BY <4>1, <4>2
    <3> QED  BY <2>1, <3>1, <3>2, <3>3
  <2> HIDE DEF h
  <2>6. h[n - 1] \subseteq h[n]
    BY <2>2, <2>3
  <2> QED  BY <2>2, <2>4, <2>5, <2>6
<1>5. h[0] = {first}
  BY <1>1
<1>6. IsHop(h)
  <2>1. \A n \in 0 .. C : h[n] = IF n = 0 THEN {first} ELSE Step(h[n - 1])
    <3> HIDE DEF h, Step
    <3> QED  BY <1>4, <1>5
  <2>2. h = [n \in 0 .. C |-> h[n]]
    OBVIOUS
  <2> HIDE DEF h, Step
  <2> QED  BY <2>1, <2>2
<1>7. IsHop(hop)
  <2> HIDE DEF h, IsHop
  <2> QED  BY <1>6
<1> HIDE DEF hop
<1>8. h[C] = hop[C]
  <2> DEFINE Bad == {n \in 0 .. C : hop[n] # h[n]}
  <2>1. SUFFICES ASSUME Bad # {} PROVE FALSE
    <3> HIDE DEF h
    <3> QED  BY <1>1
  <2>2. Bad \in SUBSET Nat
    BY <1>1
  <2>3. PICK n \in Bad : \A m \in Bad : n <= m
    <3> HIDE DEF Bad
    <3> QED  BY <2>1, <2>2, LeastNat
  <2>4. n \in 0 .. C /\ hop[n] # h[n]
    OBVIOUS
  <2>5. /\ hop[n] = IF n = 0 THEN {first} ELSE Step(hop[n - 1])
        /\ h[n] = IF n = 0 THEN {first} ELSE Step(h[n - 1])
    <3> HIDE DEF h, Step
    <3> QED  BY <1>6, <1>7, <2>4
  <2>6. n # 0
    BY <2>4, <2>5
  <2>7. n - 1 \in 0 .. C /\ n - 1 < n
    BY <1>1, <2>4, <2>6
  <2>8. n - 1 \notin Bad
    <3> HIDE DEF Bad
    <3> QED  BY <2>2, <2>3, <2>7
  <2>9. hop[n - 1] = h[n - 1]
    <3> HIDE DEF h
    <3> QED  BY <2>7, <2>8
  <2> HIDE DEF h, Step
  <2> QED  BY <2>4, <2>5, <2>6, <2>9
<1>9. List(first, next) = hop[C] \ {NoTask}
  BY DEF List, hop, C
<1>10. h[C] \ {NoTask} = Range(L)
  <2>1. h[C] = {At(L, i) : i \in 1 .. C + 1}
    BY <1>1
  <2>2. \A i \in 1 .. Len(L) : i \in 1 .. C + 1
    BY <1>1
  <2>3. \A i \in 1 .. C + 1 : i \in Nat
    BY <1>1
  <2>4. Range(L) = {L[i] : i \in 1 .. Len(L)}
    BY <1>1 DEF Range
  <2> HIDE DEF h
  <2> QED  BY <1>1, <1>2, <1>3, <2>1, <2>2, <2>3, <2>4
<1> QED  BY <1>8, <1>9, <1>10

(* What a chain is made of.                                                *)
LEMMA ChainHas ==
    ASSUME NEW first, NEW next, Chained(first, next)
    PROVE  /\ List(first, next) \subseteq Tasks
           /\ first # NoTask => first \in List(first, next)
           /\ first = NoTask => List(first, next) = {}
           /\ first \in Tasks \cup {NoTask}
<1>1. PICK L : IsChain(L, first, next)
  BY DEF Chained
<1>2. List(first, next) = Range(L)
  BY <1>1, ChainList
<1>3. /\ L \in Seq(Tasks) /\ Len(L) \in Nat /\ first = At(L, 1) /\ NoTask \notin Tasks
      /\ DOMAIN L = 1 .. Len(L)
  BY <1>1, TaskAssumption DEF IsChain
<1>4. first = IF 1 \in 1 .. Len(L) THEN L[1] ELSE NoTask
  BY <1>3 DEF At
<1>5. \A i \in 1 .. Len(L) : L[i] \in Tasks
  BY <1>3
<1> QED  BY <1>2, <1>3, <1>4, <1>5 DEF Range

LEMMA ChainEmpty ==
    ASSUME NEW next
    PROVE  Chained(NoTask, next) /\ List(NoTask, next) = {}
<1>1. IsChain(<<>>, NoTask, next)
  BY DEF IsChain, IsInjective, At
<1>2. Chained(NoTask, next)
  BY <1>1 DEF Chained
<1> QED  BY <1>2, ChainHas

(* A list may be followed from each of its tasks, which does not come      *)
(* again.                                                                  *)
LEMMA ChainFrom ==
    ASSUME NEW first, NEW next, Chained(first, next), NEW t \in List(first, next)
    PROVE  /\ Chained(next[t], next) /\ t \notin List(next[t], next)
           /\ List(next[t], next) \subseteq List(first, next)
           /\ t = first => List(next[t], next) = List(first, next) \ {t}
<1>1. PICK L : IsChain(L, first, next)
  BY DEF Chained
<1>2. List(first, next) = Range(L)
  BY <1>1, ChainList
<1>3. /\ L \in Seq(Tasks) /\ IsInjective(L) /\ first = At(L, 1)
      /\ Len(L) \in Nat /\ DOMAIN L = 1 .. Len(L) /\ NoTask \notin Tasks
      /\ \A i \in 1 .. Len(L) : next[L[i]] = At(L, i + 1) /\ L[i] \in Tasks
  BY <1>1, TaskAssumption DEF IsChain
<1>4. PICK k \in 1 .. Len(L) : t = L[k]
  BY <1>2, <1>3 DEF Range
<1> DEFINE n == Len(L)
           a == SubSeq(L, 1, k)
           b == SubSeq(L, k + 1, Len(L))
<1>5. k \in 0 .. Len(L)
  BY <1>3
<1>6. /\ a \in Seq(Tasks) /\ b \in Seq(Tasks) /\ Len(a) = k /\ Len(b) = Len(L) - k
      /\ Range(a) \cup Range(b) = Range(L)
      /\ \A i \in 1 .. k : a[i] = L[i]
      /\ \A i \in 1 .. Len(L) - k : b[i] = L[k + i]
      /\ IsInjective(L) => IsInjective(a) /\ IsInjective(b) /\ Range(a) \cap Range(b) = {}
  BY <1>3, <1>5, CutHas
<1>7. DOMAIN a = 1 .. k /\ n \in Nat /\ k \in Nat /\ k <= n
  BY <1>3, <1>6
<1> HIDE DEF a, b, n
<1>8. \A i \in Nat : i >= 1 => At(b, i) = At(L, k + i)
  <2> SUFFICES ASSUME NEW i \in Nat, i >= 1 PROVE At(b, i) = At(L, k + i)
    OBVIOUS
  <2>1. i \in 1 .. Len(b) <=> k + i \in 1 .. Len(L)
    BY <1>6, <1>7 DEF n
  <2>2. i \in 1 .. Len(b) => b[i] = L[k + i]
    BY <1>6
  <2> QED  BY <2>1, <2>2 DEF At
<1>9. next[t] = At(b, 1)
  BY <1>3, <1>4, <1>8
<1>10. \A i \in 1 .. Len(b) : next[b[i]] = At(b, i + 1)
  <2> SUFFICES ASSUME NEW i \in 1 .. Len(b) PROVE next[b[i]] = At(b, i + 1)
    OBVIOUS
  <2>1. b[i] = L[k + i] /\ k + i \in 1 .. Len(L)
    BY <1>6, <1>7 DEF n
  <2>2. next[L[k + i]] = At(L, k + i + 1)
    BY <1>3, <2>1
  <2>3. k + i + 1 = k + (i + 1) /\ i + 1 \in Nat /\ i + 1 >= 1
    BY <1>7
  <2> QED  BY <1>8, <2>1, <2>2, <2>3
<1>11. IsChain(b, next[t], next)
  BY <1>3, <1>6, <1>9, <1>10 DEF IsChain
<1>12. List(next[t], next) = Range(b)
  BY <1>11, ChainList
<1>13. t \in Range(a)
  <2>1. a[k] = t /\ k \in DOMAIN a
    BY <1>4, <1>6, <1>7
  <2> QED  BY <2>1 DEF Range
<1>14. t = first => Range(a) = {t}
  <2>1. SUFFICES ASSUME t = first PROVE Range(a) = {t}
    OBVIOUS
  <2>2. L[1] = L[k] /\ 1 \in 1 .. Len(L)
    BY <1>3, <1>4, <1>7, <2>1 DEF At, n
  <2>3. k = 1
    BY <1>3, <2>2 DEF IsInjective
  <2> QED  BY <1>4, <1>6, <1>7, <2>3 DEF Range
<1> QED  BY <1>2, <1>3, <1>6, <1>11, <1>12, <1>13, <1>14 DEF Chained

(* A task is linked before a list.                                         *)
LEMMA ChainPush ==
    ASSUME NEW first, NEW next \in [Tasks -> Tasks \cup {NoTask}], Chained(first, next),
           NEW t \in Tasks, t \notin List(first, next),
           NEW new, new = [next EXCEPT ![t] = first]
    PROVE  Chained(t, new) /\ List(t, new) = {t} \cup List(first, next)
<1>1. PICK L : IsChain(L, first, next)
  BY DEF Chained
<1>2. List(first, next) = Range(L)
  BY <1>1, ChainList
<1>3. /\ L \in Seq(Tasks) /\ IsInjective(L) /\ first = At(L, 1)
      /\ Len(L) \in Nat /\ DOMAIN L = 1 .. Len(L)
      /\ \A i \in 1 .. Len(L) : next[L[i]] = At(L, i + 1) /\ L[i] \in Tasks
  BY <1>1 DEF IsChain
<1> DEFINE M == <<t>> \o L
<1>4. /\ M \in Seq(Tasks) /\ Len(M) = Len(L) + 1
      /\ Range(M) = {t} \cup Range(L)
      /\ IsInjective(M)
  BY <1>2, <1>3, PushedHas
<1>5. M[1] = t /\ \A i \in 1 .. Len(L) : M[i + 1] = L[i]
  BY <1>3
<1>6. \A i \in 1 .. Len(L) : L[i] # t
  BY <1>2, <1>3 DEF Range
<1> HIDE DEF M
<1>7. At(M, 1) = t /\ \A i \in Nat : i >= 1 => At(M, i + 1) = At(L, i)
  <2>1. At(M, 1) = t
    BY <1>3, <1>4, <1>5 DEF At
  <2>2. ASSUME NEW i \in Nat, i >= 1 PROVE At(M, i + 1) = At(L, i)
    <3>1. i + 1 \in 1 .. Len(M) <=> i \in 1 .. Len(L)
      BY <1>3, <1>4, <2>2
    <3> QED  BY <1>5, <3>1 DEF At
  <2> QED  BY <2>1, <2>2
<1>8. new[t] = first /\ \A u \in Tasks : u # t => new[u] = next[u]
  OBVIOUS
<1>9. \A i \in 1 .. Len(M) : new[M[i]] = At(M, i + 1)
  <2>1. SUFFICES ASSUME NEW i \in 1 .. Len(M) PROVE new[M[i]] = At(M, i + 1)
    OBVIOUS
  <2>2. CASE i = 1
    BY <1>3, <1>5, <1>7, <1>8, <2>2
  <2>3. CASE i # 1
    <3> DEFINE j == i - 1
    <3>1. j \in 1 .. Len(L) /\ i = j + 1 /\ j + 1 \in Nat /\ j + 1 >= 1
      BY <1>3, <1>4, <2>3
    <3> HIDE DEF j
    <3>2. M[i] = L[j] /\ new[L[j]] = next[L[j]] /\ next[L[j]] = At(L, j + 1)
      BY <1>3, <1>5, <1>6, <1>8, <3>1
    <3> QED  BY <1>7, <3>1, <3>2
  <2> QED  BY <2>2, <2>3
<1>10. IsChain(M, t, new)
  BY <1>4, <1>7, <1>9 DEF IsChain
<1>11. List(t, new) = Range(M)
  BY <1>10, ChainList
<1> QED  BY <1>2, <1>4, <1>10, <1>11 DEF Chained

(* What is not on a list may be linked otherwise.                          *)
LEMMA ChainElse ==
    ASSUME NEW first, NEW next, Chained(first, next), NEW new,
           \A t \in List(first, next) : new[t] = next[t]
    PROVE  Chained(first, new) /\ List(first, new) = List(first, next)
<1>1. PICK L : IsChain(L, first, next)
  BY DEF Chained
<1>2. List(first, next) = Range(L)
  BY <1>1, ChainList
<1>3. \A i \in 1 .. Len(L) : L[i] \in Range(L)
  BY <1>1 DEF IsChain, Range
<1>4. IsChain(L, first, new)
  BY <1>1, <1>2, <1>3 DEF IsChain
<1>5. List(first, new) = Range(L)
  BY <1>4, ChainList
<1> QED  BY <1>2, <1>4, <1>5 DEF Chained

LEMMA ChainEnds ==
    ASSUME NEW first, NEW next, Chained(first, next)
    PROVE  Ends(first, next)
<1>1. ASSUME NEW t \in List(first, next) PROVE t \notin List(next[t], next)
  BY <1>1, ChainFrom
<1> QED  BY <1>1 DEF Ends

-----------------------------------------------------------------------------
(***************************************************************************)
(* The inductive invariant.  It holds as long as no cancellation meets the *)
(* end of its request: "cancelLate" is the event after which the code      *)
(* frees a task that is on a list, and no theorem is about it.             *)
(***************************************************************************)

\* The first task whose pre-poll callbacks are still to be called.
Later == IF tpc = "calls" THEN cur ELSE IF tpc = "link" THEN following ELSE NoTask
ToCall == List(Later, nextWaitPtr)

\* The tasks on the wait list or still to come to it, and the one at hand.
Held == Waiting \cup ToCall
Linking == IF tpc = "link" THEN {cur} ELSE {}

(* The lists end, and the wait list is apart from the rest of the one      *)
(* before it, which has lost the task at hand.  The walks over the wait    *)
(* list stay on it, and the one at the exit leaves completed tasks behind. *)
Chains ==
    /\ Chained(firstSignalPtr, nextSignalPtr)
    /\ Chained(firstWaitPtr, nextWaitPtr)
    /\ Chained(Later, nextWaitPtr)
    /\ Waiting \cap ToCall = {}
    /\ tpc = "link" => cur \in Tasks \ Held
    /\ tpc \in {"run", "exit"} =>
          Chained(cur, nextWaitPtr) /\ List(cur, nextWaitPtr) \subseteq Waiting
    /\ tpc = "exit" => Waiting \ List(cur, nextWaitPtr) \subseteq completed
    /\ tpc = "exited" => firstWaitPtr = NoTask

\* The queue does not know the task.
Unknown(t, s, f, H, l) == s = {} /\ f = {} /\ t \notin H /\ t \notin l

\* Ns_TaskRun runs the task, or has: the queue does not know it.
Alone(t, s, f, o, H, l) ==
    /\ o \in {"running", "close", "freed"} /\ s \subseteq {"DONE"}
    /\ {"WAIT", "TIMEOUT"} \subseteq f /\ f \subseteq {"WAIT", "TIMEOUT", "DONE"}
    /\ t \notin H /\ t \notin l

(* What the bits of task t say: its signal s and its flags f, for an owner *)
(* at o, when S, H, l, co, ex, re and fr are the tasks signalled, held, at *)
(* hand, completed, expired, ready and freed, and TaskThread is at pc.     *)
TaskOK(t, s, f, o, S, H, l, co, ex, re, fr, pc) ==
    /\ t \in S <=> "PENDING" \in s
    /\ ("INIT" \in s \/ "CANCEL" \in s) => "PENDING" \in s
    /\ o = "new" => Unknown(t, s, f, H, l)
    /\ o = "running" => Alone(t, s, f, o, H, l) /\ s = {} /\ "DONE" \notin f
    /\ o \in {"close", "freed"} => ("DONE" \in s \/ Unknown(t, s, f, H, l))
    /\ t \in fr => o = "freed"
    /\ "DONE" \in s => /\ s = {"DONE"} /\ t \notin H
                       /\ \/ t \in co
                          \/ t \in ex /\ {"WAIT", "TIMEOUT"} \subseteq f /\ "DONE" \notin f
                       /\ pc # "exited" => ("WAIT" \notin f \/ Alone(t, s, f, o, H, l))
    /\ t \in H => ("WAIT" \in f \/ "DONE" \in f)
    /\ (t \in l /\ "DONE" \notin s) => "WAIT" \in f
    /\ ("WAIT" \in f /\ pc # "exited") =>
          (t \in H \/ t \in l \/ Alone(t, s, f, o, H, l))
    /\ "DONE" \in f => t \in co
    /\ "CANCEL" \in s => t \notin co /\ t \notin ex /\ t \notin re
    /\ ("CANCEL" \in s \/ "CANCEL" \in f) => o \in {"cancelTrigger", "wait", "close", "freed"}
    /\ "PENDING" \in s =>
          \/ "INIT" \in s /\ f = {} /\ t \notin H /\ t \notin l
          \/ "INIT" \notin s /\ "CANCEL" \in s /\ "WAIT" \in f /\ "CANCEL" \notin f
    /\ (o \notin {"new", "running"} /\ "DONE" \notin s /\ t \notin fr /\ pc # "exited") =>
          (t \in S \/ t \in H \/ t \in l)

BitsOK(t) ==
    TaskOK(t, signal[t], flags[t], opc[t], Signalled, Held, Linking, completed, expired,
           ready, freed, tpc)
TasksOK == \A t \in Tasks : BitsOK(t)

(* When TaskThread acts on a shutdown, no signal can come any more.        *)
Turn ==
    /\ tpc \in {"top", "poll", "run"} => ~stopping
    /\ tpc \in {"exit", "exited"} => stopping
    /\ stopping => shutdown
    /\ tpc = "signals" => stopping = shutdown
    /\ (stopping /\ tpc # "signals") => firstSignalPtr = NoTask
    /\ tpc # "run" => ready = {}

(* SignalSeen, from the moment TaskThread has let the lock go.             *)
Seen ==
    (tpc \in {"calls", "link", "poll"} /\ (firstSignalPtr # NoTask \/ (shutdown /\ ~stopping)))
        => (trigger > 0 \/ \E t \in Tasks : opc[t] \in {"trigger", "cancelTrigger"})

(* A byte in the pipe is one of at most two of each owner, or that of the  *)
(* shutdown.                                                               *)
Triggered == {"queued", "cancelTrigger", "wait", "close", "freed"}
TriggeredTwice == {"wait", "close", "freed"}
Bytes ==
    trigger <= Count(opc, Tasks, Triggered) + Count(opc, Tasks, TriggeredTwice)
                 + (IF shutdown THEN 1 ELSE 0)

TaskInv == TypeOK /\ Chains /\ TasksOK /\ Turn /\ Seen /\ Bytes

-----------------------------------------------------------------------------
(* What the steps have in common.                                          *)

(* Not more processes are somewhere than there are.                        *)
LEMMA CountAtMost ==
    ASSUME NEW T, IsFiniteSet(T), NEW f, NEW S
    PROVE  Count(f, T, S) \in 0 .. Cardinality(T)
<1> DEFINE A == {u \in T : f[u] \in S}
<1>1. Cardinality(A) <= Cardinality(T) /\ Cardinality(A) \in Nat
  <2>1. A \in SUBSET T
    OBVIOUS
  <2> HIDE DEF A
  <2>2. IsFiniteSet(A) /\ Cardinality(A) <= Cardinality(T)
    BY <2>1, FS_Subset
  <2> QED  BY <2>2, FS_CardinalityType
<1>2. Cardinality(T) \in Nat
  BY FS_CardinalityType
<1> QED  BY <1>1, <1>2 DEF Count

\* The bytes an owner at o may have sent.
Sent(o) == Here(o, Triggered) + Here(o, TriggeredTwice)

(* An owner moves, and sends a byte only when the move allows for it.      *)
LEMMA BytesOwner ==
    ASSUME TypeOK, Bytes, NEW t \in Tasks, NEW o, opc' = [opc EXCEPT ![t] = o],
           shutdown' = shutdown, trigger' \in Nat,
           trigger' - trigger <= Sent(o) - Sent(opc[t])
    PROVE  Bytes' /\ trigger' \in 0 .. 2 * Cardinality(Tasks) + 1
<1> DEFINE F == Count(opc, Tasks, Triggered)
           G == Count(opc, Tasks, TriggeredTwice)
           F2 == Count(opc', Tasks, Triggered)
           G2 == Count(opc', Tasks, TriggeredTwice)
<1>1. /\ \A u \in Tasks : u # t => opc'[u] = opc[u]
      /\ opc'[t] = o /\ IsFiniteSet(Tasks)
  BY TaskAssumption DEF TypeOK
<1> DEFINE P == {"new", "trigger", "queued", "cancelTrigger", "wait", "running", "close", "freed"}
<1>2. Shifted(Count(opc', Tasks, Triggered), Count(opc, Tasks, Triggered), opc[t], o, Triggered)
  <2>1. opc \in [Tasks -> P]
    BY DEF TypeOK
  <2> HIDE DEF P
  <2> QED  BY <1>1, <2>1, CountPut
<1>3. Shifted(Count(opc', Tasks, TriggeredTwice), Count(opc, Tasks, TriggeredTwice), opc[t], o,
              TriggeredTwice)
  <2>1. opc \in [Tasks -> P]
    BY DEF TypeOK
  <2> HIDE DEF P
  <2> QED  BY <1>1, <2>1, CountPut
<1>4. /\ F \in 0 .. Cardinality(Tasks) /\ G \in 0 .. Cardinality(Tasks)
      /\ F2 \in 0 .. Cardinality(Tasks) /\ G2 \in 0 .. Cardinality(Tasks)
  BY <1>1, CountAtMost
<1>5. Cardinality(Tasks) \in Nat
  BY <1>1, FS_CardinalityType
<1>6. trigger \in Nat
  BY <1>5 DEF TypeOK
<1>7. trigger <= F + G + (IF shutdown THEN 1 ELSE 0)
  BY DEF Bytes
<1>8. \A S : Here(o, S) \in Int /\ Here(opc[t], S) \in Int
  BY DEF Here
<1>20. F2 = F + Here(o, Triggered) - Here(opc[t], Triggered)
  BY <1>2 DEF Shifted
<1>21. G2 = G + Here(o, TriggeredTwice) - Here(opc[t], TriggeredTwice)
  BY <1>3 DEF Shifted
<1> HIDE DEF F, G, F2, G2
<1>9. trigger' <= F2 + G2 + (IF shutdown' THEN 1 ELSE 0)
  BY <1>4, <1>5, <1>6, <1>7, <1>8, <1>20, <1>21 DEF Sent
<1>10. trigger' \in 0 .. 2 * Cardinality(Tasks) + 1
  BY <1>4, <1>5, <1>9
<1> QED  BY <1>9, <1>10 DEF Bytes, F2, G2

(* Nobody sends a byte.                                                    *)
LEMMA BytesThread ==
    ASSUME TypeOK, Bytes, opc' = opc, shutdown' = shutdown, trigger' \in Nat,
           trigger' <= trigger
    PROVE  Bytes' /\ trigger' \in 0 .. 2 * Cardinality(Tasks) + 1
<1>1. Cardinality(Tasks) \in Nat
  BY TaskAssumption, FS_CardinalityType
<1>2. trigger \in 0 .. 2 * Cardinality(Tasks) + 1
  BY DEF TypeOK
<1>3. /\ Count(opc, Tasks, Triggered) \in 0 .. Cardinality(Tasks)
      /\ Count(opc, Tasks, TriggeredTwice) \in 0 .. Cardinality(Tasks)
  BY TaskAssumption, CountAtMost
<1> DEFINE F == Count(opc, Tasks, Triggered)
           G == Count(opc, Tasks, TriggeredTwice)
<1>4. trigger <= F + G + (IF shutdown THEN 1 ELSE 0)
  BY DEF Bytes
<1>5. Bytes' <=> trigger' <= F + G + (IF shutdown THEN 1 ELSE 0)
  BY DEF Bytes
<1> HIDE DEF F, G
<1> QED  BY <1>1, <1>2, <1>3, <1>4, <1>5 DEF F, G

(* TaskThread stays where it is, and the lists as they are.                *)
LEMMA ListsKept ==
    ASSUME Chains,
           UNCHANGED <<firstSignalPtr, nextSignalPtr, firstWaitPtr, nextWaitPtr, tpc, cur,
                       following>>,
           completed \subseteq completed'
    PROVE  /\ Chains' /\ Signalled' = Signalled /\ Held' = Held /\ Linking' = Linking
<1>1. Waiting' = Waiting /\ Signalled' = Signalled
  BY DEF Waiting, Signalled
<1>2. Later' = Later
  BY DEF Later
<1>3. ToCall' = ToCall
  BY <1>2 DEF ToCall
<1>4. Held' = Held /\ Linking' = Linking
  BY <1>1, <1>3 DEF Held, Linking
<1>5. Chains'
  BY <1>1, <1>2, <1>3, <1>4 DEF Chains
<1> QED  BY <1>1, <1>4, <1>5

(* SignalQueue puts the task on the signal list, if it is not there.       *)
LEMMA SignalHas ==
    ASSUME TypeOK, Chains, NEW t \in Tasks, NEW bit, SendSignal(t, bit),
           t \in Signalled <=> "PENDING" \in signal[t],
           UNCHANGED <<threadVars, completed>>
    PROVE  /\ Chains' /\ Signalled' = Signalled \cup {t} /\ Held' = Held /\ Linking' = Linking
<1>1. Waiting' = Waiting /\ UNCHANGED <<firstWaitPtr, nextWaitPtr, tpc, cur, following>>
  BY DEF Waiting, threadVars
<1>2. Later' = Later
  BY <1>1 DEF Later
<1>3. ToCall' = ToCall
  BY <1>1, <1>2 DEF ToCall
<1>4. Held' = Held /\ Linking' = Linking
  BY <1>1, <1>3 DEF Held, Linking
<1>5. Signalled' = Signalled \cup {t} /\ Chained(firstSignalPtr, nextSignalPtr)'
  <2>1. CASE "PENDING" \in signal[t]
    <3>1. UNCHANGED <<firstSignalPtr, nextSignalPtr>> /\ t \in Signalled
      BY <2>1 DEF SendSignal
    <3>2. Signalled' = Signalled /\ Chained(firstSignalPtr, nextSignalPtr)'
      BY <3>1 DEF Signalled, Chains
    <3> QED  BY <3>1, <3>2
  <2>2. CASE "PENDING" \notin signal[t]
    <3>1. /\ nextSignalPtr' = [nextSignalPtr EXCEPT ![t] = firstSignalPtr]
          /\ firstSignalPtr' = t /\ t \notin List(firstSignalPtr, nextSignalPtr)
          /\ nextSignalPtr \in [Tasks -> Tasks \cup {NoTask}]
          /\ Chained(firstSignalPtr, nextSignalPtr)
      BY <2>2 DEF SendSignal, Signalled, TypeOK, Chains
    <3>2. /\ Chained(t, nextSignalPtr')
          /\ List(t, nextSignalPtr') = {t} \cup List(firstSignalPtr, nextSignalPtr)
      BY <3>1, ChainPush
    <3> QED  BY <3>1, <3>2 DEF Signalled
  <2> QED  BY <2>1, <2>2
<1>6. Chains'
  BY <1>1, <1>2, <1>3, <1>4, <1>5 DEF Chains
<1> QED  BY <1>4, <1>5, <1>6

-----------------------------------------------------------------------------
(* The steps of the owners and of the clock.                               *)

\* Where an owner can be, the bits of the signal and the flags.
Places == {"new", "trigger", "queued", "cancelTrigger", "wait", "running", "close", "freed"}
SignalBits == {"INIT", "CANCEL", "DONE", "PENDING"}
FlagBits == {"INIT", "CANCEL", "DONE", "WAIT", "TIMEOUT"}

LEMMA Types ==
    ASSUME TypeOK
    PROVE  /\ opc \in [Tasks -> Places]
           /\ signal \in [Tasks -> SUBSET SignalBits]
           /\ flags \in [Tasks -> SUBSET FlagBits]
           /\ nextSignalPtr \in [Tasks -> Tasks \cup {NoTask}]
           /\ nextWaitPtr \in [Tasks -> Tasks \cup {NoTask}]
           /\ {firstSignalPtr, firstWaitPtr, cur, following} \subseteq Tasks \cup {NoTask}
           /\ {freed, blocked, expired, completed, ready} \subseteq SUBSET Tasks
           /\ trigger \in Nat
<1>1. Cardinality(Tasks) \in Nat
  BY TaskAssumption, FS_CardinalityType
<1> QED  BY <1>1 DEF TypeOK, Places, SignalBits, FlagBits

(* An owner moves to o, where the bits of its task allow it to be, and     *)
(* nothing else happens to the task.                                       *)
LEMMA OwnerMoves ==
    ASSUME TaskInv, NEW t \in Tasks, NEW o \in Places, opc' = [opc EXCEPT ![t] = o],
           UNCHANGED <<threadVars, signalVars, taskVars, expired, shutdown, stopped>>,
           blocked' \subseteq Tasks,
           freed' \subseteq Tasks, \A u \in Tasks \ {t} : u \in freed' <=> u \in freed,
           TaskOK(t, signal[t], flags[t], o, Signalled, Held, Linking, completed, expired,
                  ready, freed', tpc),
           trigger' \in Nat, trigger' - trigger <= Sent(o) - Sent(opc[t]), trigger' >= trigger,
           opc[t] \in {"trigger", "cancelTrigger"} => trigger' > 0
    PROVE  TaskInv'
<1>1. /\ UNCHANGED <<tpc, cur, following, firstWaitPtr, ready, stopping, broadcast,
                     nextWaitPtr, signal, firstSignalPtr, nextSignalPtr, flags, completed>>
      /\ UNCHANGED threadVars
  BY DEF threadVars, signalVars, taskVars
<1>2. TypeOK /\ Chains /\ TasksOK /\ Turn /\ Seen /\ Bytes
  BY DEF TaskInv
<1>3. opc \in [Tasks -> Places] /\ trigger \in Nat
  BY <1>2, Types
<1>4. opc'[t] = o /\ \A u \in Tasks : u # t => opc'[u] = opc[u]
  BY <1>3
<1>5. Chains' /\ Signalled' = Signalled /\ Held' = Held /\ Linking' = Linking
  BY <1>1, <1>2, ListsKept
<1>6. Bytes' /\ trigger' \in 0 .. 2 * Cardinality(Tasks) + 1
  BY <1>2, BytesOwner
<1>7. TypeOK'
  <2>1. opc' \in [Tasks -> Places]
    BY <1>3
  <2> QED  BY <1>1, <1>2, <1>6, <2>1 DEF TypeOK, Places
<1>8. TasksOK'
  <2>1. SUFFICES ASSUME NEW u \in Tasks PROVE BitsOK(u)'
    BY DEF TasksOK
  <2>2. BitsOK(u)
    BY <1>2 DEF TasksOK
  <2>3. CASE u = t
    BY <1>1, <1>4, <1>5, <2>3 DEF BitsOK
  <2>4. CASE u # t
    BY <1>1, <1>4, <1>5, <2>2, <2>4 DEF BitsOK, TaskOK, Unknown, Alone
  <2> QED  BY <2>3, <2>4
<1>9. Turn'
  BY <1>1, <1>2 DEF Turn
<1>10. Seen'
  <2>1. \A u \in Tasks : opc[u] \in {"trigger", "cancelTrigger"} =>
                            opc'[u] \in {"trigger", "cancelTrigger"} \/ trigger' > 0
    BY <1>4
  <2>2. trigger > 0 => trigger' > 0
    BY <1>3
  <2> QED  BY <1>1, <1>2, <2>1, <2>2 DEF Seen
<1> QED  BY <1>5, <1>6, <1>7, <1>8, <1>9, <1>10 DEF TaskInv

(* An owner sends a signal to a queue that is not shutting down.           *)
LEMMA OwnerSignals ==
    ASSUME TaskInv, NEW t \in Tasks, NEW o \in Places, NEW bit \in {"INIT", "CANCEL"},
           opc' = [opc EXCEPT ![t] = o], SendSignal(t, bit), LockFree, ~shutdown,
           UNCHANGED <<threadVars, queueVars, taskVars, expired, freed>>,
           Sent(opc[t]) <= Sent(o),
           opc[t] \notin {"trigger", "cancelTrigger"},
           o \in {"trigger", "cancelTrigger"} \/ "PENDING" \in signal[t],
           TaskOK(t, signal[t] \cup {bit, "PENDING"}, flags[t], o, Signalled \cup {t}, Held,
                  Linking, completed, expired, ready, freed, tpc)
    PROVE  TaskInv'
<1>1. /\ UNCHANGED <<tpc, cur, following, firstWaitPtr, ready, stopping, broadcast,
                     nextWaitPtr, trigger, shutdown, stopped, blocked, flags, completed>>
      /\ UNCHANGED <<threadVars, completed>>
  BY DEF threadVars, queueVars, taskVars
<1>2. TypeOK /\ Chains /\ TasksOK /\ Turn /\ Seen /\ Bytes
  BY DEF TaskInv
<1>3. /\ opc \in [Tasks -> Places] /\ trigger \in Nat
      /\ signal \in [Tasks -> SUBSET SignalBits]
      /\ nextSignalPtr \in [Tasks -> Tasks \cup {NoTask}]
      /\ firstSignalPtr \in Tasks \cup {NoTask}
  BY <1>2, Types
<1>4. opc'[t] = o /\ \A u \in Tasks : u # t => opc'[u] = opc[u]
  BY <1>3
<1>5. /\ signal' = [signal EXCEPT ![t] = signal[t] \cup {bit, "PENDING"}]
      /\ nextSignalPtr' \in [Tasks -> Tasks \cup {NoTask}]
      /\ firstSignalPtr' \in Tasks \cup {NoTask}
  BY <1>3 DEF SendSignal
<1>6. /\ signal'[t] = signal[t] \cup {bit, "PENDING"}
      /\ \A u \in Tasks : u # t => signal'[u] = signal[u]
  BY <1>3, <1>5
<1>7. t \in Signalled <=> "PENDING" \in signal[t]
  BY <1>2 DEF TasksOK, BitsOK, TaskOK, Alone
<1>8. Chains' /\ Signalled' = Signalled \cup {t} /\ Held' = Held /\ Linking' = Linking
  BY <1>1, <1>2, <1>7, SignalHas
<1>9. Bytes' /\ trigger' \in 0 .. 2 * Cardinality(Tasks) + 1
  <2>1. trigger' - trigger <= Sent(o) - Sent(opc[t]) /\ trigger' \in Nat
    BY <1>1, <1>3 DEF Sent, Here
  <2> QED  BY <1>1, <1>2, <2>1, BytesOwner
<1>10. TypeOK'
  <2>1. opc' \in [Tasks -> Places]
    BY <1>3
  <2>2. signal' \in [Tasks -> SUBSET SignalBits]
    BY <1>3, <1>5 DEF SignalBits
  <2> QED  BY <1>1, <1>2, <1>5, <1>9, <2>1, <2>2 DEF TypeOK, Places, SignalBits
<1>11. TasksOK'
  <2>1. SUFFICES ASSUME NEW u \in Tasks PROVE BitsOK(u)'
    BY DEF TasksOK
  <2>2. BitsOK(u)
    BY <1>2 DEF TasksOK
  <2>3. CASE u = t
    BY <1>1, <1>4, <1>6, <1>8, <2>3 DEF BitsOK
  <2>4. CASE u # t
    <3>1. u \in Signalled' <=> u \in Signalled
      BY <1>8, <2>4
    <3> QED  BY <1>1, <1>4, <1>6, <1>8, <2>2, <2>4, <3>1 DEF BitsOK, TaskOK, Unknown, Alone
  <2> QED  BY <2>3, <2>4
<1>12. Turn'
  BY <1>1, <1>2 DEF Turn, LockFree
<1>13. Seen'
  <2>1. \A u \in Tasks : opc[u] \in {"trigger", "cancelTrigger"} =>
                            opc'[u] \in {"trigger", "cancelTrigger"}
    BY <1>4
  <2>2. CASE o \in {"trigger", "cancelTrigger"}
    BY <1>4, <2>2 DEF Seen
  <2>3. CASE "PENDING" \in signal[t]
    <3>1. UNCHANGED firstSignalPtr
      BY <2>3 DEF SendSignal
    <3> QED  BY <1>1, <1>2, <2>1, <3>1 DEF Seen
  <2> QED  BY <2>2, <2>3
<1> QED  BY <1>8, <1>9, <1>10, <1>11, <1>12, <1>13 DEF TaskInv

(* What is known of a task whose owner has not queued it.                  *)
LEMMA NewTask ==
    ASSUME TaskInv, NEW t \in Tasks, opc[t] \in {"new", "running"}
    PROVE  /\ BitsOK(t) /\ signal[t] = {}
           /\ flags[t] = IF opc[t] = "new" THEN {} ELSE {"WAIT", "TIMEOUT"}
           /\ t \notin Held /\ t \notin Linking /\ t \notin Signalled
<1>1. BitsOK(t)
  BY DEF TaskInv, TasksOK
<1>2. flags[t] \subseteq FlagBits
  BY Types DEF TaskInv
<1>3. CASE opc[t] = "new"
  BY <1>1, <1>3 DEF BitsOK, TaskOK, Unknown
<1>4. CASE opc[t] = "running"
  <2>1. Alone(t, signal[t], flags[t], opc[t], Held, Linking) /\ signal[t] = {} /\ "DONE" \notin flags[t]
    BY <1>1, <1>4 DEF BitsOK, TaskOK
  <2>2. t \notin Signalled
    BY <1>1, <2>1 DEF BitsOK, TaskOK
  <2> QED  BY <1>1, <1>4, <2>1, <2>2 DEF Alone
<1> QED  BY <1>3, <1>4

LEMMA EnqueueStep ==
    ASSUME TaskInv, NEW t \in Tasks, Enqueue(t)
    PROVE  TaskInv'
<1>1. /\ opc[t] = "new" /\ LockFree
      /\ UNCHANGED <<threadVars, queueVars, taskVars, expired>>
      /\ IF shutdown
         THEN /\ opc' = [opc EXCEPT ![t] = "freed"] /\ freed' = freed \cup {t}
              /\ UNCHANGED signalVars
         ELSE /\ opc' = [opc EXCEPT ![t] = "trigger"] /\ freed' = freed
              /\ SendSignal(t, "INIT")
  BY DEF Enqueue, Goto
<1>2. trigger \in Nat /\ freed \subseteq Tasks /\ blocked \subseteq Tasks
  BY Types DEF TaskInv
<1>3. /\ BitsOK(t) /\ signal[t] = {} /\ flags[t] = {}
      /\ t \notin Held /\ t \notin Linking /\ t \notin Signalled
  BY <1>1, NewTask
<1>4. CASE shutdown
  <2>1. /\ opc' = [opc EXCEPT ![t] = "freed"] /\ freed' = freed \cup {t}
        /\ UNCHANGED <<threadVars, signalVars, taskVars, expired, shutdown, stopped, trigger,
                       blocked>>
    BY <1>1, <1>4 DEF queueVars
  <2>2. TaskOK(t, signal[t], flags[t], "freed", Signalled, Held, Linking, completed, expired,
               ready, freed', tpc)
    BY <1>3, <2>1 DEF BitsOK, TaskOK, Unknown, Alone
  <2>3. trigger' - trigger <= Sent("freed") - Sent(opc[t])
    BY <1>1, <1>2, <2>1 DEF Sent, Here, Triggered, TriggeredTwice
  <2>4. "freed" \in Places
    BY DEF Places
  <2>5. /\ trigger' \in Nat /\ trigger' >= trigger /\ blocked' \subseteq Tasks /\ freed' \subseteq Tasks
        /\ opc[t] \notin {"trigger", "cancelTrigger"}
    BY <1>1, <1>2, <2>1
  <2> QED  BY <2>1, <2>2, <2>3, <2>4, <2>5, OwnerMoves
<1>5. CASE ~shutdown
  <2>1. /\ opc' = [opc EXCEPT ![t] = "trigger"] /\ SendSignal(t, "INIT")
        /\ UNCHANGED <<threadVars, queueVars, taskVars, expired, freed>>
    BY <1>1, <1>5
  <2>2. TaskOK(t, signal[t] \cup {"INIT", "PENDING"}, flags[t], "trigger", Signalled \cup {t},
               Held, Linking, completed, expired, ready, freed, tpc)
    BY <1>1, <1>3 DEF BitsOK, TaskOK, Unknown, Alone
  <2>3. Sent(opc[t]) <= Sent("trigger")
    BY <1>1 DEF Sent, Here, Triggered, TriggeredTwice
  <2>4. "trigger" \in Places
    BY DEF Places
  <2> QED  BY <1>1, <1>5, <2>1, <2>2, <2>3, <2>4, OwnerSignals
<1> QED  BY <1>4, <1>5

LEMMA TriggerStep ==
    ASSUME TaskInv, NEW t \in Tasks, Trigger(t)
    PROVE  TaskInv'
<1> DEFINE o == IF opc[t] = "trigger" THEN "queued" ELSE "wait"
<1>1. /\ opc[t] \in {"trigger", "cancelTrigger"} /\ trigger' = trigger + 1
      /\ opc' = [opc EXCEPT ![t] = o]
      /\ UNCHANGED <<threadVars, signalVars, taskVars, expired, shutdown, stopped, blocked,
                     freed>>
  BY DEF Trigger, Goto
<1>2. trigger \in Nat /\ freed \subseteq Tasks /\ blocked \subseteq Tasks
  BY Types DEF TaskInv
<1>3. BitsOK(t)
  BY DEF TaskInv, TasksOK
<1>4. TaskOK(t, signal[t], flags[t], o, Signalled, Held, Linking, completed, expired, ready,
             freed', tpc)
  BY <1>1, <1>3 DEF BitsOK, TaskOK, Unknown, Alone
<1>5. trigger' - trigger <= Sent(o) - Sent(opc[t])
  BY <1>1, <1>2 DEF Sent, Here, Triggered, TriggeredTwice
<1>6. o \in Places
  BY DEF Places
<1>7. trigger' \in Nat /\ trigger' >= trigger /\ trigger' > 0
  BY <1>1, <1>2
<1> HIDE DEF o
<1> QED  BY <1>1, <1>2, <1>4, <1>5, <1>6, <1>7, OwnerMoves

(* A cancellation that meets neither the end of the request nor its        *)
(* timeout is linked only while the task waits.                            *)
LEMMA HttpAbortStep ==
    ASSUME TaskInv, "cancelLate" \notin Ops, NEW t \in Tasks, HttpAbort(t)
    PROVE  TaskInv'
<1>1. /\ opc[t] = "queued" /\ LockFree /\ t \notin ready \cup completed \cup expired
      /\ UNCHANGED <<threadVars, queueVars, taskVars, expired, freed>>
      /\ IF shutdown THEN UNCHANGED signalVars /\ opc' = [opc EXCEPT ![t] = "wait"]
         ELSE /\ SendSignal(t, "CANCEL")
              /\ opc' = [opc EXCEPT ![t] = IF "PENDING" \in signal[t] THEN "wait"
                                           ELSE "cancelTrigger"]
  BY DEF HttpAbort, Goto
<1>2. trigger \in Nat /\ freed \subseteq Tasks /\ blocked \subseteq Tasks
  BY Types DEF TaskInv
<1>3. BitsOK(t) /\ Turn
  BY DEF TaskInv, TasksOK
<1>4. CASE shutdown
  <2>1. /\ opc' = [opc EXCEPT ![t] = "wait"]
        /\ UNCHANGED <<threadVars, signalVars, taskVars, expired, shutdown, stopped, trigger,
                       blocked, freed>>
    BY <1>1, <1>4 DEF queueVars
  <2>2. TaskOK(t, signal[t], flags[t], "wait", Signalled, Held, Linking, completed, expired,
               ready, freed', tpc)
    BY <1>1, <1>3, <2>1 DEF BitsOK, TaskOK, Unknown, Alone
  <2>3. trigger' - trigger <= Sent("wait") - Sent(opc[t])
    BY <1>1, <1>2, <2>1 DEF Sent, Here, Triggered, TriggeredTwice
  <2>4. "wait" \in Places
    BY DEF Places
  <2>5. /\ trigger' \in Nat /\ trigger' >= trigger /\ blocked' \subseteq Tasks /\ freed' \subseteq Tasks
        /\ opc[t] \notin {"trigger", "cancelTrigger"}
    BY <1>1, <1>2, <2>1
  <2> QED  BY <2>1, <2>2, <2>3, <2>4, <2>5, OwnerMoves
<1>5. CASE ~shutdown
  <2> DEFINE o == IF "PENDING" \in signal[t] THEN "wait" ELSE "cancelTrigger"
  <2>1. /\ opc' = [opc EXCEPT ![t] = o] /\ SendSignal(t, "CANCEL")
        /\ UNCHANGED <<threadVars, queueVars, taskVars, expired, freed>>
    BY <1>1, <1>5
  <2>2. tpc # "exited"
    BY <1>3, <1>5 DEF Turn
  <2>3. "DONE" \notin signal[t] /\ "CANCEL" \notin signal[t] /\ "CANCEL" \notin flags[t]
    BY <1>1, <1>3 DEF BitsOK, TaskOK, Alone
  <2>4. TaskOK(t, signal[t] \cup {"CANCEL", "PENDING"}, flags[t], o, Signalled \cup {t}, Held,
               Linking, completed, expired, ready, freed, tpc)
    BY <1>1, <1>3, <2>2, <2>3 DEF BitsOK, TaskOK, Unknown, Alone
  <2>5. Sent(opc[t]) <= Sent(o)
    BY <1>1 DEF Sent, Here, Triggered, TriggeredTwice
  <2>6. o \in Places /\ (o \in {"trigger", "cancelTrigger"} \/ "PENDING" \in signal[t])
    BY DEF Places
  <2> HIDE DEF o
  <2> QED  BY <1>1, <1>5, <2>1, <2>4, <2>5, <2>6, OwnerSignals
<1> QED  BY <1>4, <1>5

LEMMA NsTaskWaitStep ==
    ASSUME TaskInv, NEW t \in Tasks, NsTaskWait(t)
    PROVE  TaskInv'
<1> DEFINE o == IF "DONE" \in signal[t] THEN "close" ELSE "wait"
<1>1. /\ opc[t] \in {"queued", "wait"} /\ opc' = [opc EXCEPT ![t] = o]
      /\ blocked' \subseteq blocked \cup {t}
      /\ UNCHANGED <<threadVars, signalVars, taskVars, expired, shutdown, stopped, trigger,
                     freed>>
  BY DEF NsTaskWait, Goto
<1>2. trigger \in Nat /\ freed \subseteq Tasks /\ blocked \subseteq Tasks
  BY Types DEF TaskInv
<1>3. BitsOK(t)
  BY DEF TaskInv, TasksOK
<1>4. TaskOK(t, signal[t], flags[t], o, Signalled, Held, Linking, completed, expired, ready,
             freed', tpc)
  BY <1>1, <1>3 DEF BitsOK, TaskOK, Unknown, Alone
<1>5. trigger' - trigger <= Sent(o) - Sent(opc[t])
  BY <1>1, <1>2 DEF Sent, Here, Triggered, TriggeredTwice
<1>6. o \in Places
  BY DEF Places
<1> HIDE DEF o
<1>7. /\ trigger' \in Nat /\ trigger' >= trigger /\ blocked' \subseteq Tasks /\ freed' \subseteq Tasks
      /\ opc[t] \notin {"trigger", "cancelTrigger"}
  BY <1>1, <1>2
<1> QED  BY <1>1, <1>4, <1>5, <1>6, <1>7, OwnerMoves

LEMMA HttpCloseStep ==
    ASSUME TaskInv, NEW t \in Tasks, HttpClose(t)
    PROVE  TaskInv'
<1>1. /\ opc[t] = "close" /\ opc' = [opc EXCEPT ![t] = "freed"] /\ freed' = freed \cup {t}
      /\ UNCHANGED <<threadVars, signalVars, taskVars, expired, shutdown, stopped, trigger,
                     blocked>>
  BY DEF HttpClose, Goto, queueVars
<1>2. trigger \in Nat /\ freed \subseteq Tasks /\ blocked \subseteq Tasks
  BY Types DEF TaskInv
<1>3. BitsOK(t)
  BY DEF TaskInv, TasksOK
<1>4. TaskOK(t, signal[t], flags[t], "freed", Signalled, Held, Linking, completed, expired,
             ready, freed', tpc)
  BY <1>1, <1>3 DEF BitsOK, TaskOK, Unknown, Alone
<1>5. trigger' - trigger <= Sent("freed") - Sent(opc[t])
  BY <1>1, <1>2 DEF Sent, Here, Triggered, TriggeredTwice
<1>6. "freed" \in Places
  BY DEF Places
<1>7. /\ trigger' \in Nat /\ trigger' >= trigger /\ blocked' \subseteq Tasks /\ freed' \subseteq Tasks
      /\ opc[t] \notin {"trigger", "cancelTrigger"}
  BY <1>1, <1>2
<1> QED  BY <1>1, <1>4, <1>5, <1>6, <1>7, OwnerMoves

(* Ns_TaskRun: the queue does not know the task.                           *)
LEMMA NsTaskRunStep ==
    ASSUME TaskInv, NEW t \in Tasks, NsTaskRun(t)
    PROVE  TaskInv'
<1>1. /\ opc[t] \in {"new", "running"}
      /\ UNCHANGED <<threadVars, firstSignalPtr, nextSignalPtr, queueVars, expired, freed>>
      /\ \/ /\ opc[t] = "new" /\ opc' = [opc EXCEPT ![t] = "running"]
            /\ flags' = [flags EXCEPT ![t] = Awaiting(flags[t])] /\ UNCHANGED <<signal, completed>>
         \/ opc[t] = "running" /\ UNCHANGED <<opc, flags, signal, completed>>
         \/ /\ opc[t] = "running" /\ opc' = [opc EXCEPT ![t] = "close"]
            /\ signal' = [signal EXCEPT ![t] = signal[t] \cup {"DONE"}]
            /\ \/ /\ completed' = completed \cup {t}
                  /\ flags' = [flags EXCEPT ![t] = flags[t] \cup {"DONE"}]
               \/ UNCHANGED <<completed, flags>> /\ t \in expired
  <2>1. CASE opc[t] = "new"
    BY <2>1 DEF NsTaskRun, Goto
  <2>2. CASE opc[t] = "running" /\ TimedOut(t) /\ Goto(t, "close") /\ UNCHANGED taskVars
             /\ signal' = [signal EXCEPT ![t] = @ \cup {"DONE"}]
    BY <2>2 DEF NsTaskRun, Goto, TimedOut, taskVars
  <2>3. CASE opc[t] = "running" /\ ~(TimedOut(t) /\ Goto(t, "close") /\ UNCHANGED taskVars
             /\ signal' = [signal EXCEPT ![t] = @ \cup {"DONE"}])
    <3>1. PICK done \in HttpIO(t) :
            /\ completed' = completed \cup done
            /\ IF done = {} THEN UNCHANGED <<flags, signal, opc>>
               ELSE /\ flags' = [flags EXCEPT ![t] = @ \cup {"DONE"}]
                    /\ signal' = [signal EXCEPT ![t] = @ \cup {"DONE"}]
                    /\ Goto(t, "close")
      BY <2>3 DEF NsTaskRun
    <3>2. done = {} \/ done = {t}
      BY DEF HttpIO, Continue, Done
    <3> QED  BY <2>3, <3>1, <3>2 DEF NsTaskRun, Goto
  <2> QED  BY <2>1, <2>2, <2>3 DEF NsTaskRun
<1>2. /\ UNCHANGED <<tpc, cur, following, firstWaitPtr, ready, stopping, broadcast,
                     nextWaitPtr, trigger, shutdown, stopped, blocked>>
      /\ UNCHANGED threadVars
  BY <1>1 DEF threadVars, queueVars
<1>3. TypeOK /\ Chains /\ TasksOK /\ Turn /\ Seen /\ Bytes
  BY DEF TaskInv
<1>4. /\ opc \in [Tasks -> Places] /\ trigger \in Nat
      /\ signal \in [Tasks -> SUBSET SignalBits] /\ completed \subseteq Tasks
  BY <1>3, Types
<1>5. /\ BitsOK(t) /\ signal[t] = {}
      /\ flags[t] = IF opc[t] = "new" THEN {} ELSE {"WAIT", "TIMEOUT"}
      /\ t \notin Held /\ t \notin Linking /\ t \notin Signalled
  BY <1>1, NewTask
<1>6. PICK o \in {"running", "close"} : opc' = [opc EXCEPT ![t] = o]
  <2>1. opc[t] = "running" /\ UNCHANGED opc => opc' = [opc EXCEPT ![t] = "running"]
    BY <1>4
  <2> QED  BY <1>1, <2>1
<1>7. opc'[t] = o /\ \A u \in Tasks : u # t => opc'[u] = opc[u]
  BY <1>4, <1>6
<1>8. /\ \A u \in Tasks : u # t => signal'[u] = signal[u] /\ (u \in completed' <=> u \in completed)
      /\ completed \subseteq completed' /\ completed' \subseteq Tasks
      /\ signal' \in [Tasks -> SUBSET SignalBits]
  BY <1>1, <1>4 DEF SignalBits
<1>9. /\ \/ /\ o = "running" /\ signal'[t] = {} /\ completed' = completed
            /\ flags'[t] = {"WAIT", "TIMEOUT"}
         \/ /\ o = "close" /\ signal'[t] = {"DONE"}
            /\ \/ t \in completed' /\ flags'[t] = {"WAIT", "TIMEOUT", "DONE"}
               \/ t \in expired /\ flags'[t] = {"WAIT", "TIMEOUT"}
      /\ flags' \in [Tasks -> SUBSET FlagBits]
      /\ \A u \in Tasks : u # t => flags'[u] = flags[u]
  <2>1. flags \in [Tasks -> SUBSET FlagBits]
    BY <1>3, Types
  <2>2. CASE opc[t] = "new"
    BY <1>1, <1>4, <1>5, <1>7, <2>1, <2>2 DEF Awaiting, FlagBits
  <2>3. CASE opc[t] = "running" /\ UNCHANGED <<opc, flags, signal, completed>>
    BY <1>5, <1>7, <2>1, <2>3
  <2>4. CASE /\ opc[t] = "running" /\ opc' = [opc EXCEPT ![t] = "close"]
             /\ signal' = [signal EXCEPT ![t] = signal[t] \cup {"DONE"}]
             /\ completed' = completed \cup {t}
             /\ flags' = [flags EXCEPT ![t] = flags[t] \cup {"DONE"}]
    BY <1>4, <1>5, <1>7, <2>1, <2>4 DEF FlagBits
  <2>5. CASE /\ opc[t] = "running" /\ opc' = [opc EXCEPT ![t] = "close"]
             /\ signal' = [signal EXCEPT ![t] = signal[t] \cup {"DONE"}]
             /\ UNCHANGED <<completed, flags>> /\ t \in expired
    BY <1>4, <1>5, <1>7, <2>1, <2>5
  <2> QED  BY <1>1, <2>2, <2>3, <2>4, <2>5
<1>10. Chains' /\ Signalled' = Signalled /\ Held' = Held /\ Linking' = Linking
  BY <1>1, <1>2, <1>3, <1>8, ListsKept
<1>11. Bytes' /\ trigger' \in 0 .. 2 * Cardinality(Tasks) + 1
  <2>1. trigger' - trigger <= Sent(o) - Sent(opc[t]) /\ trigger' \in Nat
    BY <1>1, <1>2, <1>4, <1>6 DEF Sent, Here, Triggered, TriggeredTwice
  <2> QED  BY <1>2, <1>3, <1>6, <2>1, BytesOwner
<1>12. TypeOK'
  <2>1. opc' \in [Tasks -> Places]
    BY <1>4, <1>6 DEF Places
  <2> QED  BY <1>1, <1>2, <1>3, <1>8, <1>9, <1>11, <2>1 DEF TypeOK, Places, SignalBits, FlagBits
<1>13. TasksOK'
  <2>1. SUFFICES ASSUME NEW u \in Tasks PROVE BitsOK(u)'
    BY DEF TasksOK
  <2>2. BitsOK(u)
    BY <1>3 DEF TasksOK
  <2>3. CASE u = t
    <3>1. "CANCEL" \notin flags'[t] /\ "CANCEL" \notin signal'[t] /\ opc'[t] \in {"running", "close"}
      BY <1>7, <1>9
    <3>2. t \in expired' <=> t \in expired
      BY <1>1
    <3>3. CASE o = "running"
      BY <1>1, <1>2, <1>5, <1>7, <1>9, <1>10, <2>3, <3>1, <3>3 DEF BitsOK, TaskOK, Alone
    <3>4. CASE o = "close" /\ t \in completed' /\ flags'[t] = {"WAIT", "TIMEOUT", "DONE"}
      BY <1>1, <1>2, <1>5, <1>7, <1>9, <1>10, <2>3, <3>1, <3>4 DEF BitsOK, TaskOK, Alone
    <3>5. CASE o = "close" /\ t \in expired /\ flags'[t] = {"WAIT", "TIMEOUT"}
      BY <1>1, <1>2, <1>5, <1>7, <1>9, <1>10, <2>3, <3>1, <3>2, <3>5 DEF BitsOK, TaskOK, Alone
    <3> QED  BY <1>9, <3>3, <3>4, <3>5
  <2>4. CASE u # t
    BY <1>1, <1>2, <1>7, <1>8, <1>9, <1>10, <2>2, <2>4 DEF BitsOK, TaskOK, Unknown, Alone
  <2> QED  BY <2>3, <2>4
<1>14. Turn'
  BY <1>1, <1>2, <1>3 DEF Turn
<1>15. Seen'
  <2>1. \A u \in Tasks : opc[u] \in {"trigger", "cancelTrigger"} => opc'[u] = opc[u]
    BY <1>1, <1>7
  <2> QED  BY <1>1, <1>2, <1>3, <2>1 DEF Seen
<1> QED  BY <1>10, <1>11, <1>12, <1>13, <1>14, <1>15 DEF TaskInv

LEMMA ExpireStep ==
    ASSUME TaskInv, "cancelLate" \notin Ops, NEW t \in Tasks, Expire(t)
    PROVE  TaskInv'
<1>1. /\ "CANCEL" \notin signal[t] \cup flags[t]
      /\ expired' = expired \cup {t}
      /\ UNCHANGED <<tpc, cur, following, firstWaitPtr, ready, stopping, broadcast,
                     nextWaitPtr, signal, firstSignalPtr, nextSignalPtr, trigger, shutdown,
                     stopped, blocked, flags, completed, opc, freed>>
  BY DEF Expire, threadVars, queueVars, signalVars, taskVars
<1>2. TypeOK /\ Chains /\ TasksOK /\ Turn /\ Seen /\ Bytes
  BY DEF TaskInv
<1>3. Chains' /\ Signalled' = Signalled /\ Held' = Held /\ Linking' = Linking
  BY <1>1, <1>2, ListsKept
<1>4. TypeOK'
  BY <1>1, <1>2 DEF TypeOK
<1>5. TasksOK'
  <2>1. SUFFICES ASSUME NEW u \in Tasks PROVE BitsOK(u)'
    BY DEF TasksOK
  <2>2. BitsOK(u)
    BY <1>2 DEF TasksOK
  <2>3. u \in expired' => u \in expired \/ "CANCEL" \notin signal[u]
    BY <1>1
  <2> QED  BY <1>1, <1>3, <2>2, <2>3 DEF BitsOK, TaskOK, Unknown, Alone
<1>6. Turn' /\ Seen' /\ Bytes'
  BY <1>1, <1>2 DEF Turn, Seen, Bytes
<1> QED  BY <1>2, <1>3, <1>4, <1>5, <1>6 DEF TaskInv

LEMMA StopQueueStep ==
    ASSUME TaskInv, StopQueue
    PROVE  TaskInv'
<1>1. /\ ~shutdown /\ tpc # "signals" /\ shutdown' = TRUE /\ trigger' = trigger + 1
      /\ UNCHANGED <<tpc, cur, following, firstWaitPtr, ready, stopping, broadcast,
                     nextWaitPtr, signal, firstSignalPtr, nextSignalPtr, stopped, blocked,
                     flags, completed, opc, expired, freed>>
  BY DEF StopQueue, LockFree, threadVars, signalVars, taskVars
<1>2. TypeOK /\ Chains /\ TasksOK /\ Turn /\ Seen /\ Bytes
  BY DEF TaskInv
<1>3. Chains' /\ Signalled' = Signalled /\ Held' = Held /\ Linking' = Linking
  BY <1>1, <1>2, ListsKept
<1>4. trigger \in Nat
  BY <1>2, Types
<1>5. /\ Count(opc, Tasks, Triggered) \in 0 .. Cardinality(Tasks)
      /\ Count(opc, Tasks, TriggeredTwice) \in 0 .. Cardinality(Tasks)
      /\ Cardinality(Tasks) \in Nat
  BY TaskAssumption, CountAtMost, FS_CardinalityType
<1> DEFINE F == Count(opc, Tasks, Triggered)
           G == Count(opc, Tasks, TriggeredTwice)
<1>6. Bytes' <=> trigger' <= F + G + (IF shutdown' THEN 1 ELSE 0)
  BY <1>1 DEF Bytes
<1>7. trigger <= F + G + (IF shutdown THEN 1 ELSE 0)
  BY <1>2 DEF Bytes
<1> HIDE DEF F, G
<1>8. Bytes'
  BY <1>1, <1>4, <1>5, <1>6, <1>7 DEF F, G
<1>9. trigger' \in 0 .. 2 * Cardinality(Tasks) + 1
  BY <1>1, <1>4, <1>5, <1>7 DEF F, G
<1>10. TypeOK'
  BY <1>1, <1>2, <1>9 DEF TypeOK
<1>11. TasksOK'
  BY <1>1, <1>2, <1>3 DEF TasksOK, BitsOK
<1>12. Turn'
  BY <1>1, <1>2 DEF Turn
<1>13. Seen'
  <2>1. trigger' > 0
    BY <1>1, <1>4
  <2> QED  BY <2>1 DEF Seen
<1> QED  BY <1>3, <1>8, <1>10, <1>11, <1>12, <1>13 DEF TaskInv

-----------------------------------------------------------------------------
(* The steps of TaskThread.                                                *)

(* Outside of the loop over the pre-poll callbacks the wait list is all    *)
(* there is: before a step, and after it.                                  *)
LEMMA Idle ==
    ASSUME tpc \notin {"calls", "link"}
    PROVE  ToCall = {} /\ Held = Waiting /\ Linking = {}
<1>1. Later = NoTask /\ Linking = {}
  BY DEF Later, Linking
<1>2. ToCall = {}
  BY <1>1, ChainEmpty DEF ToCall
<1> QED  BY <1>1, <1>2 DEF Held

LEMMA IdleNext ==
    ASSUME tpc' \notin {"calls", "link"}
    PROVE  /\ ToCall' = {} /\ Held' = Waiting' /\ Linking' = {}
           /\ Chained(Later, nextWaitPtr)'
<1>1. Later' = NoTask /\ Linking' = {}
  BY DEF Later, Linking
<1>2. ToCall' = {} /\ Chained(Later, nextWaitPtr)'
  BY <1>1, ChainEmpty DEF ToCall
<1> QED  BY <1>1, <1>2 DEF Held

LEMMA TakeLockStep ==
    ASSUME TaskInv, TakeLock
    PROVE  TaskInv'
<1>1. /\ tpc = "top" /\ tpc' = "signals" /\ stopping' = shutdown
      /\ UNCHANGED <<cur, following, firstWaitPtr, ready, broadcast, nextWaitPtr, signal,
                     firstSignalPtr, nextSignalPtr, trigger, shutdown, stopped, blocked,
                     flags, completed, opc, expired, freed>>
  BY DEF TakeLock, signalVars, queueVars, taskVars
<1>2. TypeOK /\ Chains /\ TasksOK /\ Turn /\ Seen /\ Bytes
  BY DEF TaskInv
<1>3. Waiting' = Waiting /\ Signalled' = Signalled
  BY <1>1 DEF Waiting, Signalled
<1>4. /\ ToCall = {} /\ Held = Waiting /\ Linking = {}
      /\ ToCall' = {} /\ Held' = Waiting' /\ Linking' = {}
      /\ Chained(Later, nextWaitPtr)'
  BY <1>1, Idle, IdleNext
<1>5. Chains'
  BY <1>1, <1>2, <1>3, <1>4 DEF Chains
<1>6. TypeOK'
  BY <1>1, <1>2 DEF TypeOK
<1>7. TasksOK'
  BY <1>1, <1>2, <1>3, <1>4 DEF TasksOK, BitsOK, TaskOK, Unknown, Alone
<1>8. Turn' /\ Seen' /\ Bytes'
  BY <1>1, <1>2 DEF Turn, Seen, Bytes
<1> QED  BY <1>5, <1>6, <1>7, <1>8 DEF TaskInv

LEMMA TakeSignalStep ==
    ASSUME TaskInv, TakeSignal
    PROVE  TaskInv'
<1> DEFINE t == firstSignalPtr
<1>1. /\ tpc = "signals" /\ t # NoTask
      /\ firstSignalPtr' = nextSignalPtr[t]
      /\ nextSignalPtr' = [nextSignalPtr EXCEPT ![t] = NoTask]
      /\ signal' = [signal EXCEPT ![t] = signal[t] \ {"INIT", "CANCEL", "PENDING"}]
      /\ flags' = [flags EXCEPT ![t] =
                      flags[t] \cup {"WAIT"} \cup (signal[t] \cap {"INIT", "CANCEL"})]
      /\ IF "WAIT" \in flags[t] THEN UNCHANGED <<firstWaitPtr, nextWaitPtr>>
         ELSE /\ nextWaitPtr' = [nextWaitPtr EXCEPT ![t] = firstWaitPtr]
              /\ firstWaitPtr' = t
      /\ UNCHANGED <<tpc, cur, following, ready, stopping, broadcast, trigger, shutdown, stopped,
                     blocked, completed, opc, expired, freed>>
  BY DEF TakeSignal, queueVars
<1>2. TypeOK /\ Chains /\ TasksOK /\ Turn /\ Seen /\ Bytes
  BY DEF TaskInv
<1>3. /\ signal \in [Tasks -> SUBSET SignalBits] /\ flags \in [Tasks -> SUBSET FlagBits]
      /\ nextSignalPtr \in [Tasks -> Tasks \cup {NoTask}]
      /\ nextWaitPtr \in [Tasks -> Tasks \cup {NoTask}]
      /\ firstWaitPtr \in Tasks \cup {NoTask} /\ t \in Tasks
  BY <1>1, <1>2, Types
<1> HIDE DEF t
<1>4. BitsOK(t)
  BY <1>2, <1>3 DEF TasksOK
<1>5. /\ ToCall = {} /\ Held = Waiting /\ Linking = {}
      /\ ToCall' = {} /\ Held' = Waiting' /\ Linking' = {}
      /\ Chained(Later, nextWaitPtr)'
  BY <1>1, Idle, IdleNext
<1>6. t \in Signalled /\ Signalled' = Signalled \ {t} /\ Chained(firstSignalPtr, nextSignalPtr)'
  <2>1. Chained(t, nextSignalPtr) /\ Signalled = List(t, nextSignalPtr)
    BY <1>2 DEF Chains, Signalled, t
  <2>2. t \in List(t, nextSignalPtr)
    BY <1>1, <2>1, ChainHas
  <2> DEFINE f == nextSignalPtr[t]
             m == nextSignalPtr'
  <2>3. /\ Chained(f, nextSignalPtr) /\ t \notin List(f, nextSignalPtr)
        /\ List(f, nextSignalPtr) = List(t, nextSignalPtr) \ {t}
    BY <2>1, <2>2, ChainFrom
  <2>4. \A u \in List(f, nextSignalPtr) : m[u] = nextSignalPtr[u]
    <3>1. List(f, nextSignalPtr) \subseteq Tasks
      BY <2>3, ChainHas
    <3> QED  BY <1>1, <1>3, <2>3, <3>1
  <2>5. Chained(f, m) /\ List(f, m) = List(f, nextSignalPtr)
    <3> HIDE DEF f, m
    <3> QED  BY <2>3, <2>4, ChainElse
  <2>6. Signalled' = List(f, m) /\ Chained(firstSignalPtr, nextSignalPtr)'
    BY <1>1, <2>5 DEF Signalled
  <2> QED  BY <2>1, <2>2, <2>3, <2>5, <2>6
<1>7. "PENDING" \in signal[t] /\ "DONE" \notin signal[t]
  BY <1>4, <1>6 DEF BitsOK, TaskOK, Alone
<1>8. Waiting' = Waiting \cup {t} /\ Chained(firstWaitPtr, nextWaitPtr)'
  <2>1. CASE "WAIT" \in flags[t]
    <3>1. UNCHANGED <<firstWaitPtr, nextWaitPtr>>
      BY <1>1, <2>1
    <3>2. t \in Waiting
      <4>1. ~Alone(t, signal[t], flags[t], opc[t], Held, Linking)
        BY <1>7 DEF Alone
      <4> QED  BY <1>1, <1>4, <1>5, <2>1, <4>1 DEF BitsOK, TaskOK
    <3> QED  BY <1>2, <3>1, <3>2 DEF Waiting, Chains
  <2>2. CASE "WAIT" \notin flags[t]
    <3>1. nextWaitPtr' = [nextWaitPtr EXCEPT ![t] = firstWaitPtr] /\ firstWaitPtr' = t
      BY <1>1, <2>2
    <3>2. t \notin Waiting
      BY <1>4, <1>5, <1>7, <2>2 DEF BitsOK, TaskOK, Alone
    <3>3. t \notin List(firstWaitPtr, nextWaitPtr) /\ Chained(firstWaitPtr, nextWaitPtr)
      BY <1>2, <3>2 DEF Waiting, Chains
    <3>4. nextWaitPtr \in [Tasks -> Tasks \cup {NoTask}] /\ t \in Tasks
      BY <1>3
    <3> DEFINE first == firstWaitPtr
               m == nextWaitPtr'
    <3>5. m = [nextWaitPtr EXCEPT ![t] = first]
      BY <3>1
    <3>6. Chained(t, m) /\ List(t, m) = {t} \cup List(first, nextWaitPtr)
      <4> HIDE DEF m
      <4> QED  BY <3>3, <3>4, <3>5, ChainPush
    <3> QED  BY <3>1, <3>6 DEF Waiting
  <2> QED  BY <2>1, <2>2
<1>9. Chains'
  BY <1>1, <1>5, <1>6, <1>8 DEF Chains
<1>10. /\ signal' \in [Tasks -> SUBSET SignalBits] /\ flags' \in [Tasks -> SUBSET FlagBits]
       /\ signal'[t] = signal[t] \ {"INIT", "CANCEL", "PENDING"}
       /\ flags'[t] = flags[t] \cup {"WAIT"} \cup (signal[t] \cap {"INIT", "CANCEL"})
       /\ \A u \in Tasks : u # t => signal'[u] = signal[u] /\ flags'[u] = flags[u]
  BY <1>1, <1>3 DEF SignalBits, FlagBits
<1>11. TypeOK'
  <2>1. /\ nextSignalPtr' \in [Tasks -> Tasks \cup {NoTask}]
        /\ nextWaitPtr' \in [Tasks -> Tasks \cup {NoTask}]
        /\ {firstSignalPtr', firstWaitPtr'} \subseteq Tasks \cup {NoTask}
    BY <1>1, <1>3
  <2> QED  BY <1>1, <1>2, <1>10, <2>1 DEF TypeOK, SignalBits, FlagBits
<1>12. TasksOK'
  <2>1. SUFFICES ASSUME NEW u \in Tasks PROVE BitsOK(u)'
    BY DEF TasksOK
  <2>2. BitsOK(u)
    BY <1>2 DEF TasksOK
  <2>3. CASE u = t
    <3>1. signal'[t] = {}
      BY <1>3, <1>7, <1>10 DEF SignalBits
    <3>2. t \in Held' /\ t \notin Signalled' /\ "WAIT" \in flags'[t]
      BY <1>5, <1>6, <1>8, <1>10
    <3>3. /\ "DONE" \in flags'[t] => "DONE" \in flags[t]
          /\ "CANCEL" \in flags'[t] => "CANCEL" \in flags[t] \/ "CANCEL" \in signal[t]
          /\ t \notin Linking'
      BY <1>5, <1>10
    <3> QED  BY <1>1, <1>4, <1>7, <2>3, <3>1, <3>2, <3>3 DEF BitsOK, TaskOK, Unknown, Alone
  <2>4. CASE u # t
    <3>1. (u \in Signalled' <=> u \in Signalled) /\ (u \in Held' <=> u \in Held)
          /\ (u \in Linking' <=> u \in Linking)
      BY <1>5, <1>6, <1>8, <2>4
    <3> QED  BY <1>1, <1>10, <2>2, <2>4, <3>1 DEF BitsOK, TaskOK, Unknown, Alone
  <2> QED  BY <2>3, <2>4
<1>13. Turn' /\ Seen' /\ Bytes'
  BY <1>1, <1>2 DEF Turn, Seen, Bytes
<1> QED  BY <1>9, <1>11, <1>12, <1>13 DEF TaskInv

LEMMA SignalsDoneStep ==
    ASSUME TaskInv, SignalsDone
    PROVE  TaskInv'
<1>1. /\ tpc = "signals" /\ firstSignalPtr = NoTask /\ tpc' = "calls"
      /\ cur' = firstWaitPtr /\ firstWaitPtr' = NoTask /\ broadcast' = FALSE
      /\ UNCHANGED <<following, ready, stopping, nextWaitPtr, signal, firstSignalPtr,
                     nextSignalPtr, trigger, shutdown, stopped, blocked, flags, completed,
                     opc, expired, freed>>
  BY DEF SignalsDone, signalVars, queueVars, taskVars
<1>2. TypeOK /\ Chains /\ TasksOK /\ Turn /\ Seen /\ Bytes
  BY DEF TaskInv
<1>3. ToCall = {} /\ Held = Waiting /\ Linking = {}
  BY <1>1, Idle
<1>4. /\ Chained(NoTask, nextWaitPtr') /\ List(NoTask, nextWaitPtr') = {}
  BY ChainEmpty
<1>5. /\ Signalled' = Signalled /\ Waiting' = {} /\ ToCall' = Waiting /\ Held' = Held
      /\ Linking' = {} /\ Later' = firstWaitPtr
  BY <1>1, <1>3, <1>4 DEF Signalled, Waiting, ToCall, Later, Held, Linking
<1>6. Chains'
  BY <1>1, <1>2, <1>4, <1>5 DEF Chains
<1>7. TypeOK'
  BY <1>1, <1>2 DEF TypeOK
<1>8. TasksOK'
  BY <1>1, <1>2, <1>3, <1>5 DEF TasksOK, BitsOK, TaskOK, Unknown, Alone
<1>9. Turn' /\ Seen' /\ Bytes'
  BY <1>1, <1>2 DEF Turn, Seen, Bytes
<1> QED  BY <1>6, <1>7, <1>8, <1>9 DEF TaskInv

(* The first task that is still to be called leaves the list, and is at    *)
(* hand; when it is done, no signal of it is on its way.                   *)
LEMMA PrePollStep ==
    ASSUME TaskInv, PrePoll
    PROVE  TaskInv'
<1> DEFINE f == flags[cur]
           init == IF "INIT" \in f THEN Awaiting(f \ {"INIT"}) ELSE f
           done == "CANCEL" \in f \/ "DONE" \in f
           g == IF done THEN init \ {"CANCEL", "DONE", "WAIT"} ELSE init
<1>1. /\ tpc = "calls" /\ cur # NoTask /\ tpc' = "link" /\ following' = nextWaitPtr[cur]
      /\ flags' = [flags EXCEPT ![cur] = g]
      /\ completed' = IF "CANCEL" \in f THEN completed \cup {cur} ELSE completed
      /\ signal' = IF done THEN [signal EXCEPT ![cur] = signal[cur] \cup {"DONE"}] ELSE signal
      /\ broadcast' = (broadcast \/ done)
      /\ UNCHANGED <<cur, firstWaitPtr, ready, stopping, nextWaitPtr, firstSignalPtr,
                     nextSignalPtr, trigger, shutdown, stopped, blocked, opc, expired, freed>>
  BY DEF PrePoll, queueVars, Done
<1>2. TypeOK /\ Chains /\ TasksOK /\ Turn /\ Seen /\ Bytes
  BY DEF TaskInv
<1>3. /\ signal \in [Tasks -> SUBSET SignalBits] /\ flags \in [Tasks -> SUBSET FlagBits]
      /\ nextWaitPtr \in [Tasks -> Tasks \cup {NoTask}]
      /\ cur \in Tasks /\ completed \subseteq Tasks
  BY <1>1, <1>2, Types
<1>4. BitsOK(cur)
  BY <1>2, <1>3 DEF TasksOK
<1>5. /\ Signalled' = Signalled /\ Waiting' = Waiting /\ Linking = {} /\ Linking' = {cur}
      /\ cur \in ToCall /\ ToCall' = ToCall \ {cur} /\ Chained(Later, nextWaitPtr)'
  <2>1. Later = cur /\ Later' = nextWaitPtr[cur] /\ Chained(cur, nextWaitPtr)
    BY <1>1, <1>2 DEF Later, Chains
  <2>2. cur \in List(cur, nextWaitPtr)
    BY <1>1, <2>1, ChainHas
  <2>3. /\ Chained(nextWaitPtr[cur], nextWaitPtr)
        /\ List(nextWaitPtr[cur], nextWaitPtr) = List(cur, nextWaitPtr) \ {cur}
    BY <2>1, <2>2, ChainFrom
  <2>4. ToCall = List(cur, nextWaitPtr) /\ ToCall' = List(nextWaitPtr[cur], nextWaitPtr)
    BY <1>1, <2>1 DEF ToCall
  <2> QED  BY <1>1, <2>1, <2>2, <2>3, <2>4 DEF Signalled, Waiting, Linking
<1>6. cur \in Held /\ cur \notin Waiting /\ Held' = Held \ {cur}
  BY <1>2, <1>5 DEF Held, Chains
<1>7. Chains'
  <2>1. firstSignalPtr' = firstSignalPtr /\ nextSignalPtr' = nextSignalPtr
    BY <1>1
  <2>2. firstWaitPtr' = firstWaitPtr /\ nextWaitPtr' = nextWaitPtr /\ cur' = cur /\ tpc' = "link"
    BY <1>1
  <2>3. Waiting' \cap ToCall' = {}
    BY <1>2, <1>5 DEF Chains
  <2>4. cur \in Tasks \ Held'
    BY <1>3, <1>6
  <2> QED  BY <1>2, <1>5, <2>1, <2>2, <2>3, <2>4 DEF Chains
<1>8. done => signal[cur] = {}
  <2>1. "CANCEL" \in f \/ "DONE" \in f => "PENDING" \notin signal[cur] /\ "DONE" \notin signal[cur]
    BY <1>4, <1>6 DEF BitsOK, TaskOK, Alone
  <2>2. "PENDING" \notin signal[cur] => "INIT" \notin signal[cur] /\ "CANCEL" \notin signal[cur]
    BY <1>4 DEF BitsOK, TaskOK, Alone
  <2> QED  BY <1>3, <2>1, <2>2 DEF SignalBits
<1>9. /\ flags'[cur] = g /\ g \subseteq FlagBits
      /\ signal'[cur] = IF done THEN {"DONE"} ELSE signal[cur]
      /\ \A u \in Tasks : u # cur => signal'[u] = signal[u] /\ flags'[u] = flags[u]
                                       /\ (u \in completed' <=> u \in completed)
      /\ "CANCEL" \in f => cur \in completed'
      /\ "CANCEL" \notin f => completed' = completed
  <2>1. f \subseteq FlagBits
    BY <1>3
  <2>2. g \subseteq FlagBits
    BY <2>1 DEF FlagBits, Awaiting
  <2>3. flags'[cur] = g /\ signal'[cur] = IF done THEN {"DONE"} ELSE signal[cur]
    <3> HIDE DEF g
    <3>1. flags'[cur] = g
      BY <1>1, <1>3
    <3>2. signal'[cur] = IF done THEN signal[cur] \cup {"DONE"} ELSE signal[cur]
      <4> HIDE DEF done
      <4> QED  BY <1>1, <1>3
    <3> QED  BY <1>8, <3>1, <3>2
  <2>4. \A u \in Tasks : u # cur => signal'[u] = signal[u] /\ flags'[u] = flags[u]
                                      /\ (u \in completed' <=> u \in completed)
    <3> HIDE DEF g, done, f
    <3> QED  BY <1>1, <1>3
  <2> HIDE DEF g, done
  <2> QED  BY <1>1, <2>2, <2>3, <2>4
<1>10. TypeOK'
  <2>1. flags' \in [Tasks -> SUBSET FlagBits]
    <3> HIDE DEF g, done, f
    <3> QED  BY <1>1, <1>3, <1>9
  <2>2. signal' \in [Tasks -> SUBSET SignalBits]
    <3>1. signal[cur] \cup {"DONE"} \in SUBSET SignalBits
      BY <1>3 DEF SignalBits
    <3> HIDE DEF g, done, f
    <3> QED  BY <1>1, <1>3, <3>1
  <2>3. following' \in Tasks \cup {NoTask} /\ completed' \subseteq Tasks /\ broadcast' \in BOOLEAN
    <3>1. broadcast \in BOOLEAN
      BY <1>2 DEF TypeOK
    <3> HIDE DEF g, done, f
    <3> QED  BY <1>1, <1>3, <3>1
  <2> HIDE DEF g, done, f
  <2> QED  BY <1>1, <1>2, <2>1, <2>2, <2>3 DEF TypeOK, SignalBits, FlagBits
<1>11. TasksOK'
  <2>1. SUFFICES ASSUME NEW u \in Tasks PROVE BitsOK(u)'
    BY DEF TasksOK
  <2>2. BitsOK(u)
    BY <1>2 DEF TasksOK
  <2>3. CASE u = cur
    <3>1. cur \notin Held' /\ cur \in Linking' /\ (cur \in Signalled' <=> cur \in Signalled)
      BY <1>5, <1>6
    <3>2. CASE done
      <4>1. signal'[cur] = {"DONE"} /\ signal[cur] = {} /\ cur \in completed'
        BY <1>1, <1>4, <1>8, <1>9, <3>2 DEF BitsOK, TaskOK, Alone
      <4>2. "CANCEL" \notin flags'[cur] /\ "DONE" \notin flags'[cur] /\ "WAIT" \notin flags'[cur]
        BY <1>9, <3>2
      <4>3. opc[cur] \notin {"new", "running", "close", "freed"}
        BY <1>4, <1>6, <4>1 DEF BitsOK, TaskOK, Unknown, Alone
      <4>4. cur \notin Signalled
        BY <1>4, <4>1 DEF BitsOK, TaskOK, Alone
      <4> HIDE DEF f, g, done
      <4> QED  BY <1>1, <1>4, <2>3, <3>1, <4>1, <4>2, <4>3, <4>4 DEF BitsOK, TaskOK, Unknown, Alone
    <3>3. CASE ~done
      <4>1. signal'[cur] = signal[cur] /\ completed' = completed /\ "DONE" \notin signal[cur]
        BY <1>1, <1>4, <1>6, <1>9, <3>3 DEF BitsOK, TaskOK, Alone
      <4>2. "WAIT" \in f /\ "DONE" \notin f /\ "CANCEL" \notin f
        BY <1>4, <1>6, <3>3 DEF BitsOK, TaskOK, Alone
      <4>3. flags'[cur] = init /\ "WAIT" \in init /\ "DONE" \notin init /\ "CANCEL" \notin init
        BY <1>9, <3>3, <4>2 DEF Awaiting
      <4> HIDE DEF init, g, done
      <4> QED  BY <1>1, <1>4, <1>6, <2>3, <3>1, <4>1, <4>2, <4>3 DEF BitsOK, TaskOK, Unknown, Alone
    <3> QED  BY <3>2, <3>3
  <2>4. CASE u # cur
    <3>1. (u \in Signalled' <=> u \in Signalled) /\ (u \in Held' <=> u \in Held)
          /\ (u \in Linking' <=> u \in Linking)
      BY <1>5, <1>6, <2>4
    <3>2. signal'[u] = signal[u] /\ flags'[u] = flags[u] /\ (u \in completed' <=> u \in completed)
      BY <1>9, <2>4
    <3> HIDE DEF f, g, init, done
    <3> QED  BY <1>1, <2>2, <3>1, <3>2 DEF BitsOK, TaskOK, Unknown, Alone
  <2> QED  BY <2>3, <2>4
<1> HIDE DEF f, g, init, done
<1>12. Turn' /\ Seen' /\ Bytes'
  BY <1>1, <1>2 DEF Turn, Seen, Bytes
<1> QED  BY <1>7, <1>10, <1>11, <1>12 DEF TaskInv

LEMMA LinkStep ==
    ASSUME TaskInv, Link
    PROVE  TaskInv'
<1>1. /\ tpc = "link" /\ tpc' = "calls" /\ cur' = following
      /\ IF "WAIT" \in flags[cur]
         THEN nextWaitPtr' = [nextWaitPtr EXCEPT ![cur] = firstWaitPtr] /\ firstWaitPtr' = cur
         ELSE UNCHANGED <<nextWaitPtr, firstWaitPtr>>
      /\ UNCHANGED <<following, ready, stopping, broadcast, signal, firstSignalPtr,
                     nextSignalPtr, trigger, shutdown, stopped, blocked, flags, completed,
                     opc, expired, freed>>
  BY DEF Link, signalVars, queueVars, taskVars
<1>2. TypeOK /\ Chains /\ TasksOK /\ Turn /\ Seen /\ Bytes
  BY DEF TaskInv
<1>3. /\ nextWaitPtr \in [Tasks -> Tasks \cup {NoTask}]
      /\ firstWaitPtr \in Tasks \cup {NoTask} /\ following \in Tasks \cup {NoTask}
      /\ cur \in Tasks /\ cur \notin Waiting /\ cur \notin ToCall /\ Linking = {cur}
  BY <1>1, <1>2, Types DEF Chains, Held, Linking
<1>4. Linking' = {} /\ Signalled' = Signalled
  BY <1>1 DEF Linking, Signalled
<1>5. ToCall' = ToCall /\ Chained(Later, nextWaitPtr)'
  <2>1. Later = following /\ Later' = following
    BY <1>1 DEF Later
  <2> DEFINE a == following
             n == nextWaitPtr
             m == nextWaitPtr'
  <2>2. Chained(a, n) /\ cur \notin List(a, n)
    BY <1>2, <1>3, <2>1 DEF Chains, ToCall
  <2>3. \A u \in List(a, n) : m[u] = n[u]
    <3>1. List(a, n) \subseteq Tasks
      BY <2>2, ChainHas
    <3> QED  BY <1>1, <1>3, <2>2, <3>1
  <2>4. Chained(a, m) /\ List(a, m) = List(a, n)
    <3> HIDE DEF a, n, m
    <3> QED  BY <2>2, <2>3, ChainElse
  <2> QED  BY <2>1, <2>4 DEF ToCall
<1>6. CASE "WAIT" \in flags[cur]
  <2>1. Waiting' = Waiting \cup {cur} /\ Chained(firstWaitPtr, nextWaitPtr)'
    <3>1. nextWaitPtr' = [nextWaitPtr EXCEPT ![cur] = firstWaitPtr] /\ firstWaitPtr' = cur
      BY <1>1, <1>6
    <3>2. cur \notin List(firstWaitPtr, nextWaitPtr) /\ Chained(firstWaitPtr, nextWaitPtr)
      BY <1>2, <1>3 DEF Waiting, Chains
    <3>3. nextWaitPtr \in [Tasks -> Tasks \cup {NoTask}] /\ cur \in Tasks
      BY <1>3
    <3> DEFINE m == nextWaitPtr'
    <3>4. m = [nextWaitPtr EXCEPT ![cur] = firstWaitPtr]
      BY <3>1
    <3>5. Chained(cur, m) /\ List(cur, m) = {cur} \cup List(firstWaitPtr, nextWaitPtr)
      <4> HIDE DEF m
      <4> QED  BY <3>2, <3>3, <3>4, ChainPush
    <3> QED  BY <3>1, <3>5 DEF Waiting
  <2>2. Held' = Held \cup {cur}
    BY <1>5, <2>1 DEF Held
  <2>3. Chains'
    <3>1. Waiting' \cap ToCall' = {}
      BY <1>2, <1>3, <1>5, <2>1 DEF Chains
    <3> QED  BY <1>1, <1>2, <1>5, <2>1, <3>1 DEF Chains
  <2>4. TypeOK'
    BY <1>1, <1>2, <1>3, <1>6 DEF TypeOK
  <2>5. TasksOK'
    <3>1. SUFFICES ASSUME NEW u \in Tasks PROVE BitsOK(u)'
      BY DEF TasksOK
    <3>2. BitsOK(u)
      BY <1>2 DEF TasksOK
    <3>3. (u \in Held' <=> u \in Held \/ u = cur) /\ (u \in Linking <=> u = cur)
          /\ u \notin Linking'
      BY <1>3, <1>4, <2>2
    <3>4. CASE u = cur
      <4>1. u \notin Held /\ u \in Held' /\ u \in Linking
        BY <1>3, <3>3, <3>4 DEF Held
      <4> QED  BY <1>1, <1>4, <1>6, <3>2, <3>3, <3>4, <4>1 DEF BitsOK, TaskOK, Unknown, Alone
    <3>5. CASE u # cur
      BY <1>1, <1>4, <3>2, <3>3, <3>5 DEF BitsOK, TaskOK, Unknown, Alone
    <3> QED  BY <3>4, <3>5
  <2>6. Turn' /\ Seen' /\ Bytes'
    BY <1>1, <1>2 DEF Turn, Seen, Bytes
  <2> QED  BY <2>3, <2>4, <2>5, <2>6 DEF TaskInv
<1>7. CASE "WAIT" \notin flags[cur]
  <2>1. Waiting' = Waiting /\ Chained(firstWaitPtr, nextWaitPtr)' /\ Held' = Held
    BY <1>1, <1>2, <1>5, <1>7 DEF Waiting, Chains, Held
  <2>2. Chains'
    BY <1>1, <1>2, <1>5, <2>1 DEF Chains
  <2>3. TypeOK'
    BY <1>1, <1>2, <1>3, <1>7 DEF TypeOK
  <2>4. TasksOK'
    <3>1. SUFFICES ASSUME NEW u \in Tasks PROVE BitsOK(u)'
      BY DEF TasksOK
    <3>2. BitsOK(u)
      BY <1>2 DEF TasksOK
    <3>3. (u \in Linking <=> u = cur) /\ u \notin Linking' /\ cur \notin Held
      BY <1>3, <1>4 DEF Held
    <3> QED  BY <1>1, <1>4, <1>7, <2>1, <3>2, <3>3 DEF BitsOK, TaskOK, Unknown, Alone
  <2>5. Turn' /\ Seen' /\ Bytes'
    BY <1>1, <1>2 DEF Turn, Seen, Bytes
  <2> QED  BY <2>2, <2>3, <2>4, <2>5 DEF TaskInv
<1> QED  BY <1>6, <1>7

LEMMA PassDoneStep ==
    ASSUME TaskInv, PassDone
    PROVE  TaskInv'
<1>1. /\ tpc = "calls" /\ cur = NoTask
      /\ blocked' \subseteq blocked
      /\ \/ stopping /\ tpc' = "exit" /\ cur' = firstWaitPtr
         \/ ~stopping /\ tpc' = "poll" /\ cur' = cur
      /\ UNCHANGED <<following, firstWaitPtr, ready, stopping, broadcast, nextWaitPtr, signal,
                     firstSignalPtr, nextSignalPtr, trigger, shutdown, stopped, flags,
                     completed, opc, expired, freed>>
  BY DEF PassDone, signalVars, taskVars
<1>2. TypeOK /\ Chains /\ TasksOK /\ Turn /\ Seen /\ Bytes
  BY DEF TaskInv
<1>3. Waiting' = Waiting /\ Signalled' = Signalled
  BY <1>1 DEF Waiting, Signalled
<1>4. ToCall = {} /\ Linking = {} /\ Held = Waiting
  <2>1. Later = NoTask /\ Linking = {}
    BY <1>1 DEF Later, Linking
  <2> QED  BY <2>1, ChainEmpty DEF ToCall, Held
<1>5. ToCall' = {} /\ Held' = Waiting' /\ Linking' = {} /\ Chained(Later, nextWaitPtr)'
  BY <1>1, IdleNext
<1>6. Chains'
  BY <1>1, <1>2, <1>3, <1>5 DEF Chains, Waiting
<1>7. TypeOK'
  BY <1>1, <1>2 DEF TypeOK
<1>8. TasksOK'
  <2>1. tpc # "exited" /\ tpc' # "exited"
    BY <1>1
  <2> QED  BY <1>1, <1>2, <1>3, <1>4, <1>5, <2>1 DEF TasksOK, BitsOK, TaskOK, Unknown, Alone
<1>9. Turn' /\ Seen' /\ Bytes'
  BY <1>1, <1>2 DEF Turn, Seen, Bytes
<1> QED  BY <1>6, <1>7, <1>8, <1>9 DEF TaskInv

LEMMA PollStep ==
    ASSUME TaskInv, "cancelLate" \notin Ops, Poll
    PROVE  TaskInv'
<1>1. /\ tpc = "poll" /\ tpc' = "run" /\ cur' = firstWaitPtr
      /\ ready' \subseteq Waiting \ {t \in Tasks : "CANCEL" \in signal[t]}
      /\ trigger' = IF trigger > 0 THEN trigger - 1 ELSE 0
      /\ UNCHANGED <<following, firstWaitPtr, stopping, broadcast, nextWaitPtr, signal,
                     firstSignalPtr, nextSignalPtr, shutdown, stopped, blocked, flags,
                     completed, opc, expired, freed>>
  BY DEF Poll, Waiting, signalVars, taskVars
<1>2. TypeOK /\ Chains /\ TasksOK /\ Turn /\ Seen /\ Bytes
  BY DEF TaskInv
<1>3. Waiting' = Waiting /\ Signalled' = Signalled
  BY <1>1 DEF Waiting, Signalled
<1>4. /\ ToCall = {} /\ Held = Waiting /\ Linking = {}
      /\ ToCall' = {} /\ Held' = Waiting' /\ Linking' = {}
      /\ Chained(Later, nextWaitPtr)'
  BY <1>1, Idle, IdleNext
<1>5. Waiting \subseteq Tasks
  BY <1>2, ChainHas DEF Chains, Waiting
<1>6. Bytes' /\ trigger' \in 0 .. 2 * Cardinality(Tasks) + 1
  <2>1. trigger \in Nat
    BY <1>2, Types
  <2>2. trigger' \in Nat /\ trigger' <= trigger
    BY <1>1, <2>1
  <2> QED  BY <1>1, <1>2, <2>2, BytesThread
<1>7. Chains'
  BY <1>1, <1>2, <1>3, <1>4 DEF Chains, Waiting
<1>8. TypeOK'
  BY <1>1, <1>2, <1>5, <1>6 DEF TypeOK
<1>9. TasksOK'
  <2>1. SUFFICES ASSUME NEW u \in Tasks PROVE BitsOK(u)'
    BY DEF TasksOK
  <2>2. BitsOK(u) /\ (u \in ready' => "CANCEL" \notin signal[u])
    BY <1>1, <1>2 DEF TasksOK
  <2> QED  BY <1>1, <1>3, <1>4, <2>2 DEF BitsOK, TaskOK, Unknown, Alone
<1>10. Turn' /\ Seen'
  BY <1>1, <1>2 DEF Turn, Seen
<1> QED  BY <1>6, <1>7, <1>8, <1>9, <1>10 DEF TaskInv

(* A task that its proc completes, or that is told of its timeout, was not *)
(* cancelled in the meantime, and still waits.                             *)
LEMMA RunTaskStep ==
    ASSUME TaskInv, RunTask
    PROVE  TaskInv'
<1> DEFINE t == cur
<1>1. /\ tpc = "run" /\ t # NoTask /\ cur' = nextWaitPtr[t]
      /\ \/ UNCHANGED <<flags, completed>>
         \/ /\ t \in ready \/ t \in expired
            /\ completed' = completed \cup {t}
            /\ \/ flags' = [flags EXCEPT ![t] = flags[t] \cup {"DONE"}]
               \/ flags' = [flags EXCEPT ![t] = (flags[t] \ {"WAIT"}) \cup {"DONE"}]
      /\ UNCHANGED <<tpc, following, firstWaitPtr, ready, stopping, broadcast, nextWaitPtr,
                     signal, firstSignalPtr, nextSignalPtr, trigger, shutdown, stopped, blocked,
                     opc, expired, freed>>
  <2>1. /\ \/ UNCHANGED <<flags, completed>>
           \/ /\ t \in ready \/ t \in expired
              /\ completed' = completed \cup {t}
              /\ \/ flags' = [flags EXCEPT ![t] = flags[t] \cup {"DONE"}]
                 \/ flags' = [flags EXCEPT ![t] = (flags[t] \ {"WAIT"}) \cup {"DONE"}]
    <3>1. CASE /\ cur \in ready
               /\ \E done \in HttpIO(cur) :
                    /\ completed' = completed \cup done
                    /\ flags' = IF done = {} THEN flags
                                ELSE [flags EXCEPT ![cur] = flags[cur] \cup {"DONE"}]
      <4>1. PICK done \in HttpIO(cur) :
                    /\ completed' = completed \cup done
                    /\ flags' = IF done = {} THEN flags
                                ELSE [flags EXCEPT ![cur] = flags[cur] \cup {"DONE"}]
        BY <3>1
      <4>2. done = {} \/ done = {cur}
        BY DEF HttpIO, Continue, Done
      <4> QED  BY <3>1, <4>1, <4>2
    <3>2. CASE /\ cur \notin ready /\ TimedOut(cur)
               /\ completed' = completed \cup Done(cur)
               /\ flags' = [flags EXCEPT ![cur] = (flags[cur] \ {"WAIT"}) \cup {"DONE"}]
      BY <3>2 DEF TimedOut, Done
    <3>3. CASE cur \notin ready /\ ~TimedOut(cur) /\ UNCHANGED taskVars
      BY <3>3 DEF taskVars
    <3> QED  BY <3>1, <3>2, <3>3 DEF RunTask
  <2> QED  BY <2>1 DEF RunTask, signalVars, queueVars
<1>2. TypeOK /\ Chains /\ TasksOK /\ Turn /\ Seen /\ Bytes
  BY DEF TaskInv
<1>3. /\ flags \in [Tasks -> SUBSET FlagBits] /\ completed \subseteq Tasks
      /\ nextWaitPtr \in [Tasks -> Tasks \cup {NoTask}] /\ t \in Tasks
  BY <1>1, <1>2, Types
<1>4. Waiting' = Waiting /\ Signalled' = Signalled
  BY <1>1 DEF Waiting, Signalled
<1>5. /\ ToCall = {} /\ Held = Waiting /\ Linking = {}
      /\ ToCall' = {} /\ Held' = Waiting' /\ Linking' = {}
      /\ Chained(Later, nextWaitPtr)'
  BY <1>1, Idle, IdleNext
<1>6. t \in Waiting /\ Chained(cur, nextWaitPtr)' /\ List(cur, nextWaitPtr)' \subseteq Waiting
  <2>1. Chained(cur, nextWaitPtr) /\ List(cur, nextWaitPtr) \subseteq Waiting
    BY <1>1, <1>2 DEF Chains
  <2>2. cur \in List(cur, nextWaitPtr)
    BY <1>1, <2>1, ChainHas
  <2>3. /\ Chained(nextWaitPtr[cur], nextWaitPtr)
        /\ List(nextWaitPtr[cur], nextWaitPtr) \subseteq List(cur, nextWaitPtr)
    BY <2>1, <2>2, ChainFrom
  <2> QED  BY <1>1, <2>1, <2>2, <2>3
<1> HIDE DEF t
<1>7. Chains'
  BY <1>1, <1>2, <1>4, <1>5, <1>6 DEF Chains
<1>8. \A u \in Tasks : u # t => flags'[u] = flags[u] /\ (u \in completed' <=> u \in completed)
  BY <1>1, <1>3
<1>9. flags' \in [Tasks -> SUBSET FlagBits] /\ completed' \subseteq Tasks
  BY <1>1, <1>3 DEF FlagBits
<1>10. TypeOK'
  <2>1. cur' \in Tasks \cup {NoTask}
    BY <1>1, <1>3
  <2> QED  BY <1>1, <1>2, <1>9, <2>1 DEF TypeOK, FlagBits
<1>11. TasksOK'
  <2>1. SUFFICES ASSUME NEW u \in Tasks PROVE BitsOK(u)'
    BY DEF TasksOK
  <2>2. BitsOK(u)
    BY <1>2 DEF TasksOK
  <2>3. CASE UNCHANGED <<flags, completed>>
    BY <1>1, <1>4, <1>5, <2>2, <2>3 DEF BitsOK, TaskOK, Unknown, Alone
  <2>4. CASE u # t
    BY <1>1, <1>4, <1>5, <1>8, <2>2, <2>4 DEF BitsOK, TaskOK, Unknown, Alone
  <2>5. CASE u = t /\ (t \in ready \/ t \in expired) /\ t \in completed'
             /\ "DONE" \in flags'[t]
             /\ ("CANCEL" \in flags'[t] => "CANCEL" \in flags[t])
             /\ ("WAIT" \in flags'[t] => "WAIT" \in flags[t])
    <3>1. "DONE" \notin signal[t] /\ "CANCEL" \notin signal[t] /\ t \in Held
      BY <1>5, <1>6, <2>2, <2>5 DEF BitsOK, TaskOK, Alone
    <3>2. "PENDING" \notin signal[t]
      BY <2>2, <2>5, <3>1 DEF BitsOK, TaskOK, Alone
    <3> QED  BY <1>1, <1>4, <1>5, <2>2, <2>5, <3>1, <3>2 DEF BitsOK, TaskOK, Unknown, Alone
  <2>6. \/ UNCHANGED <<flags, completed>>
        \/ /\ (t \in ready \/ t \in expired) /\ t \in completed'
           /\ "DONE" \in flags'[t]
           /\ ("CANCEL" \in flags'[t] => "CANCEL" \in flags[t])
           /\ ("WAIT" \in flags'[t] => "WAIT" \in flags[t])
    BY <1>1, <1>3
  <2> QED  BY <2>3, <2>4, <2>5, <2>6
<1>12. Turn' /\ Seen' /\ Bytes'
  BY <1>1, <1>2 DEF Turn, Seen, Bytes
<1> QED  BY <1>7, <1>10, <1>11, <1>12 DEF TaskInv

LEMMA RunDoneStep ==
    ASSUME TaskInv, RunDone
    PROVE  TaskInv'
<1>1. /\ tpc = "run" /\ tpc' = "top" /\ ready' = {}
      /\ UNCHANGED <<cur, following, firstWaitPtr, stopping, broadcast, nextWaitPtr, signal,
                     firstSignalPtr, nextSignalPtr, trigger, shutdown, stopped, blocked,
                     flags, completed, opc, expired, freed>>
  BY DEF RunDone, signalVars, queueVars, taskVars
<1>2. TypeOK /\ Chains /\ TasksOK /\ Turn /\ Seen /\ Bytes
  BY DEF TaskInv
<1>3. Waiting' = Waiting /\ Signalled' = Signalled
  BY <1>1 DEF Waiting, Signalled
<1>4. /\ ToCall = {} /\ Held = Waiting /\ Linking = {}
      /\ ToCall' = {} /\ Held' = Waiting' /\ Linking' = {}
      /\ Chained(Later, nextWaitPtr)'
  BY <1>1, Idle, IdleNext
<1>5. Chains'
  BY <1>1, <1>2, <1>3, <1>4 DEF Chains
<1>6. TypeOK'
  BY <1>1, <1>2 DEF TypeOK
<1>7. TasksOK'
  BY <1>1, <1>2, <1>3, <1>4 DEF TasksOK, BitsOK, TaskOK, Unknown, Alone
<1>8. Turn' /\ Seen' /\ Bytes'
  BY <1>1, <1>2 DEF Turn, Seen, Bytes
<1> QED  BY <1>5, <1>6, <1>7, <1>8 DEF TaskInv

(* The tasks that still wait when the queue stops are completed one after  *)
(* the other; none of them has a signal on its way.                        *)
LEMMA CallExitStep ==
    ASSUME TaskInv, CallExit
    PROVE  TaskInv'
<1> DEFINE t == cur
<1>1. /\ tpc = "exit" /\ t # NoTask /\ cur' = nextWaitPtr[t]
      /\ completed' = completed \cup {t}
      /\ flags' = [flags EXCEPT ![t] = flags[t] \cup {"DONE"}]
      /\ UNCHANGED <<tpc, following, firstWaitPtr, ready, stopping, broadcast, nextWaitPtr,
                     signal, firstSignalPtr, nextSignalPtr, trigger, shutdown, stopped, blocked,
                     opc, expired, freed>>
  BY DEF CallExit, Done, signalVars, queueVars
<1>2. TypeOK /\ Chains /\ TasksOK /\ Turn /\ Seen /\ Bytes
  BY DEF TaskInv
<1>3. /\ flags \in [Tasks -> SUBSET FlagBits] /\ completed \subseteq Tasks
      /\ nextWaitPtr \in [Tasks -> Tasks \cup {NoTask}] /\ t \in Tasks
  BY <1>1, <1>2, Types
<1>4. Waiting' = Waiting /\ Signalled' = Signalled /\ Signalled = {}
  <2>1. firstSignalPtr = NoTask
    BY <1>1, <1>2 DEF Turn
  <2> QED  BY <1>1, <2>1, ChainEmpty DEF Waiting, Signalled
<1>5. /\ ToCall = {} /\ Held = Waiting /\ Linking = {}
      /\ ToCall' = {} /\ Held' = Waiting' /\ Linking' = {}
      /\ Chained(Later, nextWaitPtr)'
  BY <1>1, Idle, IdleNext
<1>6. /\ t \in Waiting /\ Chained(cur, nextWaitPtr)' /\ List(cur, nextWaitPtr)' \subseteq Waiting
      /\ Waiting \ List(cur, nextWaitPtr)' \subseteq completed'
  <2>1. /\ Chained(cur, nextWaitPtr) /\ List(cur, nextWaitPtr) \subseteq Waiting
        /\ Waiting \ List(cur, nextWaitPtr) \subseteq completed
    BY <1>1, <1>2 DEF Chains
  <2>2. cur \in List(cur, nextWaitPtr)
    BY <1>1, <2>1, ChainHas
  <2>3. /\ Chained(nextWaitPtr[cur], nextWaitPtr)
        /\ List(nextWaitPtr[cur], nextWaitPtr) = List(cur, nextWaitPtr) \ {cur}
    BY <2>1, <2>2, ChainFrom
  <2> QED  BY <1>1, <2>1, <2>2, <2>3
<1> HIDE DEF t
<1>7. Chains'
  BY <1>1, <1>2, <1>4, <1>5, <1>6 DEF Chains
<1>8. /\ flags'[t] = flags[t] \cup {"DONE"}
      /\ \A u \in Tasks : u # t => flags'[u] = flags[u] /\ (u \in completed' <=> u \in completed)
      /\ flags' \in [Tasks -> SUBSET FlagBits] /\ completed' \subseteq Tasks
  BY <1>1, <1>3 DEF FlagBits
<1>9. TypeOK'
  <2>1. cur' \in Tasks \cup {NoTask}
    BY <1>1, <1>3
  <2> QED  BY <1>1, <1>2, <1>8, <2>1 DEF TypeOK, FlagBits
<1>10. TasksOK'
  <2>1. SUFFICES ASSUME NEW u \in Tasks PROVE BitsOK(u)'
    BY DEF TasksOK
  <2>2. BitsOK(u)
    BY <1>2 DEF TasksOK
  <2>3. CASE u # t
    BY <1>1, <1>4, <1>5, <1>8, <2>2, <2>3 DEF BitsOK, TaskOK, Unknown, Alone
  <2>4. CASE u = t
    <3>1. "PENDING" \notin signal[t] /\ "CANCEL" \notin signal[t] /\ "DONE" \notin signal[t]
      BY <1>4, <1>5, <1>6, <2>2, <2>4 DEF BitsOK, TaskOK, Alone
    <3>2. t \in completed' /\ "DONE" \in flags'[t]
      BY <1>1, <1>8
    <3>3. ("CANCEL" \in flags'[t] => "CANCEL" \in flags[t])
          /\ ("WAIT" \in flags'[t] => "WAIT" \in flags[t])
      BY <1>8
    <3> QED  BY <1>1, <1>4, <1>5, <1>6, <2>2, <2>4, <3>1, <3>2, <3>3
             DEF BitsOK, TaskOK, Unknown, Alone
  <2> QED  BY <2>3, <2>4
<1>11. Turn' /\ Seen' /\ Bytes'
  BY <1>1, <1>2 DEF Turn, Seen, Bytes
<1> QED  BY <1>7, <1>9, <1>10, <1>11 DEF TaskInv

LEMMA StoppedStep ==
    ASSUME TaskInv, Stopped
    PROVE  TaskInv'
<1>1. /\ tpc = "exit" /\ cur = NoTask /\ tpc' = "exited"
      /\ signal' = [t \in Tasks |-> IF t \in Waiting THEN signal[t] \cup {"DONE"} ELSE signal[t]]
      /\ firstWaitPtr' = NoTask /\ stopped' = TRUE /\ blocked' = {}
      /\ UNCHANGED <<cur, following, ready, stopping, broadcast, nextWaitPtr, firstSignalPtr,
                     nextSignalPtr, trigger, shutdown, flags, completed, opc, expired, freed>>
  BY DEF Stopped, Waiting, taskVars
<1>2. TypeOK /\ Chains /\ TasksOK /\ Turn /\ Seen /\ Bytes
  BY DEF TaskInv
<1>3. signal \in [Tasks -> SUBSET SignalBits]
  BY <1>2, Types
<1>4. Waiting' = {} /\ Signalled' = Signalled /\ Signalled = {}
  <2>1. firstSignalPtr = NoTask
    BY <1>1, <1>2 DEF Turn
  <2> QED  BY <1>1, <2>1, ChainEmpty DEF Waiting, Signalled
<1>5. /\ ToCall = {} /\ Held = Waiting /\ Linking = {}
      /\ ToCall' = {} /\ Held' = Waiting' /\ Linking' = {}
      /\ Chained(Later, nextWaitPtr)'
  BY <1>1, Idle, IdleNext
<1>6. Waiting \subseteq completed
  <2>1. Waiting \ List(cur, nextWaitPtr) \subseteq completed
    BY <1>1, <1>2 DEF Chains
  <2>2. List(cur, nextWaitPtr) = {}
    BY <1>1, ChainEmpty
  <2> QED  BY <2>1, <2>2
<1>7. Chains'
  <2>1. Chained(firstWaitPtr, nextWaitPtr)'
    BY <1>1, ChainEmpty
  <2> QED  BY <1>1, <1>2, <1>4, <1>5, <2>1 DEF Chains
<1>8. \A u \in Tasks : u \in Waiting => signal'[u] = {"DONE"}
  <2>1. SUFFICES ASSUME NEW u \in Tasks, u \in Waiting PROVE signal'[u] = {"DONE"}
    OBVIOUS
  <2>2. BitsOK(u)
    BY <1>2 DEF TasksOK
  <2>3. "PENDING" \notin signal[u] /\ "DONE" \notin signal[u]
    BY <1>4, <1>5, <2>1, <2>2 DEF BitsOK, TaskOK, Alone
  <2>4. "INIT" \notin signal[u] /\ "CANCEL" \notin signal[u]
    BY <2>2, <2>3 DEF BitsOK, TaskOK, Alone
  <2>5. signal[u] = {}
    BY <1>3, <2>3, <2>4 DEF SignalBits
  <2> QED  BY <1>1, <2>1, <2>5
<1>9. \A u \in Tasks : u \notin Waiting => signal'[u] = signal[u]
  BY <1>1
<1>10. TypeOK'
  <2>1. signal' \in [Tasks -> SUBSET SignalBits]
    BY <1>1, <1>3 DEF SignalBits
  <2> QED  BY <1>1, <1>2, <2>1 DEF TypeOK, SignalBits
<1>11. TasksOK'
  <2>1. SUFFICES ASSUME NEW u \in Tasks PROVE BitsOK(u)'
    BY DEF TasksOK
  <2>2. BitsOK(u)
    BY <1>2 DEF TasksOK
  <2>3. u \notin Held' /\ u \notin Linking' /\ u \notin Signalled' /\ u \notin Signalled
        /\ u \notin Linking
    BY <1>4, <1>5
  <2>4. CASE u \in Waiting
    <3>1. signal'[u] = {"DONE"} /\ u \in completed /\ u \in Held
      BY <1>5, <1>6, <1>8, <2>4
    <3> QED  BY <1>1, <2>2, <2>3, <3>1 DEF BitsOK, TaskOK, Unknown, Alone
  <2>5. CASE u \notin Waiting
    BY <1>1, <1>5, <1>9, <2>2, <2>3, <2>5 DEF BitsOK, TaskOK, Unknown, Alone
  <2> QED  BY <2>4, <2>5
<1>12. Turn' /\ Seen' /\ Bytes'
  BY <1>1, <1>2 DEF Turn, Seen, Bytes
<1> QED  BY <1>7, <1>10, <1>11, <1>12 DEF TaskInv

-----------------------------------------------------------------------------
(* The invariant holds.                                                    *)

LEMMA TaskInvInit == Init => TaskInv
<1> SUFFICES ASSUME Init PROVE TaskInv
  OBVIOUS
<1>1. /\ signal = [t \in Tasks |-> {}] /\ flags = [t \in Tasks |-> {}]
      /\ nextWaitPtr = [t \in Tasks |-> NoTask] /\ nextSignalPtr = [t \in Tasks |-> NoTask]
      /\ firstSignalPtr = NoTask /\ firstWaitPtr = NoTask
      /\ trigger = 0 /\ shutdown = FALSE /\ stopped = FALSE
      /\ tpc = "top" /\ cur = NoTask /\ following = NoTask /\ ready = {}
      /\ stopping = FALSE /\ broadcast = FALSE /\ blocked = {}
      /\ opc = [t \in Tasks |-> "new"] /\ expired = {} /\ completed = {} /\ freed = {}
  BY DEF Init
<1>2. /\ Cardinality(Tasks) \in Nat
      /\ Count(opc, Tasks, Triggered) \in 0 .. Cardinality(Tasks)
      /\ Count(opc, Tasks, TriggeredTwice) \in 0 .. Cardinality(Tasks)
  BY TaskAssumption, FS_CardinalityType, CountAtMost
<1>3. TypeOK
  <2>1. trigger \in 0 .. 2 * Cardinality(Tasks) + 1
    BY <1>1, <1>2
  <2>2. /\ signal \in [Tasks -> SUBSET SignalBits] /\ flags \in [Tasks -> SUBSET FlagBits]
        /\ opc \in [Tasks -> Places]
    BY <1>1 DEF Places
  <2>3. /\ nextWaitPtr \in [Tasks -> Tasks \cup {NoTask}]
        /\ nextSignalPtr \in [Tasks -> Tasks \cup {NoTask}]
    BY <1>1
  <2> QED  BY <1>1, <2>1, <2>2, <2>3 DEF TypeOK, Places, SignalBits, FlagBits
<1>4. /\ Chained(NoTask, nextSignalPtr) /\ Chained(NoTask, nextWaitPtr)
      /\ List(NoTask, nextSignalPtr) = {} /\ List(NoTask, nextWaitPtr) = {}
  BY ChainEmpty
<1>5. Signalled = {} /\ Waiting = {} /\ Later = NoTask /\ Linking = {}
  BY <1>1, <1>4 DEF Signalled, Waiting, Later, Linking
<1>6. ToCall = {} /\ Held = {}
  BY <1>4, <1>5 DEF ToCall, Held
<1>7. Chains
  BY <1>1, <1>4, <1>5, <1>6 DEF Chains
<1>8. TasksOK
  BY <1>1, <1>5, <1>6 DEF TasksOK, BitsOK, TaskOK, Unknown, Alone
<1>9. Turn /\ Seen
  BY <1>1 DEF Turn, Seen
<1>10. Bytes
  BY <1>1, <1>2 DEF Bytes
<1> QED  BY <1>3, <1>7, <1>8, <1>9, <1>10 DEF TaskInv

LEMMA TaskInvStep ==
    ASSUME TaskInv, "cancelLate" \notin Ops, [Next]_vars
    PROVE  TaskInv'
<1>1. CASE ThreadNext
  BY <1>1, TakeLockStep, TakeSignalStep, SignalsDoneStep, PrePollStep, LinkStep, PassDoneStep,
     PollStep, RunTaskStep, RunDoneStep, CallExitStep, StoppedStep DEF ThreadNext
<1>2. ASSUME NEW t \in Tasks, OwnerNext(t) PROVE TaskInv'
  BY <1>2, EnqueueStep, TriggerStep, HttpAbortStep, NsTaskWaitStep, HttpCloseStep,
     NsTaskRunStep DEF OwnerNext
<1>3. ASSUME NEW t \in Tasks, Expire(t) PROVE TaskInv'
  BY <1>3, ExpireStep
<1>4. CASE StopQueue
  BY <1>4, StopQueueStep
<1>5. CASE UNCHANGED vars
  <2>1. UNCHANGED <<tpc, cur, following, firstWaitPtr, ready, stopping, broadcast, nextWaitPtr,
                    signal, firstSignalPtr, nextSignalPtr, trigger, shutdown, stopped, blocked,
                    flags, completed, opc, expired, freed>>
    BY <1>5 DEF vars, threadVars, signalVars, queueVars, taskVars
  <2>2. TypeOK /\ Chains /\ TasksOK /\ Turn /\ Seen /\ Bytes
    BY DEF TaskInv
  <2>3. Chains' /\ Signalled' = Signalled /\ Held' = Held /\ Linking' = Linking
    BY <2>1, <2>2, ListsKept
  <2>4. TypeOK'
    BY <2>1, <2>2 DEF TypeOK
  <2>5. TasksOK'
    BY <2>1, <2>2, <2>3 DEF TasksOK, BitsOK
  <2>6. Turn' /\ Seen' /\ Bytes'
    BY <2>1, <2>2 DEF Turn, Seen, Bytes
  <2> QED  BY <2>3, <2>4, <2>5, <2>6 DEF TaskInv
<1> QED  BY <1>1, <1>2, <1>3, <1>4, <1>5 DEF Next

THEOREM TaskInvHolds ==
    ASSUME "cancelLate" \notin Ops
    PROVE  Spec => []TaskInv
<1>1. Init => TaskInv
  BY TaskInvInit
<1>2. TaskInv /\ [Next]_vars => TaskInv'
  BY TaskInvStep
<1> QED  BY <1>1, <1>2, PTL DEF Spec

(* The two lists of a task queue hold tasks that live, each once, however  *)
(* requests come, are cancelled, time out and complete: the list pointers  *)
(* of nsd/task.c never lead to a freed task, nor in a circle.              *)
THEOREM ListsSoundCorrect ==
    ASSUME "cancelLate" \notin Ops
    PROVE  Spec => []ListsSound
<1>1. ASSUME TaskInv PROVE ListsSound
  <2>1. TypeOK /\ Chains /\ TasksOK
    BY <1>1 DEF TaskInv
  <2>2. freed \subseteq Tasks /\ NoTask \notin Tasks
    BY <2>1, Types, TaskAssumption
  <2>3. ASSUME NEW t \in Tasks, t \in freed PROVE t \notin Signalled /\ t \notin Held
    <3>1. BitsOK(t)
      BY <2>1 DEF TasksOK
    <3> QED  BY <2>3, <3>1 DEF BitsOK, TaskOK, Unknown, Alone
  <2>4. Waiting \subseteq Held /\ ToCall \subseteq Held
    BY DEF Held
  <2>5. ASSUME tpc \in {"calls", "run", "exit"}, cur # NoTask PROVE cur \in Held
    <3>1. CASE tpc = "calls"
      <4>1. Later = cur /\ Chained(cur, nextWaitPtr)
        BY <2>1, <3>1 DEF Later, Chains
      <4>2. cur \in List(cur, nextWaitPtr)
        BY <2>5, <4>1, ChainHas
      <4> QED  BY <2>4, <4>1, <4>2 DEF ToCall
    <3>2. CASE tpc \in {"run", "exit"}
      <4>1. Chained(cur, nextWaitPtr) /\ List(cur, nextWaitPtr) \subseteq Waiting
        BY <2>1, <3>2 DEF Chains
      <4>2. cur \in List(cur, nextWaitPtr)
        BY <2>5, <4>1, ChainHas
      <4> QED  BY <2>4, <4>1, <4>2
    <3> QED  BY <2>5, <3>1, <3>2
  <2>6. ListsLive
    BY <2>2, <2>3, <2>4, <2>5 DEF ListsLive
  <2>7. Chained(firstSignalPtr, nextSignalPtr) /\ Chained(firstWaitPtr, nextWaitPtr)
    BY <2>1 DEF Chains
  <2>8. Ends(firstSignalPtr, nextSignalPtr)
    BY <2>7, ChainEnds
  <2>9. Ends(firstWaitPtr, nextWaitPtr)
    BY <2>7, ChainEnds
  <2> QED  BY <2>1, <2>6, <2>8, <2>9 DEF ListsSound, NoCycle
<1> QED  BY <1>1, TaskInvHolds, PTL

(* TaskThread knows of every request that is queued and not done, and is   *)
(* woken for every signal: SignalQueue and TriggerQueue of nsd/task.c      *)
(* leave no task behind, whatever happens at the same time.                *)
THEOREM NoneUnseenCorrect ==
    ASSUME "cancelLate" \notin Ops
    PROVE  Spec => []NoneUnseen
<1>1. ASSUME TaskInv PROVE NoneUnseen
  <2>1. TasksOK /\ Turn /\ Seen
    BY <1>1 DEF TaskInv
  <2>2. NoneForgotten
    <3>1. SUFFICES ASSUME tpc \in {"top", "poll", "run"}, NEW t \in Tasks,
                          opc[t] \notin {"new", "running"}, "DONE" \notin signal[t],
                          t \notin freed
                   PROVE  t \in Signalled \cup Waiting
      BY DEF NoneForgotten
    <3>2. Held = Waiting /\ Linking = {}
      BY <3>1, Idle
    <3>3. BitsOK(t)
      BY <2>1 DEF TasksOK
    <3> QED  BY <3>1, <3>2, <3>3 DEF BitsOK, TaskOK, Alone
  <2>3. SignalSeen
    BY <2>1 DEF SignalSeen, Seen, Turn
  <2> QED  BY <2>2, <2>3 DEF NoneUnseen
<1> QED  BY <1>1, TaskInvHolds, PTL

(* Whatever Ns_TaskWait lets an owner take has been completed by the proc  *)
(* of the task, but for a request that Ns_TaskRun gave up on.              *)
THEOREM DoneIsCompleteCorrect ==
    ASSUME "cancelLate" \notin Ops
    PROVE  Spec => []DoneIsComplete
<1>1. ASSUME TaskInv PROVE DoneIsComplete
  <2>1. \A t \in Tasks : BitsOK(t)
    BY <1>1 DEF TaskInv, TasksOK
  <2> QED  BY <2>1 DEF DoneIsComplete, GaveUp, TimedOut, BitsOK, TaskOK
<1> QED  BY <1>1, TaskInvHolds, PTL
=============================================================================
