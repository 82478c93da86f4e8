------------------------------- MODULE Lemmas -------------------------------
(***************************************************************************)
(* What the proofs share: how many processes are at given places, the      *)
(* counting argument behind the counters (threads.idle, lock counts, pool  *)
(* sizes), and what the operators on lists return.                         *)
(*                                                                         *)
(* For the counts f is a function that says where each process is, T a     *)
(* finite set of processes, S a set of places.                             *)
(***************************************************************************)
EXTENDS EventHeap, FiniteSetTheorems, SequenceTheorems, TLAPS

Count(f, T, S) == Cardinality({u \in T : f[u] \in S})

\* 1 when place s is in S, else 0.
Here(s, S) == IF s \in S THEN 1 ELSE 0

(* A count of finitely many processes is a natural number, and it is 0     *)
(* exactly when none of them is there.                                     *)
LEMMA CountType ==
    ASSUME NEW T, IsFiniteSet(T), NEW f, NEW S
    PROVE  /\ IsFiniteSet({u \in T : f[u] \in S})
           /\ Count(f, T, S) \in Nat
           /\ Count(f, T, S) = 0 <=> \A u \in T : f[u] \notin S
PROOF
<1> DEFINE A == {u \in T : f[u] \in S}
<1>1. IsFiniteSet(A)
  BY FS_Subset
<1>2. Cardinality(A) \in Nat
  BY <1>1, FS_CardinalityType
<1>3. Cardinality(A) = 0 <=> A = {}
  BY <1>1, FS_EmptySet
<1> QED
  BY <1>1, <1>2, <1>3 DEF Count

(* A count depends only on where the processes of T are.                   *)
LEMMA CountSame ==
    ASSUME NEW T, NEW f, NEW g, NEW S,
           \A u \in T : f[u] \in S <=> g[u] \in S
    PROVE  Count(f, T, S) = Count(g, T, S)
PROOF
<1>1. {u \in T : f[u] \in S} = {u \in T : g[u] \in S}
  OBVIOUS
<1> QED
  BY <1>1 DEF Count

(* One process moves: it leaves the count of its old place and joins the   *)
(* count of its new one.                                                   *)
LEMMA CountMoved ==
    ASSUME NEW T, IsFiniteSet(T), NEW f, NEW g, NEW S, NEW t \in T,
           \A u \in T : u # t => g[u] = f[u]
    PROVE  Count(g, T, S) = Count(f, T, S) + Here(g[t], S) - Here(f[t], S)
PROOF
<1> DEFINE A == {u \in T : f[u] \in S}
           B == {u \in T : g[u] \in S}
<1>0. Count(f, T, S) = Cardinality(A) /\ Count(g, T, S) = Cardinality(B)
  BY DEF Count
<1>1. IsFiniteSet(A) /\ Cardinality(A) \in Nat
  BY FS_Subset, FS_CardinalityType
<1>2. CASE f[t] \in S /\ g[t] \in S
  <2>1. Cardinality(A) = Cardinality(B)
    <3>1. A = B
      BY <1>2
    <3> QED
      BY <3>1
  <2> QED
    BY <1>0, <1>1, <1>2, <2>1 DEF Here
<1>3. CASE f[t] \in S /\ g[t] \notin S
  <2>1. B = A \ {t} /\ t \in A
    BY <1>3
  <2>2. Cardinality(B) = Cardinality(A) - 1
    BY <1>1, <2>1, FS_RemoveElement
  <2> QED
    BY <1>0, <1>1, <1>3, <2>2 DEF Here
<1>4. CASE f[t] \notin S /\ g[t] \in S
  <2>1. B = A \cup {t} /\ t \notin A
    BY <1>4
  <2>2. Cardinality(B) = Cardinality(A) + 1
    BY <1>1, <2>1, FS_AddElement
  <2> QED
    BY <1>0, <1>1, <1>4, <2>2 DEF Here
<1>5. CASE f[t] \notin S /\ g[t] \notin S
  <2>1. Cardinality(A) = Cardinality(B)
    <3>1. A = B
      BY <1>5
    <3> QED
      BY <3>1
  <2> QED
    BY <1>0, <1>1, <1>5, <2>1 DEF Here
<1> QED
  BY <1>2, <1>3, <1>4, <1>5

(* Count m becomes n when one process moves from place r to place s. *)
Shifted(n, m, r, s, S) == n = m + Here(s, S) - Here(r, S)

LEMMA CountShifted ==
    ASSUME NEW T, IsFiniteSet(T), NEW f, NEW g, NEW S, NEW t \in T,
           \A u \in T : u # t => g[u] = f[u]
    PROVE  Shifted(Count(g, T, S), Count(f, T, S), f[t], g[t], S)
BY CountMoved DEF Shifted

LEMMA CountPut ==
    ASSUME NEW T, IsFiniteSet(T), NEW f, NEW P, f \in [T -> P], NEW t \in T, NEW s, NEW g,
           g = [f EXCEPT ![t] = s], NEW S
    PROVE  Shifted(Count(g, T, S), Count(f, T, S), f[t], s, S)
PROOF
<1>1. g[t] = s
  OBVIOUS
<1>2. \A u \in T : u # t => g[u] = f[u]
  OBVIOUS
<1>3. Shifted(Count(g, T, S), Count(f, T, S), f[t], g[t], S)
  BY <1>2, CountShifted
<1> QED
  BY <1>1, <1>3

(* Processes at one of two disjoint sets of places are counted apart.      *)
LEMMA CountDisjoint ==
    ASSUME NEW A, NEW B, IsFiniteSet(A), IsFiniteSet(B), A \cap B = {}
    PROVE  /\ IsFiniteSet(A \cup B)
           /\ Cardinality(A \cup B) = Cardinality(A) + Cardinality(B)
           /\ Cardinality(A) \in Nat /\ Cardinality(B) \in Nat
PROOF
<1>1. /\ IsFiniteSet(A \cup B)
      /\ Cardinality(A \cup B) =
           Cardinality(A) + Cardinality(B) - Cardinality(A \cap B)
  BY FS_Union
<1>2. Cardinality(A \cap B) = 0
  BY FS_EmptySet
<1>3. Cardinality(A) \in Nat /\ Cardinality(B) \in Nat
  BY FS_CardinalityType
<1> QED
  BY <1>1, <1>2, <1>3

LEMMA CountUnion ==
    ASSUME NEW T, IsFiniteSet(T), NEW f, NEW S1, NEW S2, S1 \cap S2 = {}
    PROVE  Count(f, T, S1 \cup S2) = Count(f, T, S1) + Count(f, T, S2)
PROOF
<1> DEFINE A == {u \in T : f[u] \in S1}
           B == {u \in T : f[u] \in S2}
<1>1. IsFiniteSet(A) /\ IsFiniteSet(B)
  BY FS_Subset
<1>2. A \cap B = {}
  OBVIOUS
<1>3. {u \in T : f[u] \in S1 \cup S2} = A \cup B
  OBVIOUS
<1> QED
  BY <1>1, <1>2, <1>3, CountDisjoint DEF Count

(* Of the processes that share a role that only one may have there is      *)
(* none, or one.                                                           *)
LEMMA CountSingle ==
    ASSUME NEW A, \A x, y \in A : x = y
    PROVE  /\ IsFiniteSet(A)
           /\ Cardinality(A) = IF A = {} THEN 0 ELSE 1
PROOF
<1>1. CASE A = {}
  BY <1>1, FS_EmptySet
<1>2. CASE A # {}
  <2>1. PICK x \in A : A = {x}
    BY <1>2
  <2> QED
    BY <1>2, <2>1, FS_Singleton
<1> QED
  BY <1>1, <1>2

-----------------------------------------------------------------------------
(* Lists. *)

LEMMA LeastNat ==
    ASSUME NEW S \in SUBSET Nat, S # {}
    PROVE  \E m \in S : \A n \in S : m <= n
<1>1. \E m \in S : \A n \in S : ~(<<n, m>> \in OpToRel(<, Nat))
  BY NatLessThanWellFounded, WFMin
<1>2. PICK m \in S : \A n \in S : ~(<<n, m>> \in OpToRel(<, Nat))
  BY <1>1
<1>3. \A n \in S : ~(n < m)
  BY <1>2 DEF OpToRel
<1> QED  BY <1>3

(* The ranks of the places I are 1, 2, ... in the order of the places.     *)
LEMMA RankIs ==
    ASSUME NEW n \in Nat, NEW I \in SUBSET (1 .. n)
    PROVE  /\ IsFiniteSet(I) /\ Cardinality(I) \in 0 .. n
           /\ \A i \in I : Rank(I, i) \in 1 .. Cardinality(I)
           /\ \A i, j \in I : i < j => Rank(I, i) < Rank(I, j)
           /\ \A k \in 1 .. Cardinality(I) : \E i \in I : Rank(I, i) = k
<1> DEFINE Upto(i) == {j \in I : j <= i}
           c == Cardinality(I)
           r == [i \in I |-> Rank(I, i)]
<1>1. IsFiniteSet(I) /\ c \in Nat /\ c <= n
  <2>1. IsFiniteSet(1 .. n) /\ Cardinality(1 .. n) = n
    BY FS_Interval
  <2> QED  BY <2>1, FS_Subset, FS_CardinalityType
<1>0. \A i \in I : i \in Int
  OBVIOUS
<1>2. ASSUME NEW i \in I PROVE Rank(I, i) \in 1 .. c
  <2>1. IsFiniteSet(Upto(i)) /\ Cardinality(Upto(i)) <= c
    BY <1>1, FS_Subset
  <2>2. i \in Upto(i)
    OBVIOUS
  <2>3. Cardinality(Upto(i)) \in Nat /\ Cardinality(Upto(i)) # 0
    BY <2>1, <2>2, FS_CardinalityType, FS_EmptySet
  <2> QED  BY <1>1, <2>1, <2>3 DEF Rank
<1>3. ASSUME NEW i \in I, NEW j \in I, i < j PROVE Rank(I, i) < Rank(I, j)
  <2>1. IsFiniteSet(Upto(j))
    BY <1>1, FS_Subset
  <2>2. Upto(i) \subseteq Upto(j) /\ j \in Upto(j) /\ j \notin Upto(i)
    <3>1. (\A x \in I : x <= i => x <= j) /\ j <= j /\ ~(j <= i)
      BY <1>0, <1>3
    <3> QED  BY <3>1
  <2>3. Cardinality(Upto(i)) <= Cardinality(Upto(j)) /\ Cardinality(Upto(i)) # Cardinality(Upto(j))
    BY <2>1, <2>2, FS_Subset
  <2>4. Rank(I, i) \in 1 .. c /\ Rank(I, j) \in 1 .. c
    BY <1>2
  <2> QED  BY <1>1, <2>3, <2>4 DEF Rank
<1>4. \A k \in 1 .. c : \E i \in I : Rank(I, i) = k
  <2>1. r \in Injection(I, 1 .. c)
    <3>1. r \in [I -> 1 .. c]
      BY <1>2
    <3>2. \A i, j \in I : Rank(I, i) = Rank(I, j) => i = j
      <4> SUFFICES ASSUME NEW i \in I, NEW j \in I, i # j PROVE Rank(I, i) # Rank(I, j)
        OBVIOUS
      <4>1. i < j \/ j < i
        OBVIOUS
      <4>2. Rank(I, i) \in Int /\ Rank(I, j) \in Int
        BY <1>1, <1>2
      <4> QED  BY <1>3, <4>1, <4>2
    <3> QED  BY <3>1, <3>2 DEF Injection, IsInjective
  <2>2. IsFiniteSet(1 .. c) /\ Cardinality(1 .. c) = c
    BY <1>1, FS_Interval
  <2>3. r \in Surjection(I, 1 .. c)
    <3> HIDE DEF r
    <3> QED  BY <2>1, <2>2, FS_Injection
  <2> QED  BY <2>3 DEF Surjection
<1> QED  BY <1>1, <1>2, <1>3, <1>4

(* What Filter returns: the chosen places, in their order, and all of them. *)
LEMMA FilterIs ==
    ASSUME NEW T, NEW s \in Seq(T), NEW S
    PROVE  /\ Filter(s, S) \in Seq(T) /\ Len(Filter(s, S)) <= Len(s)
           /\ Len(Filter(s, S)) = Cardinality(PlacesOf(s, S))
           /\ IsFiniteSet(PlacesOf(s, S))
           /\ \E p \in [1 .. Len(Filter(s, S)) -> PlacesOf(s, S)] :
                /\ \A k \in 1 .. Len(Filter(s, S)) : Filter(s, S)[k] = s[p[k]]
                /\ \A j, k \in 1 .. Len(Filter(s, S)) : j < k => p[j] < p[k]
                /\ \A i \in PlacesOf(s, S) : \E k \in 1 .. Len(Filter(s, S)) : p[k] = i
<1> DEFINE I == PlacesOf(s, S)
           c == Cardinality(I)
           p == [k \in 1 .. c |-> CHOOSE i \in I : Rank(I, i) = k]
           F == [k \in 1 .. c |-> s[p[k]]]
<1>1. /\ Len(s) \in Nat /\ I \in SUBSET (1 .. Len(s))
      /\ \A i \in I : i \in Int
  BY DEF PlacesOf
<1>2. /\ IsFiniteSet(I) /\ c \in 0 .. Len(s)
      /\ \A i \in I : Rank(I, i) \in 1 .. c
      /\ \A i, j \in I : i < j => Rank(I, i) < Rank(I, j)
      /\ \A k \in 1 .. c : \E i \in I : Rank(I, i) = k
  <2> HIDE DEF I
  <2> QED  BY <1>1, RankIs
<1>3. \A k \in 1 .. c : p[k] \in I /\ Rank(I, p[k]) = k
  <2> HIDE DEF I, c
  <2> QED  BY <1>2
<1>4. Filter(s, S) = F
  BY DEF Filter
<1>5. F \in Seq(T) /\ Len(F) = c
  <2>1. \A k \in 1 .. c : s[p[k]] \in T
    <3> HIDE DEF p, c
    <3> QED  BY <1>1, <1>3
  <2>2. c \in Nat
    BY <1>1, <1>2
  <2> HIDE DEF p, c
  <2> QED  BY <2>1, <2>2
<1>6. p \in [1 .. c -> I] /\ \A k \in 1 .. c : F[k] = s[p[k]]
  <2>1. p \in [1 .. c -> I]
    <3> HIDE DEF c, I
    <3> QED  BY <1>3
  <2> HIDE DEF c, p
  <2> QED  BY <2>1
<1> HIDE DEF p, F, I
<1>7. \A j, k \in 1 .. c : j < k => p[j] < p[k]
  <2> SUFFICES ASSUME NEW j \in 1 .. c, NEW k \in 1 .. c, j < k PROVE p[j] < p[k]
    OBVIOUS
  <2>1. p[j] \in I /\ p[k] \in I /\ Rank(I, p[j]) < Rank(I, p[k])
    BY <1>3
  <2>2. p[j] \in Int /\ p[k] \in Int
    BY <1>1, <2>1
  <2>3. ~(p[k] < p[j]) /\ p[k] # p[j]
    BY <1>2, <1>3, <2>1
  <2> QED  BY <2>2, <2>3
<1>8. \A i \in I : \E k \in 1 .. c : p[k] = i
  <2> SUFFICES ASSUME NEW i \in I PROVE \E k \in 1 .. c : p[k] = i
    OBVIOUS
  <2> DEFINE k == Rank(I, i)
  <2>1. k \in 1 .. c /\ p[k] \in I /\ Rank(I, p[k]) = k
    BY <1>2, <1>3
  <2>2. p[k] \in Int /\ i \in Int
    BY <1>1, <2>1
  <2>3. ~(p[k] < i) /\ ~(i < p[k])
    BY <1>2, <2>1
  <2> QED  BY <2>1, <2>2, <2>3
<1>9. Len(F) = c /\ c <= Len(s)
  BY <1>2, <1>5
<1>10. \E q \in [1 .. Len(F) -> I] :
           /\ \A k \in 1 .. Len(F) : F[k] = s[q[k]]
           /\ \A j, k \in 1 .. Len(F) : j < k => q[j] < q[k]
           /\ \A i \in I : \E k \in 1 .. Len(F) : q[k] = i
  BY <1>6, <1>7, <1>8, <1>9
<1> QED  BY <1>2, <1>4, <1>5, <1>9, <1>10, Zenon DEF I

LEMMA FilterHas ==
    ASSUME NEW T, NEW s \in Seq(T), NEW S
    PROVE  /\ Filter(s, S) \in Seq(T) /\ Len(Filter(s, S)) <= Len(s)
           /\ Range(Filter(s, S)) = Range(s) \cap S
           /\ IsInjective(s) => IsInjective(Filter(s, S))
<1> DEFINE F == Filter(s, S)
           I == PlacesOf(s, S)
<1> HIDE DEF F, I
<1>1. F \in Seq(T) /\ Len(F) <= Len(s)
  BY FilterIs DEF F
<1>2. PICK p \in [1 .. Len(F) -> I] :
           /\ \A k \in 1 .. Len(F) : F[k] = s[p[k]]
           /\ \A j, k \in 1 .. Len(F) : j < k => p[j] < p[k]
           /\ \A i \in I : \E k \in 1 .. Len(F) : p[k] = i
  BY FilterIs DEF F, I
<1>3. I = {i \in 1 .. Len(s) : s[i] \in S} /\ Len(s) \in Nat /\ DOMAIN s = 1 .. Len(s)
  BY DEF PlacesOf, I
<1>4. DOMAIN F = 1 .. Len(F) /\ Len(F) \in Nat
  BY <1>1
<1>5. Range(F) = Range(s) \cap S
  <2>1. ASSUME NEW k \in 1 .. Len(F) PROVE F[k] \in Range(s) \cap S
    BY <1>2, <1>3 DEF Range
  <2>2. ASSUME NEW x \in Range(s) \cap S PROVE x \in Range(F)
    <3>1. PICK i \in 1 .. Len(s) : x = s[i]
      BY <1>3 DEF Range
    <3>2. PICK k \in 1 .. Len(F) : p[k] = i
      BY <1>2, <1>3, <3>1
    <3> QED  BY <1>2, <1>4, <3>1, <3>2 DEF Range
  <2> QED  BY <1>4, <2>1, <2>2 DEF Range
<1>6. ASSUME IsInjective(s) PROVE IsInjective(F)
  <2> SUFFICES ASSUME NEW j \in 1 .. Len(F), NEW k \in 1 .. Len(F), F[j] = F[k]
               PROVE  j = k
    BY <1>4 DEF IsInjective
  <2>1. p[j] = p[k] /\ p[j] \in 1 .. Len(s)
    BY <1>2, <1>3, <1>6 DEF IsInjective
  <2>2. ~(j < k) /\ ~(k < j)
    BY <1>2, <1>3, <2>1
  <2> QED  BY <1>4, <2>2
<1> QED  BY <1>1, <1>5, <1>6 DEF F

(* Taking out one element that is there once. *)
LEMMA FilterOne ==
    ASSUME NEW T, NEW s \in Seq(T), NEW S, IsInjective(s), NEW x \in Range(s),
           S \cap Range(s) = Range(s) \ {x}
    PROVE  Len(Filter(s, S)) = Len(s) - 1
<1> DEFINE I == PlacesOf(s, S)
<1>1. PICK i \in 1 .. Len(s) : s[i] = x
  BY DEF Range
<1>2. I = (1 .. Len(s)) \ {i}
  <2>1. \A j \in 1 .. Len(s) : s[j] \in S <=> j # i
    BY <1>1 DEF Range, IsInjective
  <2> QED  BY <2>1 DEF PlacesOf
<1>3. Len(s) \in Nat /\ IsFiniteSet(1 .. Len(s)) /\ Cardinality(1 .. Len(s)) = Len(s)
  <2>1. Len(s) \in Nat
    OBVIOUS
  <2> QED  BY <2>1, FS_Interval
<1>4. Cardinality(I) = Len(s) - 1
  <2> DEFINE J == 1 .. Len(s)
  <2>1. IsFiniteSet(J) /\ i \in J /\ I = J \ {i} /\ Cardinality(J) = Len(s)
    BY <1>1, <1>2, <1>3
  <2> HIDE DEF I, J
  <2>2. Cardinality(J \ {i}) = Cardinality(J) - 1
    BY <2>1, FS_RemoveElement
  <2> QED  BY <2>1, <2>2
<1>5. Len(Filter(s, S)) = Cardinality(I)
  BY FilterIs, Zenon
<1> QED  BY <1>4, <1>5

LEMMA ConcatHas ==
    ASSUME NEW T, NEW a \in Seq(T), NEW b \in Seq(T)
    PROVE  /\ a \o b \in Seq(T) /\ Len(a \o b) = Len(a) + Len(b)
           /\ Range(a \o b) = Range(a) \cup Range(b)
           /\ IsInjective(a) /\ IsInjective(b) /\ Range(a) \cap Range(b) = {}
                => IsInjective(a \o b)
<1> DEFINE c == a \o b
           m == Len(a)
           n == Len(b)
<1>1. /\ c \in Seq(T) /\ Len(c) = m + n /\ m \in Nat /\ n \in Nat
      /\ DOMAIN c = 1 .. m + n /\ DOMAIN a = 1 .. m /\ DOMAIN b = 1 .. n
  OBVIOUS
<1>2. /\ \A i \in 1 .. m : c[i] = a[i]
      /\ \A i \in 1 .. m + n : i > m => c[i] = b[i - m] /\ i - m \in 1 .. n
  BY <1>1
<1>3. \A i \in 1 .. n : c[m + i] = b[i] /\ m + i \in 1 .. m + n /\ m + i > m
  BY <1>1
<1> HIDE DEF c, m, n
<1>4. Range(c) = Range(a) \cup Range(b)
  <2>1. ASSUME NEW i \in 1 .. m + n PROVE c[i] \in Range(a) \cup Range(b)
    <3>1. i \in 1 .. m \/ i > m
      BY <1>1
    <3> QED  BY <1>1, <1>2, <3>1 DEF Range
  <2>2. ASSUME NEW i \in 1 .. m PROVE a[i] \in Range(c)
    <3>1. i \in 1 .. m + n
      BY <1>1
    <3> QED  BY <1>1, <1>2, <3>1 DEF Range
  <2>3. ASSUME NEW i \in 1 .. n PROVE b[i] \in Range(c)
    BY <1>1, <1>3 DEF Range
  <2> QED  BY <1>1, <2>1, <2>2, <2>3 DEF Range
<1>5. ASSUME IsInjective(a), IsInjective(b), Range(a) \cap Range(b) = {}
      PROVE  IsInjective(c)
  <2> SUFFICES ASSUME NEW i \in 1 .. m + n, NEW j \in 1 .. m + n, c[i] = c[j]
               PROVE  i = j
    BY <1>1 DEF IsInjective
  <2>0. i \in Int /\ j \in Int
    BY <1>1
  <2>1. (i \in 1 .. m \/ i > m) /\ (j \in 1 .. m \/ j > m)
    BY <1>1
  <2>2. CASE i \in 1 .. m /\ j \in 1 .. m
    BY <1>1, <1>2, <1>5, <2>2 DEF IsInjective
  <2>3. CASE i > m /\ j > m
    <3>0. i - m \in 1 .. n /\ j - m \in 1 .. n /\ b[i - m] = b[j - m]
      BY <1>2, <2>3
    <3>1. i - m = j - m
      BY <1>1, <1>5, <3>0 DEF IsInjective
    <3> QED  BY <1>1, <2>0, <3>1
  <2>4. CASE i \in 1 .. m /\ j > m
    <3>1. c[i] \in Range(a) /\ c[j] \in Range(b)
      BY <1>1, <1>2, <2>4 DEF Range
    <3> QED  BY <1>5, <3>1
  <2>5. CASE i > m /\ j \in 1 .. m
    <3>1. c[i] \in Range(b) /\ c[j] \in Range(a)
      BY <1>1, <1>2, <2>5 DEF Range
    <3> QED  BY <1>5, <3>1
  <2> QED  BY <2>1, <2>2, <2>3, <2>4, <2>5
<1> QED  BY <1>1, <1>4, <1>5 DEF c, m, n

(* An element put at the head of a list that does not hold it. *)
LEMMA PushedHas ==
    ASSUME NEW T, NEW s \in Seq(T), NEW e \in T, IsInjective(s), e \notin Range(s)
    PROVE  /\ <<e>> \o s \in Seq(T) /\ Len(<<e>> \o s) = Len(s) + 1
           /\ Range(<<e>> \o s) = {e} \cup Range(s)
           /\ IsInjective(<<e>> \o s)
<1> DEFINE h == <<e>>
<1>1. h \in Seq(T) /\ Len(h) = 1 /\ h[1] = e
  OBVIOUS
<1>2. Range(h) = {e} /\ IsInjective(h)
  BY DEF Range, IsInjective
<1>3. Range(h) \cap Range(s) = {}
  BY <1>2
<1>4. Len(s) \in Nat
  OBVIOUS
<1> HIDE DEF h
<1>5. /\ h \o s \in Seq(T) /\ Len(h \o s) = Len(h) + Len(s)
      /\ Range(h \o s) = Range(h) \cup Range(s)
      /\ IsInjective(h) /\ IsInjective(s) /\ Range(h) \cap Range(s) = {}
           => IsInjective(h \o s)
  BY <1>1, ConcatHas
<1> QED  BY <1>1, <1>2, <1>3, <1>4, <1>5 DEF h

(* A list cut in two. *)
LEMMA CutHas ==
    ASSUME NEW T, NEW s \in Seq(T), NEW k \in 0 .. Len(s)
    PROVE  LET a == SubSeq(s, 1, k)
               b == SubSeq(s, k + 1, Len(s))
           IN  /\ a \in Seq(T) /\ b \in Seq(T) /\ Len(a) = k /\ Len(b) = Len(s) - k
               /\ Range(a) \cup Range(b) = Range(s)
               /\ \A i \in 1 .. k : a[i] = s[i]
               /\ \A i \in 1 .. Len(s) - k : b[i] = s[k + i]
               /\ IsInjective(s) => IsInjective(a) /\ IsInjective(b) /\ Range(a) \cap Range(b) = {}
<1> DEFINE a == SubSeq(s, 1, k)
           b == SubSeq(s, k + 1, Len(s))
           n == Len(s)
<1>1. n \in Nat /\ k \in Nat /\ k <= n /\ DOMAIN s = 1 .. n
  OBVIOUS
<1>2. /\ a \in Seq(T) /\ Len(a) = k /\ DOMAIN a = 1 .. k
      /\ \A i \in 1 .. k : a[i] = s[i]
  BY <1>1
<1>3. /\ b \in Seq(T) /\ Len(b) = n - k /\ DOMAIN b = 1 .. n - k
  <2>1. b \in Seq(T) /\ Len(b) = n - k
    <3>1. k + 1 \in 1 .. n + 1 /\ n \in 0 .. n
      BY <1>1
    <3>2. Len(b) = IF k + 1 <= n THEN n - (k + 1) + 1 ELSE 0
      BY <1>1, <3>1, SubSeqProperties
    <3>3. b \in Seq(T)
      BY <1>1, <3>1, SubSeqProperties
    <3> HIDE DEF b, n
    <3> QED  BY <1>1, <3>2, <3>3
  <2> QED  BY <2>1
<1>4. \A i \in 1 .. n - k : b[i] = s[k + i]
  <2> SUFFICES ASSUME NEW i \in 1 .. n - k PROVE b[i] = s[k + i]
    OBVIOUS
  <2>1. b[i] = s[k + 1 + i - 1]
    BY <1>1
  <2>2. k + 1 + i - 1 = k + i
    BY <1>1
  <2> QED  BY <2>1, <2>2
<1> HIDE DEF a, b, n
<1>5. Range(a) \cup Range(b) = Range(s)
  <2>1. \A i \in 1 .. k : i \in 1 .. n
    BY <1>1
  <2>2. \A i \in 1 .. n - k : k + i \in 1 .. n
    BY <1>1
  <2>3. \A i \in 1 .. n : i \in 1 .. k \/ (i - k \in 1 .. n - k /\ k + (i - k) = i)
    BY <1>1
  <2>4. ASSUME NEW i \in 1 .. n PROVE s[i] \in Range(a) \cup Range(b)
    <3>1. CASE i \in 1 .. k
      BY <1>2, <3>1 DEF Range
    <3>2. CASE i - k \in 1 .. n - k /\ k + (i - k) = i
      <4>1. b[i - k] = s[i]
        BY <1>4, <3>2
      <4>2. i - k \in DOMAIN b
        BY <1>3, <3>2
      <4> QED  BY <4>1, <4>2 DEF Range
    <3> QED  BY <2>3, <3>1, <3>2
  <2>5. \A i \in 1 .. k : a[i] \in Range(s)
    BY <1>1, <1>2, <2>1 DEF Range
  <2>6. \A i \in 1 .. n - k : b[i] \in Range(s)
    BY <1>1, <1>4, <2>2 DEF Range
  <2> QED  BY <1>1, <1>2, <1>3, <2>4, <2>5, <2>6 DEF Range
<1>6. ASSUME IsInjective(s)
      PROVE  IsInjective(a) /\ IsInjective(b) /\ Range(a) \cap Range(b) = {}
  <2>1. \A i, j \in 1 .. n : s[i] = s[j] => i = j
    BY <1>1, <1>6 DEF IsInjective
  <2>2. IsInjective(a)
    <3>1. \A i \in 1 .. k : i \in 1 .. n
      BY <1>1
    <3> QED  BY <1>2, <2>1, <3>1 DEF IsInjective
  <2>3. IsInjective(b)
    <3> SUFFICES ASSUME NEW i \in 1 .. n - k, NEW j \in 1 .. n - k, b[i] = b[j] PROVE i = j
      BY <1>3 DEF IsInjective
    <3>1. k + i \in 1 .. n /\ k + j \in 1 .. n
      BY <1>1
    <3>2. k + i = k + j
      BY <1>4, <2>1, <3>1
    <3> QED  BY <1>1, <3>2
  <2>4. ASSUME NEW i \in 1 .. k, NEW j \in 1 .. n - k PROVE a[i] # b[j]
    <3>1. i \in 1 .. n /\ k + j \in 1 .. n /\ i # k + j
      BY <1>1
    <3> QED  BY <1>2, <1>4, <2>1, <3>1
  <2> QED  BY <1>2, <1>3, <2>2, <2>3, <2>4 DEF Range
<1> QED  BY <1>2, <1>3, <1>4, <1>5, <1>6 DEF a, b, n

(* Reverse(s), written out. *)
LEMMA ReverseHas ==
    ASSUME NEW T, NEW s \in Seq(T)
    PROVE  LET r == [i \in 1 .. Len(s) |-> s[(Len(s) - i) + 1]]
           IN  /\ r \in Seq(T) /\ Len(r) = Len(s) /\ Range(r) = Range(s)
               /\ IsInjective(s) => IsInjective(r)
<1> DEFINE n == Len(s)
           r == [i \in 1 .. n |-> s[(n - i) + 1]]
<1>1. n \in Nat /\ DOMAIN s = 1 .. n
  OBVIOUS
<1> HIDE DEF n
<1>2. \A i \in 1 .. n : (n - i) + 1 \in 1 .. n /\ (n - ((n - i) + 1)) + 1 = i
  BY <1>1
<1>3. r \in [1 .. n -> T]
  BY <1>1, <1>2
<1>4. r \in Seq(T) /\ Len(r) = n /\ DOMAIN r = 1 .. n
  BY <1>1, <1>3
<1>5. \A i \in 1 .. n : r[i] = s[(n - i) + 1]
  OBVIOUS
<1>6. \A i \in 1 .. n : s[i] = r[(n - i) + 1]
  BY <1>2
<1> HIDE DEF r
<1>7. Range(r) = Range(s)
  BY <1>1, <1>2, <1>4, <1>5, <1>6 DEF Range
<1>8. ASSUME IsInjective(s) PROVE IsInjective(r)
  <2> SUFFICES ASSUME NEW i \in 1 .. n, NEW j \in 1 .. n, r[i] = r[j] PROVE i = j
    BY <1>4 DEF IsInjective
  <2>1. (n - i) + 1 = (n - j) + 1
    BY <1>1, <1>2, <1>5, <1>8 DEF IsInjective
  <2> QED  BY <1>1, <2>1
<1> QED  BY <1>4, <1>7, <1>8 DEF r, n

(* The first element and the rest. *)
LEMMA HeadTailHas ==
    ASSUME NEW T, NEW s \in Seq(T), s # <<>>, IsInjective(s)
    PROVE  /\ Head(s) \in Range(s) /\ Head(s) \in T
           /\ Tail(s) \in Seq(T) /\ IsInjective(Tail(s))
           /\ Range(Tail(s)) = Range(s) \ {Head(s)}
<1> DEFINE b == Tail(s)
           n == Len(s)
<1>1. /\ n \in Nat /\ n >= 1 /\ DOMAIN s = 1 .. n /\ Head(s) = s[1]
      /\ b \in Seq(T) /\ Len(b) = n - 1 /\ DOMAIN b = 1 .. n - 1
      /\ \A i \in 1 .. n - 1 : b[i] = s[i + 1]
  OBVIOUS
<1> HIDE DEF b, n
<1>2. \A i \in 1 .. n - 1 : i + 1 \in 1 .. n /\ i + 1 # 1
  BY <1>1
<1>3. \A i \in 1 .. n : i # 1 => i - 1 \in 1 .. n - 1 /\ (i - 1) + 1 = i
  BY <1>1
<1>4. \A i, j \in 1 .. n : s[i] = s[j] => i = j
  BY <1>1 DEF IsInjective
<1>5. Head(s) \in Range(s) /\ Head(s) \in T /\ 1 \in 1 .. n
  BY <1>1 DEF Range
<1>6. \A x \in Range(b) : x \in Range(s) \ {Head(s)}
  BY <1>1, <1>2, <1>4, <1>5 DEF Range
<1>7. \A x \in Range(s) \ {Head(s)} : x \in Range(b)
  <2> SUFFICES ASSUME NEW i \in 1 .. n, i # 1 PROVE s[i] \in Range(b)
    BY <1>1 DEF Range
  <2>1. i - 1 \in DOMAIN b /\ b[i - 1] = s[i]
    BY <1>1, <1>3
  <2> QED  BY <2>1 DEF Range
<1>8. IsInjective(b)
  <2> SUFFICES ASSUME NEW i \in 1 .. n - 1, NEW j \in 1 .. n - 1, b[i] = b[j] PROVE i = j
    BY <1>1 DEF IsInjective
  <2>1. i + 1 = j + 1
    BY <1>1, <1>2, <1>4
  <2> QED  BY <1>1, <2>1
<1> QED  BY <1>1, <1>5, <1>6, <1>7, <1>8 DEF b
(* FirstIn is the least place that holds an element of S, or 0 when no     *)
(* place does.                                                             *)
LEMMA FirstInIs ==
    ASSUME NEW T, NEW s \in Seq(T), NEW S
    PROVE  /\ FirstIn(s, S) = 0 => \A k \in 1 .. Len(s) : s[k] \notin S
           /\ FirstIn(s, S) # 0 =>
                /\ FirstIn(s, S) \in 1 .. Len(s) /\ s[FirstIn(s, S)] \in S
                /\ \A k \in 1 .. Len(s) : s[k] \in S => FirstIn(s, S) <= k
<1> DEFINE I == PlacesOf(s, S)
           i == CHOOSE m \in I : \A k \in I : m <= k
<1>1. Len(s) \in Nat /\ DOMAIN s = 1 .. Len(s) /\ I \in SUBSET Nat
  BY DEF PlacesOf
<1>2. CASE I = {}
  BY <1>1, <1>2 DEF FirstIn, PlacesOf
<1>3. CASE I # {}
  <2>1. \E m \in I : \A k \in I : m <= k
    BY <1>1, <1>3, LeastNat
  <2>2. i \in I /\ \A k \in I : i <= k
    BY <2>1
  <2>3. FirstIn(s, S) = i
    BY <1>3 DEF FirstIn
  <2>4. i \in 1 .. Len(s) /\ s[i] \in S /\ \A k \in 1 .. Len(s) : s[k] \in S => i <= k
    BY <1>1, <2>2 DEF PlacesOf
  <2>5. \A m \in 1 .. Len(s) : m # 0
    BY <1>1
  <2> HIDE DEF i
  <2> QED  BY <2>3, <2>4, <2>5
<1> QED  BY <1>2, <1>3

(* A list grows by an element at its end.                                  *)
LEMMA AppendHas ==
    ASSUME NEW T, NEW s \in Seq(T), NEW x \in T
    PROVE  /\ Append(s, x) \in Seq(T)
           /\ Range(Append(s, x)) = Range(s) \cup {x}
           /\ IsInjective(s) /\ x \notin Range(s) => IsInjective(Append(s, x))
<1> DEFINE a == Append(s, x)
           n == Len(s)
<1>1. /\ n \in Nat /\ DOMAIN s = 1 .. n /\ a \in Seq(T) /\ DOMAIN a = 1 .. n + 1
      /\ a[n + 1] = x /\ \A i \in 1 .. n : a[i] = s[i]
  OBVIOUS
<1> HIDE DEF a, n
<1>2. \A i \in 1 .. n + 1 : i \in 1 .. n \/ i = n + 1
  BY <1>1
<1>3. \A i \in 1 .. n : i \in 1 .. n + 1
  BY <1>1
<1>4. n + 1 \in 1 .. n + 1
  BY <1>1
<1>5. Range(a) = Range(s) \cup {x}
  BY <1>1, <1>2, <1>3, <1>4 DEF Range
<1>6. ASSUME IsInjective(s), x \notin Range(s) PROVE IsInjective(a)
  BY <1>1, <1>2, <1>6 DEF IsInjective, Range
<1> QED  BY <1>1, <1>5, <1>6 DEF a
-----------------------------------------------------------------------------
(* Walks over the places of a list. *)

LEMMA WalkIs ==
    ASSUME NEW next, \A i \in DOMAIN next : i \in Nat /\ next[i] \in Nat, NEW k \in Nat
    PROVE  Walk(k, next) = IF k \in DOMAIN next THEN {k} \cup Walk(next[k], next) ELSE {k}
PROOF
<1> DEFINE Closed(S, i) == i \in S /\ \A j \in S : j \in DOMAIN next => next[j] \in S
           least == [i \in Nat |-> {j \in Nat : \A S \in SUBSET Nat : Closed(S, i) => j \in S}]
           IsWalk(f) == f = [i \in Nat |-> IF i \in DOMAIN next THEN {i} \cup f[next[i]] ELSE {i}]
           F == CHOOSE f : IsWalk(f)
<1>1. IsWalk(least)
  <2>1. ASSUME NEW i \in Nat, i \notin DOMAIN next PROVE least[i] = {i}
    <3>1. Closed({i}, i)
      BY <2>1
    <3> QED  BY <3>1
  <2>2. ASSUME NEW i \in Nat, i \in DOMAIN next PROVE least[i] = {i} \cup least[next[i]]
    <3>1. ASSUME NEW j \in least[i] PROVE j \in {i} \cup least[next[i]]
      <4>1. next[i] \in Nat /\ next[i] \in least[next[i]]
        BY <2>2
      <4>2. ASSUME NEW m \in least[next[i]], m \in DOMAIN next PROVE next[m] \in least[next[i]]
        <5>1. next[m] \in Nat
          BY <4>2
        <5>2. ASSUME NEW S \in SUBSET Nat, Closed(S, next[i]) PROVE next[m] \in S
          BY <4>1, <4>2, <5>2
        <5> QED  BY <4>1, <5>1, <5>2
      <4>3. {i} \cup least[next[i]] \in SUBSET Nat /\ Closed({i} \cup least[next[i]], i)
        BY <4>1, <4>2
      <4> QED  BY <4>3, <3>1
    <3>2. ASSUME NEW j \in least[next[i]] PROVE j \in least[i]
      <4>1. ASSUME NEW S \in SUBSET Nat, Closed(S, i) PROVE Closed(S, next[i])
        BY <2>2, <4>1
      <4> QED  BY <4>1, <3>2
    <3>3. i \in least[i]
      OBVIOUS
    <3> QED  BY <3>1, <3>2, <3>3
  <2> QED  BY <2>1, <2>2
<1>2. IsWalk(F)
  BY <1>1
<1>3. \A i : Walk(i, next) = F[i]
  BY DEF Walk
<1> QED  BY <1>2, <1>3

(* next goes on at places of 1 .. N, and always down in m. *)
GoesDown(next, m, N) ==
    /\ DOMAIN next \subseteq 1 .. N /\ m \in [1 .. N -> Nat]
    /\ \A i \in DOMAIN next : next[i] \in 1 .. N /\ m[next[i]] < m[i]

(* The lists E and s over T have the same N elements, and only those at V  *)
(* have moved.                                                             *)
Permuted(E, s, T, N, V) ==
    /\ E \in Seq(T) /\ Len(E) = N
    /\ \E p \in [1 .. N -> 1 .. N] :
          /\ \A i \in 1 .. N : E[i] = s[p[i]]
          /\ \A i, j \in 1 .. N : p[i] = p[j] => i = j
          /\ \A j \in 1 .. N : \E i \in 1 .. N : p[i] = j
          /\ \A i \in 1 .. N : i \notin V => p[i] = i

(* What a walk V from k is: it goes down in m, comes to each of its places *)
(* but k from one of them, and ends at one place.                          *)
OneWay(V, k, next, m, N) ==
    /\ k \in V /\ V \subseteq 1 .. N
    /\ \A i \in V : m[i] <= m[k]
    /\ \A i \in V \cap DOMAIN next : next[i] \in V \ {k}
    /\ \A j \in V \ {k} : \E i \in V \cap DOMAIN next : next[i] = j
    /\ \A i, j \in V \cap DOMAIN next : next[i] = next[j] => i = j
    /\ \E e \in V : V \ DOMAIN next = {e}

LEMMA WalkHas ==
    ASSUME NEW N \in Nat, NEW next, NEW m, GoesDown(next, m, N), NEW k \in 1 .. N
    PROVE  OneWay(Walk(k, next), k, next, m, N)
PROOF
<1>0. /\ DOMAIN next \subseteq 1 .. N /\ m \in [1 .. N -> Nat]
      /\ \A i \in DOMAIN next : next[i] \in 1 .. N /\ m[next[i]] < m[i]
  BY DEF GoesDown
<1> DEFINE Bad == {i \in 1 .. N : ~OneWay(Walk(i, next), i, next, m, N)}
           Sizes == {m[i] : i \in Bad}
<1>1. ASSUME NEW i \in 1 .. N, i \notin DOMAIN next PROVE i \notin Bad
  <2>1. Walk(i, next) = {i}
    BY <1>0, <1>1, WalkIs
  <2> QED  BY <1>0, <1>1, <2>1 DEF OneWay
<1>2. ASSUME NEW i \in DOMAIN next, next[i] \notin Bad PROVE i \notin Bad
  <2> DEFINE z == next[i]
             V == Walk(z, next)
  <2>1. z \in 1 .. N /\ m[z] < m[i] /\ m[z] \in Nat /\ m[i] \in Nat /\ i \in 1 .. N
    BY <1>0
  <2>2. Walk(i, next) = {i} \cup V
    BY <1>0, <2>1, WalkIs
  <2>3. OneWay(V, z, next, m, N)
    BY <1>2, <2>1
  <2> HIDE DEF V
  <2>4. /\ z \in V /\ V \subseteq 1 .. N /\ \A j \in V : m[j] <= m[z] /\ m[j] \in Nat
        /\ \A j \in V \cap DOMAIN next : next[j] \in V \ {z}
    BY <1>0, <2>3 DEF OneWay
  <2>5. i \notin V
    BY <2>1, <2>4
  <2>6. ASSUME NEW j \in {i} \cup V PROVE m[j] <= m[i]
    <3>1. CASE j = i
      BY <2>1, <3>1
    <3>2. CASE j \in V
      <4>1. m[j] <= m[z] /\ m[j] \in Nat
        BY <2>4, <3>2
      <4> HIDE DEF z
      <4> QED  BY <2>1, <4>1
    <3> QED  BY <3>1, <3>2
  <2>7. \A j \in ({i} \cup V) \cap DOMAIN next : next[j] \in ({i} \cup V) \ {i}
    BY <2>4, <2>5
  <2>8. \A j \in ({i} \cup V) \ {i} : \E l \in ({i} \cup V) \cap DOMAIN next : next[l] = j
    BY <1>0, <2>3 DEF OneWay
  <2>9. \A j, l \in ({i} \cup V) \cap DOMAIN next : next[j] = next[l] => j = l
    BY <2>3, <2>4 DEF OneWay
  <2>10. \E e \in {i} \cup V : ({i} \cup V) \ DOMAIN next = {e}
    BY <1>0, <2>3 DEF OneWay
  <2> QED  BY <2>1, <2>2, <2>4, <2>6, <2>7, <2>8, <2>9, <2>10 DEF OneWay
<1>3. Bad = {}
  <2>1. SUFFICES ASSUME Bad # {} PROVE FALSE
    OBVIOUS
  <2> HIDE DEF Bad
  <2>2. Bad \subseteq 1 .. N
    BY DEF Bad
  <2>3. Sizes \in SUBSET Nat /\ Sizes # {}
    BY <1>0, <2>1, <2>2
  <2>4. PICK x \in Sizes : \A y \in Sizes : x <= y
    BY <2>3, LeastNat
  <2>5. PICK i \in Bad : x = m[i]
    BY <2>4
  <2>6. i \in DOMAIN next /\ next[i] \in Bad
    BY <1>1, <1>2, <2>2
  <2>7. m[i] <= m[next[i]] /\ m[i] \in Nat /\ m[next[i]] \in Nat /\ m[next[i]] < m[i]
    BY <1>0, <2>2, <2>4, <2>5, <2>6
  <2> QED  BY <2>7
<1> QED  BY <1>3

(* An exchange moves the elements: E[i] = s[p[i]] for a bijection p of the *)
(* places, which only moves those of the walk.                             *)
LEMMA ExchangedIs ==
    ASSUME NEW T, NEW s \in Seq(T), NEW N, N = Len(s), NEW next, NEW m, GoesDown(next, m, N),
           NEW k \in 1 .. N
    PROVE  Permuted(Exchanged(s, k, next), s, T, N, Walk(k, next))
PROOF
<1> DEFINE V == Walk(k, next)
           E == Exchanged(s, k, next)
           p == [i \in 1 .. N |-> IF i \notin V THEN i ELSE IF i \in DOMAIN next THEN next[i] ELSE k]
<1>1. OneWay(V, k, next, m, N)
  <2>1. N \in Nat
    OBVIOUS
  <2> QED  BY <2>1, WalkHas
<1>2. E = [i \in 1 .. N |-> IF i \notin V THEN s[i] ELSE IF i \in DOMAIN next THEN s[next[i]] ELSE s[k]]
  BY DEF Exchanged
<1> HIDE DEF V, E
<1>3. PICK e \in V : V \ DOMAIN next = {e}
  BY <1>1 DEF OneWay
<1>4. /\ k \in V /\ V \subseteq 1 .. N
      /\ \A i \in V \cap DOMAIN next : next[i] \in V \ {k}
      /\ \A j \in V \ {k} : \E i \in V \cap DOMAIN next : next[i] = j
      /\ \A i, j \in V \cap DOMAIN next : next[i] = next[j] => i = j
  BY <1>1 DEF OneWay
<1>5. p \in [1 .. N -> 1 .. N] /\ \A i \in 1 .. N : i \notin V => p[i] = i
  BY <1>4
<1>6. \A i \in 1 .. N : E[i] = s[p[i]]
  BY <1>2, <1>4
<1>7. /\ \A i \in V \cap DOMAIN next : p[i] = next[i] /\ p[i] \in V \ {k}
      /\ p[e] = k
  BY <1>3, <1>4
<1>8. \A i \in V : i = e \/ i \in V \cap DOMAIN next
  BY <1>3
<1>9. ASSUME NEW i \in 1 .. N, NEW j \in 1 .. N, p[i] = p[j] PROVE i = j
  <2>1. CASE i \notin V \/ j \notin V
    BY <1>4, <1>5, <1>7, <1>8, <1>9, <2>1
  <2>2. CASE i \in V /\ j \in V
    BY <1>4, <1>7, <1>8, <1>9, <2>2
  <2> QED  BY <2>1, <2>2
<1>10. ASSUME NEW j \in 1 .. N PROVE \E i \in 1 .. N : p[i] = j
  <2>1. CASE j \notin V
    BY <1>5, <2>1
  <2>2. CASE j = k
    BY <1>3, <1>4, <1>7, <2>2
  <2>3. CASE j \in V \ {k}
    BY <1>4, <1>7, <2>3
  <2> QED  BY <2>1, <2>2, <2>3
<1>11. E \in Seq(T) /\ Len(E) = N
  <2>1. \A i \in 1 .. N : E[i] \in T
    BY <1>5, <1>6
  <2> QED  BY <1>2, <2>1
<1> HIDE DEF p
<1>12. Permuted(E, s, T, N, V)
  BY <1>5, <1>6, <1>9, <1>10, <1>11 DEF Permuted
<1> QED  BY <1>12 DEF E, V
-----------------------------------------------------------------------------
(* The heap of sched.c: both ways end, and neither loses an event.         *)

LEMMA RiseIs ==
    ASSUME NEW T, NEW q \in Seq(T), NEW key, NEW e \in T
    PROVE  /\ Append(q, e) \in Seq(T) /\ Len(Append(q, e)) = Len(q) + 1 /\ Len(q) \in Nat
           /\ Append(q, e)[Len(q) + 1] = e /\ \A i \in 1 .. Len(q) : Append(q, e)[i] = q[i]
           /\ DOMAIN Rise(q, key, e) =
                {i \in 2 .. Len(q) + 1 : key[Append(q, e)[i \div 2]] > key[e]}
           /\ \A i \in DOMAIN Rise(q, key, e) :
                /\ Rise(q, key, e)[i] = i \div 2 /\ i \div 2 \in 1 .. Len(q) /\ i \div 2 < i
                /\ i \in 2 .. Len(q) + 1
PROOF
<1>1. /\ Append(q, e) \in Seq(T) /\ Len(Append(q, e)) = Len(q) + 1 /\ Len(q) \in Nat
      /\ Append(q, e)[Len(q) + 1] = e /\ \A i \in 1 .. Len(q) : Append(q, e)[i] = q[i]
  OBVIOUS
<1>2. \A i \in 2 .. Len(q) + 1 : i \div 2 \in 1 .. Len(q) /\ i \div 2 < i
  BY <1>1
<1>3. Rise(q, key, e) =
        [i \in {j \in 2 .. Len(q) + 1 : key[Append(q, e)[j \div 2]] > key[e]} |-> i \div 2]
  BY <1>1 DEF Rise, WayUp
<1> QED  BY <1>1, <1>2, <1>3

LEMMA InsertedIs ==
    ASSUME NEW T, NEW q \in Seq(T), NEW key, NEW e \in T
    PROVE  /\ OneWay(Walk(Len(q) + 1, Rise(q, key, e)), Len(q) + 1, Rise(q, key, e),
                     [i \in 1 .. Len(q) + 1 |-> i], Len(q) + 1)
           /\ Permuted(Inserted(q, key, e), Append(q, e), T, Len(q) + 1,
                       Walk(Len(q) + 1, Rise(q, key, e)))
PROOF
<1> DEFINE a == Append(q, e)
           n == Len(q) + 1
           next == Rise(q, key, e)
           m == [i \in 1 .. n |-> i]
<1>1. /\ a \in Seq(T) /\ Len(a) = n /\ n \in Nat /\ n \in 1 .. n
      /\ \A i \in DOMAIN next : i \in 1 .. n /\ next[i] \in 1 .. n /\ next[i] < i
  <2>1. a \in Seq(T) /\ Len(a) = n /\ n \in Nat /\ n \in 1 .. n
    BY RiseIs
  <2>2. \A i \in DOMAIN next :
          next[i] = i \div 2 /\ i \div 2 \in 1 .. Len(q) /\ i \div 2 < i /\ i \in 2 .. Len(q) + 1
    BY RiseIs
  <2> QED  BY <2>1, <2>2
<1>2. Inserted(q, key, e) = Exchanged(a, n, next)
  BY DEF Inserted
<1> HIDE DEF a, n, next
<1>3. GoesDown(next, m, n)
  BY <1>1 DEF GoesDown
<1> HIDE DEF m
<1>4. OneWay(Walk(n, next), n, next, m, n)
  BY <1>1, <1>3, WalkHas
<1>5. Permuted(Exchanged(a, n, next), a, T, n, Walk(n, next))
  BY <1>1, <1>3, ExchangedIs
<1> QED  BY <1>2, <1>4, <1>5 DEF a, n, next, m

LEMMA SinkIs ==
    ASSUME NEW T, NEW q \in Seq(T), NEW key, NEW k \in 1 .. Len(q)
    PROVE  /\ LastTo(q, k) \in Seq(T) /\ Len(LastTo(q, k)) = Len(q) - 1 /\ Len(q) - 1 \in Nat
           /\ \A i \in 1 .. Len(q) - 1 : LastTo(q, k)[i] = IF i = k THEN q[Len(q)] ELSE q[i]
           /\ DOMAIN Sink(q, key, k) =
                {i \in 1 .. Len(q) - 1 :
                    /\ 2 * i <= Len(q) - 1
                    /\ ~(key[LastTo(q, k)[SmallerChild(LastTo(q, k), key, i)]] > key[q[Len(q)]])}
           /\ \A i \in DOMAIN Sink(q, key, k) :
                /\ Sink(q, key, k)[i] = SmallerChild(LastTo(q, k), key, i)
                /\ Sink(q, key, k)[i] \in 1 .. Len(q) - 1 /\ i < Sink(q, key, k)[i]
                /\ Sink(q, key, k)[i] \in {2 * i, 2 * i + 1} /\ i \in 1 .. Len(q) - 1
PROOF
<1> DEFINE a == LastTo(q, k)
           n == Len(q) - 1
           next == Sink(q, key, k)
<1>1. [q EXCEPT ![k] = q[Len(q)]] \in Seq(T) /\ Len([q EXCEPT ![k] = q[Len(q)]]) = Len(q)
  OBVIOUS
<1>2. /\ a \in Seq(T) /\ Len(a) = n /\ n \in Nat
      /\ \A i \in 1 .. n : a[i] = [q EXCEPT ![k] = q[Len(q)]][i]
  BY <1>1 DEF LastTo
<1>3. \A i \in 1 .. n : a[i] = IF i = k THEN q[Len(q)] ELSE q[i]
  BY <1>2
<1>4. next = [i \in {j \in 1 .. n : 2 * j <= n
                        /\ ~(key[a[SmallerChild(a, key, j)]] > key[q[Len(q)]])} |->
                 SmallerChild(a, key, i)]
  BY <1>2 DEF Sink, WayDown
<1> HIDE DEF a, next
<1>5. \A i \in 1 .. n : 2 * i <= n =>
        /\ SmallerChild(a, key, i) \in {2 * i, 2 * i + 1}
        /\ SmallerChild(a, key, i) \in 1 .. n /\ i < SmallerChild(a, key, i)
  BY <1>2 DEF SmallerChild
<1>6. /\ DOMAIN next = {i \in 1 .. n :
            2 * i <= n /\ ~(key[a[SmallerChild(a, key, i)]] > key[q[Len(q)]])}
      /\ \A i \in DOMAIN next : next[i] = SmallerChild(a, key, i) /\ i \in 1 .. n /\ 2 * i <= n
  BY <1>4
<1>7. \A i \in DOMAIN next :
        /\ next[i] \in 1 .. n /\ i < next[i] /\ next[i] \in {2 * i, 2 * i + 1} /\ i \in 1 .. n
  BY <1>5, <1>6
<1> QED  BY <1>2, <1>3, <1>6, <1>7 DEF a, next

LEMMA TakenOutIs ==
    ASSUME NEW T, NEW q \in Seq(T), NEW key, NEW k \in 1 .. Len(q)
    PROVE  /\ k \in Walk(k, Sink(q, key, k))
           /\ k < Len(q) => OneWay(Walk(k, Sink(q, key, k)), k, Sink(q, key, k),
                                   [i \in 1 .. Len(q) - 1 |-> Len(q) - i], Len(q) - 1)
           /\ Permuted(TakenOut(q, key, k), LastTo(q, k), T, Len(q) - 1, Walk(k, Sink(q, key, k)))
PROOF
<1> DEFINE a == LastTo(q, k)
           n == Len(q) - 1
           next == Sink(q, key, k)
           m == [i \in 1 .. n |-> Len(q) - i]
<1>1. /\ a \in Seq(T) /\ Len(a) = n /\ n \in Nat /\ k \in Nat /\ k \in 1 .. n + 1 /\ n + 1 = Len(q)
      /\ \A i \in DOMAIN next : i \in 1 .. n /\ next[i] \in 1 .. n /\ i < next[i]
  <2>1. n \in Nat /\ k \in Nat /\ k \in 1 .. n + 1 /\ n + 1 = Len(q)
    OBVIOUS
  <2>2. a \in Seq(T) /\ Len(a) = n
    BY SinkIs
  <2>3. \A i \in DOMAIN Sink(q, key, k) :
          /\ Sink(q, key, k)[i] = SmallerChild(LastTo(q, k), key, i)
          /\ Sink(q, key, k)[i] \in 1 .. Len(q) - 1 /\ i < Sink(q, key, k)[i]
          /\ Sink(q, key, k)[i] \in {2 * i, 2 * i + 1} /\ i \in 1 .. Len(q) - 1
    BY SinkIs
  <2> QED  BY <2>1, <2>2, <2>3
<1>2. TakenOut(q, key, k) = Exchanged(a, k, next)
  BY DEF TakenOut
<1>3. m = [i \in 1 .. n |-> n + 1 - i]
  BY <1>1
<1> HIDE DEF a, n, next, m
<1>4. GoesDown(next, m, n)
  BY <1>1, <1>3 DEF GoesDown
<1>5. \A i \in DOMAIN next : i \in Nat /\ next[i] \in Nat
  BY <1>1
<1>6. k \in Walk(k, next)
  BY <1>1, <1>5, WalkIs
<1>7. CASE k < n + 1
  <2>1. k \in 1 .. n
    BY <1>1, <1>7
  <2>2. OneWay(Walk(k, next), k, next, m, n)
    BY <1>1, <1>4, <2>1, WalkHas
  <2>3. Permuted(Exchanged(a, k, next), a, T, n, Walk(k, next))
    BY <1>1, <1>4, <2>1, ExchangedIs
  <2> QED  BY <1>2, <1>6, <2>2, <2>3 DEF a, n, next, m
<1>8. CASE ~(k < n + 1)
  <2> DEFINE p == [i \in 1 .. n |-> i]
  <2>1. k = n + 1 /\ k \notin DOMAIN next /\ \A i \in 1 .. n : i # k
    BY <1>1, <1>8
  <2>2. Walk(k, next) = {k}
    BY <1>1, <1>5, <2>1, WalkIs
  <2>3. Exchanged(a, k, next) = [i \in 1 .. n |-> a[i]]
    BY <1>1, <2>1, <2>2 DEF Exchanged
  <2>4. Exchanged(a, k, next) \in Seq(T) /\ Len(Exchanged(a, k, next)) = n
    BY <1>1, <2>3
  <2>5. /\ p \in [1 .. n -> 1 .. n]
        /\ \A i \in 1 .. n : Exchanged(a, k, next)[i] = a[p[i]]
        /\ \A i, j \in 1 .. n : p[i] = p[j] => i = j
        /\ \A j \in 1 .. n : \E i \in 1 .. n : p[i] = j
        /\ \A i \in 1 .. n : i \notin Walk(k, next) => p[i] = i
    BY <2>3
  <2> HIDE DEF p
  <2>6. Permuted(Exchanged(a, k, next), a, T, n, Walk(k, next))
    BY <2>4, <2>5 DEF Permuted
  <2>7. ~(k < Len(q))
    BY <1>1, <1>8
  <2> QED  BY <1>2, <1>6, <2>6, <2>7 DEF a, n, next, m
<1> QED  BY <1>7, <1>8
-----------------------------------------------------------------------------
(* The order of the heap. *)

(* A walk ends where m is least. *)
LEMMA WalkEnds ==
    ASSUME NEW N \in Nat, NEW next, NEW m, GoesDown(next, m, N), NEW k,
           NEW V, OneWay(V, k, next, m, N), NEW i \in V, i \notin DOMAIN next, NEW j \in V
    PROVE  m[i] <= m[j]
PROOF
<1>1. /\ V \subseteq 1 .. N /\ m \in [1 .. N -> Nat]
      /\ \A l \in V \cap DOMAIN next : next[l] \in V /\ m[next[l]] < m[l]
      /\ \E e \in V : V \ DOMAIN next = {e}
  BY DEF GoesDown, OneWay
<1> DEFINE Sizes == {m[l] : l \in V}
<1>2. Sizes \in SUBSET Nat /\ Sizes # {}
  BY <1>1
<1>3. PICK x \in Sizes : \A y \in Sizes : x <= y
  BY <1>2, LeastNat
<1>4. PICK l \in V : x = m[l]
  BY <1>3
<1>5. l \notin DOMAIN next
  <2>1. ASSUME l \in DOMAIN next PROVE FALSE
    <3>1. m[l] <= m[next[l]] /\ m[next[l]] < m[l] /\ m[l] \in Nat /\ m[next[l]] \in Nat
      BY <1>1, <1>3, <1>4, <2>1
    <3> QED  BY <3>1
  <2> QED  BY <2>1
<1>6. l = i
  BY <1>1, <1>5
<1> QED  BY <1>3, <1>4, <1>6

(* The top of a heap is the least. *)
LEMMA RootLeast ==
    ASSUME NEW T, NEW q \in Seq(T), NEW key, \A x \in T : key[x] \in Int, HeapOrder(q, key),
           NEW i \in 1 .. Len(q)
    PROVE  key[q[1]] <= key[q[i]]
PROOF
<1> DEFINE Bad == {j \in 1 .. Len(q) : ~(key[q[1]] <= key[q[j]])}
<1>1. /\ Len(q) \in Nat /\ \A j \in 1 .. Len(q) : key[q[j]] \in Int
      /\ \A j \in 2 .. Len(q) : key[q[j \div 2]] <= key[q[j]]
  BY DEF HeapOrder
<1>2. SUFFICES ASSUME Bad # {} PROVE FALSE
  BY <1>1
<1>3. Bad \in SUBSET Nat
  OBVIOUS
<1>4. PICK j \in Bad : \A l \in Bad : j <= l
  BY <1>2, <1>3, LeastNat
<1>5. j # 1 /\ j \in 1 .. Len(q)
  BY <1>1, <1>4
<1>6. j \in 2 .. Len(q) /\ j \div 2 \in 1 .. Len(q) /\ j \div 2 < j
  BY <1>1, <1>5
<1>7. j \div 2 \notin Bad
  BY <1>4, <1>6
<1>8. /\ key[q[1]] <= key[q[j \div 2]] /\ key[q[j \div 2]] <= key[q[j]]
      /\ key[q[1]] \in Int /\ key[q[j \div 2]] \in Int /\ key[q[j]] \in Int
  BY <1>1, <1>6, <1>7
<1> QED  BY <1>4, <1>8

(* QueueEvent keeps the order. *)
LEMMA InsertedOrder ==
    ASSUME NEW T, NEW q \in Seq(T), NEW key, \A x \in T : key[x] \in Int, HeapOrder(q, key),
           NEW e \in T
    PROVE  HeapOrder(Inserted(q, key, e), key)
PROOF
<1>0. /\ Append(q, e) \in Seq(T) /\ Len(Append(q, e)) = Len(q) + 1 /\ Len(q) \in Nat
      /\ Append(q, e)[Len(q) + 1] = e /\ \A i \in 1 .. Len(q) : Append(q, e)[i] = q[i]
      /\ DOMAIN Rise(q, key, e) =
           {i \in 2 .. Len(q) + 1 : key[Append(q, e)[i \div 2]] > key[e]}
      /\ \A i \in DOMAIN Rise(q, key, e) :
           /\ Rise(q, key, e)[i] = i \div 2 /\ i \div 2 \in 1 .. Len(q) /\ i \div 2 < i
           /\ i \in 2 .. Len(q) + 1
  BY RiseIs
<1> DEFINE a == Append(q, e)
           n == Len(q) + 1
           next == Rise(q, key, e)
           m == [i \in 1 .. n |-> i]
           V == Walk(n, next)
           E == Inserted(q, key, e)
<1>1. /\ Len(q) \in Nat /\ n \in Nat /\ a[n] = e /\ \A i \in 1 .. Len(q) : a[i] = q[i]
      /\ DOMAIN next = {i \in 2 .. n : key[a[i \div 2]] > key[e]}
      /\ \A i \in DOMAIN next : next[i] = i \div 2 /\ i \in 2 .. n
  BY <1>0
<1>2. OneWay(V, n, next, m, n)
  BY InsertedIs
<1>3. Permuted(E, a, T, n, V)
  BY InsertedIs
<1>4. E = [i \in DOMAIN a |-> IF i \notin V THEN a[i]
                              ELSE IF i \in DOMAIN next THEN a[next[i]] ELSE a[n]]
  BY DEF Inserted, Exchanged
<1>5. E \in Seq(T) /\ Len(E) = n /\ DOMAIN a = 1 .. n
  BY <1>3 DEF Permuted
<1> HIDE DEF a, next, V, E, n
<1>6. \A i \in 1 .. Len(q) : key[q[i]] \in Int
  OBVIOUS
<1>7. key[e] \in Int /\ n = Len(q) + 1
  BY DEF n
<1>8. m = [i \in 1 .. n |-> i]
  OBVIOUS
<1>9. GoesDown(next, m, n)
  <2>1. \A i \in DOMAIN next : i \in 1 .. n /\ next[i] \in 1 .. n /\ next[i] < i
    BY <1>1
  <2> QED  BY <1>1, <1>8, <2>1 DEF GoesDown
<1> HIDE DEF m
<1>10. /\ n \in V /\ V \subseteq 1 .. n
       /\ \A i \in V \cap DOMAIN next : next[i] \in V
       /\ \A j \in V \ {n} : \E i \in V \cap DOMAIN next : next[i] = j
  BY <1>2 DEF OneWay
<1>11. ASSUME NEW i \in V, i \notin DOMAIN next, NEW j \in V PROVE i <= j
  <2>1. m[i] <= m[j]
    BY <1>1, <1>2, <1>9, <1>11, WalkEnds
  <2> QED  BY <1>8, <1>10, <2>1
<1>12. \A i \in 2 .. Len(q) : key[q[i \div 2]] <= key[q[i]]
  BY DEF HeapOrder
<1>13. \A i \in 1 .. n : E[i] = IF i \notin V THEN a[i]
                               ELSE IF i \in DOMAIN next THEN a[i \div 2] ELSE e
  BY <1>1, <1>4, <1>5
<1>14. ASSUME NEW i \in 2 .. n PROVE key[E[i \div 2]] <= key[E[i]]
  <2> DEFINE p == i \div 2
  <2>1. p \in 1 .. Len(q) /\ p < i /\ p # n /\ i \in 1 .. n /\ p \in 1 .. n /\ a[p] = q[p]
    BY <1>1, <1>7
  <2>2. p # 1 => p \in 2 .. Len(q) /\ p \div 2 \in 1 .. Len(q) /\ key[q[p \div 2]] <= key[q[p]]
    BY <1>1, <1>12, <2>1
  <2>3. p \in V => key[q[p]] > key[e]
    <3>1. SUFFICES ASSUME p \in V PROVE key[q[p]] > key[e]
      OBVIOUS
    <3>2. PICK c \in V \cap DOMAIN next : next[c] = p
      BY <1>10, <2>1, <3>1
    <3> QED  BY <1>1, <2>1, <3>2
  <2>4. p \in DOMAIN next => p # 1 /\ a[p \div 2] = q[p \div 2]
    BY <1>1, <2>2
  <2>5. CASE i \in V /\ i \in DOMAIN next
    <3>1. p \in V /\ E[i] = q[p]
      BY <1>1, <1>10, <1>13, <2>1, <2>5
    <3>2. E[p] = IF p \in DOMAIN next THEN q[p \div 2] ELSE e
      BY <1>13, <2>1, <2>4, <3>1
    <3> QED  BY <1>6, <1>7, <2>1, <2>2, <2>3, <2>4, <3>1, <3>2
  <2>6. CASE i \in V /\ i \notin DOMAIN next
    <3>1. p \notin V
      <4>1. ASSUME p \in V PROVE FALSE
        <5>1. i <= p
          BY <1>11, <2>6, <4>1
        <5> QED  BY <2>1, <5>1
      <4> QED  BY <4>1
    <3>2. E[i] = e /\ E[p] = q[p]
      BY <1>13, <2>1, <2>6, <3>1
    <3>3. ~(key[q[p]] > key[e])
      BY <1>1, <2>1, <2>6
    <3> QED  BY <1>6, <1>7, <2>1, <3>2, <3>3
  <2>7. CASE i \notin V
    <3>1. i \in 2 .. Len(q) /\ E[i] = q[i]
      BY <1>1, <1>7, <1>10, <1>13, <2>1, <2>7
    <3>2. key[q[p]] <= key[q[i]]
      BY <1>12, <3>1
    <3>3. E[p] = IF p \notin V THEN q[p] ELSE IF p \in DOMAIN next THEN q[p \div 2] ELSE e
      BY <1>13, <2>1, <2>4
    <3>4. key[q[p]] \in Int /\ key[q[i]] \in Int
      BY <1>6, <2>1, <3>1
    <3>5. p # 1 => key[q[p \div 2]] \in Int
      BY <1>6, <2>2
    <3> QED  BY <1>7, <2>2, <2>3, <2>4, <3>1, <3>2, <3>3, <3>4, <3>5
  <2> QED  BY <2>5, <2>6, <2>7
<1>15. HeapOrder(E, key)
  BY <1>5, <1>14 DEF HeapOrder
<1> QED  BY <1>15 DEF E
(* DeQueueEvent keeps the order where the last element may sink from k: at *)
(* the top, at the end, and below an element that is no later.             *)
LEMMA TakenOutOrder ==
    ASSUME NEW T, NEW q \in Seq(T), NEW key, \A x \in T : key[x] \in Int, HeapOrder(q, key),
           NEW k \in 1 .. Len(q),
           k = 1 \/ k = Len(q) \/ key[q[k \div 2]] <= key[q[Len(q)]]
    PROVE  HeapOrder(TakenOut(q, key, k), key)
PROOF
<1>0. /\ LastTo(q, k) \in Seq(T) /\ Len(LastTo(q, k)) = Len(q) - 1 /\ Len(q) - 1 \in Nat
      /\ \A i \in 1 .. Len(q) - 1 : LastTo(q, k)[i] = IF i = k THEN q[Len(q)] ELSE q[i]
      /\ DOMAIN Sink(q, key, k) =
           {i \in 1 .. Len(q) - 1 :
               /\ 2 * i <= Len(q) - 1
               /\ ~(key[LastTo(q, k)[SmallerChild(LastTo(q, k), key, i)]] > key[q[Len(q)]])}
      /\ \A i \in DOMAIN Sink(q, key, k) :
           /\ Sink(q, key, k)[i] = SmallerChild(LastTo(q, k), key, i)
           /\ Sink(q, key, k)[i] \in 1 .. Len(q) - 1 /\ i < Sink(q, key, k)[i]
           /\ Sink(q, key, k)[i] \in {2 * i, 2 * i + 1} /\ i \in 1 .. Len(q) - 1
  BY SinkIs
<1>1. /\ k \in Walk(k, Sink(q, key, k))
      /\ k < Len(q) => OneWay(Walk(k, Sink(q, key, k)), k, Sink(q, key, k),
                              [i \in 1 .. Len(q) - 1 |-> Len(q) - i], Len(q) - 1)
      /\ Permuted(TakenOut(q, key, k), LastTo(q, k), T, Len(q) - 1, Walk(k, Sink(q, key, k)))
  BY TakenOutIs
<1> DEFINE a == LastTo(q, k)
           n == Len(q) - 1
           t == q[Len(q)]
           next == Sink(q, key, k)
           m == [i \in 1 .. n |-> Len(q) - i]
           V == Walk(k, next)
           E == TakenOut(q, key, k)
           child(i) == SmallerChild(a, key, i)
<1>2. /\ a \in Seq(T) /\ Len(a) = n /\ n \in Nat /\ Len(q) = n + 1 /\ k \in 1 .. n + 1
      /\ \A i \in 1 .. n : a[i] = IF i = k THEN t ELSE q[i]
      /\ DOMAIN next = {i \in 1 .. n : 2 * i <= n /\ ~(key[a[child(i)]] > key[t])}
      /\ \A i \in DOMAIN next : next[i] = child(i) /\ next[i] \in 1 .. n /\ i < next[i]
                                /\ next[i] \in {2 * i, 2 * i + 1} /\ i \in 1 .. n
  BY <1>0
<1>3. /\ k \in V /\ Permuted(E, a, T, n, V)
      /\ k < n + 1 => OneWay(V, k, next, m, n)
  BY <1>1, <1>2
<1>4. E = [i \in DOMAIN a |-> IF i \notin V THEN a[i]
                              ELSE IF i \in DOMAIN next THEN a[next[i]] ELSE a[k]]
  BY DEF TakenOut, Exchanged
<1>5. E \in Seq(T) /\ Len(E) = n /\ DOMAIN a = 1 .. n
  BY <1>2, <1>3 DEF Permuted
<1>6. \A i \in 1 .. n : 2 * i <= n =>
        /\ child(i) \in {2 * i, 2 * i + 1} /\ child(i) \in 1 .. n /\ i < child(i)
        /\ \A j \in {2 * i, 2 * i + 1} : j <= n => key[a[child(i)]] <= key[a[j]]
  <2>1. SUFFICES ASSUME NEW i \in 1 .. n, 2 * i <= n
                 PROVE  /\ child(i) \in {2 * i, 2 * i + 1} /\ child(i) \in 1 .. n /\ i < child(i)
                        /\ \A j \in {2 * i, 2 * i + 1} : j <= n => key[a[child(i)]] <= key[a[j]]
    OBVIOUS
  <2>2. child(i) = IF 2 * i < n /\ key[a[2 * i]] > key[a[2 * i + 1]] THEN 2 * i + 1 ELSE 2 * i
    BY <1>2 DEF SmallerChild
  <2>3. \A j \in 1 .. n : key[a[j]] \in Int
    BY <1>2
  <2>4. 2 * i \in 1 .. n /\ (2 * i < n => 2 * i + 1 \in 1 .. n)
    BY <1>2, <2>1
  <2> HIDE DEF child, a
  <2>5. key[a[2 * i]] \in Int /\ (2 * i < n => key[a[2 * i + 1]] \in Int)
    BY <2>3, <2>4
  <2>6. child(i) \in {2 * i, 2 * i + 1} /\ child(i) \in 1 .. n /\ i < child(i)
    BY <2>1, <2>2, <2>4
  <2>7. key[a[child(i)]] <= key[a[2 * i]]
    BY <2>2, <2>4, <2>5
  <2>8. 2 * i + 1 <= n => 2 * i < n
    BY <2>4
  <2>9. 2 * i < n => key[a[child(i)]] <= key[a[2 * i + 1]]
    BY <2>2, <2>4, <2>5
  <2> QED  BY <2>6, <2>7, <2>8, <2>9
<1> HIDE DEF a, n, t, next, V, E, child
<1>7. \A i \in 1 .. n + 1 : key[q[i]] \in Int
  BY <1>2
<1>8. key[t] \in Int /\ t = q[n + 1]
  BY <1>2, <1>7 DEF t
<1>9. \A i \in 2 .. n + 1 : key[q[i \div 2]] <= key[q[i]]
  BY <1>2 DEF HeapOrder
<1>10. SUFFICES ASSUME NEW i \in 2 .. n PROVE key[E[i \div 2]] <= key[E[i]]
  BY <1>5 DEF HeapOrder, E
<1> DEFINE p == i \div 2
<1>11. /\ p \in 1 .. n /\ p < i /\ i \in 1 .. n /\ i \in {2 * p, 2 * p + 1} /\ 2 * p <= n
       /\ i \in 2 .. n + 1
  BY <1>2
<1>12. /\ key[q[p]] <= key[q[i]] /\ key[q[p]] \in Int /\ key[q[i]] \in Int
  BY <1>2, <1>7, <1>9, <1>11
<1>13. CASE k = n + 1
  <2>1. k \notin DOMAIN next /\ \A j \in DOMAIN next : j \in Nat /\ next[j] \in Nat
    BY <1>2, <1>13
  <2>2. V = {k}
    <3>1. k \in Nat /\ V = Walk(k, next)
      BY <1>2 DEF V
    <3>2. Walk(k, next) = IF k \in DOMAIN next THEN {k} \cup Walk(next[k], next) ELSE {k}
      BY <2>1, <3>1, WalkIs
    <3> QED  BY <2>1, <3>1, <3>2
  <2>3. i # k /\ p # k
    BY <1>2, <1>11, <1>13
  <2>4. E[i] = q[i] /\ E[p] = q[p]
    BY <1>2, <1>4, <1>5, <1>11, <2>2, <2>3
  <2> QED  BY <1>12, <2>4
<1>14. CASE k \in 1 .. n
  <2>1. OneWay(V, k, next, m, n) /\ k < n + 1
    BY <1>2, <1>3, <1>14
  <2>2. m = [j \in 1 .. n |-> n + 1 - j]
    BY <1>2
  <2> HIDE DEF m
  <2>3. /\ k \in V /\ V \subseteq 1 .. n /\ \A j \in V : m[j] <= m[k]
        /\ \A j \in V \cap DOMAIN next : next[j] \in V \ {k}
        /\ \A j \in V \ {k} : \E l \in V \cap DOMAIN next : next[l] = j
    BY <2>1 DEF OneWay
  <2>4. \A j \in V : k <= j
    <3>1. SUFFICES ASSUME NEW j \in V PROVE k <= j
      OBVIOUS
    <3>2. m[j] = n + 1 - j /\ m[k] = n + 1 - k /\ m[j] <= m[k]
      BY <2>2, <2>3
    <3> QED  BY <1>2, <2>3, <3>2
  <2>5. \A j \in V \cap DOMAIN next : a[next[j]] = q[next[j]] /\ next[j] \in 1 .. n
    BY <1>2, <2>3
  <2>6. \A j \in 1 .. n : E[j] = IF j \notin V THEN q[j]
                                ELSE IF j \in DOMAIN next THEN q[next[j]] ELSE t
    BY <1>2, <1>4, <1>5, <1>14, <2>3, <2>5
  (* The way goes to i only from above it. *)
  <2>7. i \in V \ {k} => p \in V /\ p \in DOMAIN next /\ next[p] = i
    <3>1. SUFFICES ASSUME i \in V \ {k} PROVE p \in V /\ p \in DOMAIN next /\ next[p] = i
      OBVIOUS
    <3>2. PICK l \in V \cap DOMAIN next : next[l] = i
      BY <2>3, <3>1
    <3>3. l \in 1 .. n /\ i \in {2 * l, 2 * l + 1}
      BY <1>2, <3>2
    <3>4. l = p
      BY <1>2, <1>11, <3>3
    <3> QED  BY <3>2, <3>4
  <2>8. i # k => a[i] = q[i]
    BY <1>2, <1>11
  <2>9. i \in V /\ i \in DOMAIN next =>
          key[q[i]] <= key[q[next[i]]] /\ key[q[next[i]]] \in Int
    <3>1. SUFFICES ASSUME i \in V, i \in DOMAIN next
                   PROVE  key[q[i]] <= key[q[next[i]]] /\ key[q[next[i]]] \in Int
      OBVIOUS
    <3>2. next[i] \in {2 * i, 2 * i + 1} /\ next[i] \in 1 .. n /\ next[i] \in 2 .. n + 1
      <4>1. next[i] \in {2 * i, 2 * i + 1} /\ next[i] \in 1 .. n /\ i < next[i]
        BY <1>2, <3>1
      <4> QED  BY <1>2, <1>11, <4>1
    <3>3. next[i] \div 2 = i
      BY <1>2, <1>11, <3>2
    <3>4. key[q[next[i] \div 2]] <= key[q[next[i]]]
      BY <1>9, <3>2
    <3> QED  BY <1>2, <1>7, <3>2, <3>3, <3>4
  <2>10. CASE i \notin V /\ p \notin V
    BY <1>11, <1>12, <2>6, <2>10
  <2>11. CASE i \notin V /\ p \in V
    <3>1. key[a[child(p)]] <= key[q[i]]
      <4>1. i # k
        BY <2>3, <2>11
      <4>2. i <= n
        BY <1>2, <1>11
      <4> QED  BY <1>6, <1>11, <2>8, <4>1, <4>2
    <3>2. CASE p \in DOMAIN next
      <4>1. E[p] = q[next[p]] /\ a[next[p]] = q[next[p]] /\ next[p] = child(p)
        BY <1>2, <1>11, <2>5, <2>6, <2>11, <3>2
      <4> QED  BY <1>11, <2>6, <2>11, <3>1, <4>1
    <3>3. CASE p \notin DOMAIN next
      <4>1. E[p] = t
        BY <1>11, <2>6, <2>11, <3>3
      <4>2. key[a[child(p)]] > key[t]
        BY <1>2, <1>11, <3>3
      <4>3. child(p) \in 1 .. n
        BY <1>6, <1>11
      <4>4. key[a[child(p)]] \in Int
        BY <1>2, <4>3
      <4>5. E[i] = q[i]
        BY <1>11, <2>6, <2>11
      <4>6. key[t] <= key[q[i]]
        <5>1. key[q[i]] \in Int /\ key[t] \in Int
          BY <1>8, <1>12
        <5> HIDE DEF p
        <5> QED  BY <3>1, <4>2, <4>4, <5>1
      <4> QED  BY <4>1, <4>5, <4>6
    <3> QED  BY <3>2, <3>3
  <2>12. CASE i \in V /\ p \in V
    <3>1. i # k
      <4>1. k <= p
        BY <2>4, <2>12
      <4> QED  BY <1>2, <1>11, <4>1
    <3>2. p \in DOMAIN next /\ next[p] = i /\ E[p] = q[i]
      BY <1>11, <2>6, <2>7, <2>12, <3>1
    <3>3. ~(key[q[i]] > key[t])
      <4>1. ~(key[a[child(p)]] > key[t]) /\ next[p] = child(p)
        BY <1>2, <3>2
      <4> QED  BY <2>8, <3>1, <3>2, <4>1
    <3>4. E[i] = IF i \in DOMAIN next THEN q[next[i]] ELSE t
      BY <1>11, <2>6, <2>12
    <3> QED  BY <1>8, <1>12, <2>9, <2>12, <3>2, <3>3, <3>4
  <2>13. CASE i \in V /\ p \notin V
    <3>1. i = k
      BY <2>7, <2>13
    <3>2. E[p] = q[p]
      BY <1>11, <2>6, <2>13
    <3>3. E[i] = IF i \in DOMAIN next THEN q[next[i]] ELSE t
      BY <1>11, <2>6, <2>13
    <3>4. key[q[p]] <= key[t]
      <4>1. k # 1 /\ k # Len(q)
        BY <1>2, <1>10, <1>14, <3>1
      <4>2. key[q[k \div 2]] <= key[q[Len(q)]]
        BY <4>1
      <4> QED  BY <1>2, <1>8, <3>1, <4>2
    <3>5. CASE i \in DOMAIN next
      <4>1. key[q[i]] <= key[q[next[i]]] /\ key[q[next[i]]] \in Int
        BY <2>9, <2>13, <3>5
      <4> QED  BY <1>12, <3>2, <3>3, <3>5, <4>1
    <3> QED  BY <3>2, <3>3, <3>4, <3>5
  <2> QED  BY <2>10, <2>11, <2>12, <2>13
<1> QED  BY <1>2, <1>13, <1>14
=============================================================================
