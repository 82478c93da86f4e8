------------------------- MODULE SideBySide_proofs -------------------------
(***************************************************************************)
(* Proofs about the small parts: the read/write lock, the critical section *)
(* and the semaphore of nsthread, for any finite set of threads, any depth *)
(* of nesting and any number of posts, and the heap of the scheduler, for  *)
(* any times.                                                              *)
(***************************************************************************)
EXTENDS SideBySide, Lemmas

-----------------------------------------------------------------------------
(* The read/write lock. *)

Rd(f) == Count(f, Threads, {"reading"})
Wr(f) == Count(f, Threads, {"writing"})
Rw(f) == Count(f, Threads, {"rwait", "rwake"})
Ww(f) == Count(f, Threads, {"wwait", "wwake"})

(* What the lock count says: only readers inside, or one writer.           *)
Entered(f, cnt) ==
    \/ Wr(f) = 0 /\ cnt = Rd(f)
    \/ Wr(f) = 1 /\ Rd(f) = 0 /\ cnt = -1

(* A writer sleeps at a free lock only if another has been woken.          *)
WritersAwake(f, cnt) ==
    (\E t \in Threads : f[t] = "wwait") =>
        cnt # 0 \/ \E u \in Threads : f[u] = "wwake"

(* A reader sleeps only because of a writer.                               *)
ReadersAwake(f, cnt, n) == (\E t \in Threads : f[t] = "rwait") => cnt < 0 \/ n > 0

(* The inductive invariant.  Entered and the two counts are needed to know *)
(* that the counters Unlock reads are right, the last two conjuncts that   *)
(* the threads it signals are enough.                                      *)
IInv ==
    /\ pc \in [Threads -> Places]
    /\ lockcnt \in Int /\ nreaders \in Int /\ nwriters \in Int
    /\ Entered(pc, lockcnt)
    /\ nreaders = Rw(pc) /\ nwriters = Ww(pc)
    /\ WritersAwake(pc, lockcnt)
    /\ ReadersAwake(pc, lockcnt, nwriters)

-----------------------------------------------------------------------------
LEMMA CountTypes ==
    ASSUME NEW f
    PROVE  Rd(f) \in Nat /\ Wr(f) \in Nat /\ Rw(f) \in Nat /\ Ww(f) \in Nat
BY CountType, RWLockAssumption DEF Rd, Wr, Rw, Ww

(* How the counts change when one thread moves.                            *)
LEMMA Moved ==
    ASSUME NEW f, NEW g, NEW t \in Threads,
           \A u \in Threads : u # t => g[u] = f[u]
    PROVE  /\ Rd(g) = Rd(f) + Here(g[t], {"reading"}) - Here(f[t], {"reading"})
           /\ Wr(g) = Wr(f) + Here(g[t], {"writing"}) - Here(f[t], {"writing"})
           /\ Rw(g) = Rw(f) + Here(g[t], {"rwait", "rwake"})
                            - Here(f[t], {"rwait", "rwake"})
           /\ Ww(g) = Ww(f) + Here(g[t], {"wwait", "wwake"})
                            - Here(f[t], {"wwait", "wwake"})
BY CountMoved, RWLockAssumption DEF Rd, Wr, Rw, Ww

(* A thread that gets the lock for reading, from outside or from waiting.  *)
LEMMA EntersReading ==
    ASSUME NEW f, NEW g, NEW t \in Threads,
           f[t] \in {"idle", "rwake"}, g[t] = "reading",
           \A u \in Threads : u # t => g[u] = f[u]
    PROVE  /\ Rd(g) = Rd(f) + 1 /\ Wr(g) = Wr(f) /\ Ww(g) = Ww(f)
           /\ Rw(g) = Rw(f) - Here(f[t], {"rwait", "rwake"})
PROOF
<1>1. Rd(g) = Rd(f) + Here(g[t], {"reading"}) - Here(f[t], {"reading"})
  BY Moved
<1>2. Wr(g) = Wr(f) + Here(g[t], {"writing"}) - Here(f[t], {"writing"})
  BY Moved
<1>3. Rw(g) = Rw(f) + Here(g[t], {"rwait", "rwake"}) - Here(f[t], {"rwait", "rwake"})
  BY Moved
<1>4. Ww(g) = Ww(f) + Here(g[t], {"wwait", "wwake"}) - Here(f[t], {"wwait", "wwake"})
  BY Moved
<1> QED
  BY <1>1, <1>2, <1>3, <1>4, CountTypes DEF Here

(* A reader goes to sleep.                                                *)
LEMMA SleepsReading ==
    ASSUME NEW f, NEW g, NEW t \in Threads,
           f[t] \in {"idle", "rwake"}, g[t] = "rwait",
           \A u \in Threads : u # t => g[u] = f[u]
    PROVE  /\ Rd(g) = Rd(f) /\ Wr(g) = Wr(f) /\ Ww(g) = Ww(f)
           /\ Rw(g) = Rw(f) + 1 - Here(f[t], {"rwait", "rwake"})
PROOF
<1>1. Rd(g) = Rd(f) + Here(g[t], {"reading"}) - Here(f[t], {"reading"})
  BY Moved
<1>2. Wr(g) = Wr(f) + Here(g[t], {"writing"}) - Here(f[t], {"writing"})
  BY Moved
<1>3. Rw(g) = Rw(f) + Here(g[t], {"rwait", "rwake"}) - Here(f[t], {"rwait", "rwake"})
  BY Moved
<1>4. Ww(g) = Ww(f) + Here(g[t], {"wwait", "wwake"}) - Here(f[t], {"wwait", "wwake"})
  BY Moved
<1> QED
  BY <1>1, <1>2, <1>3, <1>4, CountTypes DEF Here

(* A thread that gets the lock for writing.                                *)
LEMMA EntersWriting ==
    ASSUME NEW f, NEW g, NEW t \in Threads,
           f[t] \in {"idle", "wwake"}, g[t] = "writing",
           \A u \in Threads : u # t => g[u] = f[u]
    PROVE  /\ Rd(g) = Rd(f) /\ Wr(g) = Wr(f) + 1 /\ Rw(g) = Rw(f)
           /\ Ww(g) = Ww(f) - Here(f[t], {"wwait", "wwake"})
PROOF
<1>1. Rd(g) = Rd(f) + Here(g[t], {"reading"}) - Here(f[t], {"reading"})
  BY Moved
<1>2. Wr(g) = Wr(f) + Here(g[t], {"writing"}) - Here(f[t], {"writing"})
  BY Moved
<1>3. Rw(g) = Rw(f) + Here(g[t], {"rwait", "rwake"}) - Here(f[t], {"rwait", "rwake"})
  BY Moved
<1>4. Ww(g) = Ww(f) + Here(g[t], {"wwait", "wwake"}) - Here(f[t], {"wwait", "wwake"})
  BY Moved
<1> QED
  BY <1>1, <1>2, <1>3, <1>4, CountTypes DEF Here

(* A writer goes to sleep.                                                *)
LEMMA SleepsWriting ==
    ASSUME NEW f, NEW g, NEW t \in Threads,
           f[t] \in {"idle", "wwake"}, g[t] = "wwait",
           \A u \in Threads : u # t => g[u] = f[u]
    PROVE  /\ Rd(g) = Rd(f) /\ Wr(g) = Wr(f) /\ Rw(g) = Rw(f)
           /\ Ww(g) = Ww(f) + 1 - Here(f[t], {"wwait", "wwake"})
PROOF
<1>1. Rd(g) = Rd(f) + Here(g[t], {"reading"}) - Here(f[t], {"reading"})
  BY Moved
<1>2. Wr(g) = Wr(f) + Here(g[t], {"writing"}) - Here(f[t], {"writing"})
  BY Moved
<1>3. Rw(g) = Rw(f) + Here(g[t], {"rwait", "rwake"}) - Here(f[t], {"rwait", "rwake"})
  BY Moved
<1>4. Ww(g) = Ww(f) + Here(g[t], {"wwait", "wwake"}) - Here(f[t], {"wwait", "wwake"})
  BY Moved
<1> QED
  BY <1>1, <1>2, <1>3, <1>4, CountTypes DEF Here

(* A thread that waits is woken.                                           *)
LEMMA Woken ==
    ASSUME NEW f, NEW g, NEW t \in Threads,
           f[t] \in {"rwait", "wwait"}, g[t] = IF f[t] = "rwait" THEN "rwake" ELSE "wwake",
           \A u \in Threads : u # t => g[u] = f[u]
    PROVE  Rd(g) = Rd(f) /\ Wr(g) = Wr(f) /\ Rw(g) = Rw(f) /\ Ww(g) = Ww(f)
PROOF
<1>1. Rd(g) = Rd(f) + Here(g[t], {"reading"}) - Here(f[t], {"reading"})
  BY Moved
<1>2. Wr(g) = Wr(f) + Here(g[t], {"writing"}) - Here(f[t], {"writing"})
  BY Moved
<1>3. Rw(g) = Rw(f) + Here(g[t], {"rwait", "rwake"}) - Here(f[t], {"rwait", "rwake"})
  BY Moved
<1>4. Ww(g) = Ww(f) + Here(g[t], {"wwait", "wwake"}) - Here(f[t], {"wwait", "wwake"})
  BY Moved
<1> QED
  BY <1>1, <1>2, <1>3, <1>4, CountTypes DEF Here

LEMMA CountZero ==
    ASSUME NEW f, NEW S
    PROVE  /\ (\E t \in Threads : f[t] \in S) => Count(f, Threads, S) # 0
           /\ (\A t \in Threads : f[t] \notin S) => Count(f, Threads, S) = 0
BY CountType, RWLockAssumption

(* A thread that is somewhere is counted there.                            *)
LEMMA Somebody ==
    ASSUME NEW f, NEW t \in Threads
    PROVE  /\ f[t] = "reading" => Rd(f) > 0
           /\ f[t] = "writing" => Wr(f) > 0
           /\ f[t] \in {"rwait", "rwake"} => Rw(f) > 0
           /\ f[t] \in {"wwait", "wwake"} => Ww(f) > 0
PROOF
<1>1. /\ f[t] = "reading" => Rd(f) # 0
      /\ f[t] = "writing" => Wr(f) # 0
      /\ f[t] \in {"rwait", "rwake"} => Rw(f) # 0
      /\ f[t] \in {"wwait", "wwake"} => Ww(f) # 0
  <2>1. f[t] = "reading" => Rd(f) # 0
    BY CountZero DEF Rd
  <2>2. f[t] = "writing" => Wr(f) # 0
    BY CountZero DEF Wr
  <2>3. f[t] \in {"rwait", "rwake"} => Rw(f) # 0
    BY CountZero DEF Rw
  <2>4. f[t] \in {"wwait", "wwake"} => Ww(f) # 0
    BY CountZero DEF Ww
  <2> QED
    BY <2>1, <2>2, <2>3, <2>4
<1> QED
  BY <1>1, CountTypes

LEMMA InvInit == Init => IInv
PROOF
<1> SUFFICES ASSUME Init PROVE IInv
  OBVIOUS
<1>1. Rd(pc) = 0 /\ Wr(pc) = 0 /\ Rw(pc) = 0 /\ Ww(pc) = 0
  <2>1. \A u \in Threads : pc[u] = "idle"
    BY DEF Init
  <2>2. /\ \A u \in Threads : pc[u] \notin {"reading"}
        /\ \A u \in Threads : pc[u] \notin {"writing"}
        /\ \A u \in Threads : pc[u] \notin {"rwait", "rwake"}
        /\ \A u \in Threads : pc[u] \notin {"wwait", "wwake"}
    BY <2>1
  <2> QED
    <3>1. Rd(pc) = 0
      BY <2>2, CountZero DEF Rd
    <3>2. Wr(pc) = 0
      BY <2>2, CountZero DEF Wr
    <3>3. Rw(pc) = 0
      BY <2>2, CountZero DEF Rw
    <3>4. Ww(pc) = 0
      BY <2>2, CountZero DEF Ww
    <3> QED
      BY <3>1, <3>2, <3>3, <3>4
<1>2. pc \in [Threads -> Places]
  BY DEF Init, Places
<1>3. WritersAwake(pc, lockcnt) /\ ReadersAwake(pc, lockcnt, nwriters)
  BY DEF Init, WritersAwake, ReadersAwake
<1> QED
  BY <1>1, <1>2, <1>3 DEF Init, IInv, Entered

-----------------------------------------------------------------------------
(* One lemma for each operation.                                           *)

LEMMA RdEnters ==
    ASSUME IInv, NEW t \in Threads, pc[t] \in {"idle", "rwake"}, MayRead,
           lockcnt' = lockcnt + 1,
           nreaders' = nreaders - Here(pc[t], {"rwait", "rwake"}),
           nwriters' = nwriters,
           pc' = [pc EXCEPT ![t] = "reading"]
    PROVE  IInv'
PROOF
<1> USE DEF IInv
<1>1. \A u \in Threads : u # t => pc'[u] = pc[u]
  OBVIOUS
<1>2. pc'[t] = "reading"
  OBVIOUS
<1>3. /\ Rd(pc') = Rd(pc) + 1 /\ Wr(pc') = Wr(pc) /\ Ww(pc') = Ww(pc)
      /\ Rw(pc') = Rw(pc) - Here(pc[t], {"rwait", "rwake"})
  BY <1>1, <1>2, EntersReading
<1>4. pc' \in [Threads -> Places]
  BY DEF Places
<1>5. Wr(pc) = 0 /\ lockcnt = Rd(pc) /\ nwriters = 0
  BY CountTypes DEF Entered, MayRead
<1>6. Entered(pc', lockcnt')
  BY <1>3, <1>5 DEF Entered
<1>7. Here(pc[t], {"rwait", "rwake"}) \in Int
  BY DEF Here
<1>8. \A u \in Threads : pc[u] # "wwait" /\ pc[u] # "rwait"
  <2>1. \A u \in Threads : pc[u] # "wwait"
    <3>1. \A u \in Threads : pc[u] \in {"wwait", "wwake"} => Ww(pc) > 0
      BY Somebody
    <3> QED
      BY <1>5, <3>1
  <2>2. ~(lockcnt < 0 \/ nwriters > 0)
    BY <1>5, CountTypes
  <2> QED
    BY <2>1, <2>2 DEF ReadersAwake
<1>9. WritersAwake(pc', lockcnt') /\ ReadersAwake(pc', lockcnt', nwriters')
  BY <1>1, <1>2, <1>8 DEF WritersAwake, ReadersAwake
<1> QED
  BY <1>3, <1>4, <1>6, <1>7, <1>9

LEMMA RdSleeps ==
    ASSUME IInv, NEW t \in Threads, pc[t] \in {"idle", "rwake"}, ~MayRead,
           nreaders' = nreaders + 1 - Here(pc[t], {"rwait", "rwake"}),
           UNCHANGED <<lockcnt, nwriters>>,
           pc' = [pc EXCEPT ![t] = "rwait"]
    PROVE  IInv'
PROOF
<1> USE DEF IInv
<1>1. \A u \in Threads : u # t => pc'[u] = pc[u]
  OBVIOUS
<1>2. pc'[t] = "rwait"
  OBVIOUS
<1>3. /\ Rd(pc') = Rd(pc) /\ Wr(pc') = Wr(pc) /\ Ww(pc') = Ww(pc)
      /\ Rw(pc') = Rw(pc) + 1 - Here(pc[t], {"rwait", "rwake"})
  BY <1>1, <1>2, SleepsReading
<1>4. pc' \in [Threads -> Places]
  BY DEF Places
<1>5. Entered(pc', lockcnt')
  BY <1>3 DEF Entered
<1>6. Here(pc[t], {"rwait", "rwake"}) \in Int
  BY DEF Here
<1>7. lockcnt' < 0 \/ nwriters' > 0
  BY CountTypes DEF MayRead
<1>8. ReadersAwake(pc', lockcnt', nwriters')
  BY <1>7 DEF ReadersAwake
<1>9. WritersAwake(pc', lockcnt')
  BY <1>1, <1>2 DEF WritersAwake
<1> QED
  BY <1>3, <1>4, <1>5, <1>6, <1>8, <1>9

LEMMA WrEnters ==
    ASSUME IInv, NEW t \in Threads, pc[t] \in {"idle", "wwake"}, lockcnt = 0,
           lockcnt' = -1,
           nwriters' = nwriters - Here(pc[t], {"wwait", "wwake"}),
           nreaders' = nreaders,
           pc' = [pc EXCEPT ![t] = "writing"]
    PROVE  IInv'
PROOF
<1> USE DEF IInv
<1>1. \A u \in Threads : u # t => pc'[u] = pc[u]
  OBVIOUS
<1>2. pc'[t] = "writing"
  OBVIOUS
<1>3. /\ Rd(pc') = Rd(pc) /\ Wr(pc') = Wr(pc) + 1 /\ Rw(pc') = Rw(pc)
      /\ Ww(pc') = Ww(pc) - Here(pc[t], {"wwait", "wwake"})
  BY <1>1, <1>2, EntersWriting
<1>4. pc' \in [Threads -> Places]
  BY DEF Places
<1>5. Entered(pc', lockcnt')
  BY <1>3, CountTypes DEF Entered
<1>6. Here(pc[t], {"wwait", "wwake"}) \in Int
  BY DEF Here
<1>7. WritersAwake(pc', lockcnt') /\ ReadersAwake(pc', lockcnt', nwriters')
  BY DEF WritersAwake, ReadersAwake
<1> QED
  BY <1>3, <1>4, <1>5, <1>6, <1>7

LEMMA WrSleeps ==
    ASSUME IInv, NEW t \in Threads, pc[t] \in {"idle", "wwake"}, lockcnt # 0,
           nwriters' = nwriters + 1 - Here(pc[t], {"wwait", "wwake"}),
           UNCHANGED <<lockcnt, nreaders>>,
           pc' = [pc EXCEPT ![t] = "wwait"]
    PROVE  IInv'
PROOF
<1> USE DEF IInv
<1>1. \A u \in Threads : u # t => pc'[u] = pc[u]
  OBVIOUS
<1>2. pc'[t] = "wwait"
  OBVIOUS
<1>3. /\ Rd(pc') = Rd(pc) /\ Wr(pc') = Wr(pc) /\ Rw(pc') = Rw(pc)
      /\ Ww(pc') = Ww(pc) + 1 - Here(pc[t], {"wwait", "wwake"})
  BY <1>1, <1>2, SleepsWriting
<1>4. pc' \in [Threads -> Places]
  BY DEF Places
<1>5. Entered(pc', lockcnt')
  BY <1>3 DEF Entered
<1>6. Here(pc[t], {"wwait", "wwake"}) \in Int /\ nwriters' = Ww(pc')
  BY <1>3 DEF Here
<1>7. nwriters' > 0
  BY <1>2, <1>6, Somebody
<1>8. WritersAwake(pc', lockcnt') /\ ReadersAwake(pc', lockcnt', nwriters')
  BY <1>7 DEF WritersAwake, ReadersAwake
<1> QED
  BY <1>3, <1>4, <1>5, <1>6, <1>8

(* Unlock: what the counter says of the others, whoever is signalled.      *)
LEMMA UnlockCounts ==
    ASSUME IInv, NEW t \in Threads, pc[t] \in {"reading", "writing"},
           NEW g, g[t] = "idle", \A u \in Threads : u # t => g[u] = pc[u],
           NEW cnt, cnt = IF lockcnt - 1 < 0 THEN 0 ELSE lockcnt - 1
    PROVE  cnt \in Nat /\ Entered(g, cnt) /\ Rw(g) = Rw(pc) /\ Ww(g) = Ww(pc)
PROOF
<1> USE DEF IInv
<1>1. CASE pc[t] = "reading"
  <2>1. Rd(g) = Rd(pc) - 1 /\ Wr(g) = Wr(pc) /\ Rw(g) = Rw(pc) /\ Ww(g) = Ww(pc)
    <3>1. /\ Rd(g) = Rd(pc) + Here(g[t], {"reading"}) - Here(pc[t], {"reading"})
           /\ Wr(g) = Wr(pc) + Here(g[t], {"writing"}) - Here(pc[t], {"writing"})
           /\ Rw(g) = Rw(pc) + Here(g[t], {"rwait", "rwake"}) - Here(pc[t], {"rwait", "rwake"})
           /\ Ww(g) = Ww(pc) + Here(g[t], {"wwait", "wwake"}) - Here(pc[t], {"wwait", "wwake"})
      BY <1>1, Moved
    <3> QED
      BY <1>1, <3>1, CountTypes DEF Here
  <2>2. Rd(pc) > 0
    BY <1>1, Somebody
  <2>3. Wr(pc) = 0 /\ lockcnt = Rd(pc)
    BY <2>2 DEF Entered
  <2> QED
    BY <2>1, <2>2, <2>3, CountTypes DEF Entered
<1>2. CASE pc[t] = "writing"
  <2>1. Rd(g) = Rd(pc) /\ Wr(g) = Wr(pc) - 1 /\ Rw(g) = Rw(pc) /\ Ww(g) = Ww(pc)
    <3>1. /\ Rd(g) = Rd(pc) + Here(g[t], {"reading"}) - Here(pc[t], {"reading"})
           /\ Wr(g) = Wr(pc) + Here(g[t], {"writing"}) - Here(pc[t], {"writing"})
           /\ Rw(g) = Rw(pc) + Here(g[t], {"rwait", "rwake"}) - Here(pc[t], {"rwait", "rwake"})
           /\ Ww(g) = Ww(pc) + Here(g[t], {"wwait", "wwake"}) - Here(pc[t], {"wwait", "wwake"})
      BY <1>2, Moved
    <3> QED
      BY <1>2, <3>1, CountTypes DEF Here
  <2>2. Wr(pc) > 0
    BY <1>2, Somebody
  <2>3. Wr(pc) = 1 /\ Rd(pc) = 0 /\ lockcnt = -1
    BY <2>2, CountTypes DEF Entered
  <2> QED
    BY <2>1, <2>3 DEF Entered
<1> QED
  BY <1>1, <1>2

LEMMA UnlockInv == ASSUME IInv, NEW t \in Threads, Unlock(t) PROVE IInv'
PROOF
<1> USE DEF IInv
<1> DEFINE g == [pc EXCEPT ![t] = "idle"]
<1>0. /\ pc[t] \in {"reading", "writing"}
      /\ lockcnt' = IF lockcnt - 1 < 0 THEN 0 ELSE lockcnt - 1
      /\ nreaders' = nreaders /\ nwriters' = nwriters
  BY DEF Unlock
<1>1. g[t] = "idle" /\ \A u \in Threads : u # t => g[u] = pc[u]
  OBVIOUS
<1>2. g \in [Threads -> Places]
  BY DEF Places
<1> HIDE DEF g
<1>3. lockcnt' \in Nat /\ Entered(g, lockcnt') /\ Rw(g) = Rw(pc) /\ Ww(g) = Ww(pc)
  BY <1>0, <1>1, UnlockCounts
<1>4. CASE SignalWriter(t)
  <2>1. nwriters > 0
    BY <1>4 DEF SignalWriter
  <2>2. ReadersAwake(pc', lockcnt', nwriters')
    BY <1>0, <2>1 DEF ReadersAwake
  <2>3. CASE At("wwait") = {} /\ pc' = [pc EXCEPT ![t] = "idle"]
    <3>1. pc' = g
      BY <2>3 DEF g
    <3>2. WritersAwake(g, lockcnt')
      BY <1>1, <2>3 DEF WritersAwake, At
    <3> QED
      BY <1>0, <1>2, <1>3, <2>2, <3>1, <3>2
  <2>4. CASE \E w \in At("wwait") : pc' = [pc EXCEPT ![t] = "idle", ![w] = "wwake"]
    <3>1. PICK w \in Threads :
             pc[w] = "wwait" /\ pc' = [pc EXCEPT ![t] = "idle", ![w] = "wwake"]
      BY <2>4 DEF At
    <3>2. /\ w # t /\ g[w] = "wwait" /\ pc'[w] = "wwake"
          /\ \A u \in Threads : u # w => pc'[u] = g[u]
      BY <1>0, <3>1 DEF g
    <3>3. Rd(pc') = Rd(g) /\ Wr(pc') = Wr(g) /\ Rw(pc') = Rw(g) /\ Ww(pc') = Ww(g)
      BY <3>2, Woken
    <3>4. Entered(pc', lockcnt')
      BY <1>3, <3>3 DEF Entered
    <3>5. WritersAwake(pc', lockcnt')
      BY <3>2 DEF WritersAwake
    <3>6. pc' \in [Threads -> Places]
      BY <3>1 DEF Places
    <3> QED
      BY <1>0, <1>3, <2>2, <3>3, <3>4, <3>5, <3>6
  <2> QED
    BY <1>4, <2>3, <2>4 DEF SignalWriter
<1>5. CASE BroadcastReaders(t)
  <2>1. /\ nwriters = 0
        /\ pc' = [u \in Threads |->
                    IF u = t THEN "idle"
                    ELSE IF pc[u] = "rwait" /\ nreaders > 0 THEN "rwake" ELSE pc[u]]
    BY <1>5 DEF BroadcastReaders
  <2>2. pc' \in [Threads -> Places]
    BY <2>1 DEF Places
  <2>3. \A u \in Threads : pc[u] = "rwait" => nreaders > 0
    BY Somebody
  <2>4. \A u \in Threads : pc'[u] = IF g[u] = "rwait" THEN "rwake" ELSE g[u]
    BY <2>1, <2>3 DEF g
  <2>5. /\ \A u \in Threads : g[u] \in {"reading"} <=> pc'[u] \in {"reading"}
        /\ \A u \in Threads : g[u] \in {"writing"} <=> pc'[u] \in {"writing"}
        /\ \A u \in Threads :
              g[u] \in {"rwait", "rwake"} <=> pc'[u] \in {"rwait", "rwake"}
        /\ \A u \in Threads :
              g[u] \in {"wwait", "wwake"} <=> pc'[u] \in {"wwait", "wwake"}
    BY <2>4
  <2>6. Rd(pc') = Rd(g) /\ Wr(pc') = Wr(g) /\ Rw(pc') = Rw(g) /\ Ww(pc') = Ww(g)
    <3>1. Rd(g) = Rd(pc')
      BY <2>5, CountSame DEF Rd
    <3>2. Wr(g) = Wr(pc')
      BY <2>5, CountSame DEF Wr
    <3>3. Rw(g) = Rw(pc')
      BY <2>5, CountSame DEF Rw
    <3>4. Ww(g) = Ww(pc')
      BY <2>5, CountSame DEF Ww
    <3> QED
      BY <3>1, <3>2, <3>3, <3>4
  <2>7. Entered(pc', lockcnt')
    BY <1>3, <2>6 DEF Entered
  <2>8. \A u \in Threads : pc'[u] # "rwait" /\ pc'[u] # "wwait"
    <3>1. \A u \in Threads : pc[u] # "wwait"
      <4>1. \A u \in Threads : pc[u] \in {"wwait", "wwake"} => Ww(pc) > 0
        BY Somebody
      <4> QED
        BY <2>1, <4>1
    <3> QED
      BY <2>1, <2>3, <3>1
  <2>9. WritersAwake(pc', lockcnt') /\ ReadersAwake(pc', lockcnt', nwriters')
    BY <2>8 DEF WritersAwake, ReadersAwake
  <2> QED
    BY <1>0, <1>3, <2>2, <2>6, <2>7, <2>9
<1> QED
  BY <1>4, <1>5 DEF Unlock

LEMMA SpuriousInv == ASSUME IInv, NEW t \in Threads, Spurious(t) PROVE IInv'
PROOF
<1> USE DEF IInv
<1>1. /\ \A u \in Threads : u # t => pc'[u] = pc[u]
      /\ pc'[t] = IF pc[t] = "rwait" THEN "rwake" ELSE "wwake"
      /\ pc[t] \in {"rwait", "wwait"}
      /\ lockcnt' = lockcnt /\ nreaders' = nreaders /\ nwriters' = nwriters
  BY DEF Spurious
<1>2. pc' \in [Threads -> Places]
  BY DEF Spurious, Places
<1>3. Rd(pc') = Rd(pc) /\ Wr(pc') = Wr(pc) /\ Rw(pc') = Rw(pc) /\ Ww(pc') = Ww(pc)
  BY <1>1, Woken
<1>4. Entered(pc', lockcnt')
  BY <1>1, <1>3 DEF Entered
<1>5. WritersAwake(pc', lockcnt')
  BY <1>1 DEF WritersAwake
<1>6. ReadersAwake(pc', lockcnt', nwriters')
  BY <1>1 DEF ReadersAwake
<1> QED
  BY <1>1, <1>2, <1>3, <1>4, <1>5, <1>6

LEMMA InvNext == IInv /\ [Next]_vars => IInv'
PROOF
<1> SUFFICES ASSUME IInv, [Next]_vars PROVE IInv'
  OBVIOUS
<1>1. CASE UNCHANGED vars
  BY <1>1 DEF IInv, vars, Entered, WritersAwake, ReadersAwake
<1>2. CASE Next
  <2>1. PICK t \in Threads : ThreadStep(t)
    BY <1>2 DEF Next
  <2>2. nreaders \in Int /\ nwriters \in Int
    BY DEF IInv
  <2>3. CASE RdLock(t)
    <3>1. pc[t] = "idle" /\ Here(pc[t], {"rwait", "rwake"}) = 0 /\ nwriters' = nwriters
      BY <2>3 DEF RdLock, Here
    <3>2. CASE MayRead
      BY <2>2, <2>3, <3>1, <3>2, RdEnters DEF RdLock
    <3>3. CASE ~MayRead
      BY <2>2, <2>3, <3>1, <3>3, RdSleeps DEF RdLock
    <3> QED
      BY <3>2, <3>3
  <2>4. CASE RdWake(t)
    <3>1. pc[t] = "rwake" /\ Here(pc[t], {"rwait", "rwake"}) = 1 /\ nwriters' = nwriters
      BY <2>4 DEF RdWake, Here
    <3>2. CASE MayRead
      BY <2>2, <2>4, <3>1, <3>2, RdEnters DEF RdWake
    <3>3. CASE ~MayRead
      BY <2>2, <2>4, <3>1, <3>3, RdSleeps DEF RdWake
    <3> QED
      BY <3>2, <3>3
  <2>5. CASE WrLock(t)
    <3>1. pc[t] = "idle" /\ Here(pc[t], {"wwait", "wwake"}) = 0 /\ nreaders' = nreaders
      BY <2>5 DEF WrLock, Here
    <3>2. CASE lockcnt = 0
      BY <2>2, <2>5, <3>1, <3>2, WrEnters DEF WrLock
    <3>3. CASE lockcnt # 0
      BY <2>2, <2>5, <3>1, <3>3, WrSleeps DEF WrLock
    <3> QED
      BY <3>2, <3>3
  <2>6. CASE WrWake(t)
    <3>1. pc[t] = "wwake" /\ Here(pc[t], {"wwait", "wwake"}) = 1 /\ nreaders' = nreaders
      BY <2>6 DEF WrWake, Here
    <3>2. CASE lockcnt = 0
      BY <2>2, <2>6, <3>1, <3>2, WrEnters DEF WrWake
    <3>3. CASE lockcnt # 0
      BY <2>2, <2>6, <3>1, <3>3, WrSleeps DEF WrWake
    <3> QED
      BY <3>2, <3>3
  <2>7. CASE Unlock(t)
    BY <2>7, UnlockInv
  <2>8. CASE Spurious(t)
    BY <2>8, SpuriousInv
  <2> QED
    BY <2>1, <2>3, <2>4, <2>5, <2>6, <2>7, <2>8 DEF ThreadStep
<1> QED
  BY <1>1, <1>2

(* The inductive invariant holds of every state the lock reaches.          *)
THEOREM Invariance == Spec => []IInv
PROOF
<1> QED
  BY InvInit, InvNext, PTL DEF Spec

-----------------------------------------------------------------------------
LEMMA Agrees == IInv => CountersAgree
PROOF
<1> SUFFICES ASSUME IInv PROVE CountersAgree
  OBVIOUS
<1>1. /\ Rd(pc) = Cardinality(At("reading"))
      /\ Rw(pc) = Cardinality(At("rwait") \cup At("rwake"))
      /\ Ww(pc) = Cardinality(At("wwait") \cup At("wwake"))
  <2>1. /\ {u \in Threads : pc[u] \in {"reading"}} = At("reading")
        /\ {u \in Threads : pc[u] \in {"rwait", "rwake"}} = At("rwait") \cup At("rwake")
        /\ {u \in Threads : pc[u] \in {"wwait", "wwake"}} = At("wwait") \cup At("wwake")
    BY DEF At
  <2> QED
    BY <2>1 DEF Rd, Rw, Ww, Count
<1>2. At("writing") = {} <=> Wr(pc) = 0
  <2>1. (\E t \in Threads : pc[t] \in {"writing"}) => Wr(pc) # 0
    BY CountZero DEF Wr
  <2>2. (\A t \in Threads : pc[t] \notin {"writing"}) => Wr(pc) = 0
    BY CountZero DEF Wr
  <2> QED
    BY <2>1, <2>2 DEF At
<1>3. lockcnt = Inside
  BY <1>1, <1>2, CountTypes DEF IInv, Entered, Inside
<1> QED
  BY <1>1, <1>3 DEF IInv, CountersAgree

(* The counters rwlock.c keeps of readers and writers, inside and waiting, *)
(* agree with where the threads are, for any number of threads.            *)
THEOREM CountersCorrect == Spec => []CountersAgree
BY Invariance, Agrees, PTL

(* The variables keep their types; lockcnt is never below -1.              *)
THEOREM TypeCorrect == Spec => []TypeOK
PROOF
<1>1. IInv => TypeOK
  BY CountTypes DEF IInv, Entered, TypeOK
<1> QED
  BY <1>1, Invariance, PTL

LEMMA Wakeups == IInv => NoLostWakeup
BY DEF IInv, WritersAwake, ReadersAwake, NoLostWakeup, At

(* Whoever sleeps has somebody to be woken by: no wakeup is lost, however  *)
(* many threads wait and however the signals interleave.                   *)
THEOREM WakeupsCorrect == Spec => []NoLostWakeup
BY Invariance, Wakeups, PTL

(* The counters of rwlock.c are right and no wakeup is lost, for any       *)
(* number of threads.                                                      *)
THEOREM LockSoundCorrect == Spec => []LockSound
PROOF
<1>1. TypeOK /\ CountersAgree /\ NoLostWakeup => LockSound
  BY DEF LockSound
<1> QED
  BY <1>1, TypeCorrect, CountersCorrect, WakeupsCorrect, PTL

(* A reader gets in only past the loop test.                               *)
LEMMA Overtaking ==
    ASSUME IInv, [Next]_vars, NEW t \in Threads,
           pc'[t] = "reading", pc[t] # "reading"
    PROVE  At("wwait") \cup At("wwake") = {}
PROOF
<1>1. Next
  BY DEF vars
<1>2. PICK u \in Threads : ThreadStep(u)
  BY <1>1 DEF Next
<1>3. MayRead
  <2>1. pc \in [Threads -> Places]
    BY DEF IInv
  <2>2. CASE RdLock(u) \/ RdWake(u)
    BY <2>1, <2>2 DEF RdLock, RdWake
  <2>3. CASE WrLock(u) \/ WrWake(u) \/ Spurious(u)
    BY <2>1, <2>3 DEF WrLock, WrWake, Spurious
  <2>4. CASE Unlock(u)
    BY <2>1, <2>4 DEF Unlock, SignalWriter, BroadcastReaders, At
  <2> QED
    BY <1>2, <2>2, <2>3, <2>4 DEF ThreadStep
<1>4. Ww(pc) = 0
  BY <1>3 DEF MayRead, IInv
<1>5. (\E w \in Threads : pc[w] \in {"wwait", "wwake"}) => Ww(pc) # 0
  BY CountZero DEF Ww
<1> QED
  BY <1>4, <1>5 DEF At

(* No reader overtakes a waiting writer, woken or not.                     *)
THEOREM WritersFirstCorrect == Spec => WritersFirst
PROOF
<1>1. IInv /\ [Next]_vars =>
        [\A t \in Threads : pc'[t] = "reading" /\ pc[t] # "reading"
           => At("wwait") \cup At("wwake") = {}]_vars
  BY Overtaking
<1> QED
  BY <1>1, Invariance, PTL DEF Spec, WritersFirst

-----------------------------------------------------------------------------
(* The lock implements SharedLock.                                         *)

Mode(p) == CASE p = "reading" -> "read" [] p = "writing" -> "write" [] OTHER -> "none"

LEMMA HeldModes ==
    /\ Held = [t \in Threads |-> Mode(pc[t])]
    /\ Held' = [t \in Threads |-> Mode(pc'[t])]
BY DEF Held, Mode

LEMMA Exclusion ==
    ASSUME IInv
    PROVE  /\ lockcnt >= 0 => \A t \in Threads : pc[t] # "writing"
           /\ lockcnt = 0 => \A t \in Threads : pc[t] # "reading"
PROOF
<1>1. \A t \in Threads : pc[t] = "writing" => Wr(pc) > 0
  BY Somebody
<1>2. \A t \in Threads : pc[t] = "reading" => Rd(pc) > 0
  BY Somebody
<1> QED
  BY <1>1, <1>2, CountTypes DEF IInv, Entered

(* The step of one thread, the others keeping how they hold the lock.      *)
LEMMA HeldMoves ==
    ASSUME NEW t \in Threads, NEW m,
           Mode(pc'[t]) = m,
           \A u \in Threads : u # t => Mode(pc'[u]) = Mode(pc[u])
    PROVE  Held' = [Held EXCEPT ![t] = m]
PROOF
<1>1. DOMAIN Held = Threads
  BY HeldModes
<1>2. \A u \in Threads :
        [Held EXCEPT ![t] = m][u] = IF u = t THEN m ELSE Mode(pc[u])
  BY <1>1, HeldModes
<1>3. \A u \in Threads : Held'[u] = Mode(pc'[u])
  BY HeldModes
<1> QED
  BY <1>1, <1>2, <1>3, HeldModes

LEMMA StepIsAbstract ==
    ASSUME IInv, NEW t \in Threads, ThreadStep(t)
    PROVE  Abstract!Next \/ UNCHANGED Held
PROOF
<1>0. pc \in [Threads -> Places]
  BY DEF IInv
<1>1. CASE RdLock(t) \/ RdWake(t)
  <2>1. \A u \in Threads : u # t => pc'[u] = pc[u]
    BY <1>0, <1>1 DEF RdLock, RdWake
  <2>2. Held[t] = "none"
    BY <1>1, HeldModes DEF Mode, RdLock, RdWake
  <2>3. CASE MayRead
    <3>1. pc'[t] = "reading"
      BY <1>0, <1>1, <2>3 DEF RdLock, RdWake
    <3>2. Held' = [Held EXCEPT ![t] = "read"]
      BY <2>1, <3>1, HeldMoves DEF Mode
    <3>3. \A u \in Threads : Held[u] # "write"
      BY <2>3, Exclusion, HeldModes DEF MayRead, Mode
    <3> QED
      BY <2>2, <3>2, <3>3 DEF Abstract!Next, Abstract!Read, Abstract!NoWriter
  <2>4. CASE ~MayRead
    <3>1. pc'[t] = "rwait" /\ pc[t] \in {"idle", "rwake"}
      BY <1>0, <1>1, <2>4 DEF RdLock, RdWake
    <3> QED
      BY <2>1, <3>1, HeldModes DEF Mode
  <2> QED
    BY <2>3, <2>4
<1>2. CASE WrLock(t) \/ WrWake(t)
  <2>1. \A u \in Threads : u # t => pc'[u] = pc[u]
    BY <1>0, <1>2 DEF WrLock, WrWake
  <2>2. Held[t] = "none"
    BY <1>2, HeldModes DEF Mode, WrLock, WrWake
  <2>3. CASE lockcnt = 0
    <3>1. pc'[t] = "writing"
      BY <1>0, <1>2, <2>3 DEF WrLock, WrWake
    <3>2. Held' = [Held EXCEPT ![t] = "write"]
      BY <2>1, <3>1, HeldMoves DEF Mode
    <3>3. \A u \in Threads : Held[u] = "none"
      BY <2>3, Exclusion, HeldModes DEF Mode
    <3> QED
      BY <2>2, <3>2, <3>3 DEF Abstract!Next, Abstract!Write, Abstract!AllFree
  <2>4. CASE lockcnt # 0
    <3>1. pc'[t] = "wwait" /\ pc[t] \in {"idle", "wwake"}
      BY <1>0, <1>2, <2>4 DEF WrLock, WrWake
    <3> QED
      BY <2>1, <3>1, HeldModes DEF Mode
  <2> QED
    BY <2>3, <2>4
<1>3. CASE Unlock(t)
  <2>1. pc'[t] = "idle" /\ pc[t] \in {"reading", "writing"}
    BY <1>0, <1>3 DEF Unlock, SignalWriter, BroadcastReaders, At
  <2>2. \A u \in Threads : u # t =>
          \/ pc'[u] = pc[u]
          \/ pc[u] = "wwait" /\ pc'[u] = "wwake"
          \/ pc[u] = "rwait" /\ pc'[u] = "rwake"
    BY <1>0, <1>3 DEF Unlock, SignalWriter, BroadcastReaders, At
  <2>3. Held' = [Held EXCEPT ![t] = "none"]
    BY <2>1, <2>2, HeldMoves DEF Mode
  <2>4. Held[t] # "none"
    BY <2>1, HeldModes DEF Mode
  <2> QED
    BY <2>3, <2>4 DEF Abstract!Next, Abstract!Release
<1>4. CASE Spurious(t)
  BY <1>0, <1>4, HeldModes DEF Spurious, Mode
<1> QED
  BY <1>1, <1>2, <1>3, <1>4 DEF ThreadStep

(* rwlock.c implements the lock it promises: its initial states are free   *)
(* locks, and every step of it is a step of SharedLock or changes nothing. *)
THEOREM Implements == Spec => IsLock
PROOF
<1>1. Init => Abstract!Init
  BY HeldModes DEF Init, Abstract!Init, Mode
<1>2. IInv /\ [Next]_vars => [Abstract!Next]_Held
  <2>1. UNCHANGED vars => UNCHANGED Held
    BY HeldModes DEF vars
  <2> QED
    BY <2>1, StepIsAbstract DEF Next
<1> QED
  BY <1>1, <1>2, Invariance, PTL DEF Spec, IsLock, Abstract!Spec
-----------------------------------------------------------------------------
(* The critical section. *)

(* A thread that waits is not inside: without this one that was woken      *)
(* could find itself the owner.                                            *)
CsOutside == \A t \in Threads : csPc[t] /= "free" => csDepth[t] = 0

CsIInv == Cs!TypeOK /\ Cs!CountIsDepth /\ CsOutside /\ Cs!NoLostWakeup

LEMMA CsInitInv == Cs!Init => CsIInv
BY LocksAssumption DEF Cs!Init, CsIInv, Cs!TypeOK, Cs!CountIsDepth, CsOutside, Cs!NoLostWakeup, Cs!At

(* Entering, at first or after a wait. *)
LEMMA CsOwnStep ==
  ASSUME CsIInv, NEW t \in Threads, csDepth[t] < MaxDepth, ~Cs!Owned(t), Cs!Own(t)
  PROVE  CsIInv'
<1>1. /\ csCount \in 0 .. MaxDepth /\ csDepth[t] \in 0 .. MaxDepth
      /\ csPc \in [Threads -> {"free", "wait", "woken"}]
      /\ csDepth \in [Threads -> 0 .. MaxDepth]
  BY DEF CsIInv, Cs!TypeOK
<1>2. /\ csTid' = t /\ csCount' = csCount + 1 /\ csPc' = [csPc EXCEPT ![t] = "free"]
      /\ csDepth' = [csDepth EXCEPT ![t] = @ + 1]
  BY DEF Cs!Own
<1>3. csDepth[t] = csCount /\ \A u \in Threads \ {t} : csDepth[u] = 0
  BY <1>1 DEF Cs!Owned, CsIInv, Cs!CountIsDepth
<1>4. csCount' \in 0 .. MaxDepth /\ csCount' > 0
  BY <1>1, <1>2, <1>3, LocksAssumption
<1>5. Cs!TypeOK'
  BY <1>1, <1>2, <1>3, <1>4 DEF Cs!TypeOK
<1>6. Cs!CountIsDepth'
  BY <1>1, <1>2, <1>3 DEF Cs!CountIsDepth
<1>7. CsOutside'
  BY <1>1, <1>2 DEF CsIInv, CsOutside
<1>8. Cs!NoLostWakeup'
  BY <1>4 DEF Cs!NoLostWakeup
<1> QED  BY <1>5, <1>6, <1>7, <1>8 DEF CsIInv

(* Waiting, at first or again. *)
LEMMA CsSleepStep ==
  ASSUME CsIInv, NEW t \in Threads, Cs!Owned(t), Cs!Sleep(t)
  PROVE  CsIInv'
<1>1. /\ csPc' = [csPc EXCEPT ![t] = "wait"] /\ UNCHANGED <<csTid, csCount, csDepth>>
      /\ csCount > 0 /\ csDepth[t] = 0
  BY DEF Cs!Sleep, Cs!Owned, CsIInv, Cs!CountIsDepth
<1>2. Cs!TypeOK' /\ Cs!CountIsDepth' /\ CsOutside'
  BY <1>1 DEF CsIInv, Cs!TypeOK, Cs!CountIsDepth, CsOutside
<1>3. Cs!NoLostWakeup'
  BY <1>1 DEF Cs!NoLostWakeup, CsIInv, Cs!TypeOK
<1> QED  BY <1>2, <1>3 DEF CsIInv

LEMMA CsLeaveStep ==
  ASSUME CsIInv, NEW t \in Threads, Cs!Leave(t)
  PROVE  CsIInv'
<1>1. /\ csCount \in 0 .. MaxDepth /\ csDepth[t] \in 0 .. MaxDepth
      /\ csPc \in [Threads -> {"free", "wait", "woken"}]
      /\ csDepth \in [Threads -> 0 .. MaxDepth]
  BY DEF CsIInv, Cs!TypeOK
<1>2. /\ csPc[t] = "free" /\ csDepth[t] > 0 /\ csCount' = csCount - 1 /\ csTid' = csTid
      /\ csDepth' = [csDepth EXCEPT ![t] = @ - 1]
  BY DEF Cs!Leave
<1>3. t = csTid /\ csCount = csDepth[t] /\ \A u \in Threads \ {t} : csDepth[u] = 0
  BY <1>1, <1>2 DEF CsIInv, Cs!CountIsDepth
<1>4. csCount' \in 0 .. MaxDepth /\ csDepth'[t] = csCount'
      /\ \A u \in Threads \ {t} : csDepth'[u] = 0
  BY <1>1, <1>2, <1>3, LocksAssumption
<1>5. CASE UNCHANGED csPc /\ (csCount' /= 0 \/ Cs!At("wait") = {})
  <2>1. Cs!TypeOK' /\ Cs!CountIsDepth'
    BY <1>1, <1>2, <1>3, <1>4, <1>5 DEF CsIInv, Cs!TypeOK, Cs!CountIsDepth
  <2>2. CsOutside'
    BY <1>1, <1>2, <1>3, <1>4, <1>5 DEF CsIInv, CsOutside
  <2>3. Cs!NoLostWakeup'
    BY <1>5 DEF Cs!NoLostWakeup, Cs!At
  <2> QED  BY <2>1, <2>2, <2>3 DEF CsIInv
<1>6. CASE \E w \in Cs!At("wait") : csPc' = [csPc EXCEPT ![w] = "woken"]
  <2>1. PICK w \in Threads : csPc[w] = "wait" /\ csPc' = [csPc EXCEPT ![w] = "woken"]
    BY <1>6 DEF Cs!At
  <2>2. Cs!TypeOK' /\ Cs!CountIsDepth'
    BY <1>1, <1>2, <1>3, <1>4, <2>1 DEF CsIInv, Cs!TypeOK, Cs!CountIsDepth
  <2>3. CsOutside'
    BY <1>1, <1>2, <1>3, <1>4, <2>1 DEF CsIInv, CsOutside
  <2>4. w \in Cs!At("woken")'
    BY <1>1, <2>1 DEF Cs!At
  <2>5. Cs!NoLostWakeup'
    BY <2>4 DEF Cs!NoLostWakeup
  <2> QED  BY <2>2, <2>3, <2>5 DEF CsIInv
<1> QED  BY <1>5, <1>6 DEF Cs!Leave, Cs!Signal

LEMMA CsSpuriousStep ==
  ASSUME CsIInv, NEW t \in Threads, Cs!Spurious(t)
  PROVE  CsIInv'
<1>1. /\ csPc[t] = "wait" /\ csPc' = [csPc EXCEPT ![t] = "woken"]
      /\ UNCHANGED <<csTid, csCount, csDepth>>
  BY DEF Cs!Spurious
<1>2. Cs!TypeOK' /\ Cs!CountIsDepth' /\ CsOutside'
  BY <1>1 DEF CsIInv, Cs!TypeOK, Cs!CountIsDepth, CsOutside
<1>3. t \in Cs!At("woken")'
  BY <1>1 DEF Cs!At, CsIInv, Cs!TypeOK
<1>4. Cs!NoLostWakeup'
  BY <1>3 DEF Cs!NoLostWakeup
<1> QED  BY <1>2, <1>4 DEF CsIInv

LEMMA CsNextInv == CsIInv /\ [Cs!Next]_(Cs!vars) => CsIInv'
<1> SUFFICES ASSUME CsIInv, [Cs!Next]_(Cs!vars) PROVE CsIInv'  OBVIOUS
<1>1. CASE UNCHANGED Cs!vars
  BY <1>1 DEF Cs!vars, CsIInv, Cs!TypeOK, Cs!CountIsDepth, CsOutside, Cs!NoLostWakeup, Cs!At
<1>2. ASSUME NEW t \in Threads, Cs!Enter(t) PROVE CsIInv'
  BY <1>2, CsOwnStep, CsSleepStep DEF Cs!Enter
<1>3. ASSUME NEW t \in Threads, Cs!Wake(t) PROVE CsIInv'
  <2>1. csDepth[t] = 0
    BY <1>3 DEF Cs!Wake, CsIInv, CsOutside
  <2>2. csDepth[t] < MaxDepth
    BY <2>1, LocksAssumption
  <2> QED  BY <1>3, <2>2, CsOwnStep, CsSleepStep DEF Cs!Wake
<1> QED  BY <1>1, <1>2, <1>3, CsLeaveStep, CsSpuriousStep DEF Cs!Next, Cs!ThreadStep

(* The count is the nesting of the owner, nobody else is inside, and while *)
(* a thread sleeps at a free section another has been woken (cslock.c).    *)
THEOREM SectionSound == Cs!Spec => [](Cs!TypeOK /\ Cs!CountIsDepth /\ Cs!NoLostWakeup)
<1>1. CsIInv => Cs!TypeOK /\ Cs!CountIsDepth /\ Cs!NoLostWakeup
  BY DEF CsIInv
<1> QED  BY <1>1, CsInitInv, CsNextInv, PTL DEF Cs!Spec

-----------------------------------------------------------------------------
(* From the first Enter of a thread to the matching Leave nobody else is   *)
(* inside: each step of cslock.c is one of SharedLock or changes nothing   *)
(* of who holds it.                                                        *)
THEOREM SectionIsLock == Cs!Spec => CsIsLock
<1>1. Cs!Init => Cs!Abstract!Init
  BY DEF Cs!Init, Cs!Abstract!Init, Cs!Held
<1>2. CsIInv /\ [Cs!Next]_(Cs!vars) => [Cs!Abstract!Next]_(Cs!Held)
  <2> SUFFICES ASSUME CsIInv, [Cs!Next]_(Cs!vars) PROVE Cs!Abstract!Next \/ UNCHANGED Cs!Held
    OBVIOUS
  <2>1. csDepth \in [Threads -> 0 .. MaxDepth] /\ csCount \in 0 .. MaxDepth
    BY DEF CsIInv, Cs!TypeOK
  <2>2. CASE UNCHANGED csDepth
    BY <2>2 DEF Cs!Held
  <2>3. ASSUME NEW t \in Threads, ~Cs!Owned(t), Cs!Own(t) PROVE Cs!Abstract!Next \/ UNCHANGED Cs!Held
    <3>1. csDepth' = [csDepth EXCEPT ![t] = @ + 1]
      BY <2>3 DEF Cs!Own
    <3>2. CASE csDepth[t] > 0
      BY <2>1, <3>1, <3>2 DEF Cs!Held
    <3>3. CASE csDepth[t] = 0
      <4>1. \A u \in Threads : csDepth[u] = 0
        BY <2>1, <2>3, <3>3 DEF Cs!Owned, CsIInv, Cs!CountIsDepth
      <4>2. Cs!Held[t] = "none" /\ Cs!Abstract!AllFree
        BY <2>1, <4>1 DEF Cs!Held, Cs!Abstract!AllFree
      <4>3. Cs!Held' = [Cs!Held EXCEPT ![t] = "write"]
        <5>1. \A u \in Threads : (csDepth'[u] > 0) <=> (u = t)
          BY <2>1, <3>1, <4>1
        <5>2. Cs!Held' = [u \in Threads |-> IF u = t THEN "write" ELSE "none"]
          BY <5>1 DEF Cs!Held
        <5>3. Cs!Held = [u \in Threads |-> "none"]
          BY <4>1 DEF Cs!Held
        <5> QED  BY <5>2, <5>3
      <4> QED  BY <4>2, <4>3 DEF Cs!Abstract!Next, Cs!Abstract!Write
    <3>4. csDepth[t] \in 0 .. MaxDepth
      BY <2>1
    <3>5. csDepth[t] = 0 \/ csDepth[t] > 0
      BY <3>4
    <3> QED  BY <3>2, <3>3, <3>5
  <2>4. ASSUME NEW t \in Threads, Cs!Leave(t) PROVE Cs!Abstract!Next \/ UNCHANGED Cs!Held
    <3>1. csDepth' = [csDepth EXCEPT ![t] = @ - 1] /\ csDepth[t] > 0
      BY <2>4 DEF Cs!Leave
    <3>2. CASE csDepth[t] > 1
      BY <2>1, <3>1, <3>2 DEF Cs!Held
    <3>3. CASE csDepth[t] = 1
      <4>1. Cs!Held[t] /= "none"
        BY <3>1 DEF Cs!Held
      <4>2. Cs!Held' = [Cs!Held EXCEPT ![t] = "none"]
        <5>1. \A u \in Threads : (csDepth'[u] > 0) <=> (u /= t /\ csDepth[u] > 0)
          BY <2>1, <3>1, <3>3
        <5>2. Cs!Held' = [u \in Threads |-> IF u /= t /\ csDepth[u] > 0 THEN "write" ELSE "none"]
          BY <5>1 DEF Cs!Held
        <5>3. Cs!Held = [u \in Threads |-> IF csDepth[u] > 0 THEN "write" ELSE "none"]
          BY DEF Cs!Held
        <5> QED  BY <5>2, <5>3
      <4> QED  BY <4>1, <4>2 DEF Cs!Abstract!Next, Cs!Abstract!Release
    <3>4. csDepth[t] \in 0 .. MaxDepth
      BY <2>1
    <3>5. csDepth[t] = 1 \/ csDepth[t] > 1
      BY <3>1, <3>4
    <3> QED  BY <3>2, <3>3, <3>5
  <2>5. ASSUME NEW t \in Threads, Cs!Sleep(t) \/ Cs!Spurious(t) PROVE UNCHANGED csDepth
    BY <2>5 DEF Cs!Sleep, Cs!Spurious
  <2> QED  BY <2>2, <2>3, <2>4, <2>5 DEF Cs!Next, Cs!ThreadStep, Cs!Enter, Cs!Wake, Cs!vars
<1> QED  BY <1>1, <1>2, CsInitInv, CsNextInv, PTL DEF Cs!Spec, CsIsLock, Cs!IsLock, Cs!Abstract!Spec
-----------------------------------------------------------------------------
(* The semaphore. *)

(* How many have been woken. *)
SmWoken(p) == Count(p, Threads, {"woken"})

(* NoLostWakeup, in the terms the steps can be counted in. *)
SmEnough == (\E t \in Threads : smPc[t] = "wait") => smCount <= SmWoken(smPc)

SmIInv == Sm!TypeOK /\ Sm!NothingLost /\ SmEnough

LEMMA EnoughIsNoLostWakeup == SmEnough <=> Sm!NoLostWakeup
<1>1. SmWoken(smPc) = Cardinality(Sm!At("woken"))
  <2>1. {u \in Threads : smPc[u] \in {"woken"}} = Sm!At("woken")
    BY DEF Sm!At
  <2> QED  BY <2>1 DEF SmWoken, Count
<1>2. Sm!At("wait") /= {} <=> \E t \in Threads : smPc[t] = "wait"
  BY DEF Sm!At
<1>3. Sm!Cardinality(Sm!At("woken")) = Cardinality(Sm!At("woken"))
  BY DEF Sm!Cardinality, Cardinality
<1> QED  BY <1>1, <1>2, <1>3 DEF SmEnough, Sm!NoLostWakeup

LEMMA SmInitInv == Sm!Init => SmIInv
<1> SUFFICES ASSUME Sm!Init PROVE SmIInv  OBVIOUS
<1>1. Sm!TypeOK /\ Sm!NothingLost
  BY LocksAssumption DEF Sm!Init, Sm!TypeOK, Sm!NothingLost
<1>2. SmEnough
  BY DEF Sm!Init, SmEnough
<1> QED  BY <1>1, <1>2 DEF SmIInv

(* One thread goes from one place to another. *)
LEMMA SmMoved ==
  ASSUME NEW f \in [Threads -> {"running", "wait", "woken"}],
         NEW g \in [Threads -> {"running", "wait", "woken"}],
         NEW t \in Threads, \A u \in Threads : u # t => g[u] = f[u]
  PROVE  /\ SmWoken(f) \in Nat /\ SmWoken(g) \in Nat
         /\ f[t] # "woken" /\ g[t] = "woken" => SmWoken(g) = SmWoken(f) + 1
         /\ f[t] = "woken" /\ g[t] # "woken" => SmWoken(g) = SmWoken(f) - 1
         /\ f[t] # "woken" /\ g[t] # "woken" => SmWoken(g) = SmWoken(f)
<1>1. IsFiniteSet(Threads)
  BY RWLockAssumption
<1>2. Count(g, Threads, {"woken"}) = Count(f, Threads, {"woken"})
        + Here(g[t], {"woken"}) - Here(f[t], {"woken"})
  BY <1>1, CountMoved
<1>3. SmWoken(f) \in Nat /\ SmWoken(g) \in Nat
  BY <1>1, CountType DEF SmWoken
<1> QED  BY <1>2, <1>3 DEF SmWoken, Here

(* A thread that wakes takes as many as it leaves to the other woken ones, *)
(* and one that comes anew takes what they were woken for; both sleep only *)
(* at a count of 0.                                                        *)
LEMMA TakeOrSleepStep ==
  ASSUME SmIInv, NEW t \in Threads, smPc[t] \in {"running", "woken"}, Sm!TakeOrSleep(t)
  PROVE  SmIInv'
<1>1. /\ smCount \in Nat /\ smGranted \in Nat /\ smTaken \in Nat
      /\ smPc \in [Threads -> {"running", "wait", "woken"}]
      /\ smCount = smGranted - smTaken
  BY DEF SmIInv, Sm!TypeOK, Sm!NothingLost
<1>2. CASE smCount = 0
  <2>1. smPc' = [smPc EXCEPT ![t] = "wait"] /\ UNCHANGED <<smCount, smTaken, smGranted>>
    BY <1>2 DEF Sm!TakeOrSleep
  <2>2. Sm!TypeOK' /\ Sm!NothingLost'
    BY <1>1, <2>1 DEF Sm!TypeOK, Sm!NothingLost
  <2>3. SmWoken(smPc') \in Nat
    BY <2>2, CountType, RWLockAssumption DEF SmWoken
  <2> QED  BY <1>2, <2>1, <2>2, <2>3 DEF SmIInv, SmEnough
<1>3. CASE smCount # 0
  <2>1. /\ smCount' = smCount - 1 /\ smTaken' = smTaken + 1 /\ smGranted' = smGranted
        /\ smPc' = [smPc EXCEPT ![t] = "running"]
    BY <1>3 DEF Sm!TakeOrSleep
  <2>2. Sm!TypeOK' /\ Sm!NothingLost'
    BY <1>1, <1>3, <2>1 DEF Sm!TypeOK, Sm!NothingLost
  <2>3. /\ SmWoken(smPc) \in Nat /\ SmWoken(smPc') \in Nat
        /\ SmWoken(smPc') = IF smPc[t] = "woken" THEN SmWoken(smPc) - 1 ELSE SmWoken(smPc)
    <3>1. smPc' \in [Threads -> {"running", "wait", "woken"}] /\ smPc'[t] = "running"
          /\ \A u \in Threads : u # t => smPc'[u] = smPc[u]
      BY <1>1, <2>1
    <3> QED  BY <1>1, <3>1, SmMoved
  <2>4. \A u \in Threads : smPc'[u] = "wait" => smPc[u] = "wait"
    BY <1>1, <2>1
  <2>5. SmEnough'
    BY <1>1, <2>1, <2>3, <2>4 DEF SmIInv, SmEnough
  <2> QED  BY <2>2, <2>5 DEF SmIInv
<1> QED  BY <1>2, <1>3

(* One is signalled for a post of one, everybody for a post of many.       *)
LEMMA SmPostStep ==
  ASSUME SmIInv, NEW n \in Posts, Sm!Post(n)
  PROVE  SmIInv'
<1>1. /\ smCount \in Nat /\ smGranted \in Nat /\ smTaken \in Nat /\ n \in Nat
      /\ smPc \in [Threads -> {"running", "wait", "woken"}]
      /\ smCount = smGranted - smTaken
  BY LocksAssumption DEF SmIInv, Sm!TypeOK, Sm!NothingLost
<1>2. smCount' = smCount + n /\ smGranted' = smGranted + n /\ smTaken' = smTaken
  BY DEF Sm!Post
<1>3. smPc' \in [Threads -> {"running", "wait", "woken"}]
  BY <1>1 DEF Sm!Post, Sm!Signal, Sm!Broadcast
<1>4. Sm!TypeOK' /\ Sm!NothingLost'
  BY <1>1, <1>2, <1>3 DEF Sm!TypeOK, Sm!NothingLost
<1>5. SmEnough'
  <2>1. CASE n = 1 /\ Sm!At("wait") = {} /\ UNCHANGED smPc
    <3>1. \A u \in Threads : smPc'[u] # "wait"
      BY <2>1 DEF Sm!At
    <3> QED  BY <3>1 DEF SmEnough
  <2>2. ASSUME n = 1, NEW w \in Sm!At("wait"), smPc' = [smPc EXCEPT ![w] = "woken"]
        PROVE  SmEnough'
    <3>1. w \in Threads /\ smPc[w] = "wait"
      BY <2>2 DEF Sm!At
    <3>2. SmWoken(smPc) \in Nat /\ SmWoken(smPc') = SmWoken(smPc) + 1
      <4>1. smPc'[w] = "woken" /\ \A u \in Threads : u # w => smPc'[u] = smPc[u]
        BY <1>1, <2>2, <3>1
      <4> QED  BY <1>1, <1>3, <3>1, <4>1, SmMoved
    <3>3. smCount <= SmWoken(smPc)
      BY <3>1 DEF SmIInv, SmEnough
    <3> QED  BY <1>1, <1>2, <2>2, <3>2, <3>3 DEF SmEnough
  <2>3. CASE Sm!Broadcast
    <3>1. \A u \in Threads : smPc'[u] # "wait"
      BY <2>3 DEF Sm!Broadcast
    <3> QED  BY <3>1 DEF SmEnough
  <2> QED  BY <2>1, <2>2, <2>3 DEF Sm!Post, Sm!Signal
<1> QED  BY <1>4, <1>5 DEF SmIInv

LEMMA SmSpuriousStep ==
  ASSUME SmIInv, NEW t \in Threads, Sm!Spurious(t)
  PROVE  SmIInv'
<1>1. /\ smCount \in Nat /\ smPc \in [Threads -> {"running", "wait", "woken"}]
      /\ smPc' = [smPc EXCEPT ![t] = "woken"] /\ UNCHANGED <<smCount, smGranted, smTaken>>
      /\ smPc[t] = "wait"
  BY DEF SmIInv, Sm!TypeOK, Sm!Spurious
<1>2. Sm!TypeOK' /\ Sm!NothingLost'
  BY <1>1 DEF SmIInv, Sm!TypeOK, Sm!NothingLost
<1>3. SmWoken(smPc) \in Nat /\ SmWoken(smPc') = SmWoken(smPc) + 1
  <2>1. /\ smPc' \in [Threads -> {"running", "wait", "woken"}] /\ smPc'[t] = "woken"
        /\ \A u \in Threads : u # t => smPc'[u] = smPc[u]
    BY <1>1
  <2> QED  BY <1>1, <2>1, SmMoved
<1>4. smCount <= SmWoken(smPc)
  BY <1>1 DEF SmIInv, SmEnough
<1>5. SmEnough'
  BY <1>1, <1>3, <1>4 DEF SmEnough
<1> QED  BY <1>2, <1>5 DEF SmIInv

LEMMA SmNextInv == SmIInv /\ [Sm!Next]_(Sm!vars) => SmIInv'
<1> SUFFICES ASSUME SmIInv, [Sm!Next]_(Sm!vars) PROVE SmIInv'  OBVIOUS
<1>1. CASE UNCHANGED Sm!vars
  BY <1>1 DEF Sm!vars, SmIInv, Sm!TypeOK, Sm!NothingLost, SmEnough, SmWoken, Count
<1>2. ASSUME NEW t \in Threads, Sm!SemaWait(t) \/ Sm!Wake(t) PROVE SmIInv'
  BY <1>2, TakeOrSleepStep DEF Sm!SemaWait, Sm!Wake
<1>3. ASSUME NEW t \in Threads, Sm!Spurious(t) PROVE SmIInv'
  BY <1>3, SmSpuriousStep
<1>4. ASSUME NEW n \in Posts, Sm!Post(n) PROVE SmIInv'
  BY <1>4, SmPostStep
<1> QED  BY <1>1, <1>2, <1>3, <1>4 DEF Sm!Next

(* No more waits return than were posted, none of what was posted is lost, *)
(* and while threads sleep enough others are awake to take what there is   *)
(* (sema.c).                                                               *)
THEOREM SemaSound ==
  Sm!Spec => [](Sm!TypeOK /\ Sm!NothingLost /\ Sm!NoLostWakeup)
<1>1. SmIInv => Sm!TypeOK /\ Sm!NothingLost /\ Sm!NoLostWakeup
  BY EnoughIsNoLostWakeup DEF SmIInv
<1> QED  BY <1>1, SmInitInv, SmNextInv, PTL DEF Sm!Spec
-----------------------------------------------------------------------------
(* Both together: the count of a critical section is the nesting of its    *)
(* owner and a semaphore gives out what was posted, and neither leaves a   *)
(* thread asleep that it should have woken (cslock.c, sema.c).             *)
THEOREM OthersSoundCorrect == Cs!Spec /\ Sm!Spec => []OthersSound
<1>1. (Cs!TypeOK /\ Cs!CountIsDepth /\ Cs!NoLostWakeup)
        /\ (Sm!TypeOK /\ Sm!NothingLost /\ Sm!NoLostWakeup) => OthersSound
  BY DEF OthersSound
<1> QED  BY <1>1, SectionSound, SemaSound, PTL
-----------------------------------------------------------------------------
(* The heap of the scheduler. *)

LEMMA SameOperators ==
    ASSUME NEW q, NEW key, NEW e, NEW k
    PROVE  /\ Heap!Inserted(q, key, e) = Inserted(q, key, e)
           /\ Heap!TakenOut(q, key, k) = TakenOut(q, key, k)
BY DEF Heap!Inserted, Inserted, Heap!TakenOut, TakenOut, Heap!Exchanged, Exchanged,
       Heap!Rise, Rise, Heap!WayUp, WayUp, Heap!Sink, Sink, Heap!WayDown, WayDown,
       Heap!LastTo, LastTo, Heap!SmallerChild, SmallerChild, Heap!Walk, Walk

(* The inductive invariant: that the top is the earliest does not say who  *)
(* is next when it has been taken.                                         *)
HeapInv == heap \in Seq(Times) /\ HeapOrder(heap, Heap!nextqueue)

LEMMA TimesAreKeys == \A t \in Times : Heap!nextqueue[t] = t /\ Heap!nextqueue[t] \in Int
BY HeapAssumption DEF Heap!nextqueue

LEMMA HeapInit == Heap!Init => HeapInv
BY DEF Heap!Init, HeapInv, HeapOrder

LEMMA QueueEventStep ==
    ASSUME HeapInv, NEW t \in Times, Heap!QueueEvent(t)
    PROVE  HeapInv'
<1> DEFINE key == Heap!nextqueue
<1>1. heap \in Seq(Times) /\ HeapOrder(heap, key) /\ \A x \in Times : key[x] \in Int
  BY TimesAreKeys DEF HeapInv
<1>2. heap' = Inserted(heap, key, t)
  BY SameOperators DEF Heap!QueueEvent
<1>3. key' = key
  BY DEF Heap!nextqueue
<1> HIDE DEF key
<1>4. HeapOrder(Inserted(heap, key, t), key)
  BY <1>1, InsertedOrder
<1>5. Permuted(Inserted(heap, key, t), Append(heap, t), Times, Len(heap) + 1,
               Walk(Len(heap) + 1, Rise(heap, key, t)))
  BY <1>1, InsertedIs
<1>6. Inserted(heap, key, t) \in Seq(Times)
  BY <1>5 DEF Permuted
<1>7. heap' \in Seq(Times) /\ HeapOrder(heap', key')
  BY <1>2, <1>3, <1>4, <1>6
<1> QED  BY <1>7 DEF HeapInv, key

LEMMA TakenOutStep ==
    ASSUME HeapInv, NEW k \in 1 .. Len(heap), heap' = TakenOut(heap, Heap!nextqueue, k),
           \/ k = 1 \/ k = Len(heap)
           \/ Heap!nextqueue[heap[k \div 2]] <= Heap!nextqueue[heap[Len(heap)]]
    PROVE  HeapInv'
<1> DEFINE key == Heap!nextqueue
<1>1. heap \in Seq(Times) /\ HeapOrder(heap, key) /\ \A x \in Times : key[x] \in Int
  BY TimesAreKeys DEF HeapInv
<1>2. key' = key
  BY DEF Heap!nextqueue
<1>3. k = 1 \/ k = Len(heap) \/ key[heap[k \div 2]] <= key[heap[Len(heap)]]
  OBVIOUS
<1>4. heap' = TakenOut(heap, key, k)
  OBVIOUS
<1> HIDE DEF key
<1>5. HeapOrder(TakenOut(heap, key, k), key)
  BY <1>1, <1>3, TakenOutOrder
<1>6. Permuted(TakenOut(heap, key, k), LastTo(heap, k), Times, Len(heap) - 1,
               Walk(k, Sink(heap, key, k)))
  BY <1>1, TakenOutIs
<1>7. TakenOut(heap, key, k) \in Seq(Times)
  BY <1>6 DEF Permuted
<1>8. heap' \in Seq(Times) /\ HeapOrder(heap', key')
  BY <1>2, <1>4, <1>5, <1>7
<1> QED  BY <1>8 DEF HeapInv, key

(* With five elements or fewer the last is below every other that is above *)
(* some element, or the top is.                                            *)
LEMMA FewInOrder ==
    ASSUME HeapInv, NEW k \in 1 .. Len(heap), Len(heap) <= 5
    PROVE  \/ k = 1 \/ k = Len(heap)
           \/ Heap!nextqueue[heap[k \div 2]] <= Heap!nextqueue[heap[Len(heap)]]
<1> DEFINE key == Heap!nextqueue
           n == Len(heap)
<1>1. /\ heap \in Seq(Times) /\ HeapOrder(heap, key) /\ \A x \in Times : key[x] \in Int
      /\ n \in Nat
  BY TimesAreKeys DEF HeapInv
<1> HIDE DEF key
<1>2. \A i \in 1 .. n : key[heap[1]] <= key[heap[i]]
  BY <1>1, RootLeast
<1>3. \A i \in 2 .. n : key[heap[i \div 2]] <= key[heap[i]]
  BY <1>1 DEF HeapOrder
<1>4. SUFFICES ASSUME k # 1, k # n PROVE key[heap[k \div 2]] <= key[heap[n]]
  BY DEF key
<1>5. k \in {2, 3, 4} /\ n \in 1 .. n /\ n \in 2 .. n /\ n \in Nat /\ n <= 5 /\ k <= n
  BY <1>1, <1>4
<1> HIDE DEF n
<1>6. CASE k \in {2, 3}
  <2>1. k \div 2 = 1
    BY <1>6
  <2> QED  BY <1>2, <1>5, <2>1
<1>7. CASE k = 4
  <2>1. n = 5
    BY <1>4, <1>5, <1>7
  <2>2. k \div 2 = 2 /\ n \div 2 = 2
    BY <1>7, <2>1
  <2> QED  BY <1>3, <1>5, <2>2
<1> QED  BY <1>5, <1>6, <1>7

LEMMA HeapNext ==
    ASSUME MaxCancel <= 5
    PROVE  HeapInv /\ [Heap!Next]_heap => HeapInv'
<1> SUFFICES ASSUME HeapInv, [Heap!Next]_heap PROVE HeapInv'
  OBVIOUS
<1>0. heap \in Seq(Times) /\ Len(heap) \in Nat /\ DOMAIN heap = 1 .. Len(heap)
  BY DEF HeapInv
<1>1. CASE UNCHANGED heap
  BY <1>1 DEF HeapInv, Heap!nextqueue
<1>2. ASSUME NEW t \in Times, Heap!QueueEvent(t) PROVE HeapInv'
  BY <1>2, QueueEventStep
<1>3. CASE Heap!FireFirst
  <2>1. heap' = TakenOut(heap, Heap!nextqueue, 1) /\ heap # <<>>
    BY <1>3, SameOperators DEF Heap!FireFirst
  <2>2. 1 \in 1 .. Len(heap)
    BY <1>0, <2>1
  <2> QED  BY <2>1, <2>2, TakenOutStep
<1>4. ASSUME NEW k \in DOMAIN heap, Heap!TakeOut(k) PROVE HeapInv'
  <2>1. heap' = TakenOut(heap, Heap!nextqueue, k) /\ Len(heap) <= MaxCancel
    BY <1>4, SameOperators DEF Heap!TakeOut
  <2>2. k \in 1 .. Len(heap) /\ Len(heap) <= 5
    BY <1>0, <2>1, HeapAssumption
  <2>3. \/ k = 1 \/ k = Len(heap)
        \/ Heap!nextqueue[heap[k \div 2]] <= Heap!nextqueue[heap[Len(heap)]]
    BY <2>2, FewInOrder
  <2> QED  BY <2>1, <2>2, <2>3, TakenOutStep
<1> QED  BY <1>1, <1>2, <1>3, <1>4 DEF Heap!Next

(* The event at the top is the earliest of all, however many are queued,   *)
(* if none is taken out of the middle of six or more (QueueEvent,          *)
(* DeQueueEvent).  The hypothesis is needed: an element that DeQueueEvent  *)
(* puts in the place of another may have to go up, which it never does.    *)
THEOREM EarliestFirstCorrect ==
    ASSUME MaxCancel <= 5
    PROVE  Heap!Spec => []EarliestFirst
<1>1. HeapInv => EarliestFirst
  <2> SUFFICES ASSUME HeapInv PROVE EarliestFirst
    OBVIOUS
  <2>1. heap \in Seq(Times) /\ HeapOrder(heap, Heap!nextqueue)
        /\ \A x \in Times : Heap!nextqueue[x] = x /\ Heap!nextqueue[x] \in Int
    BY TimesAreKeys DEF HeapInv
  <2>2. \A i \in 1 .. Len(heap) : Heap!nextqueue[heap[1]] <= Heap!nextqueue[heap[i]]
    BY <2>1, RootLeast
  <2>3. \A i \in 1 .. Len(heap) : heap[i] \in Times /\ heap[1] \in Times
    BY <2>1
  <2> QED  BY <2>1, <2>2, <2>3 DEF EarliestFirst, Heap!EarliestFirst
<1>2. HeapInv /\ [Heap!Next]_heap => HeapInv'
  BY HeapNext
<1> QED  BY <1>1, <1>2, HeapInit, PTL DEF Heap!Spec
(* How often an element is in a list: the same wherever it is moved. *)
LEMMA CopiesCount ==
    ASSUME NEW T, NEW q \in Seq(T), NEW u
    PROVE  Heap!Copies(q, u) = Count(q, 1 .. Len(q), {u})
<1>1. {i \in DOMAIN q : q[i] = u} = {i \in 1 .. Len(q) : q[i] \in {u}}
  OBVIOUS
<1>2. \A S : Heap!Cardinality(S) = Cardinality(S)
  BY DEF Heap!Cardinality, Cardinality
<1> QED  BY <1>1, <1>2 DEF Heap!Copies, Count

SameCount(E, s, u) == Count(E, 1 .. Len(E), {u}) = Count(s, 1 .. Len(s), {u})

LEMMA CopiesPermuted ==
    ASSUME NEW T, NEW s \in Seq(T), NEW E, NEW V, Permuted(E, s, T, Len(s), V), NEW u
    PROVE  SameCount(E, s, u)
<1> DEFINE A == {i \in 1 .. Len(s) : E[i] \in {u}}
           B == {i \in 1 .. Len(s) : s[i] \in {u}}
<1>1. E \in Seq(T) /\ Len(E) = Len(s)
  BY DEF Permuted
<1>2. PICK p \in [1 .. Len(s) -> 1 .. Len(s)] :
        /\ \A i \in 1 .. Len(s) : E[i] = s[p[i]]
        /\ \A i, j \in 1 .. Len(s) : p[i] = p[j] => i = j
        /\ \A j \in 1 .. Len(s) : \E i \in 1 .. Len(s) : p[i] = j
  BY DEF Permuted
<1> DEFINE r == [i \in A |-> p[i]]
<1>3. r \in [A -> B] /\ \A i, j \in A : r[i] = r[j] => i = j
  BY <1>2
<1>4. ASSUME NEW j \in B PROVE \E i \in A : r[i] = j
  <2>1. PICK i \in 1 .. Len(s) : p[i] = j
    BY <1>2
  <2>2. i \in A
    BY <1>2, <2>1
  <2> QED  BY <2>1, <2>2
<1> HIDE DEF r, A, B
<1>5. ExistsBijection(A, B)
  <2>1. r \in Bijection(A, B)
    BY <1>3, <1>4 DEF Bijection, Injection, Surjection, IsInjective
  <2> QED  BY <2>1 DEF ExistsBijection
<1>6. IsFiniteSet(A)
  <2>1. IsFiniteSet(1 .. Len(s))
    BY FS_Interval
  <2>2. A \in SUBSET (1 .. Len(s))
    BY DEF A
  <2> QED  BY <2>1, <2>2, FS_Subset
<1>7. Cardinality(A) = Cardinality(B)
  BY <1>5, <1>6, FS_Bijection
<1> QED  BY <1>1, <1>7 DEF SameCount, Count, A, B

Grown(n, m, s, S) == n = m + Here(s, S)

LEMMA CopiesOneMore ==
    ASSUME NEW L \in Nat, NEW f, NEW g, \A i \in 1 .. L : g[i] = f[i], NEW S
    PROVE  Grown(Count(g, 1 .. L + 1, S), Count(f, 1 .. L, S), g[L + 1], S)
<1> DEFINE A == {i \in 1 .. L : f[i] \in S}
           B == {i \in 1 .. L + 1 : g[i] \in S}
<1>1. IsFiniteSet(1 .. L) /\ IsFiniteSet(A)
  <2>1. IsFiniteSet(1 .. L)
    BY FS_Interval
  <2> QED  BY <2>1, FS_Subset
<1>2. Cardinality(A) \in Nat
  BY <1>1, FS_CardinalityType
<1>3. B = IF g[L + 1] \in S THEN A \cup {L + 1} ELSE A
  OBVIOUS
<1>4. L + 1 \notin A
  OBVIOUS
<1>5. Cardinality(B) = Cardinality(A) + Here(g[L + 1], S)
  <2> HIDE DEF A, B
  <2>1. CASE g[L + 1] \in S
    <3>1. Cardinality(A \cup {L + 1}) = Cardinality(A) + 1
      BY <1>1, <1>4, FS_AddElement
    <3> QED  BY <1>3, <2>1, <3>1 DEF Here
  <2>2. CASE g[L + 1] \notin S
    BY <1>2, <1>3, <2>2 DEF Here
  <2> QED  BY <2>1, <2>2
<1> QED  BY <1>5 DEF Count, Grown

(* n is m, and one more or one fewer if t is u. *)
OneMore(n, m, t, u) == n - m = IF t = u THEN 1 ELSE 0
OneFewer(n, m, t, u) == n - m = IF t = u THEN -1 ELSE 0

LEMMA CopiesInserted ==
    ASSUME NEW T, NEW q \in Seq(T), NEW key, NEW e \in T, NEW u
    PROVE  OneMore(Heap!Copies(Inserted(q, key, e), u), Heap!Copies(q, u), e, u)
<1> DEFINE E == Inserted(q, key, e)
           a == Append(q, e)
           V == Walk(Len(q) + 1, Rise(q, key, e))
<1>1. a \in Seq(T) /\ Len(a) = Len(q) + 1 /\ Len(q) \in Nat /\ a[Len(q) + 1] = e
      /\ \A i \in 1 .. Len(q) : a[i] = q[i]
  OBVIOUS
<1>2. Permuted(Inserted(q, key, e), Append(q, e), T, Len(q) + 1,
               Walk(Len(q) + 1, Rise(q, key, e)))
  BY InsertedIs
<1> HIDE DEF E, a, V
<1>3. E \in Seq(T) /\ Permuted(E, a, T, Len(a), V)
  <2>1. Permuted(E, a, T, Len(q) + 1, V)
    BY <1>2 DEF E, a, V
  <2>2. E \in Seq(T)
    BY <2>1 DEF Permuted
  <2> QED  BY <1>1, <2>1, <2>2
<1>4. SameCount(E, a, u)
  BY <1>1, <1>3, CopiesPermuted
<1>5. Grown(Count(a, 1 .. Len(q) + 1, {u}), Count(q, 1 .. Len(q), {u}), a[Len(q) + 1], {u})
  BY <1>1, CopiesOneMore
<1>6. Heap!Copies(E, u) = Count(E, 1 .. Len(E), {u}) /\ Heap!Copies(q, u) = Count(q, 1 .. Len(q), {u})
  BY <1>3, CopiesCount
<1>7. Count(q, 1 .. Len(q), {u}) \in Nat
  <2>1. IsFiniteSet(1 .. Len(q))
    BY <1>1, FS_Interval
  <2> QED  BY <2>1, CountType
<1>8. OneMore(Heap!Copies(E, u), Heap!Copies(q, u), e, u)
  BY <1>1, <1>4, <1>5, <1>6, <1>7 DEF OneMore, Grown, SameCount, Here
<1> QED  BY <1>8 DEF E

LEMMA CopiesTakenOut ==
    ASSUME NEW T, NEW q \in Seq(T), NEW key, NEW k \in 1 .. Len(q), NEW u
    PROVE  OneFewer(Heap!Copies(TakenOut(q, key, k), u), Heap!Copies(q, u), q[k], u)
<1> DEFINE E == TakenOut(q, key, k)
           a == LastTo(q, k)
           n == Len(q) - 1
           z == [q EXCEPT ![k] = q[Len(q)]]
           t == q[Len(q)]
           V == Walk(k, Sink(q, key, k))
<1>1. n \in Nat /\ Len(q) = n + 1 /\ k \in 1 .. n + 1 /\ n + 1 \in 1 .. n + 1
      /\ z[k] = t /\ z[n + 1] = t /\ \A i \in 1 .. n + 1 : i # k => z[i] = q[i]
  OBVIOUS
<1>2. z \in Seq(T) /\ Len(z) = Len(q)
  OBVIOUS
<1>3. a \in Seq(T) /\ Len(a) = n /\ \A i \in 1 .. n : z[i] = a[i]
  BY <1>2 DEF LastTo
<1>4. Permuted(TakenOut(q, key, k), LastTo(q, k), T, Len(q) - 1, Walk(k, Sink(q, key, k)))
  BY TakenOutIs
<1> HIDE DEF E, a, n, z, t, V
<1>5. E \in Seq(T) /\ Permuted(E, a, T, Len(a), V)
  <2>1. Permuted(E, a, T, n, V)
    BY <1>4 DEF E, a, n, V
  <2>2. E \in Seq(T)
    BY <2>1 DEF Permuted
  <2> QED  BY <1>3, <2>1, <2>2
<1>6. SameCount(E, a, u)
  BY <1>3, <1>5, CopiesPermuted
<1>7. Grown(Count(z, 1 .. n + 1, {u}), Count(a, 1 .. n, {u}), z[n + 1], {u})
  BY <1>1, <1>3, CopiesOneMore
<1>8. IsFiniteSet(1 .. n + 1) /\ IsFiniteSet(1 .. n)
  BY <1>1, FS_Interval
<1>9. Shifted(Count(z, 1 .. n + 1, {u}), Count(q, 1 .. n + 1, {u}), q[k], z[k], {u})
  BY <1>1, <1>8, CountShifted
<1>10. /\ Heap!Copies(E, u) = Count(E, 1 .. Len(E), {u})
       /\ Heap!Copies(q, u) = Count(q, 1 .. n + 1, {u})
  BY <1>1, <1>5, CopiesCount
<1>11. Count(q, 1 .. n + 1, {u}) \in Nat /\ Count(a, 1 .. n, {u}) \in Nat
  BY <1>8, CountType
<1>12. OneFewer(Heap!Copies(E, u), Heap!Copies(q, u), q[k], u)
  <2>1. Count(a, 1 .. n, {u}) = Count(q, 1 .. n + 1, {u}) - Here(q[k], {u})
    BY <1>1, <1>7, <1>9, <1>11 DEF Here, Grown, Shifted
  <2> QED  BY <1>3, <1>6, <1>10, <1>11, <2>1 DEF OneFewer, SameCount, Here
<1> QED  BY <1>12 DEF E

LEMMA HeapTyped == heap \in Seq(Times) /\ [Heap!Next]_heap => (heap \in Seq(Times))'
<1> SUFFICES ASSUME heap \in Seq(Times), [Heap!Next]_heap PROVE heap' \in Seq(Times)
  OBVIOUS
<1>1. ASSUME NEW t \in Times, Heap!QueueEvent(t) PROVE heap' \in Seq(Times)
  <2>1. heap' = Inserted(heap, Heap!nextqueue, t)
    BY <1>1, SameOperators DEF Heap!QueueEvent
  <2>2. Permuted(Inserted(heap, Heap!nextqueue, t), Append(heap, t), Times, Len(heap) + 1,
                 Walk(Len(heap) + 1, Rise(heap, Heap!nextqueue, t)))
    BY InsertedIs
  <2> QED  BY <2>1, <2>2 DEF Permuted
<1>2. ASSUME NEW k \in 1 .. Len(heap), heap' = TakenOut(heap, Heap!nextqueue, k)
      PROVE  heap' \in Seq(Times)
  <2>1. Permuted(TakenOut(heap, Heap!nextqueue, k), LastTo(heap, k), Times, Len(heap) - 1,
                 Walk(k, Sink(heap, Heap!nextqueue, k)))
    BY TakenOutIs
  <2> QED  BY <1>2, <2>1 DEF Permuted
<1>3. CASE Heap!FireFirst
  <2>1. heap' = TakenOut(heap, Heap!nextqueue, 1) /\ 1 \in 1 .. Len(heap)
    BY <1>3, SameOperators DEF Heap!FireFirst
  <2> QED  BY <1>2, <2>1
<1>4. ASSUME NEW k \in DOMAIN heap, Heap!TakeOut(k) PROVE heap' \in Seq(Times)
  <2>1. heap' = TakenOut(heap, Heap!nextqueue, k) /\ k \in 1 .. Len(heap)
    BY <1>4, SameOperators DEF Heap!TakeOut
  <2> QED  BY <1>2, <2>1
<1>5. CASE UNCHANGED heap
  BY <1>5
<1> QED  BY <1>1, <1>3, <1>4, <1>5 DEF Heap!Next

(* What one step of the heap changes, in the words of NoneLost. *)
Changes ==
    LET delta(t) == Heap!Copies(heap', t) - Heap!Copies(heap, t)
    IN  \E t \in Times :
            /\ \A u \in Times \ {t} : delta(u) = 0
            /\ \/ delta(t) = 1
               \/ delta(t) = -1 /\ (t = heap[1] \/ Len(heap) <= MaxCancel)

LEMMA StepChanges == heap \in Seq(Times) /\ Heap!Next => Changes
<1> SUFFICES ASSUME heap \in Seq(Times), Heap!Next PROVE Changes
  OBVIOUS
<1>1. ASSUME NEW t \in Times, Heap!QueueEvent(t) PROVE Changes
  <2>1. heap' = Inserted(heap, Heap!nextqueue, t)
    BY <1>1, SameOperators DEF Heap!QueueEvent
  <2>2. ASSUME NEW u \in Times
        PROVE  Heap!Copies(heap', u) - Heap!Copies(heap, u) = IF t = u THEN 1 ELSE 0
    <3>1. OneMore(Heap!Copies(Inserted(heap, Heap!nextqueue, t), u), Heap!Copies(heap, u), t, u)
      BY CopiesInserted
    <3> QED  BY <2>1, <3>1 DEF OneMore
  <2> QED  BY <2>2 DEF Changes
<1>2. ASSUME NEW k \in 1 .. Len(heap), heap' = TakenOut(heap, Heap!nextqueue, k),
             k = 1 \/ Len(heap) <= MaxCancel
      PROVE  Changes
  <2>1. heap[k] \in Times
    OBVIOUS
  <2>2. ASSUME NEW u \in Times
        PROVE  Heap!Copies(heap', u) - Heap!Copies(heap, u) = IF heap[k] = u THEN -1 ELSE 0
    <3>1. OneFewer(Heap!Copies(TakenOut(heap, Heap!nextqueue, k), u), Heap!Copies(heap, u),
                   heap[k], u)
      BY CopiesTakenOut
    <3> QED  BY <1>2, <3>1 DEF OneFewer
  <2> QED  BY <1>2, <2>1, <2>2 DEF Changes
<1>3. CASE Heap!FireFirst
  <2>1. heap' = TakenOut(heap, Heap!nextqueue, 1) /\ 1 \in 1 .. Len(heap)
    BY <1>3, SameOperators DEF Heap!FireFirst
  <2> QED  BY <1>2, <2>1
<1>4. ASSUME NEW k \in DOMAIN heap, Heap!TakeOut(k) PROVE Changes
  <2>1. heap' = TakenOut(heap, Heap!nextqueue, k) /\ k \in 1 .. Len(heap) /\ Len(heap) <= MaxCancel
    BY <1>4, SameOperators DEF Heap!TakeOut
  <2> QED  BY <1>2, <2>1
<1> QED  BY <1>1, <1>3, <1>4 DEF Heap!Next

(* A step of the heap adds one event or removes one, and loses and doubles *)
(* no other, whether or not the heap is in order (QueueEvent,              *)
(* DeQueueEvent).                                                          *)
THEOREM OthersKeptCorrect == Heap!Spec => OthersKept
<1>1. Heap!Init => heap \in Seq(Times)
  BY DEF Heap!Init
<1>2. heap \in Seq(Times) /\ [Heap!Next]_heap => [Changes]_heap
  BY StepChanges
<1>3. [](heap \in Seq(Times)) /\ [][Heap!Next]_heap => [][Changes]_heap
  BY <1>2, PTL
<1>4. [][Changes]_heap <=> OthersKept
  BY DEF Changes, OthersKept, Heap!NoneLost
<1> QED  BY <1>1, <1>3, <1>4, HeapTyped, PTL DEF Heap!Spec
=============================================================================
