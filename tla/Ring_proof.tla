----------------------------- MODULE Ring_proof -----------------------------
(***************************************************************************)
(* The safety invariants of Ring for every size, every set of threads and  *)
(* every entry.  The inductive invariant is IInv of module Ring.           *)
(***************************************************************************)
EXTENDS Ring, Sequences, SequenceTheorems, TLAPS

-----------------------------------------------------------------------------
(* The indices *)

\* ring_init gives the ring at least one slot (ring.h:46-52).
LEMMA SizeFact == ring_size \in Nat /\ ring_size > 0
  BY SizeAssumption DEF ring_size

LEMMA ModFact ==
  ASSUME NEW n \in Nat, n > 0, NEW i \in 0 .. n
  PROVE  i % n = IF i = n THEN 0 ELSE i
  OBVIOUS

\* The next index stays in the array and wraps at its end (ring.h:70, 146).
LEMMA SuccFact ==
  ASSUME NEW i \in Slots
  PROVE  /\ Succ(i) \in Slots
         /\ Succ(i) = IF i = ring_size - 1 THEN 0 ELSE i + 1
  BY SizeFact, ModFact DEF Slots, Succ

\* A push adds the slot of push_point to the occupied ones.
LEMMA BetweenPush ==
  ASSUME NEW a \in Slots, NEW b \in Slots, Succ(b) # a
  PROVE  Between(a, Succ(b)) = Between(a, b) \cup {b}
  BY SizeFact, SuccFact DEF Between, Slots

\* A pop takes the slot of pop_point away.
LEMMA BetweenPop ==
  ASSUME NEW a \in Slots, NEW b \in Slots, a # b
  PROVE  Between(Succ(a), b) = Between(a, b) \ {a}
  BY SizeFact, SuccFact DEF Between, Slots

\* The slot of push_point is free: one slot is never used (ring.h:71).
LEMMA PushSlotFree ==
  ASSUME NEW a \in Slots, NEW b \in Slots
  PROVE  b \notin Between(a, b)
  BY DEF Between, Slots

-----------------------------------------------------------------------------
(* The inductive invariant *)

LEMMA InitIInv == Init => IInv
<1> SUFFICES ASSUME Init PROVE IInv
  OBVIOUS
<1>1. 0 \in Slots
  BY SizeFact DEF Slots
<1>2. TypeOK
  BY <1>1, ValueAssumption
  DEF Init, TypeOK, Entries, Threads, Steps
<1>3. MutualExclusion /\ OutsideUnlocked
  BY ThreadAssumption DEF Init, MutualExclusion, OutsideUnlocked, Inside
<1>4. FreeSlotsCleared
  BY DEF Init, FreeSlotsCleared, Slots
<1>5. NoLostWakeup
  BY DEF Init, NoLostWakeup, Empty
<1>6. Bookkeeping
  BY ThreadAssumption DEF Init, Bookkeeping, StepsOf, Holding, Threads
<1> QED
  BY <1>2, <1>3, <1>4, <1>5, <1>6 DEF IInv
LEMMA CallStep ==
  ASSUME IInv, NEW t \in Producers, NEW e \in Entries, Call(t, e)
  PROVE  IInv'
<1> USE ThreadAssumption DEF IInv, Call, Goto, lockVars, ringVars
<1>1. TypeOK'
  BY SuccFact DEF TypeOK, Entries, Threads, Producers, Poppers, Steps, Bookkeeping
<1>2. MutualExclusion'
  BY DEF TypeOK, MutualExclusion, OutsideUnlocked, Inside, Bookkeeping
<1>3. OutsideUnlocked'
  BY DEF TypeOK, MutualExclusion, OutsideUnlocked, Inside, Bookkeeping
<1>4. FreeSlotsCleared'
  BY DEF TypeOK, MutualExclusion, FreeSlotsCleared, Inside, Occupied, Bookkeeping
<1>5. NoLostWakeup'
  BY DEF TypeOK, NoLostWakeup, Empty, Bookkeeping
<1>6. Bookkeeping'
  BY DEF TypeOK, MutualExclusion, OutsideUnlocked, Inside, Bookkeeping, StepsOf, Holding, Full, Empty, Producers, Poppers, Threads
<1> QED
  BY <1>1, <1>2, <1>3, <1>4, <1>5, <1>6

LEMMA LockStep ==
  ASSUME IInv, NEW t \in Threads, Lock(t)
  PROVE  IInv'
<1> USE ThreadAssumption DEF IInv, Lock, Acquire, Goto, ringVars
<1>1. TypeOK'
  BY SuccFact DEF TypeOK, Entries, Threads, Producers, Poppers, Steps, Bookkeeping
<1>2. MutualExclusion'
  BY DEF TypeOK, MutualExclusion, OutsideUnlocked, Inside, Bookkeeping
<1>3. OutsideUnlocked'
  BY DEF TypeOK, MutualExclusion, OutsideUnlocked, Inside, Bookkeeping
<1>4. FreeSlotsCleared'
<2>1. \A p \in Producers : pc[p] = "stored" => pc'[p] = "stored"
  BY DEF TypeOK, Threads
<2> QED
  BY <2>1 DEF FreeSlotsCleared, Occupied
<1>5. NoLostWakeup'
  BY DEF TypeOK, NoLostWakeup, Empty, Bookkeeping
<1>6. Bookkeeping'
<2>1. \A u \in Threads : pc'[u] \in StepsOf(u)
  BY DEF TypeOK, Bookkeeping, StepsOf, Producers, Poppers, Threads
<2>2. waiters' = {u \in Threads : pc'[u] = "waiting"}
  BY DEF TypeOK, Bookkeeping
<2>3. /\ owner' = NoThread <=> depth' = 0
      /\ owner' \in Threads \ SPollers => depth' = 1
  BY DEF TypeOK, MutualExclusion, OutsideUnlocked, Inside, Bookkeeping
<2>4. ASSUME NEW u \in Threads
      PROVE  /\ IF Holding(u)' THEN hand'[u] \in Entries ELSE hand'[u] = None
             /\ pc'[u] = "stored" => ~Full' /\ rbuf'[push_point'] = hand'[u]
             /\ pc'[u] = "popping2" => ~Empty'
  BY DEF TypeOK, MutualExclusion, Inside, Bookkeeping, Holding, Full, Empty, Threads
<2> QED
  BY <2>1, <2>2, <2>3, <2>4 DEF Bookkeeping
<1> QED
  BY <1>1, <1>2, <1>3, <1>4, <1>5, <1>6

LEMMA UnlockStep ==
  ASSUME IInv, NEW t \in Threads, Unlock(t)
  PROVE  IInv'
<1> USE ThreadAssumption DEF IInv, Unlock, Release, Goto, ringVars
<1>1. TypeOK'
  BY DEF TypeOK, MutualExclusion, Inside, Threads, Producers, Poppers, Steps, Bookkeeping
<1>2. MutualExclusion'
  BY DEF TypeOK, MutualExclusion, OutsideUnlocked, Inside, Bookkeeping
<1>3. OutsideUnlocked'
  BY DEF TypeOK, MutualExclusion, OutsideUnlocked, Inside, Bookkeeping
<1>4. FreeSlotsCleared'
  BY DEF TypeOK, MutualExclusion, FreeSlotsCleared, Inside, Occupied, Bookkeeping
<1>5. NoLostWakeup'
  BY DEF TypeOK, NoLostWakeup, Empty, Bookkeeping
<1>6. Bookkeeping'
<2>1. \A u \in Threads : pc'[u] \in StepsOf(u)
  BY DEF TypeOK, Bookkeeping, StepsOf, Producers, Poppers, Threads
<2>2. waiters' = {u \in Threads : pc'[u] = "waiting"}
  BY DEF TypeOK, Bookkeeping
<2>3. /\ owner' = NoThread <=> depth' = 0
      /\ owner' \in Threads \ SPollers => depth' = 1
  BY DEF TypeOK, MutualExclusion, OutsideUnlocked, Inside, Bookkeeping
<2>4. ASSUME NEW u \in Threads
      PROVE  /\ IF Holding(u)' THEN hand'[u] \in Entries ELSE hand'[u] = None
             /\ pc'[u] = "stored" => ~Full' /\ rbuf'[push_point'] = hand'[u]
             /\ pc'[u] = "popping2" => ~Empty'
  BY DEF TypeOK, MutualExclusion, Inside, Bookkeeping, Holding, Full, Empty, Threads
<2> QED
  BY <2>1, <2>2, <2>3, <2>4 DEF Bookkeeping
<1> QED
  BY <1>1, <1>2, <1>3, <1>4, <1>5, <1>6

LEMMA PushOverStep ==
  ASSUME IInv, NEW t \in Threads, PushOver(t)
  PROVE  IInv'
<1> USE ThreadAssumption DEF IInv, PushOver, Release, Goto, ringVars
<1>1. TypeOK'
  BY DEF TypeOK, MutualExclusion, Inside, Threads, Producers, Poppers, Steps, Bookkeeping
<1>2. MutualExclusion'
  BY DEF TypeOK, MutualExclusion, OutsideUnlocked, Inside, Bookkeeping
<1>3. OutsideUnlocked'
  BY DEF TypeOK, MutualExclusion, OutsideUnlocked, Inside, Bookkeeping
<1>4. FreeSlotsCleared'
<2>1. \A p \in Producers : pc[p] = "stored" => pc'[p] = "stored"
  BY DEF TypeOK, Threads
<2> QED
  BY <2>1 DEF FreeSlotsCleared, Occupied
<1>5. NoLostWakeup'
  BY DEF TypeOK, NoLostWakeup, Empty, Bookkeeping
<1>6. Bookkeeping'
<2>1. \A u \in Threads : pc'[u] \in StepsOf(u)
  BY DEF TypeOK, Bookkeeping, StepsOf, Producers, Poppers, Threads
<2>2. waiters' = {u \in Threads : pc'[u] = "waiting"}
  BY DEF TypeOK, Bookkeeping
<2>3. /\ owner' = NoThread <=> depth' = 0
      /\ owner' \in Threads \ SPollers => depth' = 1
  BY DEF TypeOK, MutualExclusion, OutsideUnlocked, Inside, Bookkeeping
<2>4. ASSUME NEW u \in Threads
      PROVE  /\ IF Holding(u)' THEN hand'[u] \in Entries ELSE hand'[u] = None
             /\ pc'[u] = "stored" => ~Full' /\ rbuf'[push_point'] = hand'[u]
             /\ pc'[u] = "popping2" => ~Empty'
  BY DEF TypeOK, MutualExclusion, Inside, Bookkeeping, Holding, Full, Empty, Threads
<2> QED
  BY <2>1, <2>2, <2>3, <2>4 DEF Bookkeeping
<1> QED
  BY <1>1, <1>2, <1>3, <1>4, <1>5, <1>6

LEMMA PushStoreStep ==
  ASSUME IInv, NEW t \in Threads, PushStore(t)
  PROVE  IInv'
<1> USE ThreadAssumption DEF IInv, PushStore, Stored, Goto, lockVars
<1>1. TypeOK'
<2>1. Stored(rbuf[push_point], hand[t]) \in Entries
  BY DEF TypeOK, Entries, Bookkeeping, Holding
<2> QED
  BY <2>1 DEF TypeOK, Threads, Producers, Poppers, Steps
<1>2. MutualExclusion'
  BY DEF TypeOK, MutualExclusion, OutsideUnlocked, Inside, Bookkeeping
<1>3. OutsideUnlocked'
  BY DEF TypeOK, MutualExclusion, OutsideUnlocked, Inside, Bookkeeping
<1>4. FreeSlotsCleared'
<2>1. t \in Producers /\ pc'[t] = "stored"
  BY DEF TypeOK, Bookkeeping, StepsOf
<2>2. \A i \in Slots : i # push_point => rbuf'[i] = rbuf[i]
  BY DEF TypeOK
<2>3. \A p \in Producers : pc[p] # "stored"
  BY DEF MutualExclusion, Inside, Threads
<2> QED
  BY <2>1, <2>2, <2>3 DEF FreeSlotsCleared, Occupied
<1>5. NoLostWakeup'
  BY DEF TypeOK, NoLostWakeup, Empty, Bookkeeping
<1>6. Bookkeeping'
<2>1. \A u \in Threads : pc'[u] \in StepsOf(u)
  BY DEF TypeOK, Bookkeeping, StepsOf, Producers, Poppers, Threads
<2>2. waiters' = {u \in Threads : pc'[u] = "waiting"}
  BY DEF TypeOK, Bookkeeping
<2>3. hand[t] \in Entries
  BY DEF Bookkeeping, Holding
<2>4. rbuf[push_point].buffer = NULL
<3>1. push_point \in Slots \ Occupied
  BY PushSlotFree DEF TypeOK, Occupied
<3>2. \A p \in Threads : pc[p] # "stored"
  BY DEF MutualExclusion, Inside
<3> QED
  BY <3>1, <3>2 DEF FreeSlotsCleared, Threads
<2>5. rbuf'[push_point] = hand[t]
  BY <2>3, <2>4 DEF TypeOK, Entries
<2> QED
  BY <2>1, <2>2, <2>5
  DEF TypeOK, MutualExclusion, Inside, Bookkeeping, Holding, Full, Empty, Entries
<1> QED
  BY <1>1, <1>2, <1>3, <1>4, <1>5, <1>6

LEMMA PushPublishStep ==
  ASSUME IInv, NEW t \in Threads, PushPublish(t)
  PROVE  IInv'
<1> USE ThreadAssumption DEF IInv, PushPublish, Signal, Goto, lockVars
<1>1. TypeOK'
  BY SuccFact DEF TypeOK, Entries, Threads, Producers, Poppers, Steps, Bookkeeping
<1>2. MutualExclusion'
  BY DEF TypeOK, MutualExclusion, OutsideUnlocked, Inside, Bookkeeping
<1>3. OutsideUnlocked'
  BY DEF TypeOK, MutualExclusion, OutsideUnlocked, Inside, Bookkeeping
<1>4. FreeSlotsCleared'
<2>1. Occupied' = Occupied \cup {push_point}
  BY BetweenPush DEF TypeOK, Occupied, Bookkeeping, Full
<2> QED
  BY <2>1 DEF FreeSlotsCleared, TypeOK
<1>5. NoLostWakeup'
  BY DEF TypeOK, NoLostWakeup, Empty, Bookkeeping
<1>6. Bookkeeping'
<2>1. \A u \in Threads : pc'[u] \in StepsOf(u)
  BY DEF TypeOK, Bookkeeping, StepsOf, Producers, Poppers, Threads
<2>2. waiters' = {u \in Threads : pc'[u] = "waiting"}
  BY DEF TypeOK, Bookkeeping
<2>3. /\ owner' = NoThread <=> depth' = 0
      /\ owner' \in Threads \ SPollers => depth' = 1
  BY DEF TypeOK, MutualExclusion, OutsideUnlocked, Inside, Bookkeeping
<2>4. ASSUME NEW u \in Threads
      PROVE  /\ IF Holding(u)' THEN hand'[u] \in Entries ELSE hand'[u] = None
             /\ pc'[u] = "stored" => ~Full' /\ rbuf'[push_point'] = hand'[u]
             /\ pc'[u] = "popping2" => ~Empty'
<3>1. pc'[u] = pc[u] \/ u = t \/ u \in waiters
  BY DEF TypeOK
<3>2. pc'[u] # "stored" /\ pc'[u] # "popping2"
  BY <3>1 DEF TypeOK, MutualExclusion, Inside, Bookkeeping
<3>3. t \in Producers /\ pc'[t] = "unlocking" /\ hand'[t] = None
  BY DEF TypeOK, Bookkeeping, StepsOf
<3>4. CASE u = t
  BY <3>2, <3>3, <3>4 DEF Holding
<3>5. CASE u # t /\ pc'[u] = pc[u]
  BY <3>2, <3>5 DEF TypeOK, Bookkeeping, Holding
<3>6. CASE u # t /\ pc'[u] # pc[u]
  BY <3>2, <3>6 DEF TypeOK, Bookkeeping, Holding, Threads
<3> QED
  BY <3>4, <3>5, <3>6
<2> QED
  BY <2>1, <2>2, <2>3, <2>4 DEF Bookkeeping
<1> QED
  BY <1>1, <1>2, <1>3, <1>4, <1>5, <1>6

LEMMA PopWaitStep ==
  ASSUME IInv, NEW t \in Threads, PopWait(t)
  PROVE  IInv'
<1> USE ThreadAssumption DEF IInv, PopWait, Release, Goto, ringVars
<1>1. TypeOK'
  BY DEF TypeOK, MutualExclusion, Inside, Threads, Producers, Poppers, Steps, Bookkeeping
<1>2. MutualExclusion'
  BY DEF TypeOK, MutualExclusion, OutsideUnlocked, Inside, Bookkeeping
<1>3. OutsideUnlocked'
  BY DEF TypeOK, MutualExclusion, OutsideUnlocked, Inside, Bookkeeping
<1>4. FreeSlotsCleared'
  BY DEF TypeOK, MutualExclusion, FreeSlotsCleared, Inside, Occupied, Bookkeeping
<1>5. NoLostWakeup'
  BY DEF TypeOK, NoLostWakeup, Empty, Bookkeeping
<1>6. Bookkeeping'
  BY DEF TypeOK, MutualExclusion, OutsideUnlocked, Inside, Bookkeeping, StepsOf, Holding, Full, Empty, Producers, Poppers, Threads
<1> QED
  BY <1>1, <1>2, <1>3, <1>4, <1>5, <1>6

LEMMA SpuriousWakeupStep ==
  ASSUME IInv, NEW t \in Threads, SpuriousWakeup(t)
  PROVE  IInv'
<1> USE ThreadAssumption DEF IInv, SpuriousWakeup, Goto, lockVars, ringVars
<1>1. TypeOK'
  BY SuccFact DEF TypeOK, Entries, Threads, Producers, Poppers, Steps, Bookkeeping
<1>2. MutualExclusion'
  BY DEF TypeOK, MutualExclusion, OutsideUnlocked, Inside, Bookkeeping
<1>3. OutsideUnlocked'
  BY DEF TypeOK, MutualExclusion, OutsideUnlocked, Inside, Bookkeeping
<1>4. FreeSlotsCleared'
  BY DEF TypeOK, MutualExclusion, FreeSlotsCleared, Inside, Occupied, Bookkeeping
<1>5. NoLostWakeup'
  BY DEF TypeOK, NoLostWakeup, Empty, Bookkeeping
<1>6. Bookkeeping'
  BY DEF TypeOK, MutualExclusion, OutsideUnlocked, Inside, Bookkeeping, StepsOf, Holding, Full, Empty, Producers, Poppers, Threads
<1> QED
  BY <1>1, <1>2, <1>3, <1>4, <1>5, <1>6

LEMMA PopEmptyStep ==
  ASSUME IInv, NEW t \in Threads, PopEmpty(t)
  PROVE  IInv'
<1> USE ThreadAssumption DEF IInv, PopEmpty, Release, Goto, ringVars
<1>1. TypeOK'
  BY DEF TypeOK, MutualExclusion, Inside, Threads, Producers, Poppers, Steps, Bookkeeping
<1>2. MutualExclusion'
  BY DEF TypeOK, MutualExclusion, OutsideUnlocked, Inside, Bookkeeping
<1>3. OutsideUnlocked'
  BY DEF TypeOK, MutualExclusion, OutsideUnlocked, Inside, Bookkeeping
<1>4. FreeSlotsCleared'
  BY DEF TypeOK, MutualExclusion, FreeSlotsCleared, Inside, Occupied, Bookkeeping
<1>5. NoLostWakeup'
  BY DEF TypeOK, NoLostWakeup, Empty, Bookkeeping
<1>6. Bookkeeping'
  BY DEF TypeOK, MutualExclusion, OutsideUnlocked, Inside, Bookkeeping, StepsOf, Holding, Full, Empty, Producers, Poppers, Threads
<1> QED
  BY <1>1, <1>2, <1>3, <1>4, <1>5, <1>6

LEMMA SPopRelockStep ==
  ASSUME IInv, NEW t \in Threads, SPopRelock(t)
  PROVE  IInv'
<1> USE ThreadAssumption DEF IInv, SPopRelock, Acquire, Goto, ringVars
<1>1. TypeOK'
  BY SuccFact DEF TypeOK, Entries, Threads, Producers, Poppers, Steps, Bookkeeping
<1>2. MutualExclusion'
  BY DEF TypeOK, MutualExclusion, OutsideUnlocked, Inside, Bookkeeping
<1>3. OutsideUnlocked'
  BY DEF TypeOK, MutualExclusion, OutsideUnlocked, Inside, Bookkeeping
<1>4. FreeSlotsCleared'
  BY DEF TypeOK, MutualExclusion, FreeSlotsCleared, Inside, Occupied, Bookkeeping
<1>5. NoLostWakeup'
  BY DEF TypeOK, NoLostWakeup, Empty, Bookkeeping
<1>6. Bookkeeping'
  BY DEF TypeOK, MutualExclusion, OutsideUnlocked, Inside, Bookkeeping, StepsOf, Holding, Full, Empty, Producers, Poppers, Threads
<1> QED
  BY <1>1, <1>2, <1>3, <1>4, <1>5, <1>6

LEMMA PopTakeStep ==
  ASSUME IInv, NEW t \in Threads, PopTake(t)
  PROVE  IInv'
<1> USE ThreadAssumption DEF IInv, PopTake, Cleared, Goto, lockVars
<1>1. TypeOK'
  BY SuccFact, ValueAssumption DEF TypeOK, Entries, Threads, Producers, Poppers, Steps
<1>2. MutualExclusion'
  BY DEF TypeOK, MutualExclusion, OutsideUnlocked, Inside, Bookkeeping
<1>3. OutsideUnlocked'
  BY DEF TypeOK, MutualExclusion, OutsideUnlocked, Inside, Bookkeeping
<1>4. FreeSlotsCleared'
<2>1. Occupied' = Occupied \ {pop_point}
  BY BetweenPop DEF TypeOK, Occupied, Empty
<2>2. \A p \in Producers : pc[p] # "stored"
  BY DEF MutualExclusion, Inside, Threads
<2>3. rbuf'[pop_point].buffer = NULL
  BY DEF TypeOK
<2>4. \A i \in Slots : i # pop_point => rbuf'[i] = rbuf[i]
  BY DEF TypeOK
<2> QED
  BY <2>1, <2>2, <2>3, <2>4 DEF FreeSlotsCleared, TypeOK
<1>5. NoLostWakeup'
  BY DEF TypeOK, NoLostWakeup, Empty, Bookkeeping
<1>6. Bookkeeping'
  BY DEF TypeOK, MutualExclusion, OutsideUnlocked, Inside, Bookkeeping, StepsOf, Holding, Full, Empty, Producers, Poppers, Threads
<1> QED
  BY <1>1, <1>2, <1>3, <1>4, <1>5, <1>6

LEMMA UseStep ==
  ASSUME IInv, NEW t \in Threads, Use(t)
  PROVE  IInv'
<1> USE ThreadAssumption DEF IInv, Use, Goto, lockVars, ringVars
<1>1. TypeOK'
  BY SuccFact DEF TypeOK, Entries, Threads, Producers, Poppers, Steps, Bookkeeping
<1>2. MutualExclusion'
  BY DEF TypeOK, MutualExclusion, OutsideUnlocked, Inside, Bookkeeping
<1>3. OutsideUnlocked'
  BY DEF TypeOK, MutualExclusion, OutsideUnlocked, Inside, Bookkeeping
<1>4. FreeSlotsCleared'
  BY DEF TypeOK, MutualExclusion, FreeSlotsCleared, Inside, Occupied, Bookkeeping
<1>5. NoLostWakeup'
  BY DEF TypeOK, NoLostWakeup, Empty, Bookkeeping
<1>6. Bookkeeping'
  BY DEF TypeOK, MutualExclusion, OutsideUnlocked, Inside, Bookkeeping, StepsOf, Holding, Full, Empty, Producers, Poppers, Threads
<1> QED
  BY <1>1, <1>2, <1>3, <1>4, <1>5, <1>6
LEMMA NextStep == IInv /\ [Next]_vars => IInv'
<1> SUFFICES ASSUME IInv, [Next]_vars PROVE IInv'
  OBVIOUS
<1>1. ASSUME NEW t \in Producers, NEW e \in Entries, Call(t, e) PROVE IInv'
  BY <1>1, CallStep
<1>2. ASSUME NEW t \in Threads, Lock(t) \/ Proceed(t) \/ SpuriousWakeup(t)
      PROVE  IInv'
  BY <1>2, LockStep, UnlockStep, PushOverStep, PushStoreStep, PushPublishStep,
     PopWaitStep, SpuriousWakeupStep, PopEmptyStep, SPopRelockStep, PopTakeStep,
     UseStep
  DEF Proceed
<1>3. CASE UNCHANGED vars
  BY <1>3
  DEF vars, IInv, TypeOK, MutualExclusion, OutsideUnlocked, Inside,
      FreeSlotsCleared, Occupied, NoLostWakeup, Empty, Full, Bookkeeping, StepsOf, Holding
<1> QED
  BY <1>1, <1>2, <1>3 DEF Next

\* Every reachable state of the ring satisfies the inductive invariant.
THEOREM Invariance == Spec => []IInv
  BY InitIInv, NextStep, PTL DEF Spec

\* The state of the ring keeps its types, the indices inside the array.
THEOREM TypeCorrect == Spec => []TypeOK
  BY Invariance, PTL DEF IInv

\* Only the holder of the mutex is inside a ring function (ring.h:69, 131).
THEOREM Exclusion == Spec => []MutualExclusion
  BY Invariance, PTL DEF IInv

\* A slot outside the queue holds no buffer, so that a push without a buffer
\* delivers none (ring.h:78-90).
THEOREM ClearedSlots == Spec => []FreeSlotsCleared
  BY Invariance, PTL DEF IInv

\* Entries never wait for consumers that are all asleep (ring.h:93, 160-164).
THEOREM Wakeups == Spec => []NoLostWakeup
  BY Invariance, PTL DEF IInv

\* Whoever is outside the functions does not hold the mutex, callers of
\* ring_s_pop excepted (ring.h:181-206).
THEOREM Outside == Spec => []OutsideUnlocked
  BY Invariance, PTL DEF IInv


-----------------------------------------------------------------------------
(* The ring implements the bounded queue *)

LEMMA WrapFact ==
  ASSUME NEW n \in Nat, n > 0, NEW i \in 0 .. 2 * n - 1
  PROVE  i % n = IF i < n THEN i ELSE i - n
  OBVIOUS

\* The indices as numbers, for the provers' arithmetic.
LEMMA IndexFact ==
  ASSUME push_point \in Slots, pop_point \in Slots
  PROVE  /\ ring_size \in Nat /\ ring_size > 0
         /\ push_point \in Nat /\ push_point < ring_size
         /\ pop_point \in Nat /\ pop_point < ring_size
         /\ Succ(push_point) = IF push_point = ring_size - 1 THEN 0 ELSE push_point + 1
         /\ Succ(pop_point) = IF pop_point = ring_size - 1 THEN 0 ELSE pop_point + 1
<1>1. ring_size \in Nat /\ ring_size > 0
  BY SizeFact
<1> QED
  BY <1>1, SuccFact DEF Slots

\* The i-th entry of the queue lies in an occupied slot, and in one only.
LEMMA QueueFact ==
  ASSUME TypeOK
  PROVE  /\ Length \in 0 .. ring_size - 1
         /\ Length = ring_size - 1 <=> Full
         /\ Length = 0 <=> Empty
         /\ \A i \in 1 .. Length :
              /\ (pop_point + i - 1) % ring_size \in Slots
              /\ (pop_point + i - 1) % ring_size # push_point
         /\ Queue \in Seq(Entries)
         /\ Len(Queue) = Length
<1>0. push_point \in Slots /\ pop_point \in Slots /\ rbuf \in [Slots -> Entries]
  BY DEF TypeOK
<1>1. /\ Length \in 0 .. ring_size - 1
      /\ Length = ring_size - 1 <=> Full
      /\ Length = 0 <=> Empty
  BY <1>0, IndexFact DEF Length, Full, Empty
<1>2. ASSUME NEW i \in 1 .. Length
      PROVE  /\ (pop_point + i - 1) % ring_size \in Slots
             /\ (pop_point + i - 1) % ring_size # push_point
  <2>1. pop_point + i - 1 \in 0 .. 2 * ring_size - 1
    BY <1>0, <1>1, IndexFact
  <2>2. /\ ring_size \in Nat /\ ring_size > 0
        /\ push_point \in Nat /\ push_point < ring_size
        /\ pop_point \in Nat /\ pop_point < ring_size
    BY <1>0, IndexFact
  <2>3. (pop_point + i - 1) % ring_size =
          IF pop_point + i - 1 < ring_size THEN pop_point + i - 1
          ELSE pop_point + i - 1 - ring_size
    BY <2>1, <2>2, WrapFact
  <2>4. (pop_point + i - 1) % ring_size # push_point
    BY <2>2, <2>3 DEF Length
  <2>5. (pop_point + i - 1) % ring_size \in Slots
    BY <2>1, <2>2, <2>3 DEF Slots
  <2> QED
    BY <2>4, <2>5
<1>3. Queue \in Seq(Entries) /\ Len(Queue) = Length
  BY <1>0, <1>1, <1>2 DEF Queue
<1> QED
  BY <1>1, <1>2, <1>3

\* Filling the slot of push_point does not touch the queue.
LEMMA StoreKeepsQueue ==
  ASSUME TypeOK, NEW t \in Threads, PushStore(t)
  PROVE  Queue' = Queue
  BY QueueFact DEF PushStore, Queue, Length, TypeOK

\* Advancing push_point appends the entry of the pusher.
LEMMA PublishAppends ==
  ASSUME IInv, NEW t \in Threads, PushPublish(t)
  PROVE  Queue' = Append(Queue, hand[t])
<1> USE DEF IInv, TypeOK, PushPublish
<1>0. push_point \in Slots /\ pop_point \in Slots
  OBVIOUS
<1>1. ~Full /\ rbuf[push_point] = hand[t]
  BY DEF Bookkeeping
<1>2. Length' = Length + 1
  <2>1. push_point' = Succ(push_point) /\ pop_point' = pop_point
    OBVIOUS
  <2> QED
    BY <1>0, <1>1, <2>1, IndexFact DEF Length, Full
<1>3. (pop_point + Length) % ring_size = push_point
  <2>1. pop_point + Length \in 0 .. 2 * ring_size - 1
    BY <1>0, IndexFact DEF Length
  <2> HIDE DEF IInv, TypeOK, PushPublish
  <2>2. /\ ring_size \in Nat /\ ring_size > 0
        /\ push_point \in Nat /\ push_point < ring_size
        /\ pop_point \in Nat /\ pop_point < ring_size
    BY <1>0, IndexFact
  <2>4. Length \in Nat
    BY <1>0, IndexFact DEF Length
  <2>3. (pop_point + Length) % ring_size =
          IF pop_point + Length < ring_size THEN pop_point + Length
          ELSE pop_point + Length - ring_size
    BY <2>1, <2>2, <2>4, WrapFact
  <2> QED
    BY <2>2, <2>3 DEF Length
<1>4. Queue' = [i \in 1 .. Length + 1 |-> rbuf[(pop_point + i - 1) % ring_size]]
  BY <1>2 DEF Queue
<1>5. Length \in Nat /\ Len(Queue) = Length /\ Queue \in Seq(Entries)
  BY QueueFact
<1>6. Append(Queue, hand[t]) =
        [i \in 1 .. Length + 1 |-> IF i = Length + 1 THEN hand[t] ELSE Queue[i]]
  BY <1>5
<1>7. ASSUME NEW i \in 1 .. Length + 1
      PROVE  rbuf[(pop_point + i - 1) % ring_size] =
               IF i = Length + 1 THEN hand[t] ELSE Queue[i]
  <2>1. CASE i = Length + 1
    BY <2>1, <1>1, <1>3, <1>5
  <2>2. CASE i \in 1 .. Length
    BY <2>2, <1>5 DEF Queue
  <2> QED
    BY <2>1, <2>2, <1>5
<1> QED
  BY <1>4, <1>6, <1>7

LEMMA TailFact ==
  ASSUME NEW S, NEW q \in Seq(S), q # <<>>
  PROVE  Tail(q) = [i \in 1 .. Len(q) - 1 |-> q[i + 1]]
<1>1. /\ Tail(q) \in Seq(S) /\ Len(Tail(q)) = Len(q) - 1
      /\ \A i \in 1 .. Len(Tail(q)) : Tail(q)[i] = q[i + 1]
  BY HeadTailProperties
<1> DEFINE r == [i \in 1 .. Len(q) - 1 |-> q[i + 1]]
<1>2. Len(q) \in Nat /\ Len(q) > 0
  OBVIOUS
<1>3. /\ r \in Seq(S) /\ Len(r) = Len(q) - 1
      /\ \A i \in 1 .. Len(q) - 1 : r[i] = q[i + 1]
  BY <1>2
<1> HIDE DEF r
<1>4. Tail(q) = r
  BY <1>1, <1>3, SeqEqual
<1> QED
  BY <1>4 DEF r

\* A pop takes the head of the queue.
LEMMA TakeDequeues ==
  ASSUME IInv, NEW t \in Threads, PopTake(t)
  PROVE  /\ Queue # <<>>
         /\ rbuf[pop_point] = Head(Queue)
         /\ Queue' = Tail(Queue)
<1> USE DEF IInv, TypeOK, PopTake
<1>0. /\ push_point \in Slots /\ pop_point \in Slots
      /\ push_point' = push_point /\ pop_point' = Succ(pop_point)
      /\ push_point # pop_point
  BY DEF Empty
<1>1. Length \in 1 .. ring_size - 1 /\ Len(Queue) = Length /\ Queue \in Seq(Entries)
  BY QueueFact DEF Length, Empty
<1>2. pop_point % ring_size = pop_point
  BY <1>0, IndexFact, WrapFact
<1>3. Queue # <<>> /\ rbuf[pop_point] = Head(Queue)
  <2>1. Queue # <<>> /\ Head(Queue) = Queue[1]
    BY <1>1
  <2>2. Queue[1] = rbuf[(pop_point + 1 - 1) % ring_size]
    BY <1>1 DEF Queue
  <2>3. pop_point + 1 - 1 = pop_point
    BY <1>0, IndexFact
  <2> QED
    BY <1>2, <2>1, <2>2, <2>3
<1>4. Length' = Length - 1
  BY <1>0, IndexFact DEF Length
<1>5. ASSUME NEW i \in 1 .. Length - 1
      PROVE  rbuf'[(pop_point' + i - 1) % ring_size] = Queue[i + 1]
  <2>0. /\ ring_size \in Nat /\ ring_size > 0
        /\ pop_point \in Nat /\ pop_point < ring_size
        /\ pop_point' = IF pop_point = ring_size - 1 THEN 0 ELSE pop_point + 1
        /\ i \in Nat /\ i > 0 /\ i < ring_size - 1
    BY <1>0, <1>1, IndexFact
  <2>1. /\ pop_point' + i - 1 \in 0 .. 2 * ring_size - 1
        /\ pop_point + i \in 0 .. 2 * ring_size - 1
    BY <2>0
  <2>2. (pop_point' + i - 1) % ring_size = (pop_point + i) % ring_size
    BY <2>0, <2>1, WrapFact
  <2>3. /\ (pop_point + i) % ring_size \in Slots
        /\ (pop_point + i) % ring_size # pop_point
    BY <2>0, <2>1, WrapFact DEF Slots
  <2>4. Queue[i + 1] = rbuf[(pop_point + i) % ring_size]
    <3>1. Queue[i + 1] = rbuf[(pop_point + (i + 1) - 1) % ring_size]
      BY <1>1 DEF Queue
    <3>2. pop_point + (i + 1) - 1 = pop_point + i
      BY <2>0
    <3> QED
      BY <3>1, <3>2
  <2> QED
    BY <2>2, <2>3, <2>4
<1>6. Queue' = [i \in 1 .. Length - 1 |-> Queue[i + 1]]
  BY <1>4, <1>5 DEF Queue
<1>7. Tail(Queue) = [i \in 1 .. Length - 1 |-> Queue[i + 1]]
  BY <1>1, <1>3, TailFact
<1> QED
  BY <1>3, <1>6, <1>7

LEMMA StepSimulation ==
  ASSUME IInv, [Next]_vars
  PROVE  [Abstract!Next]_(Abstract!vars)
<1> USE ThreadAssumption DEF Abstract!vars
<1>1. ASSUME NEW t \in Producers, NEW e \in Entries, Call(t, e)
      PROVE  [Abstract!Next]_(Abstract!vars)
  <2>1. hand[t] = None
    BY <1>1 DEF IInv, Call, Bookkeeping, Holding, Threads
  <2>2. Queue' = Queue
    BY <1>1 DEF Call, ringVars, Queue, Length
  <2>3. Abstract!Offer(t, e)
    BY <1>1, <2>1, <2>2 DEF Call, Abstract!Offer
  <2> QED
    BY <2>3 DEF Abstract!Next
<1>2. ASSUME NEW t \in Threads, UNCHANGED <<ringVars, hand>>
      PROVE  [Abstract!Next]_(Abstract!vars)
  BY <1>2 DEF ringVars, Queue, Length
<1>3. ASSUME NEW t \in Threads, PushOver(t)
      PROVE  [Abstract!Next]_(Abstract!vars)
  <2>1. Queue' = Queue
    BY <1>3 DEF PushOver, ringVars, Queue, Length
  <2>2. Len(Queue) = ring_size - 1
    BY <1>3, QueueFact DEF IInv, PushOver
  <2>3. t \in Producers /\ hand[t] \in Entries
    BY <1>3 DEF IInv, PushOver, Bookkeeping, Holding, StepsOf
  <2>4. hand' = hand \/ hand' = [hand EXCEPT ![t] = None]
    BY <1>3 DEF PushOver
  <2>5. hand[t] # None
    BY <2>3, ValueAssumption DEF Entries
  <2> QED
    BY <2>1, <2>2, <2>3, <2>4, <2>5 DEF Abstract!Next, Abstract!Refuse
<1>4. ASSUME NEW t \in Threads, PushStore(t)
      PROVE  [Abstract!Next]_(Abstract!vars)
  BY <1>4, StoreKeepsQueue DEF IInv, PushStore
<1>5. ASSUME NEW t \in Threads, PushPublish(t)
      PROVE  [Abstract!Next]_(Abstract!vars)
  <2>1. t \in Producers /\ hand[t] \in Entries /\ ~Full
    BY <1>5 DEF IInv, PushPublish, Bookkeeping, Holding, StepsOf
  <2>2. Len(Queue) < ring_size - 1
    BY <2>1, SizeFact, QueueFact DEF IInv
  <2>3. hand[t] # None
    BY <2>1, ValueAssumption DEF Entries
  <2>4. hand' = [hand EXCEPT ![t] = None]
    BY <1>5 DEF PushPublish
  <2>5. Abstract!Accept(t)
    BY <1>5, <2>2, <2>3, <2>4, PublishAppends DEF Abstract!Accept
  <2> QED
    BY <2>1, <2>5 DEF Abstract!Next
<1>6. ASSUME NEW t \in Threads, PopTake(t)
      PROVE  [Abstract!Next]_(Abstract!vars)
  <2>1. t \in Poppers /\ hand[t] = None
    BY <1>6 DEF IInv, PopTake, Bookkeeping, Holding
  <2>2. hand' = [hand EXCEPT ![t] = rbuf[pop_point]]
    BY <1>6 DEF PopTake
  <2>3. Abstract!Deliver(t)
    BY <1>6, <2>1, <2>2, TakeDequeues DEF Abstract!Deliver
  <2> QED
    BY <2>1, <2>3 DEF Abstract!Next
<1>7. ASSUME NEW t \in Threads, Use(t)
      PROVE  [Abstract!Next]_(Abstract!vars)
  <2>1. t \in Poppers /\ hand[t] \in Entries
    BY <1>7 DEF IInv, Use, Bookkeeping, Holding, StepsOf, Threads
  <2>2. hand[t] # None
    BY <2>1, ValueAssumption DEF Entries
  <2>3. Queue' = Queue /\ hand' = [hand EXCEPT ![t] = None]
    BY <1>7 DEF Use, ringVars, Queue, Length
  <2> QED
    BY <2>1, <2>2, <2>3 DEF Abstract!Next, Abstract!Consume
<1>8. ASSUME NEW t \in Threads, Lock(t) \/ Proceed(t) \/ SpuriousWakeup(t)
      PROVE  [Abstract!Next]_(Abstract!vars)
  BY <1>8, <1>2, <1>3, <1>4, <1>5, <1>6, <1>7
  DEF Lock, SpuriousWakeup, Proceed, PopWait, PopEmpty, SPopRelock, Unlock
<1>9. CASE UNCHANGED vars
  BY <1>9 DEF vars, Queue, Length
<1> QED
  BY <1>1, <1>8, <1>9 DEF Next

\* The ring of ring.h is a bounded FIFO queue: what its functions do, with
\* any number of threads, is what the queue of ring_size - 1 entries does.
THEOREM Refinement == Spec => ImplementsQueue
<1>1. Init => Abstract!Init
  <2> SUFFICES ASSUME Init PROVE Abstract!Init
    OBVIOUS
  <2>1. Length = 0
    BY DEF Init, Length
  <2>2. Queue = <<>>
    BY <2>1 DEF Queue
  <2> QED
    BY <2>2 DEF Init, Abstract!Init, Abstract!Threads, Threads
<1>2. IInv /\ [Next]_vars => [Abstract!Next]_(Abstract!vars)
  BY StepSimulation
<1> QED
  BY <1>1, <1>2, Invariance, PTL DEF Spec, ImplementsQueue, Abstract!Spec

=============================================================================
