-------------------------------- MODULE Ring --------------------------------
(***************************************************************************)
(* The ring buffer of src/src/ring.h, through which the threads of         *)
(* natporte hand packets and orders to each other: an array of ring_size   *)
(* slots, two indices, one recursive mutex and one condition variable.     *)
(*                                                                         *)
(* A packet buffer is a value: malloc() of a copy in ring_push and the     *)
(* transfer of the caller's pointer in ring_s_push leave the same entry in *)
(* the slot.  buffer and size change together in every function, so the    *)
(* model keeps the buffer only (NULL is size 0).                           *)
(***************************************************************************)
EXTENDS Naturals

CONSTANTS
    Spinners,      \* producers that call ring_push until it returns RING_OK
    Droppers,      \* producers that ignore what ring_push returns
    Consumers,     \* callers of ring_pop_condblock and ring_s_pop_condblock
    Pollers,       \* callers of ring_pop
    SPollers,      \* callers of ring_s_pop
    Buffers,       \* packet buffers
    Opaques,       \* the flags that travel with a buffer, 0 among them
    RequestedSize, \* the ring_size argument of ring_init
    NULL, None, NoThread

Producers == Spinners \cup Droppers
Poppers == Consumers \cup Pollers \cup SPollers
Threads == Producers \cup Poppers

ASSUME SizeAssumption == RequestedSize \in Nat
ASSUME ThreadAssumption ==
    /\ Producers \cap Poppers = {}
    /\ Spinners \cap Droppers = {}
    /\ Consumers \cap (Pollers \cup SPollers) = {}
    /\ Pollers \cap SPollers = {}
    /\ NoThread \notin Threads
ASSUME ValueAssumption ==
    0 \in Opaques /\ NULL \notin Buffers /\ None \notin [buffer : Buffers \cup {NULL}, opaque : Opaques]

ring_size == IF RequestedSize = 0 THEN 10 ELSE RequestedSize
Slots == 0 .. ring_size - 1
Entries == [buffer : Buffers \cup {NULL}, opaque : Opaques]

\* Mutant: the index does not wrap.
Succ_NoWrap(i) == i + 1

Succ(i) == (i + 1) % ring_size

VARIABLES
    owner, depth,           \* the recursive mutex: holder and lock count
    waiters,                \* threads blocked in pthread_cond_wait
    push_point, pop_point,
    rbuf,
    pc,
    hand                    \* the entry a thread pushes, or has popped

vars == <<owner, depth, waiters, push_point, pop_point, rbuf, pc, hand>>

lockVars == <<owner, depth>>
ringVars == <<push_point, pop_point, rbuf>>

Steps == {"idle", "push", "pushing", "stored",
          "pop", "popping", "popping2", "waiting", "unlocking", "using"}

\* ring_init: indices at 0 and empty buffers; opaque is left as malloc gave it.
Init ==
    /\ owner = NoThread /\ depth = 0
    /\ waiters = {}
    /\ push_point = 0 /\ pop_point = 0
    /\ rbuf \in [Slots -> [buffer : {NULL}, opaque : Opaques]]
    /\ pc = [t \in Threads |-> IF t \in Producers THEN "idle" ELSE "pop"]
    /\ hand = [t \in Threads |-> None]

Goto(t, step) == pc' = [pc EXCEPT ![t] = step]

\* Mutant: the lock does not look at its holder.
Acquire_Shared(t) == owner' = t /\ depth' = 1

Acquire(t) ==
    \/ owner = NoThread /\ owner' = t /\ depth' = 1
    \/ owner = t /\ owner' = t /\ depth' = depth + 1

\* Mutant: a return without the unlock.
Release_Forgotten == UNCHANGED lockVars

Release ==
    /\ depth' = depth - 1
    /\ owner' = IF depth = 1 THEN NoThread ELSE owner

\* pthread_mutex_lock at the head of every function.
Lock(t) ==
    /\ Acquire(t)
    /\ \/ pc[t] = "push" /\ Goto(t, "pushing")
       \/ pc[t] = "pop" /\ Goto(t, "popping")
    /\ UNCHANGED <<waiters, ringVars, hand>>

Unlock(t) ==
    /\ pc[t] = "unlocking"
    /\ Release
    /\ Goto(t, IF t \in Producers THEN "idle" ELSE "using")
    /\ UNCHANGED <<waiters, ringVars, hand>>

-----------------------------------------------------------------------------
(* ring_push and ring_s_push *)

Call(t, e) ==
    /\ pc[t] = "idle"
    /\ hand' = [hand EXCEPT ![t] = e]
    /\ Goto(t, "push")
    /\ UNCHANGED <<lockVars, waiters, ringVars>>

Full == Succ(push_point) = pop_point

\* RING_OVER: a Spinner calls again with the same entry, a Dropper goes on.
PushOver(t) ==
    /\ pc[t] = "pushing"
    /\ Full
    /\ Release
    /\ IF t \in Spinners
       THEN Goto(t, "push") /\ UNCHANGED hand
       ELSE Goto(t, "idle") /\ hand' = [hand EXCEPT ![t] = None]
    /\ UNCHANGED <<waiters, ringVars>>

\* Mutant: the flags of the entry are not stored.
Stored_StaleOpaque(slot, e) ==
    [slot EXCEPT !.buffer = IF e.buffer # NULL THEN e.buffer ELSE @]

\* An entry without a buffer leaves the slot's buffer as it is.
Stored(slot, e) ==
    [buffer |-> IF e.buffer # NULL THEN e.buffer ELSE slot.buffer,
     opaque |-> e.opaque]

PushStore(t) ==
    /\ pc[t] = "pushing"
    /\ ~Full
    /\ rbuf' = [rbuf EXCEPT ![push_point] = Stored(@, hand[t])]
    /\ Goto(t, "stored")
    /\ UNCHANGED <<lockVars, waiters, push_point, pop_point, hand>>

\* Mutant: nobody is woken.
Signal_Missing(t) == Goto(t, "unlocking") /\ UNCHANGED waiters

\* pthread_cond_signal wakes one waiter, if any.
Signal(t) ==
    \/ waiters = {} /\ Goto(t, "unlocking") /\ UNCHANGED waiters
    \/ \E w \in waiters :
         /\ waiters' = waiters \ {w}
         /\ pc' = [pc EXCEPT ![t] = "unlocking", ![w] = "pop"]

\* push_point = next, and the signal.
PushPublish(t) ==
    /\ pc[t] = "stored"
    /\ push_point' = Succ(push_point)
    /\ hand' = [hand EXCEPT ![t] = None]
    /\ Signal(t)
    /\ UNCHANGED <<lockVars, pop_point, rbuf>>

-----------------------------------------------------------------------------
(* The pop functions *)

Empty == push_point = pop_point

\* pthread_cond_wait gives the mutex up and blocks in one step.
PopWait(t) ==
    /\ t \in Consumers /\ pc[t] = "popping"
    /\ Empty
    /\ waiters' = waiters \cup {t}
    /\ Goto(t, "waiting")
    /\ Release
    /\ UNCHANGED <<ringVars, hand>>

\* A wakeup without a signal, which POSIX allows; the loop tests again.
SpuriousWakeup(t) ==
    /\ t \in waiters
    /\ waiters' = waiters \ {t}
    /\ Goto(t, "pop")
    /\ UNCHANGED <<lockVars, ringVars, hand>>

\* RING_EMPTY.
PopEmpty(t) ==
    /\ t \in Pollers \cup SPollers /\ pc[t] = "popping"
    /\ Empty
    /\ Release
    /\ Goto(t, "pop")
    /\ UNCHANGED <<waiters, ringVars, hand>>

\* ring_s_pop locks the mutex a second time before it takes the entry.
SPopRelock(t) ==
    /\ t \in SPollers /\ pc[t] = "popping"
    /\ ~Empty
    /\ Acquire(t)
    /\ Goto(t, "popping2")
    /\ UNCHANGED <<waiters, ringVars, hand>>

\* Mutant: the buffer pointer stays in the slot.
Cleared_KeepsBuffer(slot) == [slot EXCEPT !.opaque = 0]

Cleared(slot) == [slot EXCEPT !.buffer = NULL, !.opaque = 0]

PopTake(t) ==
    /\ pc[t] = IF t \in SPollers THEN "popping2" ELSE "popping"
    /\ t \in Poppers
    /\ ~Empty
    /\ hand' = [hand EXCEPT ![t] = rbuf[pop_point]]
    /\ rbuf' = [rbuf EXCEPT ![pop_point] = Cleared(@)]
    /\ pop_point' = Succ(pop_point)
    /\ Goto(t, "unlocking")
    /\ UNCHANGED <<lockVars, waiters, push_point>>

\* The caller handles the entry, frees its buffer and pops again.
Use(t) ==
    /\ pc[t] = "using"
    /\ hand' = [hand EXCEPT ![t] = None]
    /\ Goto(t, "pop")
    /\ UNCHANGED <<lockVars, waiters, ringVars>>

-----------------------------------------------------------------------------

\* What a thread does while it holds the mutex, or after it gave it up.
Proceed(t) ==
    \/ PushOver(t) \/ PushStore(t) \/ PushPublish(t)
    \/ PopWait(t) \/ PopEmpty(t) \/ SPopRelock(t) \/ PopTake(t)
    \/ Unlock(t) \/ Use(t)

Next ==
    \/ \E t \in Producers, e \in Entries : Call(t, e)
    \/ \E t \in Threads : Lock(t) \/ Proceed(t) \/ SpuriousWakeup(t)

Spec == Init /\ [][Next]_vars

(***************************************************************************)
(* A thread inside a function goes on, and a thread that keeps asking for  *)
(* the mutex is granted it in the end: strong fairness, because a spinning *)
(* producer releases and takes the mutex again and again.  Nothing is      *)
(* assumed of the arrival of entries, nor of spurious wakeups.             *)
(***************************************************************************)
FairSpec ==
    /\ Spec
    /\ \A t \in Threads : WF_vars(Proceed(t)) /\ SF_vars(Lock(t))

-----------------------------------------------------------------------------
(* Properties *)

\* The types of the ring (ring.h:14-61): the indices stay inside the array.
TypeOK ==
    /\ owner \in Threads \cup {NoThread}
    /\ depth \in Nat
    /\ waiters \subseteq Consumers
    /\ push_point \in Slots /\ pop_point \in Slots
    /\ rbuf \in [Slots -> Entries]
    /\ pc \in [Threads -> Steps]
    /\ hand \in [Threads -> Entries \cup {None}]

Inside(t) == pc[t] \in {"pushing", "stored", "popping", "popping2", "unlocking"}

\* A thread between lock and unlock is the holder of the mutex, so that no
\* two threads touch the indices or a slot at once (every ring_* function).
MutualExclusion == \A t \in Threads : Inside(t) => owner = t

\* The slots from one index up to the one before the other.
Between(from, to) ==
    IF from <= to THEN from .. to - 1
    ELSE (from .. ring_size - 1) \cup (0 .. to - 1)

Occupied == Between(pop_point, push_point)

\* A slot outside the queue holds no buffer, unless a producer has filled it
\* and not yet published it.  ring_push relies on this: with an empty buffer
\* it does not write the slot, and a buffer left there by an earlier pop
\* would be delivered, and freed, a second time (ring.h:78-88, 144-146).
FreeSlotsCleared ==
    \A i \in Slots \ Occupied :
        \/ rbuf[i].buffer = NULL
        \/ i = push_point /\ \E t \in Producers : pc[t] = "stored"

\* Entries never wait for consumers that are all asleep: the consumers test
\* the indices under the mutex and every push signals (ring.h:93, 160-164).
NoLostWakeup == Consumers # {} /\ ~Empty => waiters # Consumers

\* A producer or a blocking consumer that is outside the functions does not
\* hold the mutex.  ring_s_pop callers are left out: on success it locks
\* twice and unlocks once, and its thread keeps the mutex (ring.h:183-203).
OutsideUnlocked ==
    \A t \in Threads \ SPollers : owner = t => Inside(t)

\* What makes the invariants inductive: which steps a role can be at, who is
\* in waiters, how often the mutex is locked, and what the step of the holder
\* already knows of the indices.
StepsOf(t) ==
    IF t \in Producers THEN {"idle", "push", "pushing", "stored", "unlocking"}
    ELSE {"pop", "popping", "unlocking", "using"} \cup
         (IF t \in Consumers THEN {"waiting"} ELSE {}) \cup
         (IF t \in SPollers THEN {"popping2"} ELSE {})

Holding(t) ==
    \/ pc[t] \in {"push", "pushing", "stored", "using"}
    \/ pc[t] = "unlocking" /\ t \in Poppers

Bookkeeping ==
    /\ \A t \in Threads : pc[t] \in StepsOf(t)
    /\ waiters = {t \in Threads : pc[t] = "waiting"}
    /\ owner = NoThread <=> depth = 0
    /\ owner \in Threads \ SPollers => depth = 1
    /\ \A t \in Threads :
         /\ IF Holding(t) THEN hand[t] \in Entries ELSE hand[t] = None
         /\ pc[t] = "stored" => ~Full /\ rbuf[push_point] = hand[t]
         /\ pc[t] = "popping2" => ~Empty

IInv ==
    /\ TypeOK /\ MutualExclusion /\ OutsideUnlocked
    /\ FreeSlotsCleared /\ NoLostWakeup /\ Bookkeeping

\* An accepted entry is popped in the end.
EveryEntryDelivered ==
    \A i \in Slots : i \in Occupied ~> i \notin Occupied

\* The loops around ring_push end, since the consumer makes room
\* (divert.h:218-224, main.cpp:439-444).
SpinEnds == \A t \in Spinners : pc[t] = "push" ~> pc[t] = "idle"

\* The ring implements the bounded queue of ring_size - 1 entries.
Length ==
    IF pop_point <= push_point THEN push_point - pop_point
    ELSE ring_size - pop_point + push_point
Queue == [i \in 1 .. Length |-> rbuf[(pop_point + i - 1) % ring_size]]

Abstract == INSTANCE BoundedQueue WITH
    Capacity <- ring_size - 1, queue <- Queue

\* Every step of the ring is a step of the FIFO queue: no entry is lost,
\* duplicated, reordered or mixed up with another, and a producer gives one
\* up only when the ring is full (ring_push and the four pop functions).
ImplementsQueue == Abstract!Spec
=============================================================================
