---------------------------- MODULE BoundedQueue ----------------------------
(***************************************************************************)
(* What the rings of natporte promise to the threads that share them: a    *)
(* FIFO of at most Capacity entries.  A producer keeps its entry until the *)
(* queue takes it, and an entry is given up only when the queue is full.   *)
(***************************************************************************)
EXTENDS Naturals, Sequences

CONSTANTS Producers, Poppers, Entries, Capacity, None

Threads == Producers \cup Poppers

VARIABLES queue,   \* the entries accepted and not yet delivered, oldest first
          hand     \* the entry each thread holds: to push, or just popped

vars == <<queue, hand>>

Init == queue = <<>> /\ hand = [t \in Threads |-> None]

\* A producer starts a push.
Offer(t, e) ==
    /\ hand[t] = None
    /\ hand' = [hand EXCEPT ![t] = e]
    /\ UNCHANGED queue

\* The queue takes the entry.
Accept(t) ==
    /\ hand[t] # None
    /\ Len(queue) < Capacity
    /\ queue' = Append(queue, hand[t])
    /\ hand' = [hand EXCEPT ![t] = None]

\* The queue is full and the producer gives its entry up.
Refuse(t) ==
    /\ hand[t] # None
    /\ Len(queue) = Capacity
    /\ hand' = [hand EXCEPT ![t] = None]
    /\ UNCHANGED queue

Deliver(t) ==
    /\ hand[t] = None
    /\ queue # <<>>
    /\ hand' = [hand EXCEPT ![t] = Head(queue)]
    /\ queue' = Tail(queue)

\* The popper has used and freed what it got.
Consume(t) ==
    /\ hand[t] # None
    /\ hand' = [hand EXCEPT ![t] = None]
    /\ UNCHANGED queue

Next ==
    \/ \E t \in Producers :
         \/ \E e \in Entries : Offer(t, e)
         \/ Accept(t)
         \/ Refuse(t)
    \/ \E t \in Poppers : Deliver(t) \/ Consume(t)

Spec == Init /\ [][Next]_vars
=============================================================================
