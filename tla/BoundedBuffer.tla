---------------------------- MODULE BoundedBuffer ----------------------------
(***************************************************************************)
(* The drop-oldest ring buffer both queues of the system are built on:     *)
(* cognitia::BoundedEventQueue (std::deque under a lock) and the Python    *)
(* BoundedEventQueue of the mock adapter (deque(maxlen=capacity)).         *)
(* A buffer is the sequence of its items, oldest first.                    *)
(***************************************************************************)
EXTENDS Naturals, Sequences

CONSTANT MaxCapacity   \* max_capacity_; 100 in the program

\* With a capacity of 0 the code would call pop_front() on an empty deque.
ASSUME MaxCapacityAssumption == MaxCapacity \in Nat \ {0}

ItemsOf(buf) == {buf[i] : i \in DOMAIN buf}

IsFull(buf) == Len(buf) >= MaxCapacity

\* Mutant: no bound.
PushBackUnbounded(buf, x) == Append(buf, x)

\* The buffer after Enqueue(x): a full buffer first loses its oldest item.
PushBack(buf, x) == Append(IF IsFull(buf) THEN Tail(buf) ELSE buf, x)

\* The items Enqueue discards to make room: none, or the one at the front.
Evicted(buf) == IF IsFull(buf) THEN {Head(buf)} ELSE {}

\* How much Enqueue adds to the drop counter.
EvictedCount(buf) == IF IsFull(buf) THEN 1 ELSE 0
=============================================================================
