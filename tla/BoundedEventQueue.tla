-------------------------- MODULE BoundedEventQueue --------------------------
(***************************************************************************)
(* cognitia::BoundedEventQueue as its callers see it: every operation runs *)
(* under lock_, so threads interleave whole operations.  A payload is the  *)
(* number of the call that offered it.                                     *)
(***************************************************************************)
EXTENDS BoundedBuffer, FiniteSets

CONSTANT MaxOffers     \* bound: number of payloads ever offered

ASSUME MaxOffersAssumption == MaxOffers \in Nat

VARIABLES
    queue,          \* queue_
    dropped_count,  \* dropped_count_
    offered,        \* history: payloads handed to an Enqueue operation so far
    dequeued,       \* history: payloads Dequeue returned, in order
    evicted,        \* history: payloads discarded by an overflow
    refused,        \* history: content payloads refused while disconnected
    cleared         \* history: payloads discarded by Clear

vars == <<queue, dropped_count, offered, dequeued, evicted, refused, cleared>>

Init ==
    /\ queue = <<>> /\ dropped_count = 0 /\ offered = 0
    /\ dequeued = <<>> /\ evicted = {} /\ refused = {} /\ cleared = {}

Offer == offered < MaxOffers /\ offered' = offered + 1

\* Mutant: the overflow discards the newest buffered payload.
EnqueueOverNewest ==
    /\ Offer
    /\ queue' = Append(IF IsFull(queue) THEN SubSeq(queue, 1, Len(queue) - 1)
                                        ELSE queue, offered')
    /\ dropped_count' = dropped_count + EvictedCount(queue)
    /\ evicted' = evicted \cup (IF IsFull(queue) THEN {queue[Len(queue)]} ELSE {})
    /\ UNCHANGED <<dequeued, refused, cleared>>

Enqueue ==
    /\ Offer
    /\ queue' = PushBack(queue, offered')
    /\ dropped_count' = dropped_count + EvictedCount(queue)
    /\ evicted' = evicted \cup Evicted(queue)
    /\ UNCHANGED <<dequeued, refused, cleared>>

\* Mutant: refused content is not counted.
RefuseContentUncounted ==
    /\ Offer
    /\ refused' = refused \cup {offered'}
    /\ UNCHANGED <<queue, dropped_count, dequeued, evicted, cleared>>

\* The disconnected branch counts the payload as dropped and never buffers it.
RefuseContent ==
    /\ Offer
    /\ dropped_count' = dropped_count + 1
    /\ refused' = refused \cup {offered'}
    /\ UNCHANGED <<queue, dequeued, evicted, cleared>>

\* Mutant: the refusal does not return, and the payload is buffered as well.
ContentFallsThrough(is_connected) ==
    /\ Offer
    /\ queue' = PushBack(queue, offered')
    /\ dropped_count' = dropped_count + EvictedCount(queue)
    /\ evicted' = evicted \cup Evicted(queue)
    /\ refused' = IF is_connected THEN refused ELSE refused \cup {offered'}
    /\ UNCHANGED <<dequeued, cleared>>

EnqueueContentWithPolicy(is_connected) ==
    \/ is_connected /\ Enqueue
    \/ ~is_connected /\ RefuseContent

\* Mutant: pops the wrong end.
DequeueNewest ==
    /\ queue # <<>>
    /\ dequeued' = Append(dequeued, queue[Len(queue)])
    /\ queue' = SubSeq(queue, 1, Len(queue) - 1)
    /\ UNCHANGED <<dropped_count, offered, evicted, refused, cleared>>

Dequeue ==
    /\ queue # <<>>
    /\ dequeued' = Append(dequeued, Head(queue))
    /\ queue' = Tail(queue)
    /\ UNCHANGED <<dropped_count, offered, evicted, refused, cleared>>

\* Clear empties the buffer and leaves the drop counter alone.
Clear ==
    /\ cleared' = cleared \cup ItemsOf(queue)
    /\ queue' = <<>>
    /\ UNCHANGED <<dropped_count, offered, dequeued, evicted, refused>>

Next ==
    \/ Enqueue
    \/ \E is_connected \in BOOLEAN : EnqueueContentWithPolicy(is_connected)
    \/ Dequeue
    \/ Clear

Spec == Init /\ [][Next]_vars

-----------------------------------------------------------------------------
TypeOK ==
    /\ offered \in 0..MaxOffers
    /\ dropped_count \in Nat
    /\ queue \in Seq(1..offered) /\ Len(queue) <= MaxCapacity
    /\ dequeued \in Seq(1..offered)
    /\ evicted \subseteq 1..offered
    /\ refused \subseteq 1..offered
    /\ cleared \subseteq 1..offered

\* Retained payloads come out in the order they were offered, whatever was
\* evicted, refused or cleared in between.
IsAscending(s) == \A i, j \in DOMAIN s : i < j => s[i] < s[j]
Fifo ==
    /\ IsAscending(queue) /\ IsAscending(dequeued)
    /\ \A i \in DOMAIN dequeued, j \in DOMAIN queue : dequeued[i] < queue[j]

\* "Drops oldest on overflow": nothing still buffered is older than a payload
\* an overflow discarded.
EvictsOldest == \A e \in evicted, q \in ItemsOf(queue) : e < q

\* dropped_count_ counts exactly the payloads lost to overflow or refused as
\* content; a Clear is not counted (Size and the counter do not add up after it).
DropAccounting == dropped_count = Cardinality(evicted) + Cardinality(refused)

\* Every payload offered is buffered, delivered, or lost for one known reason,
\* and never two of these at once.
Conservation ==
    LET fates == <<ItemsOf(queue), ItemsOf(dequeued), evicted, refused, cleared>>
    IN  /\ 1..offered = UNION {fates[k] : k \in DOMAIN fates}
        /\ \A k, l \in DOMAIN fates : k # l => fates[k] \cap fates[l] = {}
=============================================================================
