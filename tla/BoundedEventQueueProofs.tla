----------------------- MODULE BoundedEventQueueProofs -----------------------
(***************************************************************************)
(* Proofs about BoundedEventQueue for every capacity and any number of     *)
(* offered payloads.                                                       *)
(***************************************************************************)
EXTENDS BoundedEventQueue, FiniteSetTheorems, TLAPS

IInv == TypeOK /\ Fifo /\ EvictsOldest /\ DropAccounting

\* Adding the newest payload at the back keeps the order.
LEMMA AppendAscending ==
    ASSUME NEW s \in Seq(Nat), NEW x \in Nat, IsAscending(s),
           \A i \in DOMAIN s : s[i] < x
    PROVE  IsAscending(Append(s, x))
BY DEF IsAscending

\* Removing the front keeps the order, and the front was the oldest.
LEMMA TailAscending ==
    ASSUME NEW s \in Seq(Nat), s # <<>>, IsAscending(s)
    PROVE  /\ IsAscending(Tail(s))
           /\ \A i \in DOMAIN Tail(s) : Head(s) < Tail(s)[i]
           /\ \A i \in DOMAIN Tail(s) : \E j \in DOMAIN s : Tail(s)[i] = s[j]
<1>1. /\ DOMAIN s = 1..Len(s) /\ Len(s) \in Nat /\ Len(s) > 0
      /\ DOMAIN Tail(s) = 1..(Len(s) - 1) /\ Head(s) = s[1]
      /\ \A i \in 1..(Len(s) - 1) : Tail(s)[i] = s[i + 1] /\ i + 1 \in 1..Len(s)
    OBVIOUS
<1> DEFINE t == Tail(s)
<1>2. /\ DOMAIN t = 1..(Len(s) - 1)
      /\ \A i \in DOMAIN t : t[i] = s[i + 1] /\ i + 1 \in DOMAIN s /\ i \in Nat
    BY <1>1
<1> HIDE DEF t
<1>3. \A i, j \in DOMAIN t : i < j => t[i] < t[j]
    <2> TAKE i, j \in DOMAIN t
    <2>1. i < j => i + 1 < j + 1
        BY <1>2
    <2> QED
        BY <1>2, <2>1 DEF IsAscending
<1>4. \A i \in DOMAIN t : Head(s) < t[i]
    <2> TAKE i \in DOMAIN t
    <2>1. 1 \in DOMAIN s /\ 1 < i + 1
        BY <1>1, <1>2
    <2> QED
        BY <1>1, <1>2, <2>1 DEF IsAscending
<1>5. \A i \in DOMAIN t : \E j \in DOMAIN s : t[i] = s[j]
    BY <1>2
<1> QED
    BY <1>3, <1>4, <1>5 DEF IsAscending, t

\* The payloads of the earlier calls are older than that of the next call.
LEMMA Widen ==
    ASSUME NEW n \in Nat, NEW s \in Seq(1..n)
    PROVE  s \in Seq(1..(n + 1)) /\ s \in Seq(Nat) /\ \A i \in DOMAIN s : s[i] < n + 1
OBVIOUS

\* An empty queue satisfies the invariant.
LEMMA InitIInv == Init => IInv
<1> SUFFICES ASSUME Init PROVE IInv
    OBVIOUS
<1>1. TypeOK
    BY MaxCapacityAssumption, MaxOffersAssumption DEF Init, TypeOK
<1>2. Fifo /\ EvictsOldest
    BY DEF Init, Fifo, IsAscending, EvictsOldest, ItemsOf
<1>3. DropAccounting
    BY FS_EmptySet DEF Init, DropAccounting
<1> QED
    BY <1>1, <1>2, <1>3 DEF IInv

\* Enqueue, with or without an overflow, keeps order and count.
LEMMA EnqueueIInv ==
    ASSUME IInv, Enqueue
    PROVE  IInv'
<1> DEFINE kept == IF IsFull(queue) THEN Tail(queue) ELSE queue
<1>1. /\ queue \in Seq(1..offered) /\ Len(queue) <= MaxCapacity /\ offered \in Nat
      /\ dequeued \in Seq(1..offered) /\ dropped_count \in Nat
      /\ evicted \subseteq 1..offered /\ refused \subseteq 1..offered
      /\ cleared \subseteq 1..offered
    BY DEF IInv, TypeOK
<1>2. /\ offered' = offered + 1 /\ offered' \in 0..MaxOffers
      /\ queue' = Append(kept, offered')
      /\ dropped_count' = dropped_count + EvictedCount(queue)
      /\ evicted' = evicted \cup Evicted(queue)
      /\ UNCHANGED <<dequeued, refused, cleared>>
    BY MaxOffersAssumption DEF IInv, TypeOK, Enqueue, Offer, PushBack
<1>3. /\ queue \in Seq(Nat) /\ dequeued \in Seq(Nat)
      /\ IsAscending(queue) /\ IsAscending(dequeued)
      /\ \A i \in DOMAIN queue : queue[i] < offered + 1
      /\ \A i \in DOMAIN dequeued : dequeued[i] < offered + 1
      /\ \A i \in DOMAIN dequeued, j \in DOMAIN queue : dequeued[i] < queue[j]
    BY <1>1, Widen DEF IInv, Fifo
<1>4. IsFull(queue) => queue # <<>>
    BY MaxCapacityAssumption DEF IsFull
<1>5. /\ kept \in Seq(1..offered) /\ Len(kept) < MaxCapacity
      /\ IsAscending(kept)
      /\ \A i \in DOMAIN kept : \E j \in DOMAIN queue : kept[i] = queue[j]
    <2>1. CASE IsFull(queue)
        BY <1>1, <1>3, <1>4, <2>1, TailAscending, MaxCapacityAssumption
    <2>2. CASE ~IsFull(queue)
        BY <1>1, <1>3, <2>2, MaxCapacityAssumption DEF IsFull
    <2> QED
        BY <2>1, <2>2
<1>6. /\ Evicted(queue) \subseteq ItemsOf(queue) /\ Evicted(queue) \subseteq 1..offered
      /\ \A e \in Evicted(queue) : \A i \in DOMAIN kept : e < kept[i]
    <2>1. CASE IsFull(queue)
        <3>1. queue # <<>> /\ Evicted(queue) = {Head(queue)} /\ Head(queue) = queue[1]
              /\ 1 \in DOMAIN queue
            BY <1>1, <1>4, <2>1 DEF Evicted
        <3>2. \A i \in DOMAIN Tail(queue) : Head(queue) < Tail(queue)[i]
            BY <1>3, <3>1, TailAscending
        <3> QED
            BY <1>1, <2>1, <3>1, <3>2 DEF ItemsOf
    <2>2. CASE ~IsFull(queue)
        BY <2>2 DEF Evicted
    <2> QED
        BY <2>1, <2>2
<1> HIDE DEF kept
<1>7. kept \in Seq(Nat) /\ kept \in Seq(1..offered') /\ offered' \in 1..offered'
      /\ \A i \in DOMAIN kept : kept[i] < offered'
    BY <1>1, <1>2, <1>5, Widen
<1>8. /\ DOMAIN queue' = 1..(Len(kept) + 1) /\ DOMAIN kept = 1..Len(kept)
      /\ \A i \in 1..Len(kept) : queue'[i] = kept[i]
      /\ queue'[Len(kept) + 1] = offered'
      /\ queue' \in Seq(1..offered') /\ Len(queue') = Len(kept) + 1 /\ Len(kept) \in Nat
    BY <1>2, <1>7
<1>9. TypeOK'
    <2>1. dequeued' \in Seq(1..offered')
        BY <1>1, <1>2, Widen
    <2>2. Len(queue') <= MaxCapacity
        BY <1>5, <1>8, MaxCapacityAssumption
    <2>3. 1..offered \subseteq 1..offered'
        BY <1>1, <1>2
    <2>4. dropped_count' \in Nat
        BY <1>1, <1>2 DEF EvictedCount
    <2> QED
        BY <1>1, <1>2, <1>6, <1>8, <2>1, <2>2, <2>3, <2>4 DEF TypeOK
<1>10. Fifo'
    <2>1. IsAscending(queue')
        BY <1>2, <1>5, <1>7, AppendAscending
    <2>2. \A i \in DOMAIN dequeued, j \in DOMAIN queue' : dequeued[i] < queue'[j]
        BY <1>1, <1>2, <1>3, <1>5, <1>8
    <2> QED
        BY <1>2, <1>3, <2>1, <2>2 DEF Fifo
<1>11. EvictsOldest'
    <2>1. \A e \in evicted, i \in DOMAIN queue : e < queue[i]
        BY DEF IInv, EvictsOldest, ItemsOf
    <2>2. \A e \in evicted', i \in DOMAIN kept : e < kept[i]
        BY <1>2, <1>5, <1>6, <2>1
    <2>3. \A e \in evicted' : e < offered'
        BY <1>1, <1>2, <1>6
    <2>4. \A e \in evicted', j \in DOMAIN queue' : e < queue'[j]
        BY <1>8, <2>2, <2>3
    <2> QED
        BY <2>4 DEF EvictsOldest, ItemsOf
<1>12. DropAccounting'
    <2>1. IsFiniteSet(evicted) /\ dropped_count = Cardinality(evicted) + Cardinality(refused)
        <3>1. IsFiniteSet(1..offered)
            BY <1>1, FS_Interval
        <3> QED
            BY <1>1, <3>1, FS_Subset DEF IInv, DropAccounting
    <2>2. IsFiniteSet(refused) /\ Cardinality(refused) \in Nat /\ Cardinality(evicted) \in Nat
        <3>1. IsFiniteSet(1..offered)
            BY <1>1, FS_Interval
        <3>2. IsFiniteSet(refused)
            BY <1>1, <3>1, FS_Subset
        <3> QED
            BY <2>1, <3>2, FS_CardinalityType
    <2>3. CASE IsFull(queue)
        <3>1. /\ Evicted(queue) = {Head(queue)} /\ EvictedCount(queue) = 1
              /\ Head(queue) \in ItemsOf(queue) /\ Head(queue) \in Nat
            BY <1>1, <1>6, <2>3 DEF Evicted, EvictedCount
        <3>2. Head(queue) \notin evicted
            BY <3>1 DEF IInv, EvictsOldest
        <3>3. Cardinality(evicted \cup {Head(queue)}) = Cardinality(evicted) + 1
            BY <2>1, <3>2, FS_AddElement
        <3>4. /\ evicted' = evicted \cup {Head(queue)} /\ refused' = refused
              /\ dropped_count' = dropped_count + 1
            BY <1>2, <3>1
        <3> QED
            BY <2>1, <2>2, <3>3, <3>4 DEF DropAccounting
    <2>4. CASE ~IsFull(queue)
        BY <1>1, <1>2, <2>1, <2>4 DEF DropAccounting, Evicted, EvictedCount
    <2> QED
        BY <2>3, <2>4
<1> QED
    BY <1>9, <1>10, <1>11, <1>12 DEF IInv

\* Content refused while disconnected changes the counter only.
LEMMA RefuseContentIInv ==
    ASSUME IInv, RefuseContent
    PROVE  IInv'
<1>1. /\ queue \in Seq(1..offered) /\ offered \in Nat
      /\ dequeued \in Seq(1..offered) /\ dropped_count \in Nat
      /\ evicted \subseteq 1..offered /\ refused \subseteq 1..offered
      /\ cleared \subseteq 1..offered /\ Len(queue) <= MaxCapacity
      /\ dropped_count = Cardinality(evicted) + Cardinality(refused)
    BY DEF IInv, TypeOK, DropAccounting
<1>2. /\ offered' = offered + 1 /\ offered' \in 0..MaxOffers
      /\ dropped_count' = dropped_count + 1
      /\ refused' = refused \cup {offered + 1}
      /\ UNCHANGED <<queue, dequeued, evicted, cleared>>
    BY MaxOffersAssumption DEF IInv, TypeOK, RefuseContent, Offer
<1>3. TypeOK'
    <2>1. queue' \in Seq(1..offered') /\ dequeued' \in Seq(1..offered')
        BY <1>1, <1>2, Widen
    <2>2. 1..offered \subseteq 1..offered' /\ offered + 1 \in 1..offered'
        BY <1>1, <1>2
    <2> QED
        BY <1>1, <1>2, <2>1, <2>2 DEF TypeOK
<1>4. Fifo' /\ EvictsOldest'
    BY <1>2 DEF IInv, Fifo, EvictsOldest, ItemsOf, IsAscending
<1>5. DropAccounting'
    <2>1. IsFiniteSet(refused) /\ IsFiniteSet(evicted)
        <3>1. IsFiniteSet(1..offered)
            BY <1>1, FS_Interval
        <3> QED
            BY <1>1, <3>1, FS_Subset
    <2>2. Cardinality(refused \cup {offered + 1}) = Cardinality(refused) + 1
        <3>1. offered + 1 \notin refused
            BY <1>1
        <3> QED
            BY <2>1, <3>1, FS_AddElement
    <2>3. Cardinality(refused) \in Nat /\ Cardinality(evicted) \in Nat
        BY <2>1, FS_CardinalityType
    <2> QED
        BY <1>1, <1>2, <2>2, <2>3 DEF DropAccounting
<1> QED
    BY <1>3, <1>4, <1>5 DEF IInv

\* Dequeue moves the oldest payload to the end of the delivered ones.
LEMMA DequeueIInv ==
    ASSUME IInv, Dequeue
    PROVE  IInv'
<1> DEFINE front == Head(queue)
<1>1. /\ queue \in Seq(1..offered) /\ queue # <<>> /\ Len(queue) <= MaxCapacity
      /\ offered \in Nat /\ dequeued \in Seq(1..offered)
    BY DEF IInv, TypeOK, Dequeue
<1>2. /\ queue' = Tail(queue) /\ dequeued' = Append(dequeued, front)
      /\ UNCHANGED <<dropped_count, offered, evicted, refused, cleared>>
    BY DEF Dequeue
<1>3. /\ front \in 1..offered /\ 1 \in DOMAIN queue /\ front = queue[1]
      /\ Tail(queue) \in Seq(1..offered) /\ Len(Tail(queue)) <= MaxCapacity
    BY <1>1, MaxCapacityAssumption
<1>4. /\ queue \in Seq(Nat) /\ dequeued \in Seq(Nat)
      /\ IsAscending(queue) /\ IsAscending(dequeued)
      /\ \A i \in DOMAIN dequeued, j \in DOMAIN queue : dequeued[i] < queue[j]
    BY <1>1, Widen DEF IInv, Fifo
<1>5. /\ IsAscending(Tail(queue))
      /\ \A i \in DOMAIN Tail(queue) : front < Tail(queue)[i]
      /\ \A i \in DOMAIN Tail(queue) : \E j \in DOMAIN queue : Tail(queue)[i] = queue[j]
    BY <1>1, <1>4, TailAscending
<1> HIDE DEF front
<1>6. TypeOK'
    BY <1>1, <1>2, <1>3 DEF IInv, TypeOK
<1>7. Fifo'
    <2>1. IsAscending(dequeued')
        <3>1. \A i \in DOMAIN dequeued : dequeued[i] < front
            BY <1>3, <1>4
        <3>2. front \in Nat
            BY <1>3
        <3> QED
            BY <1>2, <1>4, <3>1, <3>2, AppendAscending
    <2>2. \A i \in DOMAIN dequeued', j \in DOMAIN Tail(queue) : dequeued'[i] < Tail(queue)[j]
        <3>1. ASSUME NEW i \in DOMAIN dequeued'
              PROVE  dequeued'[i] = front
                     \/ (i \in DOMAIN dequeued /\ dequeued'[i] = dequeued[i])
            <4>1. /\ dequeued' = Append(dequeued, front)
                  /\ dequeued \in Seq(1..offered) /\ front \in 1..offered
                BY <1>1, <1>2, <1>3
            <4>2. i \in 1..(Len(dequeued) + 1) /\ DOMAIN dequeued = 1..Len(dequeued)
                  /\ Len(dequeued) \in Nat
                BY <4>1
            <4> QED
                BY <4>1, <4>2
        <3> QED
            BY <1>4, <1>5, <3>1
    <2> QED
        BY <1>2, <1>5, <2>1, <2>2 DEF Fifo
<1>8. EvictsOldest' /\ DropAccounting'
    <2>1. \A e \in evicted, j \in DOMAIN queue : e < queue[j]
        BY DEF IInv, EvictsOldest, ItemsOf
    <2>2. \A e \in evicted, j \in DOMAIN Tail(queue) : e < Tail(queue)[j]
        BY <1>5, <2>1
    <2> QED
        BY <1>2, <2>2 DEF EvictsOldest, ItemsOf, IInv, DropAccounting
<1> QED
    BY <1>6, <1>7, <1>8 DEF IInv

\* Clear empties the queue and leaves the counter alone.
LEMMA ClearIInv ==
    ASSUME IInv, Clear
    PROVE  IInv'
<1>1. /\ queue' = <<>> /\ cleared' = cleared \cup ItemsOf(queue)
      /\ UNCHANGED <<dropped_count, offered, dequeued, evicted, refused>>
    BY DEF Clear
<1>2. TypeOK'
    <2>1. ItemsOf(queue) \subseteq 1..offered
        BY DEF IInv, TypeOK, ItemsOf
    <2> QED
        <3>1. queue' \in Seq(1..offered) /\ Len(queue') = 0 /\ 0 <= MaxCapacity
            BY <1>1, MaxCapacityAssumption
        <3> QED
            BY <1>1, <2>1, <3>1 DEF IInv, TypeOK
<1>3. Fifo' /\ EvictsOldest' /\ DropAccounting'
    BY <1>1 DEF IInv, Fifo, IsAscending, EvictsOldest, ItemsOf, DropAccounting
<1> QED
    BY <1>2, <1>3 DEF IInv

\* Every operation under the lock keeps the invariant.
LEMMA StepIInv == IInv /\ [Next]_vars => IInv'
<1> SUFFICES ASSUME IInv, [Next]_vars PROVE IInv'
    OBVIOUS
<1>1. CASE Enqueue
    BY <1>1, EnqueueIInv
<1>2. ASSUME NEW is_connected \in BOOLEAN, EnqueueContentWithPolicy(is_connected)
      PROVE  IInv'
    BY <1>2, EnqueueIInv, RefuseContentIInv DEF EnqueueContentWithPolicy
<1>3. CASE Dequeue
    BY <1>3, DequeueIInv
<1>4. CASE Clear
    BY <1>4, ClearIInv
<1>5. CASE UNCHANGED vars
    BY <1>5 DEF vars, IInv, TypeOK, Fifo, IsAscending, EvictsOldest, ItemsOf,
                DropAccounting
<1> QED
    BY <1>1, <1>2, <1>3, <1>4, <1>5 DEF Next

\* The four invariants are inductive together: eviction order needs the buffer
\* to be ascending, and the count needs the evicted payload to be a new one.
THEOREM QueueInductive == Spec => []IInv
BY InitIInv, StepIInv, PTL DEF Spec

\* The buffer never holds more than max_capacity_ payloads.
THEOREM QueueTypeCorrect == Spec => []TypeOK
BY QueueInductive, PTL DEF IInv

\* Dequeue returns payloads in the order Enqueue accepted them.
THEOREM QueueIsFifo == Spec => []Fifo
BY QueueInductive, PTL DEF IInv

\* Every payload an overflow discarded is older than everything still buffered.
THEOREM QueueEvictsOldest == Spec => []EvictsOldest
BY QueueInductive, PTL DEF IInv

\* dropped_count_ is exact under any interleaving of the locked operations.
THEOREM QueueDropsAccounted == Spec => []DropAccounting
BY QueueInductive, PTL DEF IInv

-----------------------------------------------------------------------------
\* Conservation as a statement about five sets.
Parted(Q, D, E, R, C, n) ==
    /\ 1..n = Q \cup D \cup E \cup R \cup C
    /\ Q \cap D = {} /\ Q \cap E = {} /\ Q \cap R = {} /\ Q \cap C = {}
    /\ D \cap E = {} /\ D \cap R = {} /\ D \cap C = {}
    /\ E \cap R = {} /\ E \cap C = {} /\ R \cap C = {}

InPlaces == Parted(ItemsOf(queue), ItemsOf(dequeued), evicted, refused, cleared, offered)

\* Five disjoint sets that cover the payloads are the fates of Conservation.
LEMMA PartedIsConservation == InPlaces => Conservation
<1> SUFFICES ASSUME InPlaces PROVE Conservation
    OBVIOUS
<1> DEFINE fates == <<ItemsOf(queue), ItemsOf(dequeued), evicted, refused, cleared>>
<1>1. /\ DOMAIN fates = {1, 2, 3, 4, 5}
      /\ fates[1] = ItemsOf(queue) /\ fates[2] = ItemsOf(dequeued)
      /\ fates[3] = evicted /\ fates[4] = refused /\ fates[5] = cleared
    OBVIOUS
<1> HIDE DEF fates
<1>2. 1..offered = UNION {fates[k] : k \in DOMAIN fates}
    BY <1>1 DEF InPlaces, Parted
<1>3. \A k, l \in DOMAIN fates : k # l => fates[k] \cap fates[l] = {}
    <2> SUFFICES ASSUME NEW k \in {1, 2, 3, 4, 5}, NEW l \in {1, 2, 3, 4, 5}, k < l
                 PROVE  fates[k] \cap fates[l] = {}
        BY <1>1
    <2> QED
        BY <1>1 DEF InPlaces, Parted
<1> QED
    BY <1>2, <1>3 DEF Conservation, fates

\* Append adds one item.
LEMMA AppendItems ==
    ASSUME NEW S, NEW s \in Seq(S), NEW x \in S
    PROVE  ItemsOf(Append(s, x)) = ItemsOf(s) \cup {x}
<1>1. /\ DOMAIN Append(s, x) = 1..(Len(s) + 1) /\ Append(s, x)[Len(s) + 1] = x
      /\ \A i \in 1..Len(s) : Append(s, x)[i] = s[i]
      /\ DOMAIN s = 1..Len(s) /\ Len(s) \in Nat
    OBVIOUS
<1>2. /\ \A i \in 1..(Len(s) + 1) : i \in 1..Len(s) \/ i = Len(s) + 1
      /\ \A i \in 1..Len(s) : i \in 1..(Len(s) + 1)
      /\ Len(s) + 1 \in 1..(Len(s) + 1)
    BY <1>1
<1>3. \A y \in ItemsOf(Append(s, x)) : y \in ItemsOf(s) \cup {x}
    BY <1>1, <1>2 DEF ItemsOf
<1>4. \A y \in ItemsOf(s) \cup {x} : y \in ItemsOf(Append(s, x))
    BY <1>1, <1>2 DEF ItemsOf
<1> QED
    BY <1>3, <1>4

\* Of an ascending sequence the tail holds all items but the first.
LEMMA TailItems ==
    ASSUME NEW s \in Seq(Nat), s # <<>>, IsAscending(s)
    PROVE  /\ ItemsOf(Tail(s)) = ItemsOf(s) \ {Head(s)}
           /\ Head(s) \in ItemsOf(s)
<1>1. /\ DOMAIN s = 1..Len(s) /\ Len(s) \in Nat /\ 1 \in DOMAIN s /\ Head(s) = s[1]
      /\ DOMAIN Tail(s) = 1..(Len(s) - 1)
      /\ \A i \in 1..(Len(s) - 1) : Tail(s)[i] = s[i + 1] /\ i + 1 \in DOMAIN s /\ 1 < i + 1
      /\ \A i \in DOMAIN s : s[i] \in Nat
      /\ \A i \in DOMAIN s : i = 1 \/ (i - 1 \in 1..(Len(s) - 1) /\ (i - 1) + 1 = i)
    OBVIOUS
<1>2. ASSUME NEW y \in ItemsOf(Tail(s))
      PROVE  y \in ItemsOf(s) /\ y # Head(s)
    <2>1. PICK i \in 1..(Len(s) - 1) : y = s[i + 1]
        BY <1>1, <1>2 DEF ItemsOf
    <2>2. i + 1 \in DOMAIN s /\ s[1] < s[i + 1]
        BY <1>1 DEF IsAscending
    <2> QED
        BY <1>1, <2>1, <2>2 DEF ItemsOf
<1>3. ASSUME NEW y \in ItemsOf(s), y # Head(s)
      PROVE  y \in ItemsOf(Tail(s))
    <2>1. PICK i \in DOMAIN s : y = s[i]
        BY <1>3 DEF ItemsOf
    <2>2. i - 1 \in 1..(Len(s) - 1) /\ (i - 1) + 1 = i
        BY <1>1, <1>3, <2>1
    <2>3. Tail(s)[i - 1] = y
        BY <1>1, <2>1, <2>2
    <2> QED
        BY <1>1, <2>2, <2>3 DEF ItemsOf
<1>4. Head(s) \in ItemsOf(s)
    BY <1>1 DEF ItemsOf
<1> QED
    BY <1>2, <1>3, <1>4

\* Every payload stays in one place or moves to one other.
LEMMA StepInPlaces ==
    ASSUME IInv, InPlaces, [Next]_vars
    PROVE  InPlaces'
<1> DEFINE Q == ItemsOf(queue)
           D == ItemsOf(dequeued)
<1>1. /\ queue \in Seq(1..offered) /\ offered \in Nat /\ dequeued \in Seq(1..offered)
      /\ queue \in Seq(Nat) /\ dequeued \in Seq(Nat) /\ IsAscending(queue)
      /\ Len(queue) >= MaxCapacity => queue # <<>>
    BY MaxCapacityAssumption DEF IInv, TypeOK, Fifo
<1>2. Parted(Q, D, evicted, refused, cleared, offered)
    BY DEF InPlaces
<1>3. offered + 1 \notin 1..offered /\ 1..(offered + 1) = (1..offered) \cup {offered + 1}
    BY <1>1
<1>4. queue # <<>> => ItemsOf(Tail(queue)) = Q \ {Head(queue)} /\ Head(queue) \in Q
    BY <1>1, TailItems
<1>5. CASE Enqueue
    <2> DEFINE kept == IF IsFull(queue) THEN Tail(queue) ELSE queue
               gone == Evicted(queue)
    <2>1. /\ offered' = offered + 1 /\ queue' = Append(kept, offered + 1)
          /\ evicted' = evicted \cup gone
          /\ UNCHANGED <<dequeued, refused, cleared>>
        BY <1>5 DEF Enqueue, Offer, PushBack
    <2>2. kept \in Seq(Nat)
        BY <1>1 DEF IsFull
    <2>3. ItemsOf(kept) = Q \ gone /\ gone \subseteq Q
        BY <1>1, <1>4 DEF Evicted, IsFull
    <2> HIDE DEF kept, gone
    <2>4. ItemsOf(queue') = (Q \ gone) \cup {offered + 1}
        <3>1. offered + 1 \in Nat
            BY <1>1
        <3>2. ItemsOf(Append(kept, offered + 1)) = ItemsOf(kept) \cup {offered + 1}
            BY <2>2, <3>1, AppendItems
        <3> QED
            BY <2>1, <2>3, <3>2
    <2> HIDE DEF Q, D
    <2>5. Parted((Q \ gone) \cup {offered + 1}, D, evicted \cup gone, refused, cleared,
                 offered + 1)
        BY <1>2, <1>3, <2>3 DEF Parted
    <2> QED
        BY <2>1, <2>4, <2>5 DEF InPlaces, D
<1>6. CASE RefuseContent
    <2>1. /\ offered' = offered + 1 /\ refused' = refused \cup {offered + 1}
          /\ UNCHANGED <<queue, dequeued, evicted, cleared>>
        BY <1>6 DEF RefuseContent, Offer
    <2> HIDE DEF Q, D
    <2>2. Parted(Q, D, evicted, refused \cup {offered + 1}, cleared, offered + 1)
        BY <1>2, <1>3 DEF Parted
    <2> QED
        BY <2>1, <2>2 DEF InPlaces, Q, D
<1>7. CASE Dequeue
    <2> DEFINE front == Head(queue)
    <2>1. /\ queue # <<>> /\ queue' = Tail(queue) /\ dequeued' = Append(dequeued, front)
          /\ UNCHANGED <<offered, evicted, refused, cleared>>
        BY <1>7 DEF Dequeue
    <2>2. front \in Nat
        BY <1>1, <2>1
    <2> HIDE DEF front
    <2>3. ItemsOf(dequeued') = D \cup {front}
        BY <1>1, <2>1, <2>2, AppendItems
    <2>4. ItemsOf(queue') = Q \ {front} /\ front \in Q
        BY <1>4, <2>1 DEF front
    <2> HIDE DEF Q, D
    <2>5. Parted(Q \ {front}, D \cup {front}, evicted, refused, cleared, offered)
        BY <1>2, <2>4, SMTT(30) DEF Parted
    <2> QED
        BY <2>1, <2>3, <2>4, <2>5 DEF InPlaces
<1>8. CASE Clear
    <2>1. /\ queue' = <<>> /\ cleared' = cleared \cup Q
          /\ UNCHANGED <<offered, dequeued, evicted, refused>>
        BY <1>8 DEF Clear
    <2>2. ItemsOf(queue') = {}
        BY <2>1 DEF ItemsOf
    <2> HIDE DEF Q, D
    <2>3. Parted({}, D, evicted, refused, cleared \cup Q, offered)
        BY <1>2 DEF Parted
    <2> QED
        BY <2>1, <2>2, <2>3 DEF InPlaces, D
<1>9. CASE UNCHANGED vars
    BY <1>9 DEF InPlaces, vars
<1> QED
    BY <1>5, <1>6, <1>7, <1>8, <1>9 DEF Next, EnqueueContentWithPolicy

\* No payload is lost without being counted as evicted, refused or cleared, and
\* none is in two places.
THEOREM QueueConserves == Spec => []Conservation
<1>1. Init => InPlaces
    <2> SUFFICES ASSUME Init PROVE InPlaces
        OBVIOUS
    <2>1. ItemsOf(queue) = {} /\ ItemsOf(dequeued) = {} /\ 1..offered = {}
        BY DEF Init, ItemsOf
    <2> QED
        BY <2>1 DEF Init, InPlaces, Parted
<1>2. IInv /\ InPlaces /\ [Next]_vars => InPlaces'
    BY StepInPlaces
<1> QED
    BY <1>1, <1>2, PartedIsConservation, QueueInductive, PTL DEF Spec
=============================================================================
