----------------------- MODULE NamedPipeTransportProofs -----------------------
(***************************************************************************)
(* Proofs about NamedPipeTransport for every capacity and every bound.     *)
(***************************************************************************)
EXTENDS NamedPipeTransport, FiniteSetTheorems, TLAPS

USE DEF Connect, Nothing, INVALID

-----------------------------------------------------------------------------
(* Sequences used as queues *)

\* Enqueue on the bounded buffer keeps the items' type and the capacity.
LEMMA PushBackType ==
    ASSUME NEW S, NEW buf \in Seq(S), NEW x \in S, Len(buf) <= MaxCapacity
    PROVE  PushBack(buf, x) \in Seq(S) /\ Len(PushBack(buf, x)) <= MaxCapacity
BY MaxCapacityAssumption DEF PushBack, IsFull

\* What Enqueue discards comes from the buffer.
LEMMA EvictedType ==
    ASSUME NEW S, NEW buf \in Seq(S)
    PROVE  Evicted(buf) \subseteq S /\ EvictedCount(buf) \in Nat
BY MaxCapacityAssumption DEF Evicted, EvictedCount, IsFull

\* Dequeue, or a read of the pipe: the first item, and a shorter sequence.
LEMMA PopType ==
    ASSUME NEW S, NEW s \in Seq(S), s # <<>>
    PROVE  Head(s) \in S /\ Tail(s) \in Seq(S) /\ Len(Tail(s)) = Len(s) - 1
OBVIOUS

\* A write to the pipe or a read by the daemon adds one item of the same type.
LEMMA AppendType ==
    ASSUME NEW S, NEW s \in Seq(S), NEW x \in S
    PROVE  Append(s, x) \in Seq(S) /\ Len(Append(s, x)) = Len(s) + 1
OBVIOUS

\* A new observation leaves the queues of the older ones well typed.
LEMMA WidenSeq ==
    ASSUME NEW S, NEW T, S \subseteq T, NEW s \in Seq(S)
    PROVE  s \in Seq(T)
OBVIOUS

-----------------------------------------------------------------------------
(* Type correctness and control state *)

\* What each worker location says about the locals and the handle.
Control ==
    /\ queued_item # Nothing <=> pc = "write_item"
    /\ pc = "idle" => hand = Nothing
    /\ pc = "write_payload" => hand # Nothing
    /\ pc = "create_file" => pipe_handle = INVALID
    /\ pc \in {"flush", "write_item", "write_payload"} => pipe_handle # INVALID

IInv ==
    /\ TypeOK /\ Control
    /\ StatusMatchesHandle /\ NothingBufferedBehindOpenPipe /\ FailedFlushLosesNothing

\* A transport just constructed satisfies the invariant.
LEMMA InitIInv == Init => IInv
<1> SUFFICES ASSUME Init PROVE IInv
    OBVIOUS
<1>1. TypeOK
    <2>1. \A S : <<>> \in Seq(S) /\ Len(<<>>) = 0
        OBVIOUS
    <2>2. MaxCapacity >= 0 /\ PipeCapacity >= 0 /\ 0 \in 0..MaxEvents
        BY MaxCapacityAssumption, TransportAssumption
    <2>3. is_enabled \in BOOLEAN /\ serverUp \in BOOLEAN
        BY DEF Init
    <2>4. emitted = 0 /\ hand = 0 /\ queued_item = 0 /\ dropped_count = 0
        BY DEF Init
    <2>5. tasks = <<>> /\ event_queue = <<>> /\ pipe = <<>> /\ received = <<>>
        BY DEF Init
    <2>6. overflowed = {} /\ vanished = {} /\ pc = "idle"
          /\ pipe_handle = INVALID /\ status = "kDisconnected"
        BY DEF Init
    <2> QED
        BY <2>1, <2>2, <2>3, <2>4, <2>5, <2>6 DEF TypeOK
<1>2. Control /\ StatusMatchesHandle
    BY DEF Init, Control, StatusMatchesHandle
<1>3. NothingBufferedBehindOpenPipe /\ FailedFlushLosesNothing
    BY DEF Init, NothingBufferedBehindOpenPipe, FailedFlushLosesNothing
<1> QED
    BY <1>1, <1>2, <1>3 DEF IInv

\* BoundedEventQueue::Enqueue, as the worker calls it, keeps the queue's types.
LEMMA BufferType ==
    ASSUME TypeOK, NEW x \in 1..emitted, Buffer(x)
    PROVE  /\ event_queue' \in Seq(1..emitted) /\ Len(event_queue') <= MaxCapacity
           /\ dropped_count' \in Nat
           /\ overflowed' \subseteq 1..emitted
<1>1. event_queue \in Seq(1..emitted) /\ Len(event_queue) <= MaxCapacity
    BY DEF TypeOK
<1>2. dropped_count \in Nat /\ overflowed \subseteq 1..emitted
    BY DEF TypeOK
<1>3. EvictedCount(event_queue) \in Nat /\ Evicted(event_queue) \subseteq 1..emitted
    BY <1>1, EvictedType
<1>4. PushBack(event_queue, x) \in Seq(1..emitted)
      /\ Len(PushBack(event_queue, x)) <= MaxCapacity
    BY <1>1, PushBackType
<1>5. /\ event_queue' = PushBack(event_queue, x)
      /\ dropped_count' = dropped_count + EvictedCount(event_queue)
      /\ overflowed' = overflowed \cup Evicted(event_queue)
    BY Zenon DEF Buffer
<1>6. dropped_count' \in Nat
    BY <1>2, <1>3, <1>5
<1>7. overflowed' \subseteq 1..emitted
    BY <1>2, <1>3, <1>5
<1> QED
    BY <1>4, <1>5, <1>6, <1>7

\* A UI callback that posts n observations keeps the types.
LEMMA EmitType ==
    ASSUME TypeOK, NEW n \in Nat, EmitEvents(n)
    PROVE  TypeOK'
<1>1. emitted' \in 0..MaxEvents /\ emitted <= emitted'
    BY TransportAssumption DEF TypeOK, EmitEvents
<1>2. tasks \in Seq(0..emitted')
    BY <1>1, WidenSeq DEF TypeOK
<1>3. [i \in 1..n |-> emitted + i] \in Seq(0..emitted')
    BY <1>1 DEF TypeOK, EmitEvents
<1>4. tasks' \in Seq(0..emitted')
    BY <1>2, <1>3 DEF EmitEvents
<1>5. 0..emitted \subseteq 0..emitted' /\ 1..emitted \subseteq 1..emitted'
    BY <1>1 DEF TypeOK
<1>6. /\ event_queue \in Seq(1..emitted') /\ pipe \in Seq(1..emitted')
      /\ received \in Seq(1..emitted')
    BY <1>5, WidenSeq DEF TypeOK
<1> QED
    BY <1>1, <1>4, <1>5, <1>6
       DEF TypeOK, EmitEvents, uiVars, queueVars, envVars

\* No step of the worker sequence breaks the types.
LEMMA WorkerType ==
    ASSUME IInv, Worker
    PROVE  TypeOK'
<1> USE DEF IInv, uiVars, queueVars, envVars
<1>1. CASE StartTask
    BY <1>1 DEF StartTask, TypeOK
<1>2. CASE CreateFileSucceeds
    BY <1>2 DEF CreateFileSucceeds, TypeOK
<1>3. CASE CreateFileFails
    BY <1>3 DEF CreateFileFails, TypeOK
<1>4. CASE FlushDequeue
    <2>1. /\ Head(event_queue) \in 0..emitted
          /\ Tail(event_queue) \in Seq(1..emitted)
          /\ Len(Tail(event_queue)) <= MaxCapacity
        BY <1>4, PopType, MaxCapacityAssumption DEF FlushDequeue, TypeOK
    <2> QED
        BY <1>4, <2>1 DEF FlushDequeue, TypeOK
<1>5. CASE FlushDone
    BY <1>5 DEF FlushDone, TypeOK
<1>6. CASE FlushWriteSucceeds
    <2>1. pipe' \in Seq(1..emitted) /\ Len(pipe') <= PipeCapacity
        BY <1>6, AppendType, TransportAssumption
           DEF FlushWriteSucceeds, WriteFileSucceeds, TypeOK, Control
    <2>2. 0 \in 0..emitted
        BY DEF TypeOK
    <2> QED
        BY <1>6, <2>1, <2>2 DEF FlushWriteSucceeds, TypeOK
<1>7. CASE FlushWriteFails
    <2>1. queued_item \in 1..emitted /\ Buffer(queued_item)
        BY <1>7 DEF FlushWriteFails, TypeOK, Control
    <2> QED
        BY <1>7, <2>1, BufferType DEF FlushWriteFails, TypeOK
<1>8. CASE AfterConnect
    <2>1. CASE UNCHANGED queueVars
        BY <1>8, <2>1 DEF AfterConnect, TypeOK
    <2>2. CASE hand # Nothing /\ Buffer(hand)
        <3>1. hand \in 1..emitted
            BY <2>2 DEF TypeOK
        <3> QED
            BY <1>8, <2>2, <3>1, BufferType DEF AfterConnect, TypeOK
    <2> QED
        BY <1>8, <2>1, <2>2 DEF AfterConnect
<1>9. CASE WriteSucceeds
    <2>1. pipe' \in Seq(1..emitted) /\ Len(pipe') <= PipeCapacity
        BY <1>9, AppendType, TransportAssumption
           DEF WriteSucceeds, WriteFileSucceeds, TypeOK, Control
    <2>2. 0 \in 0..emitted
        BY DEF TypeOK
    <2> QED
        BY <1>9, <2>1, <2>2 DEF WriteSucceeds, TypeOK
<1>10. CASE WriteFails
    <2>1. hand \in 1..emitted /\ Buffer(hand)
        BY <1>10 DEF WriteFails, TypeOK, Control
    <2> QED
        BY <1>10, <2>1, BufferType DEF WriteFails, TypeOK
<1> QED
    BY <1>1, <1>2, <1>3, <1>4, <1>5, <1>6, <1>7, <1>8, <1>9, <1>10 DEF Worker

\* The daemon's end starting, stopping or reading keeps the types.
LEMMA EnvironmentType ==
    ASSUME TypeOK, Environment
    PROVE  TypeOK'
<1> USE DEF uiVars, queueVars, envVars
<1>1. CASE ServerStart
    BY <1>1 DEF ServerStart, TypeOK
<1>2. CASE ServerStop
    <2>1. ItemsOf(pipe) \subseteq 1..emitted
        BY DEF TypeOK, ItemsOf
    <2>2. <<>> \in Seq(1..emitted) /\ Len(<<>>) <= PipeCapacity
        BY TransportAssumption
    <2> QED
        BY <1>2, <2>1, <2>2 DEF ServerStop, TypeOK
<1>3. CASE DaemonReads
    <2>1. Head(pipe) \in 1..emitted /\ Tail(pipe) \in Seq(1..emitted)
          /\ Len(Tail(pipe)) <= PipeCapacity
        BY <1>3, PopType, TransportAssumption DEF DaemonReads, TypeOK
    <2>2. Append(received, Head(pipe)) \in Seq(1..emitted)
        BY <2>1, AppendType DEF TypeOK
    <2> QED
        BY <1>3, <2>1, <2>2 DEF DaemonReads, TypeOK
<1> QED
    BY <1>1, <1>2, <1>3 DEF Environment

\* No UI callback breaks the types.
LEMMA UiType ==
    ASSUME TypeOK, UiThread
    PROVE  TypeOK'
<1>1. ASSUME NEW b \in BOOLEAN, SetEnabled(b) PROVE TypeOK'
    BY <1>1 DEF SetEnabled, TypeOK, queueVars, envVars
<1>2. ASSUME NEW c \in TabStripChanges, NEW b \in BOOLEAN, OnTabStripModelChanged(c, b)
      PROVE  TypeOK'
    BY <1>2, EmitType DEF OnTabStripModelChanged
<1>3. CASE OnPageEvent
    BY <1>3, EmitType DEF OnPageEvent
<1>4. CASE TryReconnect
    BY <1>4 DEF TryReconnect, TypeOK, uiVars, queueVars, envVars
<1> QED
    BY <1>1, <1>2, <1>3, <1>4 DEF UiThread

\* Control state and the three safety invariants about handle and buffer.
LEMMA WorkerControl ==
    ASSUME IInv, Worker
    PROVE  (Control /\ StatusMatchesHandle /\ NothingBufferedBehindOpenPipe)'
<1> USE DEF IInv, TypeOK, Control, StatusMatchesHandle, NothingBufferedBehindOpenPipe
<1>1. CASE StartTask
    BY <1>1 DEF StartTask, queueVars
<1>2. CASE CreateFileSucceeds
    BY <1>2 DEF CreateFileSucceeds, queueVars
<1>3. CASE CreateFileFails
    BY <1>3 DEF CreateFileFails, queueVars
<1>4. CASE FlushDequeue
    BY <1>4, PopType DEF FlushDequeue
<1>5. CASE FlushDone
    BY <1>5 DEF FlushDone, queueVars
<1>6. CASE FlushWriteSucceeds
    BY <1>6 DEF FlushWriteSucceeds, queueVars
<1>7. CASE FlushWriteFails
    BY <1>7 DEF FlushWriteFails
<1>8. CASE AfterConnect
    BY <1>8 DEF AfterConnect, queueVars
<1>9. CASE WriteSucceeds
    BY <1>9 DEF WriteSucceeds, queueVars
<1>10. CASE WriteFails
    BY <1>10 DEF WriteFails
<1> QED
    BY <1>1, <1>2, <1>3, <1>4, <1>5, <1>6, <1>7, <1>8, <1>9, <1>10 DEF Worker

\* The slot the flush took its item from stays free until the item is settled.
LEMMA WorkerFlushSlot ==
    ASSUME IInv, Worker
    PROVE  FailedFlushLosesNothing'
<1> USE DEF FailedFlushLosesNothing
<1>1. CASE FlushDequeue
    <2>1. event_queue \in Seq(1..emitted) /\ Len(event_queue) <= MaxCapacity
          /\ event_queue # <<>>
        BY <1>1 DEF IInv, TypeOK, FlushDequeue
    <2>2. Len(event_queue') < MaxCapacity
        BY <1>1, <2>1, PopType, MaxCapacityAssumption DEF FlushDequeue
    <2> QED
        BY <2>1, <2>2, <1>1, PopType, MaxCapacityAssumption DEF IsFull, FlushDequeue
<1>2. CASE ~FlushDequeue
    <2>1. pc' # "write_item"
        BY <1>2 DEF Worker, StartTask, CreateFileSucceeds, CreateFileFails, FlushDone,
           FlushWriteSucceeds, FlushWriteFails, AfterConnect, WriteSucceeds, WriteFails
    <2> QED
        BY <2>1
<1> QED
    BY <1>1, <1>2

\* UI thread and daemon touch neither the worker's locals nor its queue.
LEMMA OthersControl ==
    ASSUME IInv, UiThread \/ Environment
    PROVE  (Control /\ StatusMatchesHandle /\ NothingBufferedBehindOpenPipe
            /\ FailedFlushLosesNothing)'
<1>1. UNCHANGED <<pc, hand, queued_item, status, event_queue>>
    BY DEF UiThread, Environment, SetEnabled, OnTabStripModelChanged, OnPageEvent,
       EmitEvents, TryReconnect, ServerStart, ServerStop, DaemonReads, queueVars
<1>2. pipe_handle' = INVALID <=> pipe_handle = INVALID
    BY DEF UiThread, Environment, SetEnabled, OnTabStripModelChanged, OnPageEvent,
       EmitEvents, TryReconnect, ServerStart, ServerStop, DaemonReads
<1> QED
    BY <1>1, <1>2 DEF IInv, Control, StatusMatchesHandle,
       NothingBufferedBehindOpenPipe, FailedFlushLosesNothing, IsFull

\* The invariant is inductive: every step of the system keeps it.
LEMMA NextIInv == IInv /\ [Next]_vars => IInv'
<1>1. ASSUME IInv, Worker PROVE IInv'
    BY <1>1, WorkerType, WorkerControl, WorkerFlushSlot DEF IInv
<1>2. ASSUME IInv, UiThread \/ Environment PROVE IInv'
    BY <1>2, UiType, EnvironmentType, OthersControl DEF IInv
<1>3. ASSUME IInv, UNCHANGED vars PROVE IInv'
    BY <1>3 DEF IInv, TypeOK, Control, StatusMatchesHandle, IsFull,
       NothingBufferedBehindOpenPipe, FailedFlushLosesNothing,
       vars, uiVars, queueVars, envVars
<1> QED
    BY <1>1, <1>2, <1>3 DEF Next

\* In every run of the transport, for any capacity, number of events and pipe
\* size, types, control, status and buffer are as IInv says.
THEOREM Inductive == Spec => []IInv
<1> QED
    BY InitIInv, NextIInv, PTL DEF Spec

\* The values every variable takes.
THEOREM TypeCorrect == Spec => []TypeOK
<1>1. IInv => TypeOK
    BY DEF IInv
<1> QED
    BY <1>1, Inductive, PTL

\* With the pipe open and no flush running the buffer is empty, so a payload
\* written by SendPayloadOnBackgroundThread overtakes nothing.
THEOREM OpenPipeMeansEmptyBuffer == Spec => []NothingBufferedBehindOpenPipe
<1>1. IInv => NothingBufferedBehindOpenPipe
    BY DEF IInv
<1> QED
    BY <1>1, Inductive, PTL

\* GetStatus never disagrees with the handle when the worker is at rest.
THEOREM StatusIsHandle == Spec => []StatusMatchesHandle
<1>1. IInv => StatusMatchesHandle
    BY DEF IInv
<1> QED
    BY <1>1, Inductive, PTL

\* Re-enqueueing the item of a failed flush never evicts another observation.
THEOREM FlushFailureLosesNothing == Spec => []FailedFlushLosesNothing
<1>1. IInv => FailedFlushLosesNothing
    BY DEF IInv
<1> QED
    BY <1>1, Inductive, PTL

-----------------------------------------------------------------------------
(* No payload is in two places *)

\* No number other than Nothing (= Connect) occurs twice.
Unrepeated(s) == \A i, j \in DOMAIN s : s[i] = s[j] /\ s[i] # Nothing => i = j

\* Appending a payload adds it to the items, once.
LEMMA ItemsAppend ==
    ASSUME NEW S, NEW s \in Seq(S), NEW x \in S
    PROVE  /\ ItemsOf(Append(s, x)) = ItemsOf(s) \cup {x}
           /\ (Unrepeated(s) /\ (x \notin ItemsOf(s) \/ x = Nothing))
                => Unrepeated(Append(s, x))
<1>1. /\ DOMAIN Append(s, x) = 1..(Len(s) + 1) /\ DOMAIN s = 1..Len(s)
      /\ Len(s) \in Nat
      /\ \A i \in 1..Len(s) : Append(s, x)[i] = s[i]
      /\ Append(s, x)[Len(s) + 1] = x
    OBVIOUS
<1>2. ItemsOf(Append(s, x)) = ItemsOf(s) \cup {x}
    BY <1>1 DEF ItemsOf
<1>3. ASSUME Unrepeated(s), x \notin ItemsOf(s) \/ x = Nothing
      PROVE  Unrepeated(Append(s, x))
    BY <1>1, <1>3 DEF Unrepeated, ItemsOf
<1> QED
    BY <1>2, <1>3

\* Taking the front payload removes exactly it.
LEMMA ItemsPop ==
    ASSUME NEW S, NEW s \in Seq(S), s # <<>>, Unrepeated(s)
    PROVE  /\ Head(s) \in ItemsOf(s)
           /\ ItemsOf(s) = ItemsOf(Tail(s)) \cup {Head(s)}
           /\ Head(s) # Nothing => Head(s) \notin ItemsOf(Tail(s))
           /\ Unrepeated(Tail(s))
<1>1. /\ DOMAIN s = 1..Len(s) /\ Len(s) \in Nat /\ Len(s) > 0
      /\ DOMAIN Tail(s) = 1..(Len(s) - 1)
      /\ Head(s) = s[1]
      /\ \A i \in 1..(Len(s) - 1) : Tail(s)[i] = s[i + 1]
    OBVIOUS
<1>2. ASSUME NEW i \in 2..Len(s) PROVE i - 1 \in 1..(Len(s) - 1) /\ s[i] = Tail(s)[i - 1]
    BY <1>1
<1>3. ItemsOf(s) = ItemsOf(Tail(s)) \cup {Head(s)}
    <2>1. ASSUME NEW i \in 1..Len(s) PROVE s[i] \in ItemsOf(Tail(s)) \cup {Head(s)}
        <3>1. CASE i = 1
            BY <1>1, <3>1
        <3>2. CASE i \in 2..Len(s)
            BY <1>1, <1>2, <3>2 DEF ItemsOf
        <3> QED
            BY <1>1, <3>1, <3>2
    <2>2. ASSUME NEW i \in 1..(Len(s) - 1) PROVE Tail(s)[i] \in ItemsOf(s)
        <3>1. i + 1 \in 1..Len(s) /\ Tail(s)[i] = s[i + 1]
            BY <1>1
        <3> QED
            BY <1>1, <3>1 DEF ItemsOf
    <2>3. Head(s) \in ItemsOf(s)
        BY <1>1 DEF ItemsOf
    <2> QED
        BY <1>1, <2>1, <2>2, <2>3 DEF ItemsOf
<1>4. Head(s) # Nothing => Head(s) \notin ItemsOf(Tail(s))
    BY <1>1 DEF ItemsOf, Unrepeated
<1>5. Unrepeated(Tail(s))
    BY <1>1 DEF Unrepeated
<1> QED
    BY <1>3, <1>4, <1>5

\* Enqueue adds the payload and loses the evicted one, nothing else.
LEMMA ItemsPushBack ==
    ASSUME NEW S, NEW buf \in Seq(S), NEW x \in S, Nothing \notin S,
           Unrepeated(buf), x \notin ItemsOf(buf)
    PROVE  /\ ItemsOf(PushBack(buf, x)) = (ItemsOf(buf) \ Evicted(buf)) \cup {x}
           /\ Evicted(buf) \subseteq ItemsOf(buf)
           /\ Unrepeated(PushBack(buf, x))
<1>1. CASE ~IsFull(buf)
    BY <1>1, ItemsAppend DEF PushBack, Evicted
<1>2. CASE IsFull(buf)
    <2>1. buf # <<>>
        BY <1>2, MaxCapacityAssumption DEF IsFull
    <2>2. Head(buf) \in S /\ Tail(buf) \in Seq(S)
        BY <2>1, PopType
    <2>3. /\ ItemsOf(Tail(buf)) = ItemsOf(buf) \ {Head(buf)}
          /\ Head(buf) \in ItemsOf(buf) /\ Unrepeated(Tail(buf))
        <3>1. Head(buf) # Nothing
            BY <2>2
        <3>2. /\ Head(buf) \in ItemsOf(buf) /\ Unrepeated(Tail(buf))
              /\ ItemsOf(buf) = ItemsOf(Tail(buf)) \cup {Head(buf)}
              /\ Head(buf) # Nothing => Head(buf) \notin ItemsOf(Tail(buf))
            BY <2>1, ItemsPop
        <3> QED
            BY <3>1, <3>2
    <2>4. /\ ItemsOf(Append(Tail(buf), x)) = ItemsOf(Tail(buf)) \cup {x}
          /\ Unrepeated(Append(Tail(buf), x))
        <3>1. x \notin ItemsOf(Tail(buf)) /\ Unrepeated(Tail(buf))
            BY <2>3
        <3>2. /\ ItemsOf(Append(Tail(buf), x)) = ItemsOf(Tail(buf)) \cup {x}
              /\ Unrepeated(Tail(buf)) /\ (x \notin ItemsOf(Tail(buf)) \/ x = Nothing)
                    => Unrepeated(Append(Tail(buf), x))
            BY <2>2, ItemsAppend
        <3> QED
            BY <3>1, <3>2
    <2> QED
        BY <1>2, <2>3, <2>4 DEF PushBack, Evicted
<1> QED
    BY <1>1, <1>2

\* The items of a typed queue are of its type.
LEMMA ItemsWithin ==
    ASSUME NEW S, NEW s \in Seq(S)
    PROVE  ItemsOf(s) \subseteq S
BY DEF ItemsOf

\* Posting n closures adds the next n payload numbers to the task queue.
LEMMA ItemsBatch ==
    ASSUME NEW e \in Nat, NEW n \in Nat, NEW s \in Seq(0..e), Unrepeated(s)
    PROVE  LET t == s \o [i \in 1..n |-> e + i]
           IN  ItemsOf(t) = ItemsOf(s) \cup (e + 1)..(e + n) /\ Unrepeated(t)
<1> DEFINE b == [i \in 1..n |-> e + i]
           t == s \o b
<1>1. b \in Seq(Nat) /\ Len(b) = n /\ s \in Seq(Nat)
    OBVIOUS
<1>2. /\ Len(s) \in Nat /\ DOMAIN s = 1..Len(s) /\ DOMAIN t = 1..(Len(s) + n)
      /\ \A i \in 1..Len(s) : t[i] = s[i] /\ s[i] \in 0..e
      /\ \A i \in (Len(s) + 1)..(Len(s) + n) : t[i] = e + (i - Len(s))
    BY <1>1
<1>3. ASSUME NEW p \in (e + 1)..(e + n)
      PROVE  p - e + Len(s) \in (Len(s) + 1)..(Len(s) + n) /\ t[p - e + Len(s)] = p
    BY <1>2
<1> HIDE DEF t
<1>4. ItemsOf(t) = ItemsOf(s) \cup (e + 1)..(e + n)
    <2>1. ItemsOf(t) \subseteq ItemsOf(s) \cup (e + 1)..(e + n)
        <3>1. ASSUME NEW i \in DOMAIN t PROVE t[i] \in ItemsOf(s) \cup (e + 1)..(e + n)
            <4>1. CASE i \in 1..Len(s)
                BY <1>2, <4>1 DEF ItemsOf
            <4>2. CASE i \in (Len(s) + 1)..(Len(s) + n)
                <5>1. t[i] = e + (i - Len(s))
                    BY <1>2, <4>2
                <5> QED
                    BY <1>2, <4>2, <5>1
            <4> QED
                BY <1>2, <4>1, <4>2
        <3> QED
            BY <3>1 DEF ItemsOf
    <2>2. ItemsOf(s) \subseteq ItemsOf(t)
        BY <1>2 DEF ItemsOf
    <2>3. (e + 1)..(e + n) \subseteq ItemsOf(t)
        <3>1. ASSUME NEW p \in (e + 1)..(e + n) PROVE p \in ItemsOf(t)
            <4>1. p - e + Len(s) \in DOMAIN t /\ t[p - e + Len(s)] = p
                BY <1>2, <1>3
            <4> QED
                BY <4>1 DEF ItemsOf
        <3> QED
            BY <3>1
    <2> QED
        BY <2>1, <2>2, <2>3
<1>5. Unrepeated(t)
    BY <1>2 DEF Unrepeated
<1> QED
    BY <1>4, <1>5 DEF t

Places == {"posted", "hand", "item", "buffered", "pipe", "received",
           "overflowed", "vanished"}

\* loc says where each payload emitted so far is.
Located(loc) ==
    /\ loc \in [1..emitted -> Places]
    /\ \A p \in 1..emitted :
        /\ p \in ItemsOf(tasks) <=> loc[p] = "posted"
        /\ p = hand <=> loc[p] = "hand"
        /\ p = queued_item <=> loc[p] = "item"
        /\ p \in ItemsOf(event_queue) <=> loc[p] = "buffered"
        /\ p \in ItemsOf(pipe) <=> loc[p] = "pipe"
        /\ p \in ItemsOf(received) <=> loc[p] = "received"
        /\ p \in overflowed <=> loc[p] = "overflowed"
        /\ p \in vanished <=> loc[p] = "vanished"

NoRepeats == Unrepeated(tasks) /\ Unrepeated(event_queue)
             /\ Unrepeated(pipe) /\ Unrepeated(received)

PInv ==
    /\ NoRepeats
    /\ \E loc : Located(loc)
    /\ dropped_count = Cardinality(overflowed)

\* At the start no payload is anywhere.
LEMMA InitPInv == Init => PInv
<1> SUFFICES ASSUME Init PROVE PInv
    OBVIOUS
<1>1. NoRepeats
    BY DEF Init, NoRepeats, Unrepeated
<1>2. Located([p \in 1..emitted |-> "posted"])
    BY DEF Init, Located, ItemsOf
<1>3. dropped_count = Cardinality(overflowed)
    BY FS_EmptySet DEF Init
<1> QED
    BY <1>1, <1>2, <1>3 DEF PInv

\* Buffering a payload that is in the worker's hands moves it to the buffer and
\* what it evicts to the overflow losses.
LEMMA BufferLocated ==
    ASSUME IInv, PInv, NEW x \in 1..emitted, Buffer(x), x \in {hand, queued_item},
           UNCHANGED <<emitted, tasks, pipe, received, vanished>>,
           NEW h, NEW q, hand' = h, queued_item' = q,
           x = hand => h = Nothing /\ q = queued_item,
           x = queued_item => q = Nothing /\ h = hand
    PROVE  PInv'
<1>1. PICK loc : Located(loc)
    BY DEF PInv
<1>2. /\ event_queue \in Seq(1..emitted) /\ Nothing \notin 1..emitted
      /\ Unrepeated(event_queue) /\ emitted \in Nat
    BY DEF IInv, TypeOK, PInv, NoRepeats
<1>3. x \notin ItemsOf(event_queue) /\ loc[x] \in {"hand", "item"}
    BY <1>1 DEF Located
<1>4. /\ ItemsOf(event_queue') = (ItemsOf(event_queue) \ Evicted(event_queue)) \cup {x}
      /\ Evicted(event_queue) \subseteq ItemsOf(event_queue)
      /\ Unrepeated(event_queue')
    BY <1>2, <1>3, ItemsPushBack DEF Buffer
<1>5. ItemsOf(event_queue) \subseteq 1..emitted
    BY <1>2, ItemsWithin
<1> PICK moved : moved = [p \in 1..emitted |->
                        IF p = x THEN "buffered"
                        ELSE IF p \in Evicted(event_queue) THEN "overflowed" ELSE loc[p]]
    OBVIOUS
<1>6. Located(moved)'
    <2>1. overflowed' = overflowed \cup Evicted(event_queue)
        BY Zenon DEF Buffer
    <2>2. moved \in [1..emitted -> Places]
        BY <1>1 DEF Located, Places
    <2> QED
        BY <1>1, <1>3, <1>4, <1>5, <2>1, <2>2, <1>2 DEF Located
<1>7. NoRepeats'
    BY <1>4 DEF NoRepeats, PInv, Unrepeated
<1>8. dropped_count' = Cardinality(overflowed)'
    <2>1. /\ dropped_count' = dropped_count + EvictedCount(event_queue)
          /\ overflowed' = overflowed \cup Evicted(event_queue)
        BY Zenon DEF Buffer
    <2>2. dropped_count = Cardinality(overflowed) /\ dropped_count \in Nat
        BY DEF PInv, IInv, TypeOK
    <2>3. IsFiniteSet(overflowed)
        <3>1. IsFiniteSet(1..emitted)
            BY <1>2, FS_Interval
        <3>2. overflowed \subseteq 1..emitted
            BY DEF IInv, TypeOK
        <3> QED
            BY <3>1, <3>2, FS_Subset
    <2>4. CASE IsFull(event_queue)
        <3>1. Evicted(event_queue) = {Head(event_queue)} /\ EvictedCount(event_queue) = 1
            BY <2>4 DEF Evicted, EvictedCount
        <3>2. Head(event_queue) \notin overflowed
            BY <3>1, <1>1, <1>4, <1>5 DEF Located
        <3>3. Cardinality(overflowed \cup {Head(event_queue)}) = Cardinality(overflowed) + 1
            BY <2>3, <3>2, FS_AddElement
        <3> QED
            BY <2>1, <2>2, <3>1, <3>3
    <2>5. CASE ~IsFull(event_queue)
        BY <2>1, <2>2, <2>5 DEF Evicted, EvictedCount
    <2> QED
        BY <2>4, <2>5
<1> QED
    BY <1>6, <1>7, <1>8 DEF PInv

\* A step that moves no payload keeps the invariant.
LEMMA NothingMoves ==
    ASSUME PInv,
           UNCHANGED <<emitted, tasks, hand, queued_item, queueVars, pipe, received, vanished>>
    PROVE  PInv'
<1>1. PICK loc : Located(loc)
    BY DEF PInv
<1>2. Located(loc)'
    BY <1>1 DEF Located, ItemsOf, queueVars
<1> QED
    BY <1>2 DEF PInv, NoRepeats, Unrepeated, queueVars

\* New observations appear among the posted closures only.
LEMMA EmitPInv ==
    ASSUME IInv, PInv, NEW n \in Nat, EmitEvents(n)
    PROVE  PInv'
<1>1. PICK loc : Located(loc)
    BY DEF PInv
<1>2. /\ emitted \in Nat /\ emitted' = emitted + n /\ tasks \in Seq(0..emitted)
      /\ Unrepeated(tasks)
    BY DEF IInv, TypeOK, PInv, NoRepeats, EmitEvents
<1>3. /\ ItemsOf(tasks') = ItemsOf(tasks) \cup (emitted + 1)..(emitted + n)
      /\ Unrepeated(tasks')
    BY <1>2, ItemsBatch DEF EmitEvents
<1> PICK moved : moved = [p \in 1..emitted' |-> IF p <= emitted THEN loc[p] ELSE "posted"]
    OBVIOUS
<1>4. UNCHANGED <<hand, queued_item, event_queue, dropped_count, overflowed, pipe,
                  received, vanished>>
    BY DEF EmitEvents, queueVars, envVars
<1>5. /\ ItemsOf(tasks) \subseteq 0..emitted /\ ItemsOf(event_queue) \subseteq 1..emitted
      /\ ItemsOf(pipe) \subseteq 1..emitted /\ ItemsOf(received) \subseteq 1..emitted
      /\ overflowed \subseteq 1..emitted /\ vanished \subseteq 1..emitted
      /\ hand \in 0..emitted /\ queued_item \in 0..emitted
    BY ItemsWithin DEF IInv, TypeOK
<1>6. Located(moved)'
    <2>1. moved \in [1..emitted' -> Places]
        BY <1>1, <1>2 DEF Located, Places
    <2>2. ASSUME NEW p \in 1..emitted'
          PROVE  \/ p \in 1..emitted /\ moved[p] = loc[p]
                 \/ p \in (emitted + 1)..(emitted + n) /\ moved[p] = "posted"
        <3>1. p \in Nat /\ p >= 1 /\ p <= emitted + n
            BY <1>2
        <3>2. CASE p <= emitted
            <4>1. p \in 1..emitted
                BY <1>2, <3>1, <3>2
            <4> QED
                BY <3>2, <4>1
        <3>3. CASE ~(p <= emitted)
            <4>1. p \in (emitted + 1)..(emitted + n)
                BY <1>2, <3>1, <3>3
            <4> QED
                BY <3>3, <4>1
        <3> QED
            BY <3>2, <3>3
    <2>3. /\ ItemsOf(event_queue') = ItemsOf(event_queue) /\ ItemsOf(pipe') = ItemsOf(pipe)
          /\ ItemsOf(received') = ItemsOf(received)
        BY <1>4
    <2> QED
        BY <1>1, <1>2, <1>3, <1>4, <1>5, <2>1, <2>2, <2>3 DEF Located
<1> QED
    BY <1>3, <1>4, <1>6 DEF PInv, NoRepeats

\* A UI callback moves no payload that exists already.
LEMMA UiPInv ==
    ASSUME IInv, PInv, UiThread
    PROVE  PInv'
<1>1. ASSUME NEW b \in BOOLEAN, SetEnabled(b) PROVE PInv'
    BY <1>1, NothingMoves DEF SetEnabled, envVars
<1>2. ASSUME NEW c \in TabStripChanges, NEW b \in BOOLEAN, OnTabStripModelChanged(c, b)
      PROVE  PInv'
    BY <1>2, EmitPInv DEF OnTabStripModelChanged
<1>3. CASE OnPageEvent
    BY <1>3, EmitPInv DEF OnPageEvent
<1>4. CASE TryReconnect
    <2>1. PICK loc : Located(loc)
        BY DEF PInv
    <2>2. /\ tasks \in Seq(0..emitted) /\ 0 \in 0..emitted /\ Unrepeated(tasks)
        BY DEF IInv, TypeOK, PInv, NoRepeats
    <2>3. ItemsOf(tasks') = ItemsOf(tasks) \cup {Connect} /\ Unrepeated(tasks')
        <3>1. tasks' = Append(tasks, Connect)
            BY <1>4, Zenon DEF TryReconnect
        <3>2. /\ ItemsOf(Append(tasks, Connect)) = ItemsOf(tasks) \cup {Connect}
              /\ Unrepeated(tasks) => Unrepeated(Append(tasks, Connect))
            <4> HIDE DEF Connect
            <4>1. Connect \in 0..emitted
                BY <2>2 DEF Connect
            <4>2. Connect = Nothing
                BY DEF Connect
            <4>3. tasks \in Seq(0..emitted)
                BY <2>2
            <4>4. /\ ItemsOf(Append(tasks, Connect)) = ItemsOf(tasks) \cup {Connect}
                  /\ (Unrepeated(tasks) /\ (Connect \notin ItemsOf(tasks) \/ Connect = Nothing))
                        => Unrepeated(Append(tasks, Connect))
                BY <4>1, <4>3, ItemsAppend
            <4> QED
                BY <4>2, <4>4
        <3>3. Unrepeated(tasks)
            BY <2>2
        <3> QED
            BY <3>1, <3>2, <3>3
    <2>4. UNCHANGED <<emitted, hand, queued_item, event_queue, dropped_count, overflowed,
                      pipe, received, vanished>>
        BY <1>4 DEF TryReconnect, uiVars, queueVars, envVars
    <2>5. Located(loc)'
        <3>1. /\ ItemsOf(event_queue') = ItemsOf(event_queue)
              /\ ItemsOf(pipe') = ItemsOf(pipe) /\ ItemsOf(received') = ItemsOf(received)
            BY <2>4
        <3>2. \A p \in 1..emitted : p \in ItemsOf(tasks') <=> p \in ItemsOf(tasks)
            BY <2>3
        <3> QED
            BY <2>1, <2>4, <3>1, <3>2 DEF Located
    <2> QED
        BY <2>3, <2>4, <2>5 DEF PInv, NoRepeats
<1> QED
    BY <1>1, <1>2, <1>3, <1>4 DEF UiThread

\* The daemon's end moves payloads from the pipe to the read or the vanished.
LEMMA EnvironmentPInv ==
    ASSUME IInv, PInv, Environment
    PROVE  PInv'
<1>1. PICK loc : Located(loc)
    BY DEF PInv
<1>2. CASE ServerStart
    BY <1>2, NothingMoves DEF ServerStart, uiVars, queueVars
<1>3. CASE ServerStop
    <2> PICK moved : moved = [p \in 1..emitted |-> IF loc[p] = "pipe" THEN "vanished"
                                                   ELSE loc[p]]
        OBVIOUS
    <2>1. /\ UNCHANGED <<emitted, tasks, hand, queued_item, event_queue, dropped_count,
                         overflowed, received>>
          /\ pipe' = <<>> /\ vanished' = vanished \cup ItemsOf(pipe)
        BY <1>3 DEF ServerStop, uiVars, queueVars
    <2>2. ItemsOf(pipe') = {} /\ Unrepeated(pipe')
        BY <2>1 DEF ItemsOf, Unrepeated
    <2>3. /\ ItemsOf(tasks') = ItemsOf(tasks) /\ ItemsOf(event_queue') = ItemsOf(event_queue)
          /\ ItemsOf(received') = ItemsOf(received)
        BY <2>1
    <2>4. Located(moved)'
        BY <1>1, <2>1, <2>2, <2>3 DEF Located, Places
    <2> QED
        BY <2>1, <2>2, <2>4 DEF PInv, NoRepeats
<1>4. CASE DaemonReads
    <2> PICK moved : moved = [p \in 1..emitted |-> IF p = Head(pipe) THEN "received"
                                                   ELSE loc[p]]
        OBVIOUS
    <2>1. /\ UNCHANGED <<emitted, tasks, hand, queued_item, event_queue, dropped_count,
                         overflowed, vanished>>
          /\ pipe # <<>> /\ pipe' = Tail(pipe) /\ received' = Append(received, Head(pipe))
        BY <1>4 DEF DaemonReads, uiVars, queueVars
    <2>2. /\ pipe \in Seq(1..emitted) /\ received \in Seq(1..emitted)
          /\ Unrepeated(pipe) /\ Unrepeated(received) /\ emitted \in Nat
        BY DEF IInv, TypeOK, PInv, NoRepeats
    <2>3. /\ Head(pipe) \in 1..emitted /\ Head(pipe) \in ItemsOf(pipe)
          /\ ItemsOf(pipe') = ItemsOf(pipe) \ {Head(pipe)} /\ Unrepeated(pipe')
        BY <2>1, <2>2, PopType, ItemsPop
    <2>4. Head(pipe) \notin ItemsOf(received)
        BY <1>1, <2>3 DEF Located
    <2>5. ItemsOf(received') = ItemsOf(received) \cup {Head(pipe)} /\ Unrepeated(received')
        BY <2>1, <2>2, <2>3, <2>4, ItemsAppend
    <2>6. ItemsOf(tasks') = ItemsOf(tasks) /\ ItemsOf(event_queue') = ItemsOf(event_queue)
        BY <2>1
    <2>7. Located(moved)'
        BY <1>1, <2>1, <2>3, <2>5, <2>6 DEF Located, Places
    <2> QED
        BY <2>1, <2>3, <2>5, <2>7 DEF PInv, NoRepeats
<1> QED
    BY <1>2, <1>3, <1>4 DEF Environment

\* Every step of the worker moves a payload from one place to another.
LEMMA WorkerPInv ==
    ASSUME IInv, PInv, Worker
    PROVE  PInv'
<1>1. PICK loc : Located(loc)
    BY DEF PInv
<1>2. /\ tasks \in Seq(0..emitted) /\ event_queue \in Seq(1..emitted)
      /\ pipe \in Seq(1..emitted) /\ emitted \in Nat /\ Nothing \notin 1..emitted
      /\ Unrepeated(tasks) /\ Unrepeated(event_queue) /\ Unrepeated(pipe)
    BY DEF IInv, TypeOK, PInv, NoRepeats
<1>3. CASE StartTask
    <2> PICK moved : moved = [p \in 1..emitted |-> IF p = Head(tasks) THEN "hand" ELSE loc[p]]
        OBVIOUS
    <2>1. /\ UNCHANGED <<emitted, queued_item, event_queue, dropped_count, overflowed, pipe,
                         received, vanished>>
          /\ tasks # <<>> /\ tasks' = Tail(tasks) /\ hand' = Head(tasks)
        BY <1>3 DEF StartTask, uiVars, queueVars, envVars
    <2>2. hand = Nothing
        BY <1>3 DEF StartTask, IInv, Control
    <2>3. /\ Head(tasks) \in 0..emitted /\ Head(tasks) \in ItemsOf(tasks)
          /\ ItemsOf(tasks) = ItemsOf(tasks') \cup {Head(tasks)}
          /\ Head(tasks) # Nothing => Head(tasks) \notin ItemsOf(tasks')
          /\ Unrepeated(tasks')
        BY <1>2, <2>1, PopType, ItemsPop
    <2>4. /\ ItemsOf(event_queue') = ItemsOf(event_queue) /\ ItemsOf(pipe') = ItemsOf(pipe)
          /\ ItemsOf(received') = ItemsOf(received)
        BY <2>1
    <2>5. Located(moved)'
        BY <1>1, <1>2, <2>1, <2>2, <2>3, <2>4 DEF Located, Places
    <2> QED
        BY <2>1, <2>3, <2>5 DEF PInv, NoRepeats
<1>4. CASE CreateFileSucceeds \/ CreateFileFails \/ FlushDone
    BY <1>4, NothingMoves DEF CreateFileSucceeds, CreateFileFails, FlushDone, uiVars, envVars
<1>5. CASE FlushDequeue
    <2> PICK moved : moved = [p \in 1..emitted |-> IF p = Head(event_queue) THEN "item"
                                                   ELSE loc[p]]
        OBVIOUS
    <2>1. /\ UNCHANGED <<emitted, tasks, hand, dropped_count, overflowed, pipe, received,
                         vanished>>
          /\ event_queue # <<>> /\ event_queue' = Tail(event_queue)
          /\ queued_item' = Head(event_queue)
        BY <1>5 DEF FlushDequeue, uiVars, envVars
    <2>2. queued_item = Nothing
        BY <1>5 DEF FlushDequeue, IInv, Control
    <2>3. /\ Head(event_queue) \in 1..emitted /\ Head(event_queue) \in ItemsOf(event_queue)
          /\ ItemsOf(event_queue') = ItemsOf(event_queue) \ {Head(event_queue)}
          /\ Unrepeated(event_queue')
        BY <1>2, <2>1, PopType, ItemsPop
    <2>4. /\ ItemsOf(tasks') = ItemsOf(tasks) /\ ItemsOf(pipe') = ItemsOf(pipe)
          /\ ItemsOf(received') = ItemsOf(received)
        BY <2>1
    <2>5. Located(moved)'
        BY <1>1, <1>2, <2>1, <2>2, <2>3, <2>4 DEF Located, Places
    <2> QED
        BY <2>1, <2>3, <2>5 DEF PInv, NoRepeats
<1>6. CASE FlushWriteSucceeds
    <2> PICK moved : moved = [p \in 1..emitted |-> IF p = queued_item THEN "pipe" ELSE loc[p]]
        OBVIOUS
    <2>1. /\ UNCHANGED <<emitted, tasks, event_queue, dropped_count, overflowed, received,
                         vanished, hand>>
          /\ queued_item' = Nothing /\ pipe' = Append(pipe, queued_item)
        BY <1>6 DEF FlushWriteSucceeds, WriteFileSucceeds, uiVars, queueVars, envVars
    <2>2. queued_item \in 1..emitted /\ pc \in {"write_item", "write_payload"}
        BY <1>6 DEF FlushWriteSucceeds, IInv, TypeOK, Control
    <2>3. loc[queued_item] = "item" /\ queued_item \notin ItemsOf(pipe)
        BY <1>1, <2>2 DEF Located
    <2>4. ItemsOf(pipe') = ItemsOf(pipe) \cup {queued_item} /\ Unrepeated(pipe')
        BY <1>2, <2>1, <2>2, <2>3, ItemsAppend
    <2>5. /\ ItemsOf(tasks') = ItemsOf(tasks) /\ ItemsOf(event_queue') = ItemsOf(event_queue)
          /\ ItemsOf(received') = ItemsOf(received)
        BY <2>1
    <2>6. Located(moved)'
        BY <1>1, <1>2, <2>1, <2>2, <2>3, <2>4, <2>5 DEF Located, Places
    <2> QED
        BY <2>1, <2>4, <2>6 DEF PInv, NoRepeats
<1>7. CASE WriteSucceeds
    <2> PICK moved : moved = [p \in 1..emitted |-> IF p = hand THEN "pipe" ELSE loc[p]]
        OBVIOUS
    <2>1. /\ UNCHANGED <<emitted, tasks, event_queue, dropped_count, overflowed, received,
                         vanished, queued_item>>
          /\ hand' = Nothing /\ pipe' = Append(pipe, hand)
        BY <1>7 DEF WriteSucceeds, WriteFileSucceeds, uiVars, queueVars, envVars
    <2>2. hand \in 1..emitted /\ pc \in {"write_item", "write_payload"}
        BY <1>7 DEF WriteSucceeds, IInv, TypeOK, Control
    <2>3. loc[hand] = "hand" /\ hand \notin ItemsOf(pipe)
        BY <1>1, <2>2 DEF Located
    <2>4. ItemsOf(pipe') = ItemsOf(pipe) \cup {hand} /\ Unrepeated(pipe')
        BY <1>2, <2>1, <2>2, <2>3, ItemsAppend
    <2>5. /\ ItemsOf(tasks') = ItemsOf(tasks) /\ ItemsOf(event_queue') = ItemsOf(event_queue)
          /\ ItemsOf(received') = ItemsOf(received)
        BY <2>1
    <2>6. Located(moved)'
        BY <1>1, <1>2, <2>1, <2>2, <2>3, <2>4, <2>5 DEF Located, Places
    <2> QED
        BY <2>1, <2>4, <2>6 DEF PInv, NoRepeats
<1>8. CASE FlushWriteFails
    <2>1. queued_item \in 1..emitted /\ Buffer(queued_item) /\ queued_item' = Nothing
        BY <1>8 DEF FlushWriteFails, IInv, TypeOK, Control
    <2>2. queued_item # hand
        BY <1>1, <2>1 DEF Located
    <2> QED
        BY <1>8, <2>1, <2>2, BufferLocated DEF FlushWriteFails, uiVars, envVars
<1>9. ASSUME hand # Nothing, Buffer(hand), hand' = Nothing,
             UNCHANGED <<emitted, tasks, queued_item, pipe, received, vanished>>
      PROVE  PInv'
    <2>1. hand \in 1..emitted
        BY <1>9 DEF IInv, TypeOK
    <2>2. queued_item # hand
        BY <1>1, <2>1 DEF Located
    <2> QED
        BY <1>9, <2>1, <2>2, BufferLocated
<1>10. CASE WriteFails
    BY <1>9, <1>10 DEF WriteFails, IInv, Control, uiVars, envVars
<1>11. CASE AfterConnect
    <2>1. CASE UNCHANGED <<hand, queueVars>>
        BY <1>11, <2>1, NothingMoves DEF AfterConnect, uiVars, envVars
    <2> QED
        BY <1>9, <1>11, <2>1 DEF AfterConnect, uiVars, envVars
<1> QED
    BY <1>3, <1>4, <1>5, <1>6, <1>7, <1>8, <1>10, <1>11 DEF Worker

\* That every payload is in one place is inductive, given IInv.
LEMMA NextPInv == IInv /\ PInv /\ [Next]_vars => PInv'
<1>1. ASSUME IInv, PInv, UNCHANGED vars PROVE PInv'
    BY <1>1, NothingMoves DEF vars, uiVars, queueVars, envVars
<1> QED
    BY <1>1, UiPInv, WorkerPInv, EnvironmentPInv DEF Next

\* In every run of the transport each emitted observation is in exactly one
\* place, and the queue's drop counter counts those that overflowed.
THEOREM InductivePlaces == Spec => [](IInv /\ PInv)
<1> QED
    BY InitPInv, NextPInv, Inductive, PTL DEF Spec

-----------------------------------------------------------------------------
(* What follows for the daemon *)

Settled == ItemsOf(received) \cup overflowed \cup vanished

\* What the channel still carries is what was emitted and is not settled.
LEMMA UndeliveredIsRest == IInv /\ PInv => Undelivered = (1..emitted) \ Settled
<1> SUFFICES ASSUME IInv, PInv PROVE Undelivered = (1..emitted) \ Settled
    OBVIOUS
<1>1. PICK loc : Located(loc)
    BY DEF PInv
<1>2. /\ ItemsOf(tasks) \subseteq 0..emitted /\ ItemsOf(event_queue) \subseteq 1..emitted
      /\ ItemsOf(pipe) \subseteq 1..emitted /\ emitted \in Nat
      /\ hand \in 0..emitted /\ queued_item \in 0..emitted
    BY ItemsWithin DEF IInv, TypeOK
<1>3. Undelivered \subseteq 1..emitted
    <2>1. Posted \subseteq 1..emitted
        BY <1>2 DEF Posted
    <2>2. InHand \subseteq 1..emitted
        BY <1>2 DEF InHand
    <2> QED
        BY <1>2, <2>1, <2>2 DEF Undelivered, Buffered
<1>4. ASSUME NEW p \in 1..emitted PROVE p \in Undelivered <=> p \notin Settled
    <2>1. p # 0 /\ loc[p] \in Places
        BY <1>1, <1>2 DEF Located
    <2> QED
        BY <1>1, <2>1 DEF Located, Places, Undelivered, Posted, InHand, Buffered, Settled
<1> QED
    BY <1>3, <1>4

\* The same of the next state, for the steps of the refinement.
LEMMA UndeliveredIsRestNext == (IInv /\ PInv)' => (Undelivered = (1..emitted) \ Settled)'
<1> QED
    BY UndeliveredIsRest, PTL

\* The daemon reads no observation twice and none the adapter still holds.
THEOREM AtMostOnceDelivery == Spec => []DeliveredAtMostOnce
<1>1. ASSUME IInv, PInv PROVE DeliveredAtMostOnce
    <2>1. Unrepeated(received) /\ received \in Seq(1..emitted) /\ emitted \in Nat
        BY <1>1 DEF PInv, NoRepeats, IInv, TypeOK
    <2>2. \A k \in DOMAIN received : received[k] \in 1..emitted /\ received[k] # 0
        BY <2>1
    <2>3. \A k, l \in DOMAIN received : received[k] = received[l] => k = l
        BY <2>1, <2>2 DEF Unrepeated
    <2>4. \A k \in DOMAIN received : received[k] \notin Undelivered
        BY <1>1, UndeliveredIsRest DEF Settled, ItemsOf
    <2> QED
        BY <2>3, <2>4 DEF DeliveredAtMostOnce, Channel!AtMostOnce
<1> QED
    BY <1>1, InductivePlaces, PTL

\* Every observation emitted is in exactly one place: on its way, read by the
\* daemon, or lost for a reason the counters know.
THEOREM NothingUnaccountedFor == Spec => []PayloadsAccountedFor
<1>1. ASSUME IInv, PInv PROVE PayloadsAccountedFor
    <2>1. PICK loc : Located(loc)
        BY <1>1 DEF PInv
    <2> DEFINE At(l) == {p \in 1..emitted : loc[p] = l}
    <2>2. /\ ItemsOf(tasks) \subseteq 0..emitted /\ ItemsOf(event_queue) \subseteq 1..emitted
          /\ ItemsOf(pipe) \subseteq 1..emitted /\ ItemsOf(received) \subseteq 1..emitted
          /\ overflowed \subseteq 1..emitted /\ vanished \subseteq 1..emitted
          /\ emitted \in Nat /\ hand \in 0..emitted /\ queued_item \in 0..emitted
        BY <1>1, ItemsWithin DEF IInv, TypeOK
    <2>3. Posted = At("posted")
        BY <2>1, <2>2 DEF Located, Posted
    <2>4. {hand} \ {Nothing} = At("hand") /\ {queued_item} \ {Nothing} = At("item")
        BY <2>1, <2>2 DEF Located
    <2>5. Buffered = At("buffered")
        BY <2>1, <2>2 DEF Located, Buffered
    <2>6. ItemsOf(pipe) = At("pipe") /\ ItemsOf(received) = At("received")
        BY <2>1, <2>2 DEF Located
    <2>7. overflowed = At("overflowed") /\ vanished = At("vanished")
        BY <2>1, <2>2 DEF Located
    <2> DEFINE names == <<"posted", "hand", "item", "buffered", "pipe", "received",
                          "overflowed", "vanished">>
               places == <<At("posted"), At("hand"), At("item"), At("buffered"), At("pipe"),
                           At("received"), At("overflowed"), At("vanished")>>
    <2>8. /\ DOMAIN places = 1..8 /\ DOMAIN names = 1..8
          /\ \A k \in 1..8 : places[k] = At(names[k])
          /\ \A k, l \in 1..8 : k # l => names[k] # names[l]
          /\ \A l \in Places : \E k \in 1..8 : names[k] = l
        BY DEF Places
    <2>9. \A k, l \in DOMAIN places : k # l => places[k] \cap places[l] = {}
        <3> HIDE DEF names, places
        <3> QED
            BY <2>8
    <2>10. 1..emitted = UNION {places[k] : k \in DOMAIN places}
        <3>1. \A p \in 1..emitted : loc[p] \in Places
            BY <2>1 DEF Located
        <3> HIDE DEF names, places
        <3> QED
            BY <2>8, <3>1
    <2>11. dropped_count = Cardinality(overflowed)
        BY <1>1 DEF PInv
    <2>12. <<Posted, {hand} \ {Nothing}, {queued_item} \ {Nothing}, Buffered,
             ItemsOf(pipe), ItemsOf(received), overflowed, vanished>> = places
        <3> HIDE DEF At
        <3> QED
            BY <2>3, <2>4, <2>5, <2>6, <2>7
    <2> HIDE DEF places
    <2> QED
        BY <2>9, <2>10, <2>11, <2>12, Zenon DEF PayloadsAccountedFor
<1> QED
    BY <1>1, InductivePlaces, PTL

\* Posting, connecting, flushing, buffering, failing and dying, the adapter is
\* an at-most-once channel that may lose and reorder but never repeats.
THEOREM TransportRefinement == Spec => ImplementsLossyChannel
<1>1. ASSUME Init PROVE Channel!Init
    <2>1. received = <<>> /\ emitted = 0
        BY <1>1 DEF Init
    <2>2. Undelivered = {}
        BY <1>1 DEF Init, Undelivered, Posted, InHand, Buffered, ItemsOf
    <2> QED
        BY <2>1, <2>2 DEF Channel!Init
<1>2. ASSUME IInv, PInv, (IInv /\ PInv)', [Next]_vars
      PROVE  [Channel!Next]_Channel!vars
    <2>1. /\ Undelivered = (1..emitted) \ Settled
          /\ Undelivered' = (1..emitted') \ Settled'
        BY <1>2, UndeliveredIsRest, UndeliveredIsRestNext
    <2>2. emitted \in Nat /\ emitted' \in Nat
        BY <1>2 DEF IInv, TypeOK
    <2>3. ASSUME UNCHANGED <<emitted, received>>, Settled \subseteq Settled'
          PROVE  Channel!Next
        BY <2>1, <2>3 DEF Channel!Next, Channel!Lose
    <2>4. ASSUME NEW n \in Nat, EmitEvents(n) PROVE [Channel!Next]_Channel!vars
        <3>1. emitted' = emitted + n /\ UNCHANGED <<received, Settled>>
            BY <2>4 DEF EmitEvents, queueVars, envVars, Settled
        <3>2. CASE n = 0
            BY <2>2, <2>3, <3>1, <3>2
        <3>3. CASE n > 0
            <4>1. Settled \subseteq 1..emitted
                BY <1>2, ItemsWithin DEF IInv, TypeOK, Settled
            <4>2. 1..emitted' = (1..emitted) \cup (emitted + 1)..emitted'
                BY <2>2, <3>1
            <4>3. Settled \cap (emitted + 1)..emitted' = {}
                BY <2>2, <4>1
            <4>4. Undelivered' = Undelivered \cup (emitted + 1)..emitted'
                BY <2>1, <3>1, <4>2, <4>3
            <4>5. emitted' > emitted
                BY <2>2, <3>1, <3>3
            <4> QED
                BY <2>2, <3>1, <4>4, <4>5 DEF Channel!Next, Channel!Send
        <3> QED
            BY <3>2, <3>3
    <2>5. ASSUME DaemonReads PROVE Channel!Next
        <3>1. /\ emitted' = emitted /\ received' = Append(received, Head(pipe))
              /\ UNCHANGED <<overflowed, vanished>> /\ pipe # <<>>
            BY <2>5 DEF DaemonReads, uiVars, queueVars
        <3>2. pipe \in Seq(1..emitted) /\ received \in Seq(1..emitted) /\ Unrepeated(pipe)
            BY <1>2 DEF IInv, TypeOK, PInv, NoRepeats
        <3>3. Head(pipe) \in ItemsOf(pipe) /\ Head(pipe) \in 1..emitted
            BY <3>1, <3>2, ItemsPop, PopType
        <3>4. ItemsOf(received') = ItemsOf(received) \cup {Head(pipe)}
            BY <3>1, <3>2, <3>3, ItemsAppend
        <3>5. Head(pipe) \in Undelivered
            BY <3>3 DEF Undelivered
        <3>6. Undelivered' = Undelivered \ {Head(pipe)}
            BY <2>1, <3>1, <3>4 DEF Settled
        <3> QED
            BY <3>1, <3>5, <3>6 DEF Channel!Next, Channel!Deliver
    <2>6. ASSUME Worker PROVE Channel!Next
        <3>1. UNCHANGED <<emitted, received, vanished>>
            BY <2>6 DEF Worker, StartTask, CreateFileSucceeds, CreateFileFails, FlushDequeue,
               FlushDone, FlushWriteSucceeds, FlushWriteFails, AfterConnect, WriteSucceeds,
               WriteFails, uiVars, envVars
        <3>2. overflowed \subseteq overflowed'
            BY <2>6 DEF Worker, StartTask, CreateFileSucceeds, CreateFileFails, FlushDequeue,
               FlushDone, FlushWriteSucceeds, FlushWriteFails, AfterConnect, WriteSucceeds,
               WriteFails, Buffer, queueVars
        <3> QED
            BY <2>3, <3>1, <3>2 DEF Settled
    <2>7. ASSUME ServerStart \/ ServerStop PROVE Channel!Next
        <3>1. UNCHANGED <<emitted, received, overflowed>> /\ vanished \subseteq vanished'
            BY <2>7 DEF ServerStart, ServerStop, uiVars, queueVars
        <3> QED
            BY <2>3, <3>1 DEF Settled
    <2>8. ASSUME TryReconnect \/ (\E b \in BOOLEAN : SetEnabled(b)) PROVE Channel!Next
        <3>1. UNCHANGED <<emitted, received, overflowed, vanished>>
            BY <2>8 DEF TryReconnect, SetEnabled, uiVars, queueVars, envVars
        <3> QED
            BY <2>3, <3>1 DEF Settled
    <2>9. CASE UNCHANGED vars
        <3>1. UNCHANGED <<emitted, received, overflowed, vanished>>
            BY <2>9 DEF vars, uiVars, queueVars, envVars
        <3> QED
            BY <2>3, <3>1 DEF Settled
    <2> QED
        BY <1>2, <2>4, <2>5, <2>6, <2>7, <2>8, <2>9
           DEF Next, UiThread, Environment, OnTabStripModelChanged, OnPageEvent
<1> QED
    BY <1>1, <1>2, InductivePlaces, PTL
       DEF Spec, ImplementsLossyChannel, Channel!Spec


-----------------------------------------------------------------------------
(* The order of the observations on the path: where it can be lost, and what an    *)
(* overflow discards while it is kept                                            *)

\* The items of one place are in the order of emission.
Rising(s) == \A i, j \in DOMAIN s : i < j => Older(s[i], s[j])

\* The items of A were emitted before those of B.
Ahead(A, B) == \A p \in A, q \in B : Older(p, q)

\* InOrder, place by place and pair by pair.
OrderedPlaces ==
    /\ Rising(received) /\ Rising(pipe) /\ Rising(event_queue) /\ Rising(tasks)
    /\ Ahead(ItemsOf(received), ItemsOf(pipe)) /\ Ahead(ItemsOf(received), {queued_item})
    /\ Ahead(ItemsOf(received), ItemsOf(event_queue)) /\ Ahead(ItemsOf(received), {hand})
    /\ Ahead(ItemsOf(received), ItemsOf(tasks))
    /\ Ahead(ItemsOf(pipe), {queued_item}) /\ Ahead(ItemsOf(pipe), ItemsOf(event_queue))
    /\ Ahead(ItemsOf(pipe), {hand}) /\ Ahead(ItemsOf(pipe), ItemsOf(tasks))
    /\ Ahead({queued_item}, ItemsOf(event_queue)) /\ Ahead({queued_item}, {hand})
    /\ Ahead({queued_item}, ItemsOf(tasks))
    /\ Ahead(ItemsOf(event_queue), {hand}) /\ Ahead(ItemsOf(event_queue), ItemsOf(tasks))
    /\ Ahead({hand}, ItemsOf(tasks))

\* The order of the path is the order of its places.
LEMMA OrderIsOfPlaces == InOrder <=> OrderedPlaces
<1>1. /\ DOMAIN Path = 1..6
      /\ Path[1] = received /\ Path[2] = pipe /\ Path[3] = <<queued_item>>
      /\ Path[4] = event_queue /\ Path[5] = <<hand>> /\ Path[6] = tasks
    BY DEF Path
<1>2. ItemsOf(<<queued_item>>) = {queued_item} /\ ItemsOf(<<hand>>) = {hand}
    BY DEF ItemsOf
<1>3. Rising(<<queued_item>>) /\ Rising(<<hand>>)
    BY DEF Rising
<1>4. InOrder <=> /\ \A k \in 1..6 : Rising(Path[k])
                  /\ \A k, l \in 1..6 : k < l => Ahead(ItemsOf(Path[k]), ItemsOf(Path[l]))
    BY <1>1 DEF InOrder, Rising, Ahead
<1>5. (\A k \in 1..6 : Rising(Path[k]))
        <=> Rising(received) /\ Rising(pipe) /\ Rising(event_queue) /\ Rising(tasks)
    <2>1. \A k \in 1..6 : k \in {1, 2, 3, 4, 5, 6}
        OBVIOUS
    <2> QED
        BY <1>1, <1>3, <2>1
<1>6. \A k, l \in 1..6 : k < l <=>
        <<k, l>> \in {<<1, 2>>, <<1, 3>>, <<1, 4>>, <<1, 5>>, <<1, 6>>, <<2, 3>>, <<2, 4>>,
                      <<2, 5>>, <<2, 6>>, <<3, 4>>, <<3, 5>>, <<3, 6>>, <<4, 5>>, <<4, 6>>,
                      <<5, 6>>}
    OBVIOUS
<1>7. InOrder => OrderedPlaces
    BY <1>1, <1>2, <1>4, <1>5 DEF OrderedPlaces
<1>8. OrderedPlaces => InOrder
    BY <1>1, <1>2, <1>4, <1>5, <1>6 DEF OrderedPlaces
<1> QED
    BY <1>7, <1>8

\* The same after a step.
LEMMA OrderIsOfPlacesNext == InOrder' <=> OrderedPlaces'
<1> QED
    BY OrderIsOfPlaces, PTL

-----------------------------------------------------------------------------
(* Operations on one place *)

\* An item younger than all others goes to the back.
LEMMA RisingAppend ==
    ASSUME NEW S, NEW s \in Seq(S), NEW x \in S, Rising(s), Ahead(ItemsOf(s), {x})
    PROVE  /\ Rising(Append(s, x))
           /\ ItemsOf(Append(s, x)) = ItemsOf(s) \cup {x}
<1>1. /\ DOMAIN Append(s, x) = 1..(Len(s) + 1) /\ DOMAIN s = 1..Len(s)
      /\ Len(s) \in Nat
      /\ \A i \in 1..Len(s) : Append(s, x)[i] = s[i] /\ s[i] \in ItemsOf(s)
      /\ Append(s, x)[Len(s) + 1] = x
    BY DEF ItemsOf
<1>2. ASSUME NEW i \in 1..(Len(s) + 1), NEW j \in 1..(Len(s) + 1), i < j
      PROVE  Older(Append(s, x)[i], Append(s, x)[j])
    <2>1. CASE j \in 1..Len(s)
        BY <1>1, <1>2, <2>1 DEF Rising
    <2>2. CASE j = Len(s) + 1
        BY <1>1, <1>2, <2>2 DEF Ahead
    <2> QED
        BY <1>1, <2>1, <2>2
<1> QED
    BY <1>1, <1>2, ItemsAppend DEF Rising

\* The first item is older than the rest.
LEMMA RisingPop ==
    ASSUME NEW S, NEW s \in Seq(S), s # <<>>, Rising(s), Unrepeated(s)
    PROVE  /\ Rising(Tail(s)) /\ Ahead({Head(s)}, ItemsOf(Tail(s)))
           /\ ItemsOf(s) = ItemsOf(Tail(s)) \cup {Head(s)}
<1>1. /\ DOMAIN s = 1..Len(s) /\ Len(s) \in Nat /\ Len(s) > 0
      /\ DOMAIN Tail(s) = 1..(Len(s) - 1)
      /\ Head(s) = s[1]
      /\ \A i \in 1..(Len(s) - 1) : Tail(s)[i] = s[i + 1]
    OBVIOUS
<1>2. Rising(Tail(s))
    BY <1>1 DEF Rising
<1>3. Ahead({Head(s)}, ItemsOf(Tail(s)))
    BY <1>1 DEF Rising, Ahead, ItemsOf
<1> QED
    BY <1>2, <1>3, ItemsPop

\* Enqueue keeps the order if its item is younger; the evicted one is the oldest.
LEMMA RisingPushBack ==
    ASSUME NEW S, NEW buf \in Seq(S), NEW x \in S, Rising(buf), Unrepeated(buf),
           Ahead(ItemsOf(buf), {x})
    PROVE  /\ Rising(PushBack(buf, x))
           /\ ItemsOf(PushBack(buf, x)) \subseteq ItemsOf(buf) \cup {x}
           /\ Evicted(buf) \subseteq ItemsOf(buf)
           /\ Ahead(Evicted(buf), ItemsOf(PushBack(buf, x)))
<1>1. CASE ~IsFull(buf)
    BY <1>1, RisingAppend DEF PushBack, Evicted, Ahead
<1>2. CASE IsFull(buf)
    <2>1. buf # <<>>
        BY <1>2, MaxCapacityAssumption DEF IsFull
    <2>2. Tail(buf) \in Seq(S)
        BY <2>1, PopType
    <2>3. Rising(Tail(buf))
        BY <2>1, RisingPop
    <2>4. /\ Ahead({Head(buf)}, ItemsOf(Tail(buf)))
          /\ ItemsOf(buf) = ItemsOf(Tail(buf)) \cup {Head(buf)}
        BY <2>1, RisingPop
    <2>5. Ahead(ItemsOf(Tail(buf)), {x})
        BY <2>4 DEF Ahead
    <2>6. /\ Rising(Append(Tail(buf), x))
          /\ ItemsOf(Append(Tail(buf), x)) = ItemsOf(Tail(buf)) \cup {x}
        <3> DEFINE rest == Tail(buf)
        <3>1. rest \in Seq(S) /\ Rising(rest) /\ Ahead(ItemsOf(rest), {x})
            BY <2>2, <2>3, <2>5
        <3> HIDE DEF rest
        <3>2. Rising(Append(rest, x)) /\ ItemsOf(Append(rest, x)) = ItemsOf(rest) \cup {x}
            BY <3>1, RisingAppend
        <3> QED
            BY <3>2 DEF rest
    <2>7. PushBack(buf, x) = Append(Tail(buf), x) /\ Evicted(buf) = {Head(buf)}
        BY <1>2 DEF PushBack, Evicted
    <2> QED
        BY <2>4, <2>6, <2>7 DEF Ahead
<1> QED
    BY <1>1, <1>2

\* The observations of one callback are numbered in order.
LEMMA RisingBatch ==
    ASSUME NEW e \in Nat, NEW n \in Nat, NEW s \in Seq(0..e), Rising(s)
    PROVE  Rising(s \o [i \in 1..n |-> e + i])
<1> DEFINE b == [i \in 1..n |-> e + i]
           t == s \o b
<1>1. b \in Seq(Nat) /\ Len(b) = n /\ s \in Seq(Nat)
    OBVIOUS
<1>2. /\ Len(s) \in Nat /\ DOMAIN s = 1..Len(s) /\ DOMAIN t = 1..(Len(s) + n)
      /\ \A i \in 1..Len(s) : t[i] = s[i] /\ s[i] \in 0..e
      /\ \A i \in (Len(s) + 1)..(Len(s) + n) : t[i] = e + (i - Len(s))
    BY <1>1
<1> HIDE DEF t
<1>3. ASSUME NEW i \in DOMAIN t, NEW j \in DOMAIN t, i < j PROVE Older(t[i], t[j])
    <2>1. CASE j \in 1..Len(s)
        BY <1>2, <1>3, <2>1 DEF Rising
    <2>2. CASE j \in (Len(s) + 1)..(Len(s) + n) /\ i \in 1..Len(s)
        BY <1>2, <1>3, <2>2 DEF Older
    <2>3. CASE i \in (Len(s) + 1)..(Len(s) + n)
        <3>1. j \in (Len(s) + 1)..(Len(s) + n)
            BY <1>2, <1>3, <2>3
        <3>2. t[i] = e + (i - Len(s)) /\ t[j] = e + (j - Len(s))
            BY <1>2, <2>3, <3>1
        <3> QED
            BY <1>2, <1>3, <2>3, <3>1, <3>2 DEF Older
    <2> QED
        BY <1>2, <2>1, <2>2, <2>3
<1>4. Rising(t)
    BY <1>3 DEF Rising
<1> QED
    BY <1>4 DEF t
-----------------------------------------------------------------------------
(* Steps *)

\* An observation is in the pipe only while the handle is good.
PipeOpen == pipe # <<>> => pipe_handle = "open"

OInv == IInv /\ PInv /\ PipeOpen

\* Only a daemon that is gone makes a handle bad, and it empties the pipe.
LEMMA NextPipeOpen == IInv /\ PipeOpen /\ [Next]_vars => PipeOpen'
<1> SUFFICES ASSUME IInv, PipeOpen, [Next]_vars PROVE PipeOpen'
    OBVIOUS
<1> USE DEF PipeOpen, uiVars, queueVars, envVars
<1>1. CASE Worker
    <2>1. CASE FlushWriteSucceeds \/ WriteSucceeds
        BY <2>1 DEF FlushWriteSucceeds, WriteSucceeds, WriteFileSucceeds
    <2>2. CASE CreateFileSucceeds
        BY <2>2 DEF CreateFileSucceeds
    <2>3. CASE StartTask \/ CreateFileFails \/ FlushDequeue \/ FlushDone \/ AfterConnect
        BY <2>3 DEF StartTask, CreateFileFails, FlushDequeue, FlushDone, AfterConnect
    <2>4. CASE FlushWriteFails \/ WriteFails
        BY <2>4 DEF FlushWriteFails, WriteFails
    <2> QED
        BY <1>1, <2>1, <2>2, <2>3, <2>4 DEF Worker
<1>2. CASE UiThread
    BY <1>2 DEF UiThread, SetEnabled, OnTabStripModelChanged, OnPageEvent, EmitEvents,
       TryReconnect
<1>3. CASE Environment
    BY <1>3 DEF Environment, ServerStart, ServerStop, DaemonReads, IInv, TypeOK
<1>4. CASE UNCHANGED vars
    BY <1>4 DEF vars
<1> QED
    BY <1>1, <1>2, <1>3, <1>4 DEF Next

\* In every run of the transport a pipe without a good handle is empty.
THEOREM InductiveOrder == Spec => []OInv
<1>1. Init => PipeOpen
    BY DEF Init, PipeOpen
<1> QED
    BY <1>1, NextPipeOpen, InductivePlaces, PTL DEF Spec, OInv

\* What the lemmas on sequences need of the places.
LEMMA PlacesTyped ==
    ASSUME IInv, PInv
    PROVE  /\ emitted \in Nat /\ hand \in 0..emitted /\ queued_item \in 0..emitted
           /\ received \in Seq(0..emitted) /\ pipe \in Seq(0..emitted)
           /\ event_queue \in Seq(0..emitted) /\ tasks \in Seq(0..emitted)
           /\ Unrepeated(tasks) /\ Unrepeated(event_queue) /\ Unrepeated(pipe)
           /\ 1..emitted \subseteq 0..emitted
<1>1. emitted \in Nat /\ 1..emitted \subseteq 0..emitted
    BY TransportAssumption DEF IInv, TypeOK
<1> QED
    BY <1>1, WidenSeq DEF IInv, TypeOK, PInv, NoRepeats

\* New observations are younger than all before them.
LEMMA EmitOrdered ==
    ASSUME IInv, PInv, OrderedPlaces, NEW n \in Nat, EmitEvents(n)
    PROVE  OrderedPlaces'
<1>1. /\ tasks' = tasks \o [i \in 1..n |-> emitted + i]
      /\ UNCHANGED <<received, pipe, queued_item, event_queue, hand>>
    BY DEF EmitEvents, queueVars, envVars
<1>2. /\ Rising(tasks')
      /\ ItemsOf(tasks') = ItemsOf(tasks) \cup (emitted + 1)..(emitted + n)
    BY <1>1, PlacesTyped, RisingBatch, ItemsBatch DEF OrderedPlaces
<1>3. ASSUME NEW A, A \subseteq 0..emitted
      PROVE  Ahead(A, (emitted + 1)..(emitted + n))
    BY <1>3, PlacesTyped DEF Ahead, Older
<1>4. /\ ItemsOf(received) \subseteq 0..emitted /\ ItemsOf(pipe) \subseteq 0..emitted
      /\ ItemsOf(event_queue) \subseteq 0..emitted /\ {hand} \subseteq 0..emitted
      /\ {queued_item} \subseteq 0..emitted
    BY PlacesTyped, ItemsWithin
<1>5. ASSUME NEW A, A \subseteq 0..emitted, Ahead(A, ItemsOf(tasks))
      PROVE  Ahead(A, ItemsOf(tasks'))
    BY <1>2, <1>3, <1>5 DEF Ahead
<1> QED
    BY <1>1, <1>2, <1>4, <1>5 DEF OrderedPlaces

\* A reconnect closure is no payload.
LEMMA ReconnectOrdered ==
    ASSUME IInv, PInv, OrderedPlaces, TryReconnect
    PROVE  OrderedPlaces'
<1>1. /\ tasks' = Append(tasks, Nothing)
      /\ UNCHANGED <<received, pipe, queued_item, event_queue, hand>>
    BY DEF TryReconnect, queueVars, envVars
<1>2. Ahead(ItemsOf(tasks), {Nothing}) /\ Nothing \in 0..emitted
    BY PlacesTyped DEF Ahead, Older
<1>3. Rising(tasks') /\ ItemsOf(tasks') = ItemsOf(tasks) \cup {Nothing}
    <2> DEFINE Payload == 0..emitted
    <2>1. tasks \in Seq(Payload) /\ Nothing \in Payload
        BY <1>2, PlacesTyped
    <2>2. Rising(tasks) /\ Ahead(ItemsOf(tasks), {Nothing})
        BY <1>2 DEF OrderedPlaces
    <2> HIDE DEF Payload
    <2> QED
        BY <1>1, <2>1, <2>2, RisingAppend
<1>4. ASSUME NEW A, Ahead(A, ItemsOf(tasks)) PROVE Ahead(A, ItemsOf(tasks'))
    BY <1>3, <1>4 DEF Ahead, Older
<1> QED
    BY <1>1, <1>3, <1>4 DEF OrderedPlaces

\* The closure the worker takes is the oldest of those posted.
LEMMA StartOrdered ==
    ASSUME IInv, PInv, OrderedPlaces, StartTask
    PROVE  OrderedPlaces'
<1>1. /\ tasks # <<>> /\ tasks' = Tail(tasks) /\ hand' = Head(tasks)
      /\ UNCHANGED <<received, pipe, queued_item, event_queue>>
    BY DEF StartTask, queueVars, envVars
<1>2. /\ Rising(tasks') /\ Ahead({hand'}, ItemsOf(tasks'))
      /\ ItemsOf(tasks) = ItemsOf(tasks') \cup {hand'}
    BY <1>1, PlacesTyped, RisingPop DEF OrderedPlaces
<1>3. ASSUME NEW A, Ahead(A, ItemsOf(tasks))
      PROVE  Ahead(A, ItemsOf(tasks')) /\ Ahead(A, {hand'})
    BY <1>2, <1>3 DEF Ahead
<1> QED
    BY <1>1, <1>2, <1>3 DEF OrderedPlaces

\* The flush takes the oldest item of the buffer.
LEMMA DequeueOrdered ==
    ASSUME IInv, PInv, OrderedPlaces, FlushDequeue
    PROVE  OrderedPlaces'
<1>1. /\ event_queue # <<>> /\ event_queue' = Tail(event_queue)
      /\ queued_item' = Head(event_queue)
      /\ UNCHANGED <<received, pipe, hand, tasks>>
    BY DEF FlushDequeue, uiVars, envVars
<1>2. /\ Rising(event_queue') /\ Ahead({queued_item'}, ItemsOf(event_queue'))
      /\ ItemsOf(event_queue) = ItemsOf(event_queue') \cup {queued_item'}
    BY <1>1, PlacesTyped, RisingPop DEF OrderedPlaces
<1>3. ASSUME NEW A, Ahead(A, ItemsOf(event_queue))
      PROVE  Ahead(A, ItemsOf(event_queue')) /\ Ahead(A, {queued_item'})
    BY <1>2, <1>3 DEF Ahead
<1>4. ASSUME NEW B, Ahead(ItemsOf(event_queue), B)
      PROVE  Ahead(ItemsOf(event_queue'), B) /\ Ahead({queued_item'}, B)
    BY <1>2, <1>4 DEF Ahead
<1> QED
    BY <1>1, <1>2, <1>3, <1>4 DEF OrderedPlaces

\* A flushed item goes behind what is in the pipe and before what is buffered.
LEMMA FlushWriteOrdered ==
    ASSUME IInv, PInv, OrderedPlaces, FlushWriteSucceeds
    PROVE  OrderedPlaces'
<1>1. /\ pipe' = Append(pipe, queued_item) /\ queued_item' = Nothing
      /\ UNCHANGED <<received, event_queue, hand, tasks>>
    BY DEF FlushWriteSucceeds, WriteFileSucceeds, uiVars, queueVars, envVars
<1>2. Rising(pipe') /\ ItemsOf(pipe') = ItemsOf(pipe) \cup {queued_item}
    <2> DEFINE Payload == 0..emitted
    <2>1. pipe \in Seq(Payload) /\ queued_item \in Payload
        BY PlacesTyped
    <2>2. Rising(pipe) /\ Ahead(ItemsOf(pipe), {queued_item})
        BY DEF OrderedPlaces
    <2> HIDE DEF Payload
    <2> QED
        BY <1>1, <2>1, <2>2, RisingAppend
<1>3. ASSUME NEW A, Ahead(A, ItemsOf(pipe)), Ahead(A, {queued_item})
      PROVE  Ahead(A, ItemsOf(pipe'))
    BY <1>2, <1>3 DEF Ahead
<1>4. ASSUME NEW B, Ahead(ItemsOf(pipe), B), Ahead({queued_item}, B)
      PROVE  Ahead(ItemsOf(pipe'), B)
    BY <1>2, <1>4 DEF Ahead
<1>5. ASSUME NEW A PROVE Ahead(A, {queued_item'}) /\ Ahead({queued_item'}, A)
    BY <1>1 DEF Ahead, Older
<1> QED
    BY <1>1, <1>2, <1>3, <1>4, <1>5 DEF OrderedPlaces

\* A direct write finds neither a flush nor anything buffered.
LEMMA WriteOrdered ==
    ASSUME IInv, PInv, OrderedPlaces, WriteSucceeds
    PROVE  OrderedPlaces'
<1>1. /\ pipe' = Append(pipe, hand) /\ hand' = Nothing
      /\ UNCHANGED <<received, queued_item, event_queue, tasks>>
    BY DEF WriteSucceeds, WriteFileSucceeds, uiVars, queueVars, envVars
<1>2. event_queue = <<>> /\ queued_item = Nothing
    BY DEF WriteSucceeds, IInv, Control, NothingBufferedBehindOpenPipe
<1>3. Rising(pipe') /\ ItemsOf(pipe') = ItemsOf(pipe) \cup {hand}
    <2> DEFINE Payload == 0..emitted
    <2>1. pipe \in Seq(Payload) /\ hand \in Payload
        BY PlacesTyped
    <2>2. Rising(pipe) /\ Ahead(ItemsOf(pipe), {hand})
        BY DEF OrderedPlaces
    <2> HIDE DEF Payload
    <2> QED
        BY <1>1, <2>1, <2>2, RisingAppend
<1>4. ASSUME NEW A, Ahead(A, ItemsOf(pipe)), Ahead(A, {hand})
      PROVE  Ahead(A, ItemsOf(pipe'))
    BY <1>3, <1>4 DEF Ahead
<1>5. ASSUME NEW B, Ahead(ItemsOf(pipe), B), Ahead({hand}, B)
      PROVE  Ahead(ItemsOf(pipe'), B)
    BY <1>3, <1>5 DEF Ahead
<1>6. ASSUME NEW A
      PROVE  /\ Ahead(A, {hand'}) /\ Ahead({hand'}, A)
             /\ Ahead(A, {queued_item}) /\ Ahead({queued_item}, A)
             /\ Ahead(A, ItemsOf(event_queue)) /\ Ahead(ItemsOf(event_queue), A)
    BY <1>1, <1>2 DEF Ahead, Older, ItemsOf
<1> QED
    BY <1>1, <1>3, <1>4, <1>5, <1>6 DEF OrderedPlaces

\* The daemon reads the oldest message of the pipe.
LEMMA ReadOrdered ==
    ASSUME IInv, PInv, OrderedPlaces, DaemonReads
    PROVE  OrderedPlaces'
<1>1. /\ pipe # <<>> /\ pipe' = Tail(pipe) /\ received' = Append(received, Head(pipe))
      /\ UNCHANGED <<queued_item, event_queue, hand, tasks>>
    BY DEF DaemonReads, uiVars, queueVars
<1>2. Rising(pipe') /\ Ahead({Head(pipe)}, ItemsOf(pipe'))
    BY <1>1, PlacesTyped, RisingPop DEF OrderedPlaces
<1>3. ItemsOf(pipe) = ItemsOf(pipe') \cup {Head(pipe)} /\ Head(pipe) \in 0..emitted
    BY <1>1, PlacesTyped, ItemsPop, PopType
<1>4. Ahead(ItemsOf(received), {Head(pipe)})
    BY <1>3 DEF OrderedPlaces, Ahead
<1>5. Rising(received') /\ ItemsOf(received') = ItemsOf(received) \cup {Head(pipe)}
    <2> DEFINE Payload == 0..emitted
    <2>1. received \in Seq(Payload) /\ Head(pipe) \in Payload
        BY <1>3, PlacesTyped
    <2>2. Rising(received) /\ Ahead(ItemsOf(received), {Head(pipe)})
        BY <1>4 DEF OrderedPlaces
    <2> HIDE DEF Payload
    <2> QED
        BY <1>1, <2>1, <2>2, RisingAppend
<1>6. ASSUME NEW B, Ahead(ItemsOf(received), B), Ahead(ItemsOf(pipe), B)
      PROVE  Ahead(ItemsOf(received'), B) /\ Ahead(ItemsOf(pipe'), B)
    BY <1>3, <1>5, <1>6 DEF Ahead
<1>7. Ahead(ItemsOf(received'), ItemsOf(pipe'))
    BY <1>2, <1>3, <1>5 DEF OrderedPlaces, Ahead
<1> QED
    BY <1>1, <1>2, <1>5, <1>6, <1>7 DEF OrderedPlaces

\* What the daemon takes with it leaves the others in order.
LEMMA StopOrdered ==
    ASSUME OrderedPlaces, ServerStop
    PROVE  OrderedPlaces'
<1>1. pipe' = <<>> /\ UNCHANGED <<received, queued_item, event_queue, hand, tasks>>
    BY DEF ServerStop, uiVars, queueVars
<1>2. Rising(pipe') /\ \A A : Ahead(A, ItemsOf(pipe')) /\ Ahead(ItemsOf(pipe'), A)
    BY <1>1 DEF Rising, Ahead, ItemsOf
<1> QED
    BY <1>1, <1>2 DEF OrderedPlaces

\* A payload that was in hand goes behind the buffered ones, which are older.
LEMMA BufferHandOrdered ==
    ASSUME IInv, PInv, OrderedPlaces, Buffer(hand), hand' = Nothing,
           UNCHANGED <<received, pipe, queued_item, tasks>>
    PROVE  /\ OrderedPlaces'
           /\ Ahead(Evicted(event_queue), ItemsOf(event_queue'))
           /\ Evicted(event_queue) \subseteq ItemsOf(event_queue)
<1>1. event_queue' = PushBack(event_queue, hand)
    BY DEF Buffer
<1>2. /\ Rising(event_queue')
      /\ ItemsOf(event_queue') \subseteq ItemsOf(event_queue) \cup {hand}
      /\ Evicted(event_queue) \subseteq ItemsOf(event_queue)
      /\ Ahead(Evicted(event_queue), ItemsOf(event_queue'))
    BY <1>1, PlacesTyped, RisingPushBack DEF OrderedPlaces
<1>3. ASSUME NEW A, Ahead(A, ItemsOf(event_queue)), Ahead(A, {hand})
      PROVE  Ahead(A, ItemsOf(event_queue'))
    BY <1>2, <1>3 DEF Ahead
<1>4. ASSUME NEW B, Ahead(ItemsOf(event_queue), B), Ahead({hand}, B)
      PROVE  Ahead(ItemsOf(event_queue'), B)
    BY <1>2, <1>4 DEF Ahead
<1>5. ASSUME NEW A PROVE Ahead(A, {hand'}) /\ Ahead({hand'}, A)
    BY DEF Ahead, Older
<1>6. OrderedPlaces'
    BY <1>2, <1>3, <1>4, <1>5 DEF OrderedPlaces
<1> QED
    BY <1>2, <1>6

\* A flush that fails with its last item puts it back where it was.
LEMMA LastFlushFailureOrdered ==
    ASSUME IInv, PInv, OrderedPlaces, FlushWriteFails, event_queue = <<>>
    PROVE  OrderedPlaces'
<1>1. /\ event_queue' = PushBack(event_queue, queued_item) /\ queued_item' = Nothing
      /\ UNCHANGED <<received, pipe, hand, tasks>>
    BY DEF FlushWriteFails, Buffer, uiVars, envVars
<1>2. event_queue' = <<queued_item>>
    BY <1>1, MaxCapacityAssumption DEF PushBack, IsFull
<1>3. Rising(event_queue') /\ ItemsOf(event_queue') = {queued_item}
    BY <1>2 DEF Rising, ItemsOf
<1>4. ASSUME NEW A PROVE Ahead(A, {queued_item'}) /\ Ahead({queued_item'}, A)
    BY <1>1 DEF Ahead, Older
<1> QED
    BY <1>1, <1>3, <1>4 DEF OrderedPlaces

\* Every step but one keeps the order.
LEMMA StepOrdered ==
    ASSUME IInv, PInv, OrderedPlaces, [Next]_vars,
           ~(FlushWriteFails /\ event_queue # <<>>)
    PROVE  OrderedPlaces'
<1> DEFINE Still == UNCHANGED <<received, pipe, queued_item, event_queue, hand, tasks>>
<1>1. ASSUME Still PROVE OrderedPlaces'
    BY <1>1 DEF OrderedPlaces
<1> HIDE DEF Still
<1>2. CASE UNCHANGED vars
    <2>1. Still
        BY <1>2 DEF vars, queueVars, envVars, Still
    <2> QED
        BY <1>1, <2>1
<1>3. CASE UiThread
    <2>1. ASSUME \E b \in BOOLEAN : SetEnabled(b) PROVE Still
        BY <2>1 DEF SetEnabled, queueVars, envVars, Still
    <2>2. ASSUME NEW c \in TabStripChanges, NEW b \in BOOLEAN, OnTabStripModelChanged(c, b)
          PROVE  OrderedPlaces'
        <3>1. (IF c \in {"kInserted", "kRemoved"} THEN 1 ELSE 0) + (IF b THEN 1 ELSE 0) \in Nat
            OBVIOUS
        <3> QED
            BY <2>2, <3>1, EmitOrdered DEF OnTabStripModelChanged
    <2>3. ASSUME OnPageEvent PROVE OrderedPlaces'
        BY <2>3, EmitOrdered DEF OnPageEvent
    <2> QED
        BY <1>1, <1>3, <2>1, <2>2, <2>3, ReconnectOrdered DEF UiThread
<1>4. CASE Environment
    <2>1. ASSUME ServerStart PROVE Still
        BY <2>1 DEF ServerStart, queueVars, Still
    <2> QED
        BY <1>1, <1>4, <2>1, StopOrdered, ReadOrdered DEF Environment
<1>5. CASE Worker
    <2>1. ASSUME CreateFileSucceeds \/ CreateFileFails \/ FlushDone PROVE Still
        BY <2>1 DEF CreateFileSucceeds, CreateFileFails, FlushDone, queueVars, envVars, Still
    <2>2. ASSUME AfterConnect PROVE OrderedPlaces'
        <3>1. Still \/ (/\ Buffer(hand) /\ hand' = Nothing
                        /\ UNCHANGED <<received, pipe, queued_item, tasks>>)
            BY <2>2 DEF AfterConnect, queueVars, envVars, Still
        <3> QED
            BY <1>1, <3>1, BufferHandOrdered
    <2>3. ASSUME WriteFails PROVE OrderedPlaces'
        BY <2>3, BufferHandOrdered DEF WriteFails, envVars
    <2> QED
        BY <1>1, <1>5, <2>1, <2>2, <2>3, StartOrdered, DequeueOrdered, FlushWriteOrdered,
           LastFlushFailureOrdered, WriteOrdered DEF Worker
<1> QED
    BY <1>2, <1>3, <1>4, <1>5 DEF Next

-----------------------------------------------------------------------------
(* What follows for the daemon *)

\* The daemon reads observations in the order of their emission as long as no
\* write has failed in a flush with younger observations buffered behind it.
THEOREM OrderKept == Spec => OrderLostOnlyByFailedFlush
<1>1. ASSUME OInv, [Next]_vars, InOrder, ~InOrder'
      PROVE  pc = "write_item" /\ pipe_handle' = INVALID /\ event_queue # <<>>
    <2>1. OrderedPlaces /\ ~OrderedPlaces'
        BY <1>1, OrderIsOfPlaces, OrderIsOfPlacesNext
    <2>2. FlushWriteFails /\ event_queue # <<>>
        BY <1>1, <2>1, StepOrdered DEF OInv
    <2> QED
        BY <2>2 DEF FlushWriteFails
<1> QED
    BY <1>1, InductiveOrder, PTL DEF Spec, OrderLostOnlyByFailedFlush

\* Until then, what a full queue discards is older than anything still held,
\* buffered, posted or written and not read.
THEOREM OldestDropped == Spec => OverflowDropsOldest
<1>1. ASSUME OInv, OInv', [Next]_vars, InOrder,
             NEW lost \in overflowed' \ overflowed, NEW p \in Undelivered'
      PROVE  lost < p
    <2>1. OrderedPlaces
        BY <1>1, OrderIsOfPlaces
    <2>2. overflowed' = overflowed \cup Evicted(event_queue) /\ IsFull(event_queue)
          /\ AfterConnect /\ Buffer(hand) /\ pipe_handle = INVALID
        <3>1. \/ FlushWriteFails \/ WriteFails
              \/ AfterConnect /\ Buffer(hand) /\ pipe_handle = INVALID
            BY <1>1 DEF Next, UiThread, Worker, Environment, SetEnabled, OnPageEvent,
               OnTabStripModelChanged, EmitEvents, TryReconnect, StartTask,
               CreateFileSucceeds, CreateFileFails, FlushDequeue, FlushDone,
               FlushWriteSucceeds, AfterConnect, WriteSucceeds, ServerStart, ServerStop,
               DaemonReads, vars, queueVars
        <3>2. overflowed' = overflowed \cup Evicted(event_queue)
            BY <3>1 DEF FlushWriteFails, WriteFails, Buffer
        <3>3. IsFull(event_queue)
            BY <1>1, <3>2 DEF Evicted
        <3>4. ~FlushWriteFails
            BY <1>1, <3>3 DEF OInv, IInv, FailedFlushLosesNothing, FlushWriteFails
        <3>5. ~WriteFails
            BY <1>1, <3>3, MaxCapacityAssumption
               DEF OInv, IInv, NothingBufferedBehindOpenPipe, WriteFails, IsFull
        <3> QED
            BY <3>1, <3>2, <3>3, <3>4, <3>5
    <2>3. /\ hand' = Nothing /\ queued_item' = Nothing /\ pipe' = <<>>
          /\ UNCHANGED <<received, pipe, queued_item, tasks>>
        <3>1. queued_item = Nothing /\ pipe = <<>>
            BY <1>1, <2>2 DEF OInv, IInv, Control, PipeOpen, AfterConnect
        <3>2. hand' = Nothing /\ UNCHANGED <<received, pipe, queued_item, tasks>>
            BY <1>1, <2>2 DEF AfterConnect, queueVars, envVars
        <3> QED
            BY <3>1, <3>2
    <2>4. /\ lost \in ItemsOf(event_queue)
          /\ Ahead(Evicted(event_queue), ItemsOf(event_queue'))
          /\ lost \in Evicted(event_queue)
        BY <1>1, <2>1, <2>2, <2>3, BufferHandOrdered DEF OInv
    <2>5. lost # Nothing
        BY <1>1, <2>4, ItemsWithin DEF OInv, IInv, TypeOK
    <2>6. p \in ItemsOf(tasks) \/ p \in ItemsOf(event_queue')
        BY <1>1, <2>3 DEF Undelivered, Posted, InHand, Buffered, ItemsOf
    <2>7. p # Nothing
        BY <1>1, <2>3, ItemsWithin DEF OInv, IInv, TypeOK, Undelivered, Posted, InHand, Buffered
    <2> QED
        BY <2>1, <2>4, <2>5, <2>6, <2>7 DEF OrderedPlaces, Ahead, Older
<1>2. ASSUME OInv, OInv', [Next]_vars
      PROVE  InOrder => \A lost \in overflowed' \ overflowed : \A p \in Undelivered' : lost < p
    BY <1>1, <1>2
<1> QED
    BY <1>2, InductiveOrder, PTL DEF Spec, OverflowDropsOldest
=============================================================================
