-------------------------- MODULE NamedPipeTransport --------------------------
(***************************************************************************)
(* The outbound path of the C++ adapter: BrowserObservationCollector on    *)
(* the UI thread posts closures to NamedPipeTransportWin's sequenced       *)
(* worker, which owns the pipe handle and the BoundedEventQueue.           *)
(* CreateFileW and WriteFile are blocking calls: everything else in the    *)
(* system may happen between their start and their result, so the worker   *)
(* runs in steps.  The daemon's pipe server is the environment.            *)
(***************************************************************************)
EXTENDS BoundedBuffer, FiniteSets

CONSTANTS
    MaxEvents,        \* bound: observations emitted in a behaviour
    MaxConnectTasks,  \* bound: TryReconnect closures posted and not started
    PipeCapacity      \* messages the kernel pipe buffer holds

ASSUME TransportAssumption ==
    /\ MaxEvents \in Nat /\ MaxConnectTasks \in Nat
    /\ PipeCapacity \in Nat \ {0}

VARIABLES
    is_enabled,     \* BrowserObservationCollector::is_enabled_
    emitted,        \* observations emitted; a payload is its number
    tasks,          \* closures posted to background_task_runner_
    pc,             \* where the worker is
    hand,           \* argument of the running SendPayloadOnBackgroundThread
    queued_item,    \* local of FlushQueueOnBackgroundThread
    pipe_handle,    \* pipe_handle_; "broken" is a handle whose server is gone
    status,         \* status_
    event_queue,    \* event_queue_
    dropped_count,  \* event_queue_.dropped_count_
    serverUp,       \* external: the daemon listens on the pipe
    pipe,           \* external: messages written and not yet read
    received,       \* external: messages the daemon read, in order
    overflowed,     \* history: payloads event_queue_ discarded
    vanished        \* history: payloads in the pipe when the server went away

uiVars == <<is_enabled, emitted>>
queueVars == <<event_queue, dropped_count, overflowed>>
envVars == <<serverUp, received, vanished>>
vars == <<uiVars, tasks, pc, hand, queued_item, pipe_handle, status, queueVars,
          envVars, pipe>>

Connect == 0    \* the closure TryReconnect posts; any other closure is SendPayload(n)
Nothing == 0    \* no payload in hand
INVALID == "INVALID_HANDLE_VALUE"

Init ==
    /\ is_enabled = FALSE /\ emitted = 0
    /\ tasks = <<>> /\ pc = "idle" /\ hand = Nothing /\ queued_item = Nothing
    /\ pipe_handle = INVALID /\ status = "kDisconnected"
    /\ event_queue = <<>> /\ dropped_count = 0 /\ overflowed = {}
    /\ serverUp \in BOOLEAN /\ pipe = <<>> /\ received = <<>> /\ vanished = {}

-----------------------------------------------------------------------------
(* UI thread *)

SetEnabled(enabled) ==
    /\ is_enabled' = enabled
    /\ UNCHANGED <<emitted, tasks, pc, hand, queued_item, pipe_handle, status,
                   queueVars, envVars, pipe>>

\* EmitEvent, n times in one callback: SendObservation posts one closure each.
EmitEvents(n) ==
    /\ is_enabled
    /\ emitted + n <= MaxEvents
    /\ emitted' = emitted + n
    /\ tasks' = tasks \o [i \in 1..n |-> emitted + i]
    /\ UNCHANGED <<is_enabled, pc, hand, queued_item, pipe_handle, status,
                   queueVars, envVars, pipe>>

TabStripChanges == {"kInserted", "kRemoved", "kOther"}

\* One event for an insertion or removal, one more if the active tab changed.
OnTabStripModelChanged(change, active_tab_changed) ==
    EmitEvents((IF change \in {"kInserted", "kRemoved"} THEN 1 ELSE 0)
               + (IF active_tab_changed THEN 1 ELSE 0))

\* DidStartNavigation, DidFinishNavigation and TitleWasSet, past their guards.
OnPageEvent == EmitEvents(1)

TryReconnect ==
    /\ Cardinality({k \in DOMAIN tasks : tasks[k] = Connect}) < MaxConnectTasks
    /\ tasks' = Append(tasks, Connect)
    /\ UNCHANGED <<uiVars, pc, hand, queued_item, pipe_handle, status,
                   queueVars, envVars, pipe>>

-----------------------------------------------------------------------------
(* Worker *)

\* Mutant: the overflow is not counted.
BufferUncounted(payload) ==
    /\ event_queue' = PushBack(event_queue, payload)
    /\ overflowed' = overflowed \cup Evicted(event_queue)
    /\ UNCHANGED dropped_count

\* Mutant: a full queue refuses the new payload instead of dropping the oldest.
BufferDropsNewest(payload) ==
    /\ event_queue' = IF IsFull(event_queue) THEN event_queue
                                             ELSE Append(event_queue, payload)
    /\ dropped_count' = dropped_count + EvictedCount(event_queue)
    /\ overflowed' = overflowed \cup (IF IsFull(event_queue) THEN {payload} ELSE {})

Buffer(payload) ==
    /\ event_queue' = PushBack(event_queue, payload)
    /\ dropped_count' = dropped_count + EvictedCount(event_queue)
    /\ overflowed' = overflowed \cup Evicted(event_queue)

\* Pop a closure.  Without a handle both kinds enter ConnectOnBackgroundThread;
\* with one, a Connect closure returns at once and a send goes to WriteFile.
StartTask ==
    /\ pc = "idle" /\ tasks # <<>>
    /\ tasks' = Tail(tasks)
    /\ hand' = Head(tasks)
    /\ \/ /\ pipe_handle = INVALID
          /\ pc' = "create_file" /\ status' = "kConnecting"
       \/ /\ pipe_handle # INVALID
          /\ pc' = IF Head(tasks) = Connect THEN "idle" ELSE "write_payload"
          /\ UNCHANGED status
    /\ UNCHANGED <<uiVars, queued_item, pipe_handle, queueVars, envVars, pipe>>

\* Mutant: connects without flushing what was buffered.
ConnectWithoutFlush ==
    /\ pc = "create_file" /\ serverUp
    /\ pipe_handle' = "open" /\ status' = "kConnected" /\ pc' = "after_connect"
    /\ UNCHANGED <<uiVars, tasks, hand, queued_item, queueVars, envVars, pipe>>

CreateFileSucceeds ==
    /\ pc = "create_file" /\ serverUp
    /\ pipe_handle' = "open" /\ status' = "kConnected" /\ pc' = "flush"
    /\ UNCHANGED <<uiVars, tasks, hand, queued_item, queueVars, envVars, pipe>>

\* Mutant: a failed connect is retried inside the task.
RetryConnectInPlace ==
    /\ pc = "create_file" /\ ~serverUp
    /\ UNCHANGED vars

CreateFileFails ==
    /\ pc = "create_file" /\ ~serverUp
    /\ status' = "kDisconnected" /\ pc' = "after_connect"
    /\ UNCHANGED <<uiVars, tasks, hand, queued_item, pipe_handle, queueVars,
                   envVars, pipe>>

\* Mutant: the flush reads the front item without removing it.
FlushPeeks ==
    /\ pc = "flush" /\ event_queue # <<>>
    /\ queued_item' = Head(event_queue)
    /\ pc' = "write_item"
    /\ UNCHANGED <<uiVars, tasks, hand, pipe_handle, status, queueVars, envVars, pipe>>

\* Head of the flush loop: Dequeue, or leave when the queue is empty.
FlushDequeue ==
    /\ pc = "flush" /\ event_queue # <<>>
    /\ queued_item' = Head(event_queue)
    /\ event_queue' = Tail(event_queue)
    /\ pc' = "write_item"
    /\ UNCHANGED <<uiVars, tasks, hand, pipe_handle, status, dropped_count,
                   overflowed, envVars, pipe>>

FlushDone ==
    /\ pc = "flush" /\ event_queue = <<>>
    /\ pc' = "after_connect"
    /\ UNCHANGED <<uiVars, tasks, hand, queued_item, pipe_handle, status,
                   queueVars, envVars, pipe>>

\* WriteFile on a live handle returns once the kernel buffer has room.
WriteFileSucceeds(payload) ==
    /\ pipe_handle = "open" /\ Len(pipe) < PipeCapacity
    /\ pipe' = Append(pipe, payload)

FlushWriteSucceeds ==
    /\ pc = "write_item" /\ WriteFileSucceeds(queued_item)
    /\ queued_item' = Nothing
    /\ pc' = "flush"
    /\ UNCHANGED <<uiVars, tasks, hand, pipe_handle, status, queueVars, envVars>>

\* The item that failed goes to the BACK of the queue it came from the front of.
FlushWriteFails ==
    /\ pc = "write_item" /\ pipe_handle = "broken"
    /\ pipe_handle' = INVALID /\ status' = "kDisconnected"
    /\ Buffer(queued_item)
    /\ queued_item' = Nothing
    /\ pc' = "after_connect"
    /\ UNCHANGED <<uiVars, tasks, hand, envVars, pipe>>

\* ConnectOnBackgroundThread has returned: the end of a Connect closure, or the
\* second handle test of SendPayloadOnBackgroundThread.
AfterConnect ==
    /\ pc = "after_connect"
    /\ \/ /\ hand = Nothing
          /\ pc' = "idle"
          /\ UNCHANGED <<hand, queueVars>>
       \/ /\ hand # Nothing /\ pipe_handle = INVALID
          /\ Buffer(hand)
          /\ hand' = Nothing /\ pc' = "idle"
       \/ /\ hand # Nothing /\ pipe_handle # INVALID
          /\ pc' = "write_payload"
          /\ UNCHANGED <<hand, queueVars>>
    /\ UNCHANGED <<uiVars, tasks, queued_item, pipe_handle, status, envVars, pipe>>

WriteSucceeds ==
    /\ pc = "write_payload" /\ WriteFileSucceeds(hand)
    /\ hand' = Nothing
    /\ pc' = "idle"
    /\ UNCHANGED <<uiVars, tasks, queued_item, pipe_handle, status, queueVars,
                   envVars>>

\* Mutant: the broken connection is not reported.
WriteFailsSilently ==
    /\ pc = "write_payload" /\ pipe_handle = "broken"
    /\ pipe_handle' = INVALID
    /\ Buffer(hand)
    /\ hand' = Nothing
    /\ pc' = "idle"
    /\ UNCHANGED <<uiVars, tasks, queued_item, status, envVars, pipe>>

WriteFails ==
    /\ pc = "write_payload" /\ pipe_handle = "broken"
    /\ pipe_handle' = INVALID /\ status' = "kDisconnected"
    /\ Buffer(hand)
    /\ hand' = Nothing
    /\ pc' = "idle"
    /\ UNCHANGED <<uiVars, tasks, queued_item, envVars, pipe>>

-----------------------------------------------------------------------------
(* Environment: the daemon's end of the pipe *)

ServerStart ==
    /\ ~serverUp /\ serverUp' = TRUE
    /\ UNCHANGED <<uiVars, tasks, pc, hand, queued_item, pipe_handle, status,
                   queueVars, received, vanished, pipe>>

\* Unread messages die with the server; an open handle goes stale.
ServerStop ==
    /\ serverUp /\ serverUp' = FALSE
    /\ pipe_handle' = IF pipe_handle = "open" THEN "broken" ELSE pipe_handle
    /\ pipe' = <<>>
    /\ vanished' = vanished \cup ItemsOf(pipe)
    /\ UNCHANGED <<uiVars, tasks, pc, hand, queued_item, status, queueVars, received>>

DaemonReads ==
    /\ pipe # <<>>
    /\ received' = Append(received, Head(pipe))
    /\ pipe' = Tail(pipe)
    /\ UNCHANGED <<uiVars, tasks, pc, hand, queued_item, pipe_handle, status,
                   queueVars, serverUp, vanished>>

-----------------------------------------------------------------------------
UiThread ==
    \/ \E enabled \in BOOLEAN : SetEnabled(enabled)
    \/ \E change \in TabStripChanges, active \in BOOLEAN :
            OnTabStripModelChanged(change, active)
    \/ OnPageEvent
    \/ TryReconnect

Worker ==
    \/ StartTask
    \/ CreateFileSucceeds \/ CreateFileFails
    \/ FlushDequeue \/ FlushDone \/ FlushWriteSucceeds \/ FlushWriteFails
    \/ AfterConnect
    \/ WriteSucceeds \/ WriteFails

Environment == ServerStart \/ ServerStop \/ DaemonReads

Next == UiThread \/ Worker \/ Environment

Spec == Init /\ [][Next]_vars

\* The task runner keeps running posted closures and a live daemon keeps
\* reading; users, reconnect requests and daemon restarts are not owed.
FairSpec == Spec /\ WF_vars(Worker) /\ WF_vars(DaemonReads)
-----------------------------------------------------------------------------
(* Where a payload can be *)

Posted == ItemsOf(tasks) \ {Connect}
InHand == {hand, queued_item} \ {Nothing}
Buffered == ItemsOf(event_queue)
Undelivered == Posted \cup InHand \cup Buffered \cup ItemsOf(pipe)

TypeOK ==
    /\ is_enabled \in BOOLEAN /\ serverUp \in BOOLEAN
    /\ emitted \in 0..MaxEvents
    /\ tasks \in Seq(0..emitted)
    /\ pc \in {"idle", "create_file", "flush", "write_item", "after_connect",
               "write_payload"}
    /\ hand \in 0..emitted /\ queued_item \in 0..emitted
    /\ pipe_handle \in {INVALID, "open", "broken"}
    /\ status \in {"kDisconnected", "kConnecting", "kConnected"}
    /\ event_queue \in Seq(1..emitted) /\ Len(event_queue) <= MaxCapacity
    /\ dropped_count \in Nat
    /\ pipe \in Seq(1..emitted) /\ Len(pipe) <= PipeCapacity
    /\ received \in Seq(1..emitted)
    /\ overflowed \subseteq 1..emitted /\ vanished \subseteq 1..emitted

-----------------------------------------------------------------------------
(* Safety *)

\* No observation waits in the buffer while the worker holds a pipe handle and
\* is outside the flush: what is written next is never newer than what waits.
NothingBufferedBehindOpenPipe ==
    pipe_handle # INVALID /\ pc \notin {"flush", "write_item"} => event_queue = <<>>

\* What GetStatus reports agrees with the handle, and kConnecting means the
\* worker is inside CreateFileW.
StatusMatchesHandle ==
    /\ status = "kConnected" <=> pipe_handle # INVALID
    /\ status = "kConnecting" <=> pc = "create_file"

\* Putting a failed item back never overflows the queue: nothing else can have
\* filled the slot it came from, since one sequence owns the queue.
FailedFlushLosesNothing == pc = "write_item" => ~IsFull(event_queue)

\* Every emitted payload is on its way, delivered or lost for a known reason,
\* never two of these, and the drop counter counts the overflow losses.
PayloadsAccountedFor ==
    LET places == <<Posted, {hand} \ {Nothing}, {queued_item} \ {Nothing}, Buffered,
                    ItemsOf(pipe), ItemsOf(received), overflowed, vanished>>
    IN  /\ 1..emitted = UNION {places[k] : k \in DOMAIN places}
        /\ \A k, l \in DOMAIN places : k # l => places[k] \cap places[l] = {}
        /\ dropped_count = Cardinality(overflowed)

\* What has been read and what is on its way, in the order it would be read.
Path == <<received, pipe, <<queued_item>>, event_queue, <<hand>>, tasks>>

\* Payload p was emitted before payload q; Nothing and Connect are no payloads.
Older(p, q) == p # Nothing /\ q # Nothing => p < q

\* A payload is older than all that is behind it, in its place or in a later one.
InOrder ==
    /\ \A k \in DOMAIN Path : \A i, j \in DOMAIN Path[k] :
            i < j => Older(Path[k][i], Path[k][j])
    /\ \A k, l \in DOMAIN Path : k < l =>
            \A p \in ItemsOf(Path[k]), q \in ItemsOf(Path[l]) : Older(p, q)

\* The daemon reads observations in the order they were emitted unless a write
\* failed inside a flush while younger observations were buffered.
OrderLostOnlyByFailedFlush ==
    [][InOrder /\ ~InOrder' => /\ pc = "write_item" /\ pipe_handle' = INVALID
                              /\ event_queue # <<>>]_vars

\* While order is intact an overflow discards the oldest observation held.
OverflowDropsOldest ==
    [][InOrder => \A lost \in overflowed' \ overflowed :
                    \A p \in Undelivered' : lost < p]_vars

\* The path as a whole is an at-most-once lossy channel.
Channel == INSTANCE LossyChannel
    WITH sent <- emitted, inTransit <- Undelivered, delivered <- received

ImplementsLossyChannel == Channel!Spec

\* The daemon reads no observation twice, nor one the adapter still holds: a
\* failed write is never retried after it succeeded.
DeliveredAtMostOnce == Channel!AtMostOnce

-----------------------------------------------------------------------------
(* Liveness, under FairSpec *)

\* A posted observation does not stay posted: the worker writes it, buffers it
\* or drops it, however often the connection fails meanwhile.
PostedIsHandled ==
    \A p \in 1..MaxEvents :
        (p \in Posted) ~> (p \in Buffered \cup ItemsOf(pipe) \cup ItemsOf(received)
                                \cup overflowed \cup vanished)

\* A reconnect attempt that finds the daemon up delivers the whole backlog,
\* unless the daemon goes away again.
ReconnectDeliversBacklog ==
    \A p \in 1..MaxEvents :
        (pc = "create_file" /\ serverUp /\ p \in Buffered)
            ~> (p \in ItemsOf(received) \/ ~serverUp)

-----------------------------------------------------------------------------
(* What the documents say and the code does not do *)

\* "Upon overflow, the oldest uncommitted observation is dropped": of what the
\* queue holds, no overflow keeps an item older than the one it discards.
DocDropsOldest ==
    [][\A lost \in overflowed' \ overflowed : \A p \in Buffered : lost <= p]_vars

\* "transitions to kDisconnected and retries on background thread": with the
\* daemon up for good the buffered observations do not stay buffered.
DocBackgroundRetry == <>[]serverUp => []<>(event_queue = <<>>)
=============================================================================
