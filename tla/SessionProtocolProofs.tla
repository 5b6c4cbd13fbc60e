------------------------ MODULE SessionProtocolProofs ------------------------
(***************************************************************************)
(* Proofs about SessionProtocol for any number of sessions, messages and   *)
(* proposals and any queue capacity: ingestion refines SequencedLog.       *)
(***************************************************************************)
EXTENDS SessionProtocol, TLAPS

Inbound == AdapterEnvelopes \cup HostEnvelopes

ValidatorType ==
    [active_session_id : Nat, last_sequence_number : Nat,
     seen_message_ids : SUBSET {e.message_id : e \in Inbound},
     session_established : {FALSE}, seen_sequence_numbers : SUBSET Nat]

\* The numbers consumed so far are exactly those up to the last one.  It needs
\* the session never to be established: then no HELLO wipes the used numbers.
NumbersUsed ==
    /\ validator \in ValidatorType
    /\ validator.seen_sequence_numbers = 1..validator.last_sequence_number

\* The daemon's own numbering: nothing is active or proposed before the first
\* message is consumed, and since a HELLO can only be that first message the
\* count it restarts has not been used.
OutboundCount ==
    /\ validator.last_sequence_number = 0 =>
            active_session_id = NoSession /\ proposals_store = <<>>
    /\ out_sequence_number <= Len(proposals_store) + 1
    /\ active_session_id # NoSession \/ proposals_store # <<>> =>
            out_sequence_number = Len(proposals_store) + 1
    /\ \A p \in DOMAIN proposals_store : proposals_store[p].sequence_number = p + 1
    /\ Len(proposals_store) <= MaxProposals

\* The fields of an envelope are those it was made of.
LEMMA EnvelopeFields ==
    ASSUME NEW type, NEW session, NEW number, NEW detail, NEW proposal
    PROVE  /\ Envelope(type, session, number, detail, proposal).message_type = type
           /\ Envelope(type, session, number, detail, proposal).session_id = session
           /\ Envelope(type, session, number, detail, proposal).sequence_number = number
           /\ Envelope(type, session, number, detail, proposal).detail = detail
BY DEF Envelope

\* What the daemon relies on in an inbound envelope.
LEMMA InboundFields ==
    ASSUME NEW e \in Inbound
    PROVE  /\ e.message_type \in {HELLO, CLOSE, OBSERVATION, AUTHORIZED, RESULT}
           /\ e.session_id \in 1..MaxSessions /\ e.sequence_number \in 1..MaxSequence
           /\ e.message_type = HELLO => e.sequence_number = 1
           /\ e.message_type = OBSERVATION => e \in AdapterEnvelopes
<1>1. CASE e \in AdapterEnvelopes
    <2>1. ASSUME NEW s \in 1..MaxSessions, NEW t, e = Envelope(HELLO, s, 1, t, NoProposal)
          PROVE  /\ e.message_type = HELLO /\ e.session_id \in 1..MaxSessions
                 /\ e.sequence_number = 1 /\ 1 \in 1..MaxSequence
        BY <2>1, EnvelopeFields, SessionAssumption
    <2>2. ASSUME NEW s \in 1..MaxSessions, NEW n \in 1..MaxSequence, NEW z,
                 e = Envelope(OBSERVATION, s, n, z, NoProposal)
          PROVE  e.message_type = OBSERVATION /\ e.session_id \in 1..MaxSessions
                 /\ e.sequence_number \in 1..MaxSequence
        BY <2>2, EnvelopeFields, SessionAssumption
    <2>3. ASSUME NEW s \in 1..MaxSessions, NEW n \in 1..MaxSequence,
                 e = Envelope(CLOSE, s, n, "none", NoProposal)
          PROVE  e.message_type = CLOSE /\ e.session_id \in 1..MaxSessions
                 /\ e.sequence_number \in 1..MaxSequence
        BY <2>3, EnvelopeFields, SessionAssumption
    <2> QED
        BY <1>1, <2>1, <2>2, <2>3 DEF AdapterEnvelopes, HELLO, CLOSE, OBSERVATION
<1>2. CASE e \in HostEnvelopes
    <2>1. ASSUME NEW t \in {AUTHORIZED, RESULT}, NEW s \in 1..MaxSessions,
                 NEW n \in 1..MaxSequence, NEW d, NEW p, e = Envelope(t, s, n, d, p)
          PROVE  /\ e.message_type = t /\ e.session_id \in 1..MaxSessions
                 /\ e.sequence_number \in 1..MaxSequence
        BY <2>1, EnvelopeFields, SessionAssumption
    <2> QED
        BY <1>2, <2>1 DEF HostEnvelopes, HELLO, OBSERVATION, AUTHORIZED, RESULT
<1> QED
    BY <1>1, <1>2 DEF Inbound

\* One validate_envelope call: the count stands still, or moves on by one when
\* the envelope is accepted.
LEMMA ValidateCounts ==
    ASSUME NumbersUsed, NEW e \in Inbound
    PROVE  LET w == ValidateEnvelope(validator, e) IN
           /\ w \in ValidatorType
           /\ w.active_session_id \in {validator.active_session_id, e.session_id}
           /\ w.seen_sequence_numbers = 1..w.last_sequence_number
           /\ ~Accepts(validator, e) =>
                w.last_sequence_number = validator.last_sequence_number
           /\ Accepts(validator, e) =>
                /\ e.sequence_number = validator.last_sequence_number + 1
                /\ w.last_sequence_number = validator.last_sequence_number + 1
<1> DEFINE a == AfterHandshake(validator, e)
<1>1. /\ e.message_type \in {HELLO, CLOSE, OBSERVATION, AUTHORIZED, RESULT}
      /\ e.session_id \in Nat /\ e.sequence_number \in Nat
      /\ e.message_type = HELLO => e.sequence_number = 1
      /\ e.message_type # ACCEPT
    BY InboundFields, SessionAssumption DEF HELLO, CLOSE, OBSERVATION, AUTHORIZED, RESULT, ACCEPT
<1>2. /\ a \in ValidatorType
      /\ a.active_session_id \in {validator.active_session_id, e.session_id}
      /\ a.last_sequence_number = validator.last_sequence_number
      /\ a.seen_sequence_numbers = 1..a.last_sequence_number
    <2>1. validator.session_established = FALSE
        BY DEF NumbersUsed, ValidatorType
    <2>2. CASE e.message_type = HELLO
        <3>1. a = [validator EXCEPT !.active_session_id = e.session_id]
            BY <1>1, <2>1, <2>2 DEF AfterHandshake
        <3> QED
            BY <1>1, <3>1 DEF NumbersUsed, ValidatorType
    <2>3. CASE e.message_type # HELLO
        <3>1. a = validator
            BY <1>1, <2>3 DEF AfterHandshake
        <3> QED
            BY <3>1 DEF NumbersUsed
    <2> QED
        BY <2>2, <2>3
<1>3. CASE ~Accepts(validator, e)
    BY <1>2, <1>3 DEF ValidateEnvelope, NumbersUsed
<1>4. CASE Accepts(validator, e)
    <2>1. e.sequence_number = a.last_sequence_number + 1
        <3>1. /\ ~DuplicateSequence(a, e) /\ ~OutOfSequence(a, e)
            BY <1>4 DEF Accepts
        <3>2. CASE e.message_type = HELLO
            BY <1>1, <1>2, <3>1, <3>2 DEF DuplicateSequence, ValidatorType
        <3>3. CASE e.message_type # HELLO
            BY <1>1, <3>1, <3>3 DEF OutOfSequence
        <3> QED
            BY <3>2, <3>3
    <2>2. ValidateEnvelope(validator, e) = Record(a, e)
        BY <1>4 DEF ValidateEnvelope, Accepts
    <2> HIDE DEF a
    <2>3. /\ Record(a, e).last_sequence_number = e.sequence_number
          /\ Record(a, e).seen_sequence_numbers
                = a.seen_sequence_numbers \cup {e.sequence_number}
          /\ Record(a, e) \in ValidatorType
          /\ Record(a, e).active_session_id = a.active_session_id
        BY <1>1, <1>2 DEF Record, ValidatorType
    <2>4. (1..a.last_sequence_number) \cup {a.last_sequence_number + 1}
            = 1..(a.last_sequence_number + 1)
        BY <1>2 DEF ValidatorType
    <2> QED
        BY <1>2, <1>4, <2>1, <2>2, <2>3, <2>4
<1> QED
    BY <1>3, <1>4

\* The log the daemon's audit trail stands for.
Numbers(trail) == [i \in DOMAIN trail |-> trail[i].sequence_number]

\* The numbers of a log that grows by one message grow by its number.
LEMMA NumbersAppend ==
    ASSUME NEW trail \in Seq(Inbound), NEW e \in Inbound
    PROVE  Numbers(Append(trail, e)) = Append(Numbers(trail), e.sequence_number)
<1> DEFINE longer == Append(trail, e)
           left == Numbers(longer)
           right == Append(Numbers(trail), e.sequence_number)
<1>1. /\ Numbers(trail) \in Seq({x.sequence_number : x \in Inbound})
      /\ Len(Numbers(trail)) = Len(trail) /\ Len(trail) \in Nat
    BY DEF Numbers
<1>2. DOMAIN left = 1..(Len(trail) + 1) /\ DOMAIN right = 1..(Len(trail) + 1)
    BY <1>1 DEF Numbers
<1>3. ASSUME NEW i \in 1..(Len(trail) + 1)
      PROVE  left[i] = right[i]
    <2>1. CASE i = Len(trail) + 1
        BY <1>1, <2>1 DEF Numbers
    <2>2. CASE i \in 1..Len(trail)
        BY <1>1, <2>2 DEF Numbers
    <2> QED
        BY <1>1, <2>1, <2>2
<1>4. left = [i \in 1..(Len(trail) + 1) |-> left[i]]
      /\ right = [i \in 1..(Len(trail) + 1) |-> right[i]]
    BY <1>1, <1>2 DEF Numbers
<1> QED
    BY <1>3, <1>4

-----------------------------------------------------------------------------
IInv == TypeOK /\ NumbersUsed /\ OutboundCount

\* A new adapter and a new daemon satisfy the invariant.
LEMMA InitIInv == Init => IInv
<1> SUFFICES ASSUME Init PROVE IInv
    OBVIOUS
<1>1. NumbersUsed
    BY DEF Init, NumbersUsed, NewValidator, ValidatorType, NoSession
<1>2. TypeOK
    BY SessionAssumption, MaxCapacityAssumption DEF Init, TypeOK, NewValidator, NoSession
<1>3. OutboundCount
    BY SessionAssumption DEF Init, OutboundCount, NewValidator
<1> QED
    BY <1>1, <1>2, <1>3 DEF IInv

\* What every step does, seen from the daemon's count and log.
Counts ==
    \/ UNCHANGED <<validator.last_sequence_number, audit_log>>
    \/ /\ validator'.last_sequence_number = validator.last_sequence_number + 1
       /\ \/ audit_log' = audit_log
          \/ \E e \in Inbound : /\ e.sequence_number = validator.last_sequence_number + 1
                               /\ audit_log' = Append(audit_log, e)

\* What the handlers do to the fields the invariants are about.
LEMMA HandleEffect ==
    ASSUME NEW e \in Inbound, Handle(e)
    PROVE  \/ /\ e.message_type = HELLO
              /\ out_sequence_number' = 1
              /\ active_session_id' =
                    IF e.detail = "right_token" THEN e.session_id ELSE active_session_id
              /\ observations_store' = observations_store
           \/ /\ e.message_type # HELLO
              /\ out_sequence_number' = out_sequence_number
              /\ active_session_id' =
                    IF e.message_type = CLOSE THEN NoSession ELSE active_session_id
              /\ \/ observations_store' = observations_store
                 \/ /\ e.message_type = OBSERVATION
                    /\ observations_store' = Append(observations_store, e)
BY DEF Handle, HandleSessionHello, storeVars, HELLO, CLOSE, OBSERVATION, AUTHORIZED, RESULT

\* process_incoming_envelope keeps the invariant, whatever arrives, and consumes
\* at most the next number.
LEMMA ProcessIInv ==
    ASSUME IInv, NEW e \in Inbound, ProcessIncomingEnvelope(e)
    PROVE  IInv' /\ Counts
<1> DEFINE last == validator.last_sequence_number
           passes == Accepts(validator, e) /\ PassesSecurity(e)
<1>1. /\ validator' = ValidateEnvelope(validator, e)
      /\ UNCHANGED <<adapterVars, wire, proposals_store>>
      /\ \/ passes /\ audit_log' = Append(audit_log, e) /\ Handle(e)
         \/ UNCHANGED <<active_session_id, out_sequence_number, audit_log,
                         observations_store>>
    BY DEF ProcessIncomingEnvelope, storeVars
<1>2. /\ e.session_id \in 1..MaxSessions /\ e.sequence_number \in 1..MaxSequence
      /\ e.message_type = HELLO => e.sequence_number = 1
      /\ e.message_type = OBSERVATION => e \in AdapterEnvelopes
    BY InboundFields
<1>3. /\ last \in Nat /\ last <= MaxSequence
      /\ validator.active_session_id \in 0..MaxSessions
      /\ active_session_id \in 0..MaxSessions
      /\ out_sequence_number \in 0..(MaxProposals + 1)
      /\ audit_log \in Seq(Inbound) /\ observations_store \in Seq(AdapterEnvelopes)
    BY SessionAssumption DEF IInv, TypeOK, Inbound
<1>4. /\ validator' \in ValidatorType
      /\ validator'.seen_sequence_numbers = 1..validator'.last_sequence_number
      /\ validator'.active_session_id \in {validator.active_session_id, e.session_id}
      /\ ~Accepts(validator, e) => validator'.last_sequence_number = last
      /\ Accepts(validator, e) => /\ e.sequence_number = last + 1
                                 /\ validator'.last_sequence_number = last + 1
    BY <1>1, ValidateCounts DEF IInv
<1> HIDE DEF last
<1>5. NumbersUsed'
    BY <1>4 DEF NumbersUsed
<1>6. Counts
    BY <1>1, <1>4 DEF Counts, last
<1>7. \/ /\ passes /\ e.message_type = HELLO /\ out_sequence_number' = 1
         /\ active_session_id' \in {active_session_id, e.session_id}
         /\ observations_store' = observations_store
         /\ audit_log' = Append(audit_log, e)
      \/ /\ passes /\ out_sequence_number' = out_sequence_number
         /\ active_session_id' \in {active_session_id, NoSession}
         /\ \/ observations_store' = observations_store
            \/ /\ e \in AdapterEnvelopes
               /\ observations_store' = Append(observations_store, e)
         /\ audit_log' = Append(audit_log, e)
      \/ UNCHANGED <<active_session_id, out_sequence_number, audit_log,
                     observations_store>>
    BY <1>1, <1>2, HandleEffect
<1>8. TypeOK'
    <2>1. validator'.active_session_id \in 0..MaxSessions
        BY <1>2, <1>3, <1>4, SessionAssumption
    <2>2. validator'.last_sequence_number \in 0..MaxSequence
        BY <1>2, <1>3, <1>4, SessionAssumption
    <2>3. validator'.session_established \in BOOLEAN
        BY <1>4 DEF ValidatorType
    <2>4. active_session_id' \in 0..MaxSessions
          /\ out_sequence_number' \in 0..(MaxProposals + 1)
        BY <1>2, <1>3, <1>7, SessionAssumption DEF NoSession
    <2>5. audit_log' \in Seq(Inbound) /\ observations_store' \in Seq(AdapterEnvelopes)
        <3>1. audit_log' \in {audit_log, Append(audit_log, e)}
              /\ (observations_store' = observations_store
                  \/ (e \in AdapterEnvelopes
                      /\ observations_store' = Append(observations_store, e)))
            BY <1>7
        <3>2. Append(audit_log, e) \in Seq(Inbound)
            BY <1>3
        <3>3. e \in AdapterEnvelopes =>
                Append(observations_store, e) \in Seq(AdapterEnvelopes)
            BY <1>3
        <3> QED
            BY <1>3, <3>1, <3>2, <3>3
    <2> QED
        BY <1>1, <2>1, <2>2, <2>3, <2>4, <2>5 DEF IInv, TypeOK, Inbound, adapterVars
<1>9. OutboundCount'
    <2>1. /\ last = 0 => active_session_id = NoSession /\ proposals_store = <<>>
          /\ out_sequence_number <= Len(proposals_store) + 1
          /\ active_session_id # NoSession \/ proposals_store # <<>> =>
                out_sequence_number = Len(proposals_store) + 1
          /\ \A p \in DOMAIN proposals_store : proposals_store[p].sequence_number = p + 1
          /\ Len(proposals_store) <= MaxProposals
          /\ proposals_store' = proposals_store
        BY <1>1 DEF IInv, OutboundCount, last
    <2>2. CASE passes /\ e.message_type = HELLO /\ out_sequence_number' = 1
        <3>1. last = 0 /\ validator'.last_sequence_number = 1
            BY <1>2, <1>3, <1>4, <2>2
        <3> QED
            BY <2>1, <2>2, <3>1 DEF OutboundCount
    <2>3. CASE passes /\ out_sequence_number' = out_sequence_number
               /\ active_session_id' \in {active_session_id, NoSession}
        <3>1. validator'.last_sequence_number # 0
            BY <1>3, <1>4, <2>3
        <3> QED
            BY <2>1, <2>3, <3>1 DEF OutboundCount
    <2>4. CASE UNCHANGED <<active_session_id, out_sequence_number>>
        <3>1. validator'.last_sequence_number = 0 => last = 0
            BY <1>3, <1>4
        <3> QED
            BY <2>1, <2>4, <3>1 DEF OutboundCount
    <2> QED
        BY <1>7, <2>2, <2>3, <2>4
<1> QED
    BY <1>5, <1>6, <1>8, <1>9 DEF IInv

\* The adapter's queue keeps its type and its bound.
LEMMA EnqueueTyped ==
    ASSUME TypeOK, NEW e \in AdapterEnvelopes, Enqueue(e)
    PROVE  /\ event_queue' \in Seq(AdapterEnvelopes) /\ Len(event_queue') <= MaxCapacity
           /\ discarded' \subseteq AdapterEnvelopes
<1>1. /\ event_queue \in Seq(AdapterEnvelopes) /\ Len(event_queue) <= MaxCapacity
      /\ discarded \subseteq AdapterEnvelopes
    BY DEF TypeOK
<1>2. IsFull(event_queue) => event_queue # <<>>
    BY MaxCapacityAssumption DEF IsFull
<1>3. /\ Evicted(event_queue) \subseteq AdapterEnvelopes
      /\ discarded' = discarded \cup Evicted(event_queue)
    BY <1>1, <1>2 DEF Evicted, Enqueue
<1>4. CASE IsFull(event_queue)
    <2>1. event_queue' = Append(Tail(event_queue), e)
        BY <1>4 DEF Enqueue, PushBack
    <2>2. Tail(event_queue) \in Seq(AdapterEnvelopes)
          /\ Len(Tail(event_queue)) = Len(event_queue) - 1
        BY <1>1, <1>2, <1>4
    <2> QED
        BY <1>1, <1>3, <2>1, <2>2, MaxCapacityAssumption
<1>5. CASE ~IsFull(event_queue)
    <2>1. event_queue' = Append(event_queue, e)
        BY <1>5 DEF Enqueue, PushBack
    <2> QED
        BY <1>1, <1>3, <1>5, <2>1, MaxCapacityAssumption DEF IsFull
<1> QED
    BY <1>4, <1>5

AdapterTyped ==
    /\ is_enabled \in BOOLEAN
    /\ session_id \in 0..MaxSessions /\ sequence_number \in 0..MaxSequence
    /\ event_queue \in Seq(AdapterEnvelopes) /\ Len(event_queue) <= MaxCapacity
    /\ discarded \subseteq AdapterEnvelopes /\ wire \subseteq AdapterEnvelopes

\* A step of the adapter that keeps its own types keeps the whole invariant.
LEMMA AdapterStep ==
    ASSUME IInv, UNCHANGED daemonVars, AdapterTyped'
    PROVE  IInv' /\ Counts
<1>1. UNCHANGED <<validator, active_session_id, out_sequence_number, audit_log,
                  observations_store, proposals_store>>
    BY DEF daemonVars, storeVars
<1>2. TypeOK'
    BY <1>1 DEF IInv, TypeOK, AdapterTyped
<1>3. NumbersUsed' /\ OutboundCount' /\ Counts
    BY <1>1 DEF IInv, NumbersUsed, OutboundCount, Counts
<1> QED
    BY <1>2, <1>3 DEF IInv

\* Every step of the system keeps the invariant and consumes at most the next
\* number.
LEMMA StepIInv ==
    ASSUME IInv, [Next]_vars
    PROVE  IInv' /\ Counts
<1>1. TypeOK /\ AdapterTyped
    BY DEF IInv, TypeOK, AdapterTyped
<1>2. ASSUME NEW disabled \in BOOLEAN, SetKillSwitch(disabled)
      PROVE  IInv' /\ Counts
    <2>1. /\ is_enabled' \in BOOLEAN /\ event_queue' \in Seq(AdapterEnvelopes)
          /\ Len(event_queue') <= MaxCapacity /\ discarded' \subseteq AdapterEnvelopes
        BY <1>1, <1>2, MaxCapacityAssumption DEF SetKillSwitch, AdapterTyped, ItemsOf
    <2> QED
        BY <1>1, <1>2, <2>1, AdapterStep DEF SetKillSwitch, AdapterTyped
<1>3. ASSUME NEW token \in {"right_token", "wrong_token"}, StartSession(token)
      PROVE  IInv' /\ Counts
    <2>1. session_id + 1 \in 1..MaxSessions /\ session_id' = session_id + 1
        BY <1>1, <1>3, SessionAssumption DEF StartSession, AdapterTyped
    <2>2. Envelope(HELLO, session_id', 1, token, NoProposal) \in AdapterEnvelopes
        BY <2>1 DEF AdapterEnvelopes
    <2>3. /\ event_queue' \in Seq(AdapterEnvelopes) /\ Len(event_queue') <= MaxCapacity
          /\ discarded' \subseteq AdapterEnvelopes
        BY <1>1, <1>3, <2>2, EnqueueTyped DEF StartSession
    <2>4. UNCHANGED <<is_enabled, wire, daemonVars>> /\ sequence_number' = 1
        BY <1>3 DEF StartSession
    <2>5. AdapterTyped'
        BY <1>1, <2>1, <2>3, <2>4, SessionAssumption DEF AdapterTyped
    <2> QED
        BY <2>4, <2>5, AdapterStep
<1>4. ASSUME NEW type, NEW detail, SendNext(type, detail),
             \A s \in 1..MaxSessions, n \in 1..MaxSequence :
                Envelope(type, s, n, detail, NoProposal) \in AdapterEnvelopes
      PROVE  IInv' /\ Counts
    <2>1. /\ session_id \in 1..MaxSessions /\ sequence_number + 1 \in 1..MaxSequence
          /\ sequence_number' = sequence_number + 1
        BY <1>1, <1>4, SessionAssumption DEF SendNext, NoSession, AdapterTyped
    <2>2. /\ event_queue' \in Seq(AdapterEnvelopes) /\ Len(event_queue') <= MaxCapacity
          /\ discarded' \subseteq AdapterEnvelopes
        BY <1>1, <1>4, <2>1, EnqueueTyped DEF SendNext
    <2>3. UNCHANGED <<is_enabled, wire, session_id, daemonVars>>
        BY <1>4 DEF SendNext
    <2>4. AdapterTyped'
        BY <1>1, <2>1, <2>2, <2>3, SessionAssumption DEF AdapterTyped
    <2> QED
        BY <2>3, <2>4, AdapterStep
<1>5. CASE CloseSession
    BY <1>4, <1>5 DEF CloseSession, AdapterEnvelopes
<1>6. ASSUME NEW size \in {"fits", "oversized"}, Observe(size)
      PROVE  IInv' /\ Counts
    BY <1>4, <1>6 DEF Observe, AdapterEnvelopes
<1>7. CASE Transmit
    <2>1. /\ event_queue' = Tail(event_queue) /\ event_queue # <<>>
          /\ wire' = wire \cup {Head(event_queue)}
          /\ UNCHANGED <<is_enabled, session_id, sequence_number, discarded, daemonVars>>
        BY <1>7 DEF Transmit
    <2>2. /\ event_queue' \in Seq(AdapterEnvelopes) /\ Len(event_queue') <= MaxCapacity
          /\ wire' \subseteq AdapterEnvelopes
        BY <1>1, <2>1, MaxCapacityAssumption DEF AdapterTyped
    <2>3. AdapterTyped'
        BY <1>1, <2>1, <2>2 DEF AdapterTyped
    <2> QED
        BY <2>1, <2>3, AdapterStep
<1>8. CASE Deliver
    BY <1>1, <1>8, ProcessIInv DEF Deliver, Inbound, AdapterTyped
<1>9. CASE Host
    <2>1. PICK type \in {AUTHORIZED, RESULT}, session \in 1..session_id,
               number \in 1..MaxSequence, proposal \in DOMAIN proposals_store,
               detail \in {"well_formed", "authority_claimed", "oversized"} :
                    HostReports(type, session, number, proposal, detail)
        BY <1>9 DEF Host
    <2>2. session \in 1..MaxSessions
        BY <1>1, SessionAssumption DEF AdapterTyped
    <2>3. proposal \in 1..MaxProposals
        <3>1. DOMAIN proposals_store = 1..Len(proposals_store)
              /\ Len(proposals_store) \in Nat /\ Len(proposals_store) <= MaxProposals
            BY DEF IInv, OutboundCount, TypeOK
        <3> QED
            BY <3>1, SessionAssumption
    <2> QED
        BY <2>1, <2>2, <2>3, ProcessIInv DEF HostReports, HostEnvelopes, Inbound
<1>10. CASE GenerateCandidateProposal
    <2> DEFINE number == out_sequence_number + 1
               new == [session_id |-> active_session_id, sequence_number |-> number]
    <2>1. /\ active_session_id # NoSession /\ Len(proposals_store) < MaxProposals
          /\ out_sequence_number' = number /\ proposals_store' = Append(proposals_store, new)
          /\ UNCHANGED <<adapterVars, wire, validator, active_session_id, audit_log,
                          observations_store>>
        BY <1>10 DEF GenerateCandidateProposal, storeVars
    <2>2. /\ active_session_id \in 0..MaxSessions
          /\ proposals_store \in
                Seq([session_id : 1..MaxSessions, sequence_number : 1..(MaxProposals + 1)])
          /\ out_sequence_number = Len(proposals_store) + 1
          /\ validator.last_sequence_number # 0
          /\ \A p \in DOMAIN proposals_store : proposals_store[p].sequence_number = p + 1
        BY <2>1 DEF IInv, TypeOK, OutboundCount
    <2>3. /\ active_session_id \in 1..MaxSessions /\ number \in 1..(MaxProposals + 1)
          /\ number = Len(proposals_store) + 2 /\ Len(proposals_store) \in Nat
        BY <2>1, <2>2, SessionAssumption DEF NoSession
    <2> HIDE DEF number
    <2>4. /\ proposals_store' \in
                Seq([session_id : 1..MaxSessions, sequence_number : 1..(MaxProposals + 1)])
          /\ Len(proposals_store') = Len(proposals_store) + 1
          /\ \A p \in DOMAIN proposals_store' : proposals_store'[p].sequence_number = p + 1
        BY <2>1, <2>2, <2>3
    <2>5. TypeOK'
        BY <2>1, <2>3, <2>4 DEF IInv, TypeOK, adapterVars
    <2>6. OutboundCount'
        BY <2>1, <2>2, <2>3, <2>4, SessionAssumption DEF OutboundCount
    <2>7. NumbersUsed' /\ Counts
        BY <2>1 DEF IInv, NumbersUsed, Counts
    <2> QED
        BY <2>5, <2>6, <2>7 DEF IInv
<1>11. CASE UNCHANGED vars
    <2>1. UNCHANGED <<adapterVars, wire, daemonVars>>
        BY <1>11 DEF vars
    <2>2. AdapterTyped'
        BY <1>1, <2>1 DEF AdapterTyped, adapterVars
    <2> QED
        BY <2>1, <2>2, AdapterStep
<1> QED
    BY <1>2, <1>3, <1>5, <1>6, <1>7, <1>8, <1>9, <1>10, <1>11 DEF Next, Adapter

-----------------------------------------------------------------------------
\* The invariant: used numbers are 1..last, nothing ever resets them, and the
\* daemon's outbound count has been restarted only before it was used.
THEOREM SessionInductive == Spec => []IInv
BY InitIInv, StepIInv, PTL DEF Spec

\* Queue, transport and daemon hold only well-formed envelopes, and the queue
\* no more than its capacity.
THEOREM SessionTypeCorrect == Spec => []TypeOK
BY SessionInductive, PTL DEF IInv

\* No two proposals of the daemon get the same number, nor the ACCEPT's.
THEOREM ProposalsNumberedOnce == Spec => []OutboundNumbersUnique
<1>1. IInv => OutboundNumbersUnique
    <2> SUFFICES ASSUME IInv PROVE OutboundNumbersUnique
        OBVIOUS
    <2>1. /\ DOMAIN proposals_store = 1..Len(proposals_store)
          /\ Len(proposals_store) \in Nat
          /\ \A p \in DOMAIN proposals_store : proposals_store[p].sequence_number = p + 1
        BY DEF IInv, TypeOK, OutboundCount
    <2>2. \A p \in DOMAIN proposals_store : proposals_store[p].sequence_number > 1
        BY <2>1
    <2>3. ASSUME NEW p \in DOMAIN proposals_store, NEW q \in DOMAIN proposals_store,
                 proposals_store[p] = proposals_store[q]
          PROVE  p = q
        <3>1. p + 1 = q + 1
            BY <2>1, <2>3
        <3> QED
            BY <2>1, <3>1
    <2> QED
        BY <2>2, <2>3 DEF OutboundNumbersUnique
<1> QED
    BY <1>1, SessionInductive, PTL

\* Only processing an inbound envelope touches the active session or the log.
LEMMA OnlyProcessing ==
    ASSUME IInv, [Next]_vars
    PROVE  \/ \E e \in Inbound : ProcessIncomingEnvelope(e)
           \/ UNCHANGED <<active_session_id, audit_log>>
<1>1. /\ wire \subseteq AdapterEnvelopes /\ session_id \in 0..MaxSessions
      /\ DOMAIN proposals_store = 1..Len(proposals_store)
      /\ Len(proposals_store) \in Nat /\ Len(proposals_store) <= MaxProposals
    BY DEF IInv, TypeOK, OutboundCount
<1>2. CASE Adapter
    BY <1>2 DEF Adapter, SetKillSwitch, StartSession, CloseSession, Observe, SendNext,
                Transmit, daemonVars
<1>3. CASE Deliver
    BY <1>1, <1>3 DEF Deliver, Inbound
<1>4. CASE Host
    <2>1. PICK type \in {AUTHORIZED, RESULT}, session \in 1..session_id,
               number \in 1..MaxSequence, proposal \in DOMAIN proposals_store,
               detail \in {"well_formed", "authority_claimed", "oversized"} :
                    HostReports(type, session, number, proposal, detail)
        BY <1>4 DEF Host
    <2>2. session \in 1..MaxSessions /\ proposal \in 1..MaxProposals
        BY <1>1, SessionAssumption
    <2> QED
        BY <2>1, <2>2 DEF HostReports, HostEnvelopes, Inbound
<1>5. CASE GenerateCandidateProposal
    BY <1>5 DEF GenerateCandidateProposal
<1>6. CASE UNCHANGED vars
    BY <1>6 DEF vars, daemonVars
<1> QED
    BY <1>2, <1>3, <1>4, <1>5, <1>6 DEF Next

\* No envelope the daemon processes leaves an active session without the HELLO
\* that opened it.
LEMMA ProcessKeepsAccepted ==
    ASSUME IInv, ActiveSessionAccepted, NEW e \in Inbound, ProcessIncomingEnvelope(e)
    PROVE  ActiveSessionAccepted'
<1> DEFINE n == Len(audit_log)
           grown == Append(audit_log, e)
<1>1. audit_log \in Seq(Inbound) /\ n \in Nat /\ DOMAIN audit_log = 1..n
    BY DEF IInv, TypeOK, Inbound
<1>2. CASE UNCHANGED <<active_session_id, audit_log>>
    BY <1>2 DEF ActiveSessionAccepted
<1>3. CASE audit_log' = grown /\ Handle(e)
    <2>1. /\ DOMAIN grown = 1..(n + 1) /\ grown[n + 1] = e
          /\ \A i \in 1..n : grown[i] = audit_log[i]
        BY <1>1
    <2> HIDE DEF grown, n
    <2>2. CASE e.message_type = HELLO /\ e.detail = "right_token"
        <3>1. active_session_id' = e.session_id
            BY <1>3, <2>2, HandleEffect
        <3>2. n + 1 \in DOMAIN grown /\ \A j \in DOMAIN grown : ~(j > n + 1)
            BY <1>1, <2>1
        <3> QED
            BY <1>3, <2>1, <2>2, <3>1, <3>2 DEF ActiveSessionAccepted
    <2>3. CASE e.message_type = CLOSE
        <3>1. active_session_id' = NoSession
            BY <1>3, <2>3, HandleEffect DEF HELLO, CLOSE
        <3> QED
            BY <3>1 DEF ActiveSessionAccepted
    <2>4. CASE e.message_type # CLOSE /\ ~(e.message_type = HELLO /\ e.detail = "right_token")
        <3>1. active_session_id' = active_session_id
            BY <1>3, <2>4, HandleEffect
        <3>2. ASSUME active_session_id # NoSession
              PROVE  \E i \in DOMAIN grown :
                        /\ grown[i].message_type = HELLO
                        /\ grown[i].session_id = active_session_id
                        /\ grown[i].detail = "right_token"
                        /\ \A j \in DOMAIN grown : j > i => grown[j].message_type # CLOSE
            <4>1. PICK i \in 1..n :
                    /\ audit_log[i].message_type = HELLO
                    /\ audit_log[i].session_id = active_session_id
                    /\ audit_log[i].detail = "right_token"
                    /\ \A j \in 1..n : j > i => audit_log[j].message_type # CLOSE
                BY <1>1, <3>2 DEF ActiveSessionAccepted
            <4>2. ASSUME NEW j \in 1..(n + 1), j > i
                  PROVE  grown[j].message_type # CLOSE
                <5>1. j = n + 1 \/ j \in 1..n
                    BY <1>1
                <5> QED
                    BY <2>1, <2>4, <4>1, <4>2, <5>1
            <4>3. i \in 1..(n + 1) /\ grown[i] = audit_log[i]
                BY <1>1, <2>1
            <4> QED
                BY <2>1, <4>1, <4>2, <4>3
        <3> QED
            BY <1>3, <3>1, <3>2 DEF ActiveSessionAccepted
    <2> QED
        BY <2>2, <2>3, <2>4
<1> QED
    BY <1>2, <1>3 DEF ProcessIncomingEnvelope

\* A session is active at the daemon only while its accepted HELLO stands in the
\* audit log with no CLOSE behind it.
THEOREM ActiveMeansAccepted == Spec => []ActiveSessionAccepted
<1>1. Init => ActiveSessionAccepted
    BY DEF Init, ActiveSessionAccepted
<1>2. IInv /\ ActiveSessionAccepted /\ [Next]_vars => ActiveSessionAccepted'
    <2> SUFFICES ASSUME IInv, ActiveSessionAccepted, [Next]_vars
                 PROVE  ActiveSessionAccepted'
        OBVIOUS
    <2>1. CASE UNCHANGED <<active_session_id, audit_log>>
        BY <2>1 DEF ActiveSessionAccepted
    <2> QED
        BY <2>1, OnlyProcessing, ProcessKeepsAccepted
<1> QED
    BY <1>1, <1>2, SessionInductive, PTL DEF Spec

\* A daemon that has processed nothing is a log that expects number 1.
LEMMA RefineInit == Init => Log!Init
<1> SUFFICES ASSUME Init PROVE Log!Init
    OBVIOUS
<1>1. validator.last_sequence_number = 0 /\ audit_log = <<>>
    BY DEF Init, NewValidator
<1> QED
    BY <1>1 DEF Log!Init

\* A step that consumes at most the next number is a step of the log.
LEMMA RefineStep ==
    ASSUME IInv, Counts
    PROVE  [Log!Consume]_(Log!vars)
<1> DEFINE last == validator.last_sequence_number
<1>1. last \in Nat /\ audit_log \in Seq(Inbound)
    BY SessionAssumption DEF IInv, TypeOK, Inbound
<1>2. CASE UNCHANGED <<last, audit_log>>
    BY <1>2 DEF Log!vars
<1>3. CASE validator'.last_sequence_number = last + 1 /\ audit_log' = audit_log
    BY <1>1, <1>3 DEF Log!Consume
<1>4. ASSUME validator'.last_sequence_number = last + 1,
             NEW e \in Inbound, e.sequence_number = last + 1,
             audit_log' = Append(audit_log, e)
      PROVE  Log!Consume
    <2>1. Numbers(audit_log') = Append(Numbers(audit_log), last + 1)
        BY <1>1, <1>4, NumbersAppend
    <2>2. validator'.last_sequence_number + 1 = (last + 1) + 1
        BY <1>4
    <2> QED
        BY <2>1, <2>2 DEF Log!Consume, Numbers
<1> QED
    BY <1>2, <1>3, <1>4 DEF Counts

\* However the transport loses, repeats and reorders, the daemon's audit log is
\* a sequenced log.
THEOREM IngestionIsSequenced == Spec => ImplementsSequencedLog
<1>1. IInv /\ [Next]_vars => [Log!Consume]_(Log!vars)
    BY StepIInv, RefineStep
<1> QED
    BY <1>1, RefineInit, SessionInductive, PTL DEF Spec, ImplementsSequencedLog, Log!Spec

-----------------------------------------------------------------------------
(* What the adapter's queue loses: an envelope it dropped or cleared never reaches *)
(* the daemon and leaves a gap in the numbers of its session for good, and the    *)
(* kill switch leaves no observation queued                                      *)

Queued == ItemsOf(event_queue)

\* The adapter has given out this envelope's session and number.
Issued(e) ==
    \/ e.session_id < session_id
    \/ e.session_id = session_id /\ e.sequence_number <= sequence_number

\* All the adapter made that still is somewhere.
Made == Queued \cup discarded \cup wire

\* Every envelope the adapter made is in one place: once in the queue, or
\* discarded, or on the wire, and no two have the same session and number.  It
\* needs that numbers are given out once.
OnePlace ==
    /\ \A e \in Made : Issued(e)
    /\ \A e, f \in Made : e.session_id = f.session_id
                              /\ e.sequence_number = f.sequence_number => e = f
    /\ \A i, j \in DOMAIN event_queue : i # j => event_queue[i] # event_queue[j]
    /\ Queued \cap discarded = {} /\ Queued \cap wire = {} /\ discarded \cap wire = {}

\* What the validator has seen: ids that came over the wire or from the host, one
\* at least for each number used; and nothing is stored that it has not seen.
SeenArrived ==
    /\ \A id \in validator.seen_message_ids :
            \E e \in wire \cup HostEnvelopes : id = e.message_id
    /\ \A n \in 1..validator.last_sequence_number :
            \E id \in validator.seen_message_ids : id.number = n
    /\ \A id \in validator.seen_message_ids :
            id.number \in 1..validator.last_sequence_number
    /\ \A i \in DOMAIN observations_store :
            observations_store[i].message_id \in validator.seen_message_ids

\* The session of the one HELLO that was accepted came first: up to any number it
\* has used it used all of them, and while the validator is at it nobody else has
\* used any.  A session never comes back, for its HELLO is not accepted again.
OpenedFirst ==
    \A hello \in validator.seen_message_ids : hello.type = HELLO =>
        /\ validator.active_session_id # NoSession
        /\ validator.active_session_id = hello.session =>
                \A id \in validator.seen_message_ids : id.session = hello.session
        /\ \A id, later \in validator.seen_message_ids :
                later.session = hello.session /\ id.number <= later.number
                    => id.session = hello.session

GInv == IInv /\ OnePlace /\ SeenArrived /\ OpenedFirst

\* Two envelopes with the same id are the same, and the host's are of types the
\* adapter does not send.
LEMMA IdsIdentify ==
    /\ \A e, f \in Inbound : e.message_id = f.message_id => e = f
    /\ AdapterEnvelopes \cap HostEnvelopes = {}
    /\ \A e \in Inbound : /\ e.message_id.type = e.message_type
                          /\ e.message_id.session = e.session_id
                          /\ e.message_id.number = e.sequence_number
<1>1. ASSUME NEW e \in Inbound
      PROVE  \E t, s, n, d, p : e = Envelope(t, s, n, d, p)
    BY DEF Inbound, AdapterEnvelopes, HostEnvelopes
<1>2. ASSUME NEW e \in Inbound, NEW f \in Inbound, e.message_id = f.message_id
      PROVE  e = f
    <2>1. PICK t, s, n, d, p : e = Envelope(t, s, n, d, p)
        BY <1>1
    <2>2. PICK u, r, m, c, q : f = Envelope(u, r, m, c, q)
        BY <1>1
    <2>3. t = u /\ s = r /\ n = m /\ d = c /\ p = q
        BY <1>2, <2>1, <2>2 DEF Envelope
    <2> QED
        BY <2>1, <2>2, <2>3
<1>3. ASSUME NEW e \in AdapterEnvelopes, NEW f \in HostEnvelopes
      PROVE  e # f
    <2>1. e.message_type \in {HELLO, OBSERVATION, CLOSE}
        BY EnvelopeFields DEF AdapterEnvelopes
    <2>2. f.message_type \in {AUTHORIZED, RESULT}
        BY EnvelopeFields DEF HostEnvelopes
    <2> QED
        BY <2>1, <2>2 DEF HELLO, OBSERVATION, CLOSE, AUTHORIZED, RESULT
<1>4. ASSUME NEW e \in Inbound
      PROVE  /\ e.message_id.type = e.message_type /\ e.message_id.session = e.session_id
             /\ e.message_id.number = e.sequence_number
    BY <1>1 DEF Envelope
<1> QED
    BY <1>2, <1>3, <1>4

\* Nothing the queue lost has been seen.
LEMMA LostUnseen ==
    ASSUME GInv, NEW lost \in discarded
    PROVE  lost.message_id \notin validator.seen_message_ids
<1> SUFFICES ASSUME lost.message_id \in validator.seen_message_ids
             PROVE  FALSE
    OBVIOUS
<1>1. PICK e \in wire \cup HostEnvelopes : lost.message_id = e.message_id
    BY DEF GInv, SeenArrived
<1>2. lost \in AdapterEnvelopes /\ e \in Inbound /\ lost \in Inbound
    BY DEF GInv, IInv, TypeOK, Inbound
<1>3. lost = e
    BY <1>1, <1>2, IdsIdentify
<1> QED
    BY <1>1, <1>2, <1>3, IdsIdentify DEF GInv, OnePlace

\* The invariant is strong enough: the number of what is lost was used before that
\* of what is stored, so by the session that came first.
LEMMA GInvGap == GInv => GapIsFinal
<1> SUFFICES ASSUME GInv, NEW lost \in discarded, Opened(lost.session_id),
                    NEW i \in DOMAIN observations_store,
                    observations_store[i].session_id = lost.session_id,
                    observations_store[i].sequence_number > lost.sequence_number
             PROVE  \E id \in validator.seen_message_ids :
                        /\ id # lost.message_id
                        /\ id.session = lost.session_id /\ id.number = lost.sequence_number
    BY DEF GapIsFinal, ResumedPast
<1> DEFINE stored == observations_store[i]
<1>1. /\ lost \in Inbound /\ stored \in Inbound /\ validator.last_sequence_number \in Nat
    BY SessionAssumption DEF GInv, IInv, TypeOK, Inbound
<1>2. /\ lost.sequence_number \in Nat \ {0} /\ stored.sequence_number \in Nat
      /\ stored.message_id \in validator.seen_message_ids
      /\ stored.message_id.session = lost.session_id
      /\ stored.message_id.number = stored.sequence_number
      /\ stored.sequence_number \in 1..validator.last_sequence_number
    BY <1>1, InboundFields, IdsIdentify, SessionAssumption DEF GInv, SeenArrived
<1>3. lost.sequence_number \in 1..validator.last_sequence_number
    BY <1>1, <1>2
<1>4. PICK id \in validator.seen_message_ids : id.number = lost.sequence_number
    BY <1>3 DEF GInv, SeenArrived
<1>5. id.number <= stored.message_id.number
    BY <1>2, <1>4
<1>6. PICK hello \in validator.seen_message_ids :
            hello.type = HELLO /\ hello.session = lost.session_id
    BY DEF Opened
<1>7. id.session = lost.session_id
    BY <1>2, <1>5, <1>6 DEF GInv, OpenedFirst
<1> QED
    BY <1>4, <1>7, LostUnseen

-----------------------------------------------------------------------------
\* The items of the queue after Enqueue: those that were there but the one that
\* had to go, and the new one, which stands once if it is new.
LEMMA EnqueueItems ==
    ASSUME TypeOK, OnePlace, NEW e \in AdapterEnvelopes, Enqueue(e), e \notin Queued
    PROVE  /\ Queued' = (Queued \ Evicted(event_queue)) \cup {e}
           /\ discarded' = discarded \cup Evicted(event_queue)
           /\ Evicted(event_queue) \subseteq Queued
           /\ \A i, j \in DOMAIN event_queue' : i # j => event_queue'[i] # event_queue'[j]
<1> DEFINE kept == IF IsFull(event_queue) THEN Tail(event_queue) ELSE event_queue
<1>1. /\ event_queue \in Seq(AdapterEnvelopes)
      /\ Len(event_queue) \in Nat /\ DOMAIN event_queue = 1..Len(event_queue)
    BY DEF TypeOK
<1>2. IsFull(event_queue) => Len(event_queue) >= 1 /\ event_queue # <<>>
    BY <1>1, MaxCapacityAssumption DEF IsFull
<1>3. /\ kept \in Seq(AdapterEnvelopes) /\ Len(kept) \in Nat /\ DOMAIN kept = 1..Len(kept)
      /\ ItemsOf(kept) = Queued \ Evicted(event_queue)
      /\ \A i, j \in DOMAIN kept : i # j => kept[i] # kept[j]
      /\ Evicted(event_queue) \subseteq Queued
    <2>1. CASE IsFull(event_queue)
        <3>1. /\ kept \in Seq(AdapterEnvelopes) /\ Len(kept) = Len(event_queue) - 1
              /\ \A i \in 1..Len(kept) : kept[i] = event_queue[i + 1]
              /\ Head(event_queue) = event_queue[1]
            BY <1>1, <1>2, <2>1
        <3>2. Evicted(event_queue) = {event_queue[1]}
            BY <2>1, <3>1 DEF Evicted
        <3> HIDE DEF kept
        <3>3. DOMAIN kept = 1..Len(kept) /\ Len(kept) \in Nat
            BY <1>1, <1>2, <2>1, <3>1
        <3>4. ASSUME NEW i \in DOMAIN kept, NEW j \in DOMAIN kept, i # j
              PROVE  kept[i] # kept[j]
            <4>1. /\ i + 1 \in DOMAIN event_queue /\ j + 1 \in DOMAIN event_queue
                  /\ i + 1 # j + 1
                BY <1>1, <3>1, <3>3, <3>4
            <4>2. kept[i] = event_queue[i + 1] /\ kept[j] = event_queue[j + 1]
                BY <3>1, <3>3
            <4> QED
                BY <4>1, <4>2 DEF OnePlace
        <3>5. ASSUME NEW x \in Queued, x # event_queue[1]
              PROVE  x \in ItemsOf(kept)
            <4>1. PICK i \in 1..Len(event_queue) : x = event_queue[i]
                BY <1>1, <3>5 DEF Queued, ItemsOf
            <4>2. i - 1 \in 1..Len(kept) /\ (i - 1) + 1 = i
                BY <1>1, <3>1, <3>5, <4>1
            <4>3. kept[i - 1] = x
                BY <3>1, <4>1, <4>2
            <4> QED
                BY <3>3, <4>2, <4>3 DEF ItemsOf
        <3>6. ASSUME NEW x \in ItemsOf(kept)
              PROVE  x \in Queued /\ x # event_queue[1]
            <4>1. PICK i \in 1..Len(kept) : x = kept[i]
                BY <3>3, <3>6 DEF ItemsOf
            <4>2. x = event_queue[i + 1] /\ i + 1 \in DOMAIN event_queue /\ 1 \in DOMAIN event_queue
                  /\ i + 1 # 1
                BY <1>1, <3>1, <4>1
            <4> QED
                BY <4>2 DEF Queued, ItemsOf, OnePlace
        <3>7. 1 \in DOMAIN event_queue
            BY <1>1, <1>2, <2>1
        <3> QED
            BY <3>1, <3>2, <3>3, <3>4, <3>5, <3>6, <3>7 DEF Queued, ItemsOf
    <2>2. CASE ~IsFull(event_queue)
        BY <1>1, <2>2 DEF Evicted, Queued, ItemsOf, OnePlace
    <2> QED
        BY <2>1, <2>2
<1>4. event_queue' = Append(kept, e) /\ discarded' = discarded \cup Evicted(event_queue)
    BY DEF Enqueue, PushBack
<1> HIDE DEF kept
<1>5. /\ DOMAIN event_queue' = 1..(Len(kept) + 1) /\ event_queue'[Len(kept) + 1] = e
      /\ \A i \in 1..Len(kept) : event_queue'[i] = kept[i]
    BY <1>3, <1>4
<1>6. \A i \in 1..(Len(kept) + 1) : i \in 1..Len(kept) \/ i = Len(kept) + 1
    BY <1>3
<1>7. Len(kept) + 1 \in 1..(Len(kept) + 1)
      /\ \A i \in 1..Len(kept) : i \in 1..(Len(kept) + 1)
    BY <1>3
<1>8. Queued' = ItemsOf(kept) \cup {e}
    <2>1. \A x \in Queued' : x \in ItemsOf(kept) \cup {e}
        BY <1>3, <1>5, <1>6 DEF Queued, ItemsOf
    <2>2. \A x \in ItemsOf(kept) \cup {e} : x \in Queued'
        BY <1>3, <1>5, <1>7 DEF Queued, ItemsOf
    <2> QED
        BY <2>1, <2>2
<1>9. \A i \in 1..Len(kept) : kept[i] # e
    BY <1>3 DEF ItemsOf
<1> QED
    BY <1>3, <1>4, <1>5, <1>6, <1>8, <1>9

\* An envelope with a number not given out before goes to the queue and nowhere else.
LEMMA EnqueueOnePlace ==
    ASSUME TypeOK, OnePlace, NEW e \in AdapterEnvelopes, Enqueue(e), UNCHANGED wire,
           ~Issued(e), Issued(e)', \A x \in AdapterEnvelopes : Issued(x) => Issued(x)'
    PROVE  OnePlace'
<1>0. \A x \in Made : x.session_id # e.session_id \/ x.sequence_number # e.sequence_number
    BY DEF OnePlace, Issued
<1>1. /\ Queued \subseteq AdapterEnvelopes /\ discarded \subseteq AdapterEnvelopes
      /\ wire \subseteq AdapterEnvelopes
    BY DEF TypeOK, Queued, ItemsOf
<1>2. e \notin Queued /\ e \notin discarded /\ e \notin wire
    BY DEF OnePlace, Made
<1>3. /\ Queued' = (Queued \ Evicted(event_queue)) \cup {e}
      /\ discarded' = discarded \cup Evicted(event_queue)
      /\ Evicted(event_queue) \subseteq Queued
      /\ \A i, j \in DOMAIN event_queue' : i # j => event_queue'[i] # event_queue'[j]
    BY <1>2, EnqueueItems
<1>4. /\ \A x \in Made : Issued(x)
      /\ \A x, y \in Made : x.session_id = y.session_id
                                /\ x.sequence_number = y.sequence_number => x = y
      /\ Queued \cap discarded = {} /\ Queued \cap wire = {} /\ discarded \cap wire = {}
    BY DEF OnePlace
<1> DEFINE evicted == Evicted(event_queue)
<1>5. /\ Queued' \cap discarded' = {} /\ Queued' \cap wire' = {} /\ discarded' \cap wire' = {}
    BY <1>2, <1>3, <1>4
<1>6. Made' \subseteq Made \cup {e}
    BY <1>3 DEF Made
<1>7. \A x \in Made' : Issued(x)'
    BY <1>1, <1>4, <1>6 DEF Made
<1>8. \A x, y \in Made' : x.session_id = y.session_id
                            /\ x.sequence_number = y.sequence_number => x = y
    BY <1>0, <1>4, <1>6
<1> QED
    BY <1>3, <1>5, <1>7, <1>8 DEF OnePlace

\* What processing an envelope does to the ids the validator has seen and to the
\* session it is at: only a HELLO moves it, and anything else that is accepted
\* belongs to it, but for a CLOSE before any session.
Seen == validator.seen_message_ids

LEMMA ProcessEffect ==
    ASSUME GInv, NEW e \in wire \cup HostEnvelopes, ProcessIncomingEnvelope(e)
    PROVE  \/ /\ Seen' = Seen /\ UNCHANGED validator.last_sequence_number
              /\ observations_store' = observations_store
              /\ \/ UNCHANGED validator.active_session_id
                 \/ /\ e.message_type = HELLO /\ e.message_id \notin Seen
                    /\ validator'.active_session_id = e.session_id
           \/ /\ Seen' = Seen \cup {e.message_id}
              /\ e.sequence_number = validator.last_sequence_number + 1
              /\ validator'.last_sequence_number = e.sequence_number
              /\ observations_store' \in {observations_store, Append(observations_store, e)}
              /\ \/ /\ e.message_type = HELLO
                    /\ validator'.active_session_id = e.session_id
                 \/ /\ e.message_type # HELLO /\ UNCHANGED validator.active_session_id
                    /\ validator.active_session_id \in {NoSession, e.session_id}
<1> DEFINE last == validator.last_sequence_number
           a == AfterHandshake(validator, e)
<1>1. /\ e \in Inbound /\ NumbersUsed /\ last \in Nat
      /\ validator \in ValidatorType /\ validator.session_established = FALSE
      /\ validator' = ValidateEnvelope(validator, e)
    BY SessionAssumption
    DEF GInv, IInv, TypeOK, Inbound, ProcessIncomingEnvelope, NumbersUsed, ValidatorType
<1>2. /\ e.sequence_number \in Nat /\ e.session_id \in Nat
      /\ e.message_type \in {HELLO, CLOSE, OBSERVATION, AUTHORIZED, RESULT}
      /\ e.message_type # ACCEPT
    BY <1>1, InboundFields, SessionAssumption
    DEF HELLO, CLOSE, OBSERVATION, AUTHORIZED, RESULT, ACCEPT
<1>3. /\ e.message_type = HELLO => a = [validator EXCEPT !.active_session_id = e.session_id]
      /\ e.message_type # HELLO => a = validator
    BY <1>1, <1>2 DEF AfterHandshake
<1>4. /\ a.seen_message_ids = Seen /\ a \in ValidatorType
      /\ e.message_type = HELLO => a.active_session_id = e.session_id
      /\ e.message_type # HELLO => a.active_session_id = validator.active_session_id
    BY <1>1, <1>2, <1>3 DEF ValidatorType, Seen
<1> HIDE DEF a
<1>5. CASE ~Accepts(validator, e)
    <2>1. observations_store' = observations_store
        BY <1>5 DEF ProcessIncomingEnvelope, storeVars
    <2>2. validator'.last_sequence_number = last
        BY <1>1, <1>5, ValidateCounts
    <2>3. CASE RefusedBeforeHandshake(validator, e)
        <3>1. validator' = validator
            BY <1>1, <2>3 DEF ValidateEnvelope
        <3> QED
            BY <2>1, <3>1 DEF Seen
    <2>4. CASE ~RefusedBeforeHandshake(validator, e)
        <3>1. validator' = a /\ e.message_id \notin Seen
            BY <1>1, <1>5, <2>4 DEF ValidateEnvelope, RefusedBeforeHandshake, DuplicateId, Seen, a
        <3> QED
            BY <1>4, <2>1, <2>2, <3>1 DEF Seen
    <2> QED
        BY <2>3, <2>4
<1>6. CASE Accepts(validator, e)
    <2>1. validator' = Record(a, e) /\ ~WrongSession(validator, e)
        BY <1>1, <1>6 DEF ValidateEnvelope, Accepts, RefusedBeforeHandshake, a
    <2>2. Seen' = Seen \cup {e.message_id} /\ validator'.active_session_id = a.active_session_id
        BY <1>4, <2>1 DEF Record, ValidatorType, Seen
    <2>3. e.message_type # HELLO =>
            validator.active_session_id \in {NoSession, e.session_id}
        BY <1>1, <1>2, <2>1 DEF WrongSession, Lifecycle
    <2>4. validator'.last_sequence_number = last + 1 /\ e.sequence_number = last + 1
        BY <1>1, <1>6, ValidateCounts
    <2>5. observations_store' \in {observations_store, Append(observations_store, e)}
        BY <1>1, HandleEffect DEF ProcessIncomingEnvelope, storeVars
    <2> QED
        BY <1>4, <2>2, <2>3, <2>4, <2>5
<1> QED
    BY <1>5, <1>6

\* The validator keeps what it has seen, and adds the id it accepts.
LEMMA ProcessSeen ==
    ASSUME GInv, NEW e \in wire \cup HostEnvelopes, ProcessIncomingEnvelope(e)
    PROVE  SeenArrived'
<1> DEFINE last == validator.last_sequence_number
<1>1. /\ e \in Inbound /\ wire' = wire /\ last \in Nat
      /\ observations_store \in Seq(AdapterEnvelopes)
    BY SessionAssumption DEF GInv, IInv, TypeOK, Inbound, ProcessIncomingEnvelope, adapterVars
<1>2. e.sequence_number \in Nat \ {0} /\ e.message_id.number = e.sequence_number
    BY <1>1, InboundFields, IdsIdentify, SessionAssumption
<1>3. CASE Seen' = Seen /\ UNCHANGED <<last, observations_store>>
    BY <1>1, <1>3 DEF GInv, SeenArrived, Seen
<1>4. CASE /\ Seen' = Seen \cup {e.message_id}
           /\ e.sequence_number = last + 1 /\ last' = e.sequence_number
           /\ observations_store' \in {observations_store, Append(observations_store, e)}
    <2>1. \A id \in Seen' : \E f \in wire' \cup HostEnvelopes : id = f.message_id
        BY <1>1, <1>4 DEF GInv, SeenArrived, Seen
    <2>2. \A n \in 1..(last + 1) : n \in 1..last \/ n = last + 1
        BY <1>1
    <2>3. \A n \in 1..last' : \E id \in Seen' : id.number = n
        BY <1>2, <1>4, <2>2 DEF GInv, SeenArrived, Seen
    <2>4. \A id \in Seen' : id.number \in 1..last'
        BY <1>1, <1>2, <1>4 DEF GInv, SeenArrived, Seen
    <2>5. \A i \in DOMAIN observations_store : observations_store[i].message_id \in Seen
        BY DEF GInv, SeenArrived, Seen
    <2>6. \A i \in DOMAIN observations_store' : observations_store'[i].message_id \in Seen'
        <3> DEFINE n == Len(observations_store)
        <3>1. CASE observations_store' = observations_store
            BY <1>4, <2>5, <3>1
        <3>2. CASE observations_store' = Append(observations_store, e)
            <4>1. /\ DOMAIN observations_store' = 1..(n + 1) /\ n \in Nat
                  /\ DOMAIN observations_store = 1..n
                  /\ observations_store'[n + 1] = e
                  /\ \A i \in 1..n : observations_store'[i] = observations_store[i]
                BY <1>1, <3>2
            <4>2. \A i \in 1..(n + 1) : i \in 1..n \/ i = n + 1
                BY <4>1
            <4> QED
                BY <1>4, <2>5, <4>1, <4>2
        <3> QED
            BY <1>4, <3>1, <3>2
    <2> QED
        BY <2>1, <2>3, <2>4, <2>6 DEF SeenArrived, Seen
<1> QED
    BY <1>3, <1>4, ProcessEffect

\* A HELLO is accepted only while nothing is; from then on what is accepted is the
\* validator's session's, and the validator never returns to one that it left.
LEMMA ProcessOpened ==
    ASSUME GInv, NEW e \in wire \cup HostEnvelopes, ProcessIncomingEnvelope(e)
    PROVE  OpenedFirst'
<1> DEFINE last == validator.last_sequence_number
           at == validator.active_session_id
<1>1. /\ e \in Inbound /\ last \in Nat
      /\ \A id \in Seen : id.number \in 1..last
      /\ \A id \in Seen : \E f \in wire \cup HostEnvelopes : id = f.message_id
    BY SessionAssumption DEF GInv, IInv, TypeOK, Inbound, SeenArrived, Seen
<1>2. /\ e.session_id \in 1..MaxSessions
      /\ e.message_type = HELLO => e.sequence_number = 1
      /\ e.message_id.session = e.session_id /\ e.message_id.number = e.sequence_number
      /\ e.message_id.type = e.message_type
    BY <1>1, InboundFields, IdsIdentify
<1>3. e.session_id # NoSession
    BY <1>2 DEF NoSession
<1>4. ASSUME NEW hello \in Seen, hello.type = HELLO
      PROVE  /\ at # NoSession
             /\ at = hello.session => \A id \in Seen : id.session = hello.session
             /\ \A id, later \in Seen : later.session = hello.session
                    /\ id.number <= later.number => id.session = hello.session
    BY <1>4 DEF GInv, OpenedFirst, Seen
<1>5. ASSUME NEW hello \in Seen, hello.type = HELLO, e.message_type = HELLO,
             e.message_id \notin Seen
      PROVE  hello.session # e.session_id
    <2>1. PICK f \in wire \cup HostEnvelopes : hello = f.message_id
        BY <1>1
    <2>2. f \in Inbound /\ f \in wire /\ e \in wire
        <3>1. wire \subseteq AdapterEnvelopes
            BY DEF GInv, IInv, TypeOK
        <3>2. \A x \in Inbound : x.message_id.type = x.message_type
            BY IdsIdentify
        <3>3. \A x \in HostEnvelopes : x.message_type # HELLO
            BY EnvelopeFields DEF HostEnvelopes, HELLO, AUTHORIZED, RESULT
        <3> QED
            BY <1>5, <2>1, <3>1, <3>2, <3>3 DEF Inbound
    <2>3. /\ f.message_type = HELLO /\ f.sequence_number = 1 /\ e.sequence_number = 1
          /\ hello.session = f.session_id
        BY <1>2, <1>5, <2>1, <2>2, InboundFields, IdsIdentify
    <2>4. e # f
        BY <1>5, <2>1
    <2>5. f.session_id # e.session_id
        BY <2>2, <2>3, <2>4 DEF GInv, OnePlace, Made
    <2> QED
        BY <2>3, <2>5
<1>6. CASE Seen' = Seen /\ at' = at
    BY <1>4, <1>6 DEF OpenedFirst, Seen
<1>7. CASE /\ Seen' = Seen /\ e.message_type = HELLO /\ e.message_id \notin Seen
           /\ at' = e.session_id
    BY <1>3, <1>4, <1>5, <1>7 DEF OpenedFirst, Seen
<1>8. CASE /\ Seen' = Seen \cup {e.message_id} /\ e.sequence_number = last + 1
           /\ e.message_type = HELLO /\ at' = e.session_id
    <2>1. last = 0
        BY <1>1, <1>2, <1>8
    <2>2. Seen = {}
        BY <1>1, <2>1
    <2>3. Seen' = {e.message_id}
        BY <1>8, <2>2
    <2> QED
        BY <1>2, <1>3, <1>8, <2>3 DEF OpenedFirst, Seen
<1>9. CASE /\ Seen' = Seen \cup {e.message_id} /\ e.sequence_number = last + 1
           /\ e.message_type # HELLO /\ at' = at /\ at \in {NoSession, e.session_id}
    <2> SUFFICES ASSUME NEW hello \in Seen', hello.type = HELLO
                 PROVE  /\ at # NoSession
                        /\ at = hello.session =>
                                \A id \in Seen' : id.session = hello.session
                        /\ \A id, later \in Seen' : later.session = hello.session
                                /\ id.number <= later.number => id.session = hello.session
        BY <1>9 DEF OpenedFirst, Seen
    <2>1. hello \in Seen
        BY <1>2, <1>9
    <2>2. at # NoSession /\ at = e.session_id
        BY <1>4, <1>9, <2>1
    <2>3. \A id \in Seen : ~(e.message_id.number <= id.number)
        BY <1>1, <1>2, <1>9
    <2>4. at = hello.session => \A id \in Seen' : id.session = hello.session
        BY <1>2, <1>4, <1>9, <2>1, <2>2
    <2>5. ASSUME NEW id \in Seen', NEW later \in Seen', later.session = hello.session,
                 id.number <= later.number
          PROVE  id.session = hello.session
        <3>1. CASE later = e.message_id
            BY <1>2, <2>2, <2>4, <2>5, <3>1
        <3>2. CASE later \in Seen
            <4>1. id \in Seen
                BY <1>9, <2>3, <2>5, <3>2
            <4> QED
                BY <1>4, <2>1, <2>5, <3>2, <4>1
        <3> QED
            BY <1>9, <3>1, <3>2
    <2> QED
        BY <2>2, <2>4, <2>5
<1> QED
    BY <1>6, <1>7, <1>8, <1>9, ProcessEffect

-----------------------------------------------------------------------------
\* A new adapter has made nothing, a new daemon has seen nothing.
LEMMA InitGInv == Init => GInv
<1> SUFFICES ASSUME Init PROVE GInv
    OBVIOUS
<1>1. OnePlace
    BY DEF Init, OnePlace, Made, Queued, ItemsOf
<1>2. SeenArrived /\ OpenedFirst
    BY DEF Init, SeenArrived, OpenedFirst, NewValidator
<1> QED
    BY <1>1, <1>2, InitIInv DEF GInv

\* What the adapter does is of no consequence to the daemon.
LEMMA DaemonUntouched ==
    ASSUME GInv, UNCHANGED daemonVars, wire \subseteq wire'
    PROVE  SeenArrived' /\ OpenedFirst'
BY DEF GInv, SeenArrived, OpenedFirst, daemonVars, storeVars

\* Every step leaves each envelope in one place and the daemon with what arrived.
LEMMA StepGInv == GInv /\ [Next]_vars => GInv'
<1> SUFFICES ASSUME GInv, [Next]_vars PROVE OnePlace' /\ SeenArrived' /\ OpenedFirst'
    BY StepIInv DEF GInv
<1>1. IInv' /\ IInv /\ TypeOK /\ OnePlace
    BY StepIInv DEF GInv, IInv
<1>2. /\ session_id \in Nat /\ sequence_number \in Nat
      /\ \A x \in AdapterEnvelopes : x.session_id \in Nat /\ x.sequence_number \in Nat
      /\ discarded \subseteq AdapterEnvelopes /\ wire \subseteq AdapterEnvelopes
      /\ Queued \subseteq AdapterEnvelopes /\ event_queue \in Seq(AdapterEnvelopes)
    BY <1>1, InboundFields, SessionAssumption DEF TypeOK, Inbound, Queued, ItemsOf
<1>3. ASSUME NEW disabled \in BOOLEAN, SetKillSwitch(disabled)
      PROVE  OnePlace' /\ SeenArrived' /\ OpenedFirst'
    <2>1. SeenArrived' /\ OpenedFirst'
        BY <1>3, DaemonUntouched DEF SetKillSwitch
    <2>2. CASE disabled
        <3>1. Queued' = {} /\ discarded' = discarded \cup Queued /\ DOMAIN event_queue' = {}
              /\ UNCHANGED <<session_id, sequence_number, wire>>
            BY <1>3, <2>2 DEF SetKillSwitch, Queued, ItemsOf
        <3> QED
            BY <1>1, <2>1, <3>1 DEF OnePlace, Made, Issued
    <2>3. CASE ~disabled
        <3>1. UNCHANGED <<event_queue, discarded, session_id, sequence_number, wire>>
            BY <1>3, <2>3 DEF SetKillSwitch
        <3> QED
            BY <1>1, <2>1, <3>1 DEF OnePlace, Made, Issued, Queued, ItemsOf
    <2> QED
        BY <2>2, <2>3
<1>4. ASSUME NEW e \in AdapterEnvelopes, Enqueue(e), UNCHANGED <<wire, daemonVars>>,
             e.session_id = session_id', e.sequence_number = sequence_number',
             \/ session_id' = session_id + 1 /\ sequence_number' = 1
             \/ session_id' = session_id /\ sequence_number' = sequence_number + 1
      PROVE  OnePlace' /\ SeenArrived' /\ OpenedFirst'
    <2>1. ~Issued(e) /\ Issued(e)'
        BY <1>2, <1>4 DEF Issued
    <2>2. \A x \in AdapterEnvelopes : Issued(x) => Issued(x)'
        BY <1>2, <1>4 DEF Issued
    <2>3. SeenArrived' /\ OpenedFirst'
        BY <1>4, DaemonUntouched
    <2> QED
        BY <1>1, <1>4, <2>1, <2>2, <2>3, EnqueueOnePlace
<1>5. ASSUME NEW token \in {"right_token", "wrong_token"}, StartSession(token)
      PROVE  OnePlace' /\ SeenArrived' /\ OpenedFirst'
    <2>1. session_id' \in 1..MaxSessions
        BY <1>1, <1>2, <1>5, SessionAssumption DEF StartSession
    <2>2. Envelope(HELLO, session_id', 1, token, NoProposal) \in AdapterEnvelopes
        BY <2>1 DEF AdapterEnvelopes
    <2> QED
        BY <1>4, <1>5, <2>2, EnvelopeFields DEF StartSession
<1>6. ASSUME NEW type, NEW detail, SendNext(type, detail),
             \A s \in 1..MaxSessions, n \in 1..MaxSequence :
                Envelope(type, s, n, detail, NoProposal) \in AdapterEnvelopes
      PROVE  OnePlace' /\ SeenArrived' /\ OpenedFirst'
    <2>1. session_id \in 1..MaxSessions /\ sequence_number' \in 1..MaxSequence
          /\ session_id' = session_id /\ sequence_number' = sequence_number + 1
        BY <1>1, <1>2, <1>6, SessionAssumption DEF SendNext, NoSession, TypeOK
    <2> QED
        BY <1>4, <1>6, <2>1, EnvelopeFields DEF SendNext
<1>7. CASE CloseSession
    BY <1>6, <1>7 DEF CloseSession, AdapterEnvelopes
<1>8. ASSUME NEW size \in {"fits", "oversized"}, Observe(size)
      PROVE  OnePlace' /\ SeenArrived' /\ OpenedFirst'
    BY <1>6, <1>8 DEF Observe, AdapterEnvelopes
<1>9. CASE Transmit
    <2> DEFINE n == Len(event_queue)
               front == event_queue[1]
    <2>1. /\ n \in Nat /\ n >= 1 /\ DOMAIN event_queue = 1..n
          /\ event_queue' = Tail(event_queue) /\ Len(event_queue') = n - 1
          /\ DOMAIN event_queue' = 1..(n - 1)
          /\ \A i \in 1..(n - 1) : event_queue'[i] = event_queue[i + 1]
          /\ wire' = wire \cup {front}
          /\ UNCHANGED <<session_id, sequence_number, discarded, daemonVars>>
        BY <1>2, <1>9 DEF Transmit
    <2>2. SeenArrived' /\ OpenedFirst'
        BY <2>1, DaemonUntouched
    <2>3. 1 \in DOMAIN event_queue /\ front \in Queued
        BY <2>1 DEF Queued, ItemsOf
    <2>4. \A i \in 1..(n - 1) : i + 1 \in DOMAIN event_queue /\ i + 1 # 1
        BY <2>1
    <2> HIDE DEF n
    <2>5. Queued' \subseteq Queued /\ front \notin Queued'
        <3>1. \A x \in Queued' : \E i \in 1..(n - 1) : x = event_queue[i + 1]
            BY <2>1 DEF Queued, ItemsOf
        <3> QED
            BY <1>1, <2>3, <2>4, <3>1 DEF Queued, ItemsOf, OnePlace
    <2>6. \A i, j \in DOMAIN event_queue' : i # j => event_queue'[i] # event_queue'[j]
        BY <1>1, <2>1, <2>4 DEF OnePlace
    <2> HIDE DEF front
    <2>7. \A x : Issued(x)' <=> Issued(x)
        BY <2>1 DEF Issued
    <2>8. /\ Made' \subseteq Made
          /\ Queued' \cap discarded' = {} /\ Queued' \cap wire' = {}
          /\ discarded' \cap wire' = {}
        BY <1>1, <2>1, <2>3, <2>5 DEF OnePlace, Made
    <2> QED
        BY <1>1, <2>2, <2>6, <2>7, <2>8 DEF OnePlace
<1>10. ASSUME NEW e \in wire \cup HostEnvelopes, ProcessIncomingEnvelope(e)
       PROVE  OnePlace' /\ SeenArrived' /\ OpenedFirst'
    <2>1. UNCHANGED <<event_queue, discarded, wire, session_id, sequence_number>>
        BY <1>10 DEF ProcessIncomingEnvelope, adapterVars
    <2> QED
        BY <1>1, <1>10, <2>1, ProcessSeen, ProcessOpened DEF OnePlace, Made, Issued, Queued, ItemsOf
<1>11. CASE Deliver
    BY <1>10, <1>11 DEF Deliver
<1>12. CASE Host
    <2>1. PICK type \in {AUTHORIZED, RESULT}, session \in 1..session_id,
               number \in 1..MaxSequence, proposal \in DOMAIN proposals_store,
               detail \in {"well_formed", "authority_claimed", "oversized"} :
                    HostReports(type, session, number, proposal, detail)
        BY <1>12 DEF Host
    <2>2. session \in 1..MaxSessions
        BY <1>1, SessionAssumption DEF TypeOK
    <2>3. proposal \in 1..MaxProposals
        <3>1. DOMAIN proposals_store = 1..Len(proposals_store)
              /\ Len(proposals_store) \in Nat /\ Len(proposals_store) <= MaxProposals
            BY <1>1, SMTT(30) DEF IInv, OutboundCount, TypeOK
        <3> QED
            BY <3>1, SessionAssumption
    <2> QED
        BY <1>10, <2>1, <2>2, <2>3 DEF HostReports, HostEnvelopes
<1>13. CASE GenerateCandidateProposal \/ UNCHANGED vars
    <2>1. UNCHANGED <<event_queue, discarded, wire, session_id, sequence_number,
                      validator, observations_store>>
        BY <1>13 DEF GenerateCandidateProposal, vars, adapterVars, daemonVars, storeVars
    <2> QED
        BY <1>1, <2>1 DEF GInv, OnePlace, Made, SeenArrived, OpenedFirst, Issued, Queued, ItemsOf
<1> QED
    BY <1>3, <1>5, <1>7, <1>8, <1>9, <1>11, <1>12, <1>13 DEF Next, Adapter

\* What the queue dropped or the kill switch cleared stays missing: of a session
\* whose HELLO was accepted the daemon stores no observation behind it, unless
\* another envelope of that session used its number.
THEOREM LossIsFinal == Spec => []GapIsFinal
BY InitGInv, StepGInv, GInvGap, PTL DEF Spec

\* Enqueue adds one envelope to the queue.
LEMMA EnqueueAddsOne ==
    ASSUME TypeOK, NEW e \in AdapterEnvelopes, Enqueue(e)
    PROVE  Queued' \subseteq Queued \cup {e}
<1> DEFINE kept == IF IsFull(event_queue) THEN Tail(event_queue) ELSE event_queue
<1>1. /\ event_queue \in Seq(AdapterEnvelopes) /\ Len(event_queue) \in Nat
      /\ DOMAIN event_queue = 1..Len(event_queue)
      /\ IsFull(event_queue) => Len(event_queue) >= 1 /\ event_queue # <<>>
    BY MaxCapacityAssumption DEF TypeOK, IsFull
<1>2. /\ kept \in Seq(AdapterEnvelopes) /\ Len(kept) \in Nat
      /\ \A i \in 1..Len(kept) : kept[i] \in Queued
    <2>1. CASE IsFull(event_queue)
        <3>1. /\ kept \in Seq(AdapterEnvelopes) /\ Len(kept) = Len(event_queue) - 1
              /\ \A i \in 1..Len(kept) : /\ kept[i] = event_queue[i + 1]
                                         /\ i + 1 \in DOMAIN event_queue
            BY <1>1, <2>1
        <3> QED
            BY <1>1, <2>1, <3>1 DEF Queued, ItemsOf
    <2>2. CASE ~IsFull(event_queue)
        BY <1>1, <2>2 DEF Queued, ItemsOf
    <2> QED
        BY <2>1, <2>2
<1>3. event_queue' = Append(kept, e)
    BY DEF Enqueue, PushBack
<1> HIDE DEF kept
<1>4. /\ DOMAIN event_queue' = 1..(Len(kept) + 1) /\ event_queue'[Len(kept) + 1] = e
      /\ \A i \in 1..Len(kept) : event_queue'[i] = kept[i]
      /\ \A i \in 1..(Len(kept) + 1) : i \in 1..Len(kept) \/ i = Len(kept) + 1
    BY <1>2, <1>3
<1>5. \A x \in Queued' : \E i \in DOMAIN event_queue' : x = event_queue'[i]
    BY DEF Queued, ItemsOf
<1> QED
    BY <1>2, <1>4, <1>5

\* While the kill switch is on, no observation waits to be transmitted.
THEOREM KillSwitchEmpties == Spec => []DisabledQueueHoldsNoObservation
<1>1. Init => DisabledQueueHoldsNoObservation
    BY DEF Init, DisabledQueueHoldsNoObservation, ItemsOf
<1>2. IInv /\ DisabledQueueHoldsNoObservation /\ [Next]_vars
        => DisabledQueueHoldsNoObservation'
    <2> SUFFICES ASSUME IInv, DisabledQueueHoldsNoObservation, [Next]_vars, ~is_enabled'
                 PROVE  \A e \in Queued' : e.message_type # OBSERVATION
        BY DEF DisabledQueueHoldsNoObservation, Queued
    <2>1. ~is_enabled => \A e \in Queued : e.message_type # OBSERVATION
        BY DEF DisabledQueueHoldsNoObservation, Queued
    <2>2. CASE Queued' \subseteq Queued /\ is_enabled' = is_enabled
        BY <2>1, <2>2
    <2>3. ASSUME NEW disabled \in BOOLEAN, SetKillSwitch(disabled)
          PROVE  \A e \in Queued' : e.message_type # OBSERVATION
        <3>1. disabled
            BY <2>3 DEF SetKillSwitch
        <3>2. event_queue' = <<>>
            BY <2>3, <3>1 DEF SetKillSwitch
        <3> QED
            BY <3>2 DEF Queued, ItemsOf
    <2>4. ASSUME NEW e \in AdapterEnvelopes, Enqueue(e), is_enabled' = is_enabled,
                 e.message_type # OBSERVATION
          PROVE  \A x \in Queued' : x.message_type # OBSERVATION
        <3>1. Queued' \subseteq Queued \cup {e}
            BY <2>4, EnqueueAddsOne DEF IInv
        <3> QED
            BY <2>1, <2>4, <3>1
    <2>5. session_id \in 0..MaxSessions /\ sequence_number \in 0..MaxSequence
        BY DEF IInv, TypeOK
    <2>6. ASSUME NEW token \in {"right_token", "wrong_token"}, StartSession(token)
          PROVE  \A e \in Queued' : e.message_type # OBSERVATION
        <3>1. session_id' \in 1..MaxSessions
            BY <2>5, <2>6, SessionAssumption DEF StartSession
        <3>2. Envelope(HELLO, session_id', 1, token, NoProposal) \in AdapterEnvelopes
            BY <3>1 DEF AdapterEnvelopes
        <3> QED
            BY <2>4, <2>6, <3>2, EnvelopeFields DEF StartSession, HELLO, OBSERVATION
    <2>7. CASE CloseSession
        <3>1. session_id \in 1..MaxSessions /\ sequence_number' \in 1..MaxSequence
            BY <2>5, <2>7, SessionAssumption DEF CloseSession, SendNext, NoSession
        <3>2. Envelope(CLOSE, session_id, sequence_number', "none", NoProposal)
                \in AdapterEnvelopes
            BY <3>1 DEF AdapterEnvelopes
        <3> QED
            BY <2>4, <2>7, <3>2, EnvelopeFields
            DEF CloseSession, SendNext, CLOSE, OBSERVATION
    <2>8. ASSUME NEW size \in {"fits", "oversized"}, Observe(size)
          PROVE  FALSE
        BY <2>8 DEF Observe, SendNext
    <2>9. CASE Transmit
        <3>1. /\ event_queue \in Seq(AdapterEnvelopes) /\ event_queue # <<>>
              /\ event_queue' = Tail(event_queue) /\ is_enabled' = is_enabled
            BY <2>9 DEF IInv, TypeOK, Transmit
        <3>2. \A i \in DOMAIN event_queue' : /\ i + 1 \in DOMAIN event_queue
                                            /\ event_queue'[i] = event_queue[i + 1]
            BY <3>1
        <3>3. Queued' \subseteq Queued
            BY <3>2 DEF Queued, ItemsOf
        <3> QED
            BY <2>2, <3>1, <3>3
    <2>10. CASE UNCHANGED <<event_queue, is_enabled>>
        BY <2>2, <2>10 DEF Queued, ItemsOf
    <2>11. Deliver \/ Host \/ GenerateCandidateProposal \/ UNCHANGED vars
                => UNCHANGED <<event_queue, is_enabled>>
        BY DEF Deliver, Host, HostReports, ProcessIncomingEnvelope,
               GenerateCandidateProposal, vars, adapterVars
    <2> QED
        BY <2>3, <2>6, <2>7, <2>8, <2>9, <2>10, <2>11 DEF Next, Adapter
<1> QED
    BY <1>1, <1>2, SessionInductive, PTL DEF Spec
=============================================================================
