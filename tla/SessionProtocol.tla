--------------------------- MODULE SessionProtocol ---------------------------
(***************************************************************************)
(* The session protocol end to end: MockThoriumAdapter numbers and queues  *)
(* envelopes, a transport that may lose, delay, reorder and repeat them    *)
(* carries them, and MockCognitiaDaemon validates and ingests them.  The   *)
(* host's governance reports decisions to the daemon with envelopes of its *)
(* own under the same session.                                             *)
(***************************************************************************)
EXTENDS ProtocolValidator, BoundedBuffer, FiniteSets

CONSTANTS
    MaxSessions,   \* bound: sessions the adapter starts
    MaxSequence,   \* bound: largest sequence number of a session
    MaxProposals   \* bound: proposals the daemon generates

ASSUME SessionAssumption ==
    MaxSessions \in Nat /\ MaxSequence \in Nat \ {0} /\ MaxProposals \in Nat

VARIABLES
    \* MockThoriumAdapter
    is_enabled, session_id, sequence_number, event_queue,
    discarded,              \* history: envelopes the queue dropped or cleared
    \* transport
    wire,                   \* envelopes that left the queue; any may arrive, again
    \* MockCognitiaDaemon
    validator,              \* protocol_validator
    active_session_id,
    out_sequence_number,    \* sequence_number of the daemon's own envelopes
    audit_log,              \* the INBOUND entries
    observations_store, authorizations_store, execution_results_store,
    proposals_store         \* the envelopes of the proposals, by proposal id

adapterVars == <<is_enabled, session_id, sequence_number, event_queue, discarded>>
storeVars == <<observations_store, authorizations_store, execution_results_store>>
daemonVars == <<validator, active_session_id, out_sequence_number, audit_log,
                storeVars, proposals_store>>
vars == <<adapterVars, wire, daemonVars>>

OBSERVATION == "OBSERVATION"
AUTHORIZED == "EXECUTION_AUTHORIZATION_OBSERVED"
RESULT == "EXECUTION_RESULT_OBSERVED"

NoProposal == 0

\* A fresh uuid: no two envelopes of a behaviour agree on everything else.
\* detail is what the handlers look at in the payload.
Envelope(type, session, number, detail, proposal) ==
    [message_type |-> type, session_id |-> session, sequence_number |-> number,
     detail |-> detail, proposal |-> proposal,
     message_id |-> [type |-> type, session |-> session, number |-> number,
                     detail |-> detail, proposal |-> proposal],
     defect |-> IF detail = "authority_claimed" THEN "body" ELSE "none"]

Init ==
    /\ is_enabled \in BOOLEAN /\ session_id = NoSession /\ sequence_number = 0
    /\ event_queue = <<>> /\ discarded = {} /\ wire = {}
    /\ validator = NewValidator
    /\ active_session_id = NoSession /\ out_sequence_number = 0 /\ audit_log = <<>>
    /\ observations_store = <<>> /\ authorizations_store = <<>>
    /\ execution_results_store = <<>> /\ proposals_store = <<>>

-----------------------------------------------------------------------------
(* MockThoriumAdapter *)

\* deque(maxlen=capacity).append: a full queue loses its oldest envelope.
Enqueue(e) ==
    /\ event_queue' = PushBack(event_queue, e)
    /\ discarded' = discarded \cup Evicted(event_queue)

\* Mutant: the queued observations survive the kill switch.
KillSwitchKeepsQueue(disabled) ==
    /\ is_enabled' = ~disabled
    /\ UNCHANGED <<event_queue, discarded, session_id, sequence_number, wire, daemonVars>>

SetKillSwitch(disabled) ==
    /\ is_enabled' = ~disabled
    /\ event_queue' = IF disabled THEN <<>> ELSE event_queue
    /\ discarded' = discarded \cup (IF disabled THEN ItemsOf(event_queue) ELSE {})
    /\ UNCHANGED <<session_id, sequence_number, wire, daemonVars>>

\* A new uuid and a new count, whatever the kill switch says.
StartSession(token) ==
    /\ session_id < MaxSessions
    /\ session_id' = session_id + 1
    /\ sequence_number' = 1
    /\ Enqueue(Envelope(HELLO, session_id', 1, token, NoProposal))
    /\ UNCHANGED <<is_enabled, wire, daemonVars>>

\* Number and queue the next envelope of the session.
SendNext(type, detail) ==
    /\ session_id # NoSession
    /\ sequence_number < MaxSequence
    /\ sequence_number' = sequence_number + 1
    /\ Enqueue(Envelope(type, session_id, sequence_number', detail, NoProposal))
    /\ UNCHANGED <<is_enabled, session_id, wire, daemonVars>>

\* The adapter keeps its session_id: it may go on numbering after a CLOSE.
CloseSession == SendNext(CLOSE, "none")

\* Page text is not truncated: an extraction can exceed the daemon's size limit.
Observe(size) == is_enabled /\ SendNext(OBSERVATION, size)

\* The transport takes the front of the queue.
Transmit ==
    /\ event_queue # <<>>
    /\ wire' = wire \cup {Head(event_queue)}
    /\ event_queue' = Tail(event_queue)
    /\ UNCHANGED <<is_enabled, session_id, sequence_number, discarded, daemonVars>>

-----------------------------------------------------------------------------
(* MockCognitiaDaemon *)

StoreBy(store, key, e) ==
    [k \in DOMAIN store \cup {key} |-> IF k = key THEN e ELSE store[k]]

\* Mutant: the session becomes active before the token is compared.
HandshakeBeforeToken(e) ==
    /\ out_sequence_number' = 1
    /\ active_session_id' = e.session_id
    /\ UNCHANGED storeVars

\* The daemon's own count restarts even when the token is refused.
HandleSessionHello(e) ==
    /\ out_sequence_number' = 1
    /\ active_session_id' =
            IF e.detail = "right_token" THEN e.session_id ELSE active_session_id
    /\ UNCHANGED storeVars

Handle(e) ==
    \/ e.message_type = HELLO /\ HandleSessionHello(e)
    \/ /\ e.message_type = OBSERVATION
       /\ observations_store' = Append(observations_store, e)
       /\ UNCHANGED <<active_session_id, out_sequence_number,
                      authorizations_store, execution_results_store>>
    \/ /\ e.message_type = AUTHORIZED
       /\ authorizations_store' = StoreBy(authorizations_store, e.proposal, e)
       /\ UNCHANGED <<active_session_id, out_sequence_number,
                      observations_store, execution_results_store>>
    \/ /\ e.message_type = RESULT
       /\ execution_results_store' = StoreBy(execution_results_store, e.proposal, e)
       /\ UNCHANGED <<active_session_id, out_sequence_number,
                      observations_store, authorizations_store>>
    \/ /\ e.message_type = CLOSE
       /\ active_session_id' = NoSession
       /\ UNCHANGED <<out_sequence_number, storeVars>>

\* validate_message_security.  Of all it refuses, the adapter and the host can exceed
\* the size limit, and the adapter can observe a page of a user with a password (see
\* sanitize_url and LeaksPassword in UrlText); its refusals act alike.
PassesSecurity(e) == e.detail # "oversized"

\* Protocol validation, then the security validation, then the audit log, then the
\* handler.  Either validation may raise; the first has then recorded nothing,
\* the second comes after the envelope's number is used up.
ProcessIncomingEnvelope(e) ==
    /\ validator' = ValidateEnvelope(validator, e)
    /\ \/ /\ Accepts(validator, e) /\ PassesSecurity(e)
          /\ audit_log' = Append(audit_log, e)
          /\ Handle(e)
       \/ /\ ~Accepts(validator, e) \/ ~PassesSecurity(e)
          /\ UNCHANGED <<active_session_id, out_sequence_number, audit_log, storeVars>>
    /\ UNCHANGED <<adapterVars, wire, proposals_store>>

\* Any envelope on the wire arrives: late, out of order, or once more.
Deliver == \E e \in wire : ProcessIncomingEnvelope(e)

\* The host reports a decision on a proposal, or its outcome, under a session
\* the adapter started and with a number of its own choosing.
HostReports(type, session, number, proposal, detail) ==
    ProcessIncomingEnvelope(Envelope(type, session, number, detail, proposal))

GenerateCandidateProposal ==
    /\ active_session_id # NoSession
    /\ Len(proposals_store) < MaxProposals
    /\ out_sequence_number' = out_sequence_number + 1
    /\ proposals_store' =
            Append(proposals_store, [session_id |-> active_session_id,
                                     sequence_number |-> out_sequence_number'])
    /\ UNCHANGED <<adapterVars, wire, validator, active_session_id, audit_log, storeVars>>

-----------------------------------------------------------------------------
Adapter ==
    \/ \E disabled \in BOOLEAN : SetKillSwitch(disabled)
    \/ \E token \in {"right_token", "wrong_token"} : StartSession(token)
    \/ CloseSession
    \/ \E size \in {"fits", "oversized"} : Observe(size)
    \/ Transmit

Host ==
    \E type \in {AUTHORIZED, RESULT}, session \in 1..session_id,
       number \in 1..MaxSequence, proposal \in DOMAIN proposals_store,
       detail \in {"well_formed", "authority_claimed", "oversized"} :
            HostReports(type, session, number, proposal, detail)

Next == Adapter \/ Deliver \/ Host \/ GenerateCandidateProposal

Spec == Init /\ [][Next]_vars
-----------------------------------------------------------------------------
AdapterEnvelopes ==
    {Envelope(HELLO, s, 1, t, NoProposal) :
        s \in 1..MaxSessions, t \in {"right_token", "wrong_token"}}
    \cup {Envelope(OBSERVATION, s, n, z, NoProposal) :
        s \in 1..MaxSessions, n \in 1..MaxSequence, z \in {"fits", "oversized"}}
    \cup {Envelope(CLOSE, s, n, "none", NoProposal) :
        s \in 1..MaxSessions, n \in 1..MaxSequence}

HostEnvelopes ==
    {Envelope(t, s, n, d, p) :
        t \in {AUTHORIZED, RESULT}, s \in 1..MaxSessions, n \in 1..MaxSequence,
        d \in {"well_formed", "authority_claimed", "oversized"}, p \in 1..MaxProposals}

TypeOK ==
    /\ is_enabled \in BOOLEAN
    /\ session_id \in 0..MaxSessions /\ sequence_number \in 0..MaxSequence
    /\ event_queue \in Seq(AdapterEnvelopes) /\ Len(event_queue) <= MaxCapacity
    /\ discarded \subseteq AdapterEnvelopes /\ wire \subseteq AdapterEnvelopes
    /\ validator.active_session_id \in 0..MaxSessions
    /\ validator.last_sequence_number \in 0..MaxSequence
    /\ validator.session_established \in BOOLEAN
    /\ active_session_id \in 0..MaxSessions
    /\ out_sequence_number \in 0..(MaxProposals + 1)
    /\ audit_log \in Seq(AdapterEnvelopes \cup HostEnvelopes)
    /\ observations_store \in Seq(AdapterEnvelopes)
    /\ proposals_store \in
         Seq([session_id : 1..MaxSessions, sequence_number : 1..(MaxProposals + 1)])

-----------------------------------------------------------------------------
(* Safety *)

\* Ingestion is a sequenced log: however the transport loses, repeats and
\* reorders, the daemon consumes the numbers 1, 2, 3, ... in order, each once.
\* It does so over all sessions together, since the validator of a daemon is
\* never sent an ACCEPT and therefore never resets.
Log == INSTANCE SequencedLog
    WITH next <- validator.last_sequence_number + 1,
         log <- [i \in DOMAIN audit_log |-> audit_log[i].sequence_number]

ImplementsSequencedLog == Log!Spec

\* The validator accepted the session's HELLO.
Opened(session) ==
    \E id \in validator.seen_message_ids : id.type = HELLO /\ id.session = session

\* A later observation of the envelope's session is stored although no other
\* envelope of that session used its number.
ResumedPast(lost) ==
    /\ \E i \in DOMAIN observations_store :
            /\ observations_store[i].session_id = lost.session_id
            /\ observations_store[i].sequence_number > lost.sequence_number
    /\ ~\E id \in validator.seen_message_ids :
            /\ id # lost.message_id
            /\ id.session = lost.session_id /\ id.number = lost.sequence_number

\* In a session whose HELLO the validator accepted, an envelope that the adapter's
\* queue dropped is a gap for good: the stream never resumes past it, whatever
\* other sessions begin meanwhile.  (For the other sessions see DocGapIsFault.)
GapIsFinal == \A lost \in discarded : Opened(lost.session_id) => ~ResumedPast(lost)

\* The daemon's active session is one whose HELLO it logged with the right
\* token, and no CLOSE was logged since.
ActiveSessionAccepted ==
    active_session_id # NoSession =>
        \E i \in DOMAIN audit_log :
            /\ audit_log[i].message_type = HELLO
            /\ audit_log[i].session_id = active_session_id
            /\ audit_log[i].detail = "right_token"
            /\ \A j \in DOMAIN audit_log :
                    j > i => audit_log[j].message_type # CLOSE

\* While the kill switch is on, no observation waits to be transmitted.
DisabledQueueHoldsNoObservation ==
    ~is_enabled => \A e \in ItemsOf(event_queue) : e.message_type # OBSERVATION

\* The daemon never gives two proposals of a session the same number, nor the
\* number of its ACCEPT, although every HELLO restarts its count.
OutboundNumbersUnique ==
    /\ \A p \in DOMAIN proposals_store : proposals_store[p].sequence_number > 1
    /\ \A p, q \in DOMAIN proposals_store :
            p # q => proposals_store[p] # proposals_store[q]

-----------------------------------------------------------------------------
(* What the documents say and the code does not do *)

\* The sequence number starts "at 1 for each session. Gap or duplicate triggers
\* sequence fault" (COGNITIA_PROTOCOL_V1.md:90), so no observation is stored after one
\* that the session in progress has lost.  The validator counts over all sessions:
\* the second session's HELLO is refused as a duplicate, and the session goes on
\* where the first one stopped.
DocGapIsFault ==
    \A lost \in discarded :
        lost.session_id = session_id /\ lost.message_type = OBSERVATION
            => ~ResumedPast(lost)

\* "Any attempt to authorize a stale proposal is rejected".
DocStaleProposalRejected ==
    [][\A p \in DOMAIN authorizations_store' \ DOMAIN authorizations_store :
        authorizations_store'[p].session_id = proposals_store[p].session_id]_vars
=============================================================================
