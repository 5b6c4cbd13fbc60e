--------------------------- MODULE ValidatorStream ---------------------------
(***************************************************************************)
(* One ProtocolValidator reading any stream of envelopes: every type, in   *)
(* any order, with repeated ids and numbers, malformed or not.  This is    *)
(* how the replay harness and the daemon use it, one call at a time.       *)
(***************************************************************************)
EXTENDS ProtocolValidator, Sequences

CONSTANTS
    Sessions,    \* session ids, positive
    MessageIds,  \* message ids; their number bounds the accepted messages
    MaxSequence  \* bound: largest sequence number in the stream

ASSUME StreamAssumption == Sessions \subseteq Nat \ {NoSession} /\ MaxSequence \in Nat

VARIABLES
    v,    \* the validator's fields
    log   \* history: envelopes accepted since the fields were last reset

vars == <<v, log>>

\* MessageEnvelope.__post_init__ refuses a sequence number below 1.
Envelopes ==
    [message_type : Lifecycle \cup {"OBSERVATION"}, message_id : MessageIds,
     session_id : Sessions, sequence_number : 1..MaxSequence,
     defect : {"none", "header", "body"}]

Init == v = NewValidator /\ log = <<>>

\* A HELLO for another session than the established one wipes the fields.
Resets(e) ==
    /\ ~RefusedBeforeHandshake(v, e)
    /\ e.message_type = HELLO
    /\ v.session_established /\ e.session_id # v.active_session_id

Receive(e) ==
    /\ v' = ValidateEnvelope(v, e)
    /\ LET kept == IF Resets(e) THEN <<>> ELSE log
       IN  log' = IF Accepts(v, e) THEN Append(kept, e) ELSE kept

\* reset_session, called by the owner of the validator after a disconnect.
Reset(session) == v' = ResetSession(session) /\ log' = <<>>

Next ==
    \/ \E e \in Envelopes : Receive(e)
    \/ \E session \in Sessions \cup {NoSession} : Reset(session)

Spec == Init /\ [][Next]_vars
-----------------------------------------------------------------------------
TypeOK ==
    /\ v.active_session_id \in Sessions \cup {NoSession}
    /\ v.last_sequence_number \in 0..MaxSequence
    /\ v.seen_message_ids \subseteq MessageIds
    /\ v.session_established => v.active_session_id # NoSession
    /\ v.seen_sequence_numbers \subseteq 1..MaxSequence
    /\ log \in Seq(Envelopes)

\* The places of the envelopes that carry the stream's numbering: an ACCEPT has
\* its own.
Numbered == {i \in DOMAIN log : log[i].message_type # ACCEPT}

\* Between two resets no message id and no sequence number is accepted twice,
\* whatever handshakes, closes and rejections come in between.
NoRepeatSinceReset ==
    /\ \A i, j \in DOMAIN log : i # j => log[i].message_id # log[j].message_id
    /\ \A i, j \in Numbered : i # j => log[i].sequence_number # log[j].sequence_number

\* i is the last numbered place of the log before the place end.
LastBefore(i, end) ==
    i \in Numbered /\ i < end /\ \A k \in Numbered : k < end => k <= i

\* The accepted messages number without a gap except where a HELLO restarts the
\* count: losing one message stops the stream until the next handshake.
GapOnlyAtHello ==
    \A i \in Numbered :
        \/ log[i].message_type = HELLO
        \/ log[i].sequence_number = 1 /\ \A k \in Numbered : k >= i
        \/ \E j \in Numbered : LastBefore(j, i)
                /\ log[i].sequence_number = log[j].sequence_number + 1

\* A refused envelope uses up neither its id nor its number, so the sender may
\* repair it and send it again: the ids, the numbers and the count remembered are
\* those of the envelopes accepted since the last reset, and of no other.
RejectedCanBeRetried ==
    /\ v.seen_message_ids = {log[i].message_id : i \in DOMAIN log}
    /\ v.seen_sequence_numbers = {log[i].sequence_number : i \in Numbered}
    /\ Numbered = {} => v.last_sequence_number = 0
    /\ \A i \in Numbered :
            LastBefore(i, Len(log) + 1) => v.last_sequence_number = log[i].sequence_number
=============================================================================
