-------------------------- MODULE ProtocolValidator --------------------------
(***************************************************************************)
(* protocol_validator.py as functions of the validator's fields, a record, *)
(* and one envelope.  The checks run in the order of validate_envelope; a  *)
(* check that raises leaves whatever the earlier ones assigned.            *)
(* An envelope's format errors are its defect: "header" for the version    *)
(* and the UUID, tested before anything is assigned, "body" for the        *)
(* timestamp and the payload, tested after the session step.               *)
(***************************************************************************)
EXTENDS Naturals

NoSession == 0   \* None; session ids are positive

HELLO == "SESSION_HELLO"
ACCEPT == "SESSION_ACCEPT"
CLOSE == "SESSION_CLOSE"
Lifecycle == {HELLO, ACCEPT, CLOSE}

NewValidator ==
    [active_session_id |-> NoSession, last_sequence_number |-> 0,
     seen_message_ids |-> {}, session_established |-> FALSE,
     seen_sequence_numbers |-> {}]

\* Mutant: a reset without a session leaves the validator established.
ResetAlwaysEstablishes(session) ==
    [NewValidator EXCEPT !.active_session_id = session,
                         !.session_established = TRUE]

ResetSession(session) ==
    [NewValidator EXCEPT !.active_session_id = session,
                         !.session_established = (session # NoSession)]

BadHeader(e) == e.defect = "header"
BadBody(e) == e.defect = "body"

\* Mutant: message ids are not remembered.
DuplicateIdIgnored(v, e) == FALSE

DuplicateId(v, e) == e.message_id \in v.seen_message_ids

\* ERR_SESSION_MISMATCH for a CLOSE; ERR_NO_ACTIVE_SESSION, ERR_STALE_SESSION
\* for a regular message.
WrongSession(v, e) ==
    /\ e.session_id # v.active_session_id
    /\ \/ /\ e.message_type = CLOSE
          /\ v.active_session_id # NoSession
       \/ /\ e.message_type \notin Lifecycle
          /\ ~v.session_established \/ v.active_session_id # NoSession

\* The validator after the session step: a HELLO or an ACCEPT may move it to
\* another session before its sequence number is looked at.
AfterHandshake(v, e) ==
    CASE e.message_type = HELLO /\ v.session_established
                                /\ v.active_session_id # e.session_id
            -> ResetSession(e.session_id)
      [] e.message_type = HELLO /\ ~v.session_established
            -> [v EXCEPT !.active_session_id = e.session_id]
      [] e.message_type = ACCEPT
            -> [v EXCEPT !.active_session_id = e.session_id,
                         !.session_established = TRUE]
      [] OTHER -> v

\* Mutant: the set of used sequence numbers is not consulted.
DuplicateSequenceIgnored(v, e) == FALSE

DuplicateSequence(v, e) ==
    e.message_type # ACCEPT /\ e.sequence_number \in v.seen_sequence_numbers

\* Mutant: a gap is tolerated, as a lossy transport would need.
GapTolerated(v, e) ==
    /\ e.message_type \notin {HELLO, ACCEPT}
    /\ e.sequence_number <= v.last_sequence_number

\* ERR_OUT_OF_ORDER_SEQUENCE or ERR_SEQUENCE_GAP.
OutOfSequence(v, e) ==
    /\ e.message_type \notin {HELLO, ACCEPT}
    /\ e.sequence_number # v.last_sequence_number + 1

RefusedBeforeHandshake(v, e) ==
    BadHeader(e) \/ DuplicateId(v, e) \/ WrongSession(v, e)

Accepts(v, e) ==
    /\ ~RefusedBeforeHandshake(v, e)
    /\ ~DuplicateSequence(AfterHandshake(v, e), e)
    /\ ~OutOfSequence(AfterHandshake(v, e), e)
    /\ ~BadBody(e)

Record(v, e) ==
    [v EXCEPT
        !.seen_message_ids = @ \cup {e.message_id},
        !.seen_sequence_numbers =
            IF e.message_type = ACCEPT THEN @ ELSE @ \cup {e.sequence_number},
        !.last_sequence_number =
            IF e.message_type = ACCEPT THEN @ ELSE e.sequence_number,
        !.session_established = @ /\ e.message_type # CLOSE]

\* Mutant: the message is recorded before its payload is checked.
RecordBeforePayloadCheck(v, e) ==
    IF RefusedBeforeHandshake(v, e) THEN v
    ELSE IF DuplicateSequence(AfterHandshake(v, e), e)
            \/ OutOfSequence(AfterHandshake(v, e), e)
         THEN AfterHandshake(v, e)
         ELSE Record(AfterHandshake(v, e), e)

\* The fields after validate_envelope returned or raised.
ValidateEnvelope(v, e) ==
    IF RefusedBeforeHandshake(v, e) THEN v
    ELSE IF Accepts(v, e) THEN Record(AfterHandshake(v, e), e)
    ELSE AfterHandshake(v, e)
=============================================================================
