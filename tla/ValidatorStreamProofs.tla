------------------------ MODULE ValidatorStreamProofs ------------------------
(***************************************************************************)
(* Proofs about ValidatorStream for any sessions, ids and numbers: what a  *)
(* validator accepts between two resets repeats nothing and has gaps only  *)
(* at a HELLO, and what it refuses may be sent again.                      *)
(***************************************************************************)
EXTENDS ValidatorStream, TLAPS

\* The log has a last numbered envelope, unless it has none.
HasLast == Numbered # {} => \E i \in Numbered : LastBefore(i, Len(log) + 1)

Fields ==
    [active_session_id : Sessions \cup {NoSession}, last_sequence_number : 0..MaxSequence,
     seen_message_ids : SUBSET MessageIds, session_established : BOOLEAN,
     seen_sequence_numbers : SUBSET (1..MaxSequence)]

IInv ==
    /\ v \in Fields /\ TypeOK /\ RejectedCanBeRetried /\ HasLast
    /\ NoRepeatSinceReset /\ GapOnlyAtHello

\* What ResetSession makes of the fields.
LEMMA ResetFields ==
    ASSUME NEW session \in Sessions \cup {NoSession}
    PROVE  LET w == ResetSession(session) IN
           /\ w \in Fields /\ w.active_session_id = session
           /\ w.last_sequence_number = 0 /\ w.seen_message_ids = {}
           /\ w.seen_sequence_numbers = {}
           /\ w.session_established => session # NoSession
<1>1. CASE session = NoSession
    <2>1. ResetSession(session) = [NewValidator EXCEPT !.active_session_id = session,
                                                       !.session_established = FALSE]
        BY <1>1 DEF ResetSession
    <2>2. ResetSession(session) =
            [active_session_id |-> session, last_sequence_number |-> 0,
             seen_message_ids |-> {}, session_established |-> FALSE,
             seen_sequence_numbers |-> {}]
        BY <2>1 DEF NewValidator
    <2>3. ResetSession(session) \in Fields
        BY <2>2, StreamAssumption DEF Fields
    <2> QED
        BY <1>1, <2>2, <2>3
<1>2. CASE session # NoSession
    <2>1. ResetSession(session) = [NewValidator EXCEPT !.active_session_id = session,
                                                       !.session_established = TRUE]
        BY <1>2 DEF ResetSession
    <2>2. ResetSession(session) =
            [active_session_id |-> session, last_sequence_number |-> 0,
             seen_message_ids |-> {}, session_established |-> TRUE,
             seen_sequence_numbers |-> {}]
        BY <2>1 DEF NewValidator
    <2>3. ResetSession(session) \in Fields
        BY <2>2, StreamAssumption DEF Fields
    <2> QED
        BY <1>2, <2>2, <2>3
<1> QED
    BY <1>1, <1>2

\* What Record makes of them.
LEMMA RecordFields ==
    ASSUME NEW a \in Fields, NEW e \in Envelopes,
           a.session_established => a.active_session_id # NoSession
    PROVE  LET w == Record(a, e) IN
           /\ w \in Fields /\ w.active_session_id = a.active_session_id
           /\ w.session_established => w.active_session_id # NoSession
           /\ w.seen_message_ids = a.seen_message_ids \cup {e.message_id}
           /\ w.seen_sequence_numbers =
                 IF e.message_type = ACCEPT THEN a.seen_sequence_numbers
                 ELSE a.seen_sequence_numbers \cup {e.sequence_number}
           /\ w.last_sequence_number =
                 IF e.message_type = ACCEPT THEN a.last_sequence_number ELSE e.sequence_number
<1> DEFINE ids == a.seen_message_ids \cup {e.message_id}
           numbers == IF e.message_type = ACCEPT THEN a.seen_sequence_numbers
                      ELSE a.seen_sequence_numbers \cup {e.sequence_number}
           count == IF e.message_type = ACCEPT THEN a.last_sequence_number
                    ELSE e.sequence_number
           Recorded(established) ==
              [active_session_id |-> a.active_session_id, last_sequence_number |-> count,
               seen_message_ids |-> ids, session_established |-> established,
               seen_sequence_numbers |-> numbers]
<1>1. /\ e.message_id \in MessageIds /\ e.sequence_number \in 1..MaxSequence
      /\ MaxSequence \in Nat
    BY StreamAssumption DEF Envelopes
<1>2. ids \in SUBSET MessageIds /\ numbers \in SUBSET (1..MaxSequence)
      /\ count \in 0..MaxSequence
    BY <1>1 DEF Fields
<1>3. CASE ~a.session_established \/ e.message_type = CLOSE
    <2>1. Record(a, e) = [a EXCEPT !.seen_message_ids = ids, !.seen_sequence_numbers = numbers,
                                   !.last_sequence_number = count,
                                   !.session_established = FALSE]
        BY <1>3 DEF Record
    <2> HIDE DEF ids, numbers, count
    <2>2. Record(a, e) = Recorded(FALSE)
        BY <2>1 DEF Fields
    <2>3. Recorded(FALSE) \in Fields
        BY <1>2 DEF Fields
    <2>4. Record(a, e) \in Fields /\ Record(a, e).session_established = FALSE
          /\ Record(a, e).active_session_id = a.active_session_id
          /\ Record(a, e).seen_message_ids = ids
          /\ Record(a, e).seen_sequence_numbers = numbers
          /\ Record(a, e).last_sequence_number = count
        BY <2>2, <2>3
    <2> QED
        BY <2>4 DEF ids, numbers, count
<1>4. CASE a.session_established /\ e.message_type # CLOSE
    <2>1. Record(a, e) = [a EXCEPT !.seen_message_ids = ids, !.seen_sequence_numbers = numbers,
                                   !.last_sequence_number = count,
                                   !.session_established = TRUE]
        BY <1>4 DEF Record
    <2> HIDE DEF ids, numbers, count
    <2>2. Record(a, e) = Recorded(TRUE)
        BY <2>1 DEF Fields
    <2>3. Recorded(TRUE) \in Fields
        BY <1>2 DEF Fields
    <2>4. Record(a, e) \in Fields
          /\ Record(a, e).active_session_id = a.active_session_id
          /\ Record(a, e).seen_message_ids = ids
          /\ Record(a, e).seen_sequence_numbers = numbers
          /\ Record(a, e).last_sequence_number = count
        BY <2>2, <2>3
    <2> QED
        BY <1>4, <2>4 DEF ids, numbers, count
<1> QED
    BY <1>3, <1>4

\* A validator without fields and a log without envelopes satisfy the invariant.
LEMMA EmptyIInv ==
    ASSUME NEW session \in Sessions \cup {NoSession},
           v' = ResetSession(session), log' = <<>>
    PROVE  IInv'
<1>1. /\ v' \in Fields
      /\ v'.last_sequence_number = 0 /\ v'.seen_message_ids = {}
      /\ v'.seen_sequence_numbers = {} /\ v'.active_session_id = session
      /\ v'.session_established => session # NoSession
    BY ResetFields
<1>2. DOMAIN log' = {} /\ Numbered' = {}
    BY DEF Numbered
<1>3. TypeOK'
    BY <1>1, StreamAssumption DEF TypeOK
<1>4. RejectedCanBeRetried' /\ HasLast' /\ NoRepeatSinceReset' /\ GapOnlyAtHello'
    BY <1>1, <1>2 DEF RejectedCanBeRetried, HasLast, NoRepeatSinceReset, GapOnlyAtHello
<1> QED
    BY <1>1, <1>3, <1>4 DEF IInv

\* The handshake step touches the session only, or wipes all there is.
LEMMA HandshakeFields ==
    ASSUME IInv, NEW e \in Envelopes
    PROVE  LET a == AfterHandshake(v, e) IN
           \/ /\ a \in Fields
              /\ a.session_established => a.active_session_id # NoSession
              /\ ~(e.message_type = HELLO /\ v.session_established
                        /\ v.active_session_id # e.session_id)
              /\ a.last_sequence_number = v.last_sequence_number
              /\ a.seen_message_ids = v.seen_message_ids
              /\ a.seen_sequence_numbers = v.seen_sequence_numbers
           \/ /\ a = ResetSession(e.session_id)
              /\ e.message_type = HELLO /\ v.session_established
              /\ v.active_session_id # e.session_id
<1>1. v \in Fields /\ (v.session_established => v.active_session_id # NoSession)
    BY DEF IInv, TypeOK
<1>2. e.session_id \in Sessions /\ e.session_id # NoSession
    BY StreamAssumption DEF Envelopes
<1>3. HELLO # ACCEPT
    BY DEF HELLO, ACCEPT
<1>4. CASE e.message_type = HELLO /\ v.session_established /\ v.active_session_id # e.session_id
    BY <1>3, <1>4 DEF AfterHandshake
<1>5. CASE e.message_type = HELLO /\ ~v.session_established
    <2>1. AfterHandshake(v, e) = [v EXCEPT !.active_session_id = e.session_id]
        BY <1>3, <1>5 DEF AfterHandshake
    <2> QED
        BY <1>1, <1>2, <1>5, <2>1 DEF Fields
<1>6. CASE e.message_type = ACCEPT
    <2>1. AfterHandshake(v, e) = [v EXCEPT !.active_session_id = e.session_id,
                                           !.session_established = TRUE]
        BY <1>3, <1>6 DEF AfterHandshake
    <2> QED
        BY <1>1, <1>2, <1>3, <1>6, <2>1 DEF Fields
<1>7. CASE /\ e.message_type # ACCEPT
           /\ ~(e.message_type = HELLO /\ ~v.session_established)
           /\ ~(e.message_type = HELLO /\ v.session_established
                    /\ v.active_session_id # e.session_id)
    <2>1. AfterHandshake(v, e) = v
        BY <1>7 DEF AfterHandshake
    <2> QED
        BY <1>1, <1>7, <2>1
<1> QED
    BY <1>4, <1>5, <1>6, <1>7

\* A log and fields that agree still do when an envelope the validator accepts is
\* recorded.  kept and a are the log and the fields after the handshake step.
LEMMA RecordIInv ==
    ASSUME NEW e \in Envelopes, IInv,
           NEW a \in Fields, a.session_established => a.active_session_id # NoSession,
           a.last_sequence_number = v.last_sequence_number,
           a.seen_message_ids = v.seen_message_ids,
           a.seen_sequence_numbers = v.seen_sequence_numbers,
           e.message_id \notin v.seen_message_ids,
           ~DuplicateSequence(a, e), ~OutOfSequence(a, e),
           v' = Record(a, e), log' = Append(log, e)
    PROVE  IInv'
<1>0. PICK n \in Nat : n = Len(log)
    BY DEF IInv, TypeOK
<1>1. /\ log \in Seq(Envelopes) /\ n = Len(log) /\ DOMAIN log = 1..n
      /\ log' \in Seq(Envelopes) /\ Len(log') = n + 1 /\ DOMAIN log' = 1..(n + 1)
      /\ log'[n + 1] = e /\ \A i \in 1..n : log'[i] = log[i]
    BY <1>0 DEF IInv, TypeOK
<1>2. /\ e.message_id \in MessageIds /\ e.sequence_number \in 1..MaxSequence
      /\ MaxSequence \in Nat
    BY StreamAssumption DEF Envelopes
<1>3. /\ v' \in Fields /\ v'.active_session_id = a.active_session_id
      /\ v'.session_established => v'.active_session_id # NoSession
      /\ v'.seen_message_ids = v.seen_message_ids \cup {e.message_id}
      /\ v'.seen_sequence_numbers =
            IF e.message_type = ACCEPT THEN v.seen_sequence_numbers
            ELSE v.seen_sequence_numbers \cup {e.sequence_number}
      /\ v'.last_sequence_number =
            IF e.message_type = ACCEPT THEN v.last_sequence_number ELSE e.sequence_number
    BY RecordFields
<1>4. TypeOK'
    BY <1>1, <1>3 DEF TypeOK, Fields
<1>5. /\ \A i \in 1..(n + 1) : i \in 1..n \/ i = n + 1
      /\ \A i \in 1..n : i \in 1..(n + 1) /\ i < n + 1
      /\ n + 1 \in 1..(n + 1)
    BY <1>1
<1>6. Numbered' = Numbered \cup (IF e.message_type = ACCEPT THEN {} ELSE {n + 1})
      /\ Numbered \subseteq 1..n
    BY <1>1, <1>5 DEF Numbered
<1>7. \A i \in Numbered, end \in 1..(n + 1) : LastBefore(i, end)' <=> LastBefore(i, end)
    <2> SUFFICES ASSUME NEW i \in Numbered, NEW end \in 1..(n + 1)
                 PROVE  LastBefore(i, end)' <=> LastBefore(i, end)
        OBVIOUS
    <2>1. \A k \in Numbered' : k < end => k \in Numbered
        BY <1>1, <1>6
    <2>2. Numbered \subseteq Numbered'
        BY <1>6
    <2> QED
        BY <2>1, <2>2 DEF LastBefore
<1>8. CASE e.message_type = ACCEPT
    <2>1. Numbered' = Numbered
        BY <1>6, <1>8
    <2>2. \A i \in Numbered : LastBefore(i, n + 2)' <=> LastBefore(i, n + 1)
        BY <1>1, <1>6, <2>1 DEF LastBefore
    <2>3. RejectedCanBeRetried' /\ HasLast'
        <3>1. v'.seen_message_ids = {log'[i].message_id : i \in DOMAIN log'}
            BY <1>1, <1>3, <1>5 DEF IInv, RejectedCanBeRetried, HasLast
        <3>2. v'.seen_sequence_numbers = {log'[i].sequence_number : i \in Numbered'}
            BY <1>1, <1>3, <1>6, <1>8, <2>1 DEF IInv, RejectedCanBeRetried, HasLast
        <3>3. Len(log') + 1 = n + 2 /\ Len(log) + 1 = n + 1
            BY <1>1
        <3>4. \A i \in Numbered' : LastBefore(i, n + 2)' =>
                    v'.last_sequence_number = log'[i].sequence_number
            BY <1>1, <1>3, <1>6, <1>8, <2>1, <2>2, <3>3 DEF IInv, RejectedCanBeRetried, HasLast
        <3>5. Numbered' = {} => v'.last_sequence_number = 0
            BY <1>3, <1>8, <2>1 DEF IInv, RejectedCanBeRetried, HasLast
        <3>6. Numbered' # {} => \E i \in Numbered' : LastBefore(i, n + 2)'
            BY <2>1, <2>2, <3>3 DEF IInv, RejectedCanBeRetried, HasLast
        <3> QED
            BY <3>1, <3>2, <3>3, <3>4, <3>5, <3>6 DEF RejectedCanBeRetried, HasLast
    <2>4. NoRepeatSinceReset'
        <3>1. \A i \in 1..n : log[i].message_id # e.message_id
            BY <1>1 DEF IInv, RejectedCanBeRetried, HasLast
        <3> QED
            BY <1>1, <1>5, <1>6, <2>1, <3>1 DEF IInv, NoRepeatSinceReset
    <2>5. GapOnlyAtHello'
        BY <1>1, <1>5, <1>6, <1>7, <2>1 DEF IInv, GapOnlyAtHello
    <2> QED
        BY <1>3, <1>4, <2>3, <2>4, <2>5 DEF IInv
<1>9. CASE e.message_type # ACCEPT
    <2>1. Numbered' = Numbered \cup {n + 1}
        BY <1>6, <1>9
    <2>2. \A i \in Numbered' : LastBefore(i, n + 2)' <=> i = n + 1
        BY <1>1, <1>5, <1>6, <2>1 DEF LastBefore
    <2>3. RejectedCanBeRetried' /\ HasLast'
        <3>1. v'.seen_message_ids = {log'[i].message_id : i \in DOMAIN log'}
            BY <1>1, <1>3, <1>5 DEF IInv, RejectedCanBeRetried, HasLast
        <3>2. v'.seen_sequence_numbers = {log'[i].sequence_number : i \in Numbered'}
            BY <1>1, <1>3, <1>6, <1>9, <2>1 DEF IInv, RejectedCanBeRetried, HasLast
        <3>3. Len(log') + 1 = n + 2
            BY <1>1
        <3> QED
            BY <1>1, <1>3, <1>9, <2>1, <2>2, <3>1, <3>2, <3>3 DEF RejectedCanBeRetried, HasLast
    <2>4. NoRepeatSinceReset'
        <3>1. \A i \in 1..n : log[i].message_id # e.message_id
            BY <1>1 DEF IInv, RejectedCanBeRetried, HasLast
        <3>2. \A i \in Numbered : log[i].sequence_number # e.sequence_number
            BY <1>9 DEF IInv, RejectedCanBeRetried, HasLast, DuplicateSequence
        <3>3. \A i, j \in DOMAIN log' : i # j => log'[i].message_id # log'[j].message_id
            BY <1>1, <1>5, <3>1 DEF IInv, NoRepeatSinceReset
        <3>4. \A i, j \in Numbered' : i # j => log'[i].sequence_number # log'[j].sequence_number
            BY <1>1, <1>6, <2>1, <3>2 DEF IInv, NoRepeatSinceReset
        <3> QED
            BY <3>3, <3>4 DEF NoRepeatSinceReset
    <2>5. GapOnlyAtHello'
        <3>1. ASSUME NEW i \in Numbered
              PROVE  \/ log'[i].message_type = HELLO
                     \/ log'[i].sequence_number = 1 /\ \A k \in Numbered' : k >= i
                     \/ \E j \in Numbered' : LastBefore(j, i)'
                            /\ log'[i].sequence_number = log'[j].sequence_number + 1
            BY <1>1, <1>5, <1>6, <1>7, <2>1, <3>1 DEF IInv, GapOnlyAtHello
        <3>2. \/ e.message_type = HELLO
              \/ e.sequence_number = 1 /\ \A k \in Numbered' : k >= n + 1
              \/ \E j \in Numbered' : LastBefore(j, n + 1)'
                    /\ e.sequence_number = log'[j].sequence_number + 1
            <4>1. e.message_type # HELLO => e.sequence_number = v.last_sequence_number + 1
                BY <1>9 DEF OutOfSequence
            <4>2. CASE Numbered = {}
                BY <1>1, <2>1, <4>1, <4>2 DEF IInv, RejectedCanBeRetried
            <4>3. CASE Numbered # {}
                <5>1. PICK j \in Numbered : LastBefore(j, n + 1)
                    BY <1>1, <4>3 DEF IInv, HasLast
                <5>2. v.last_sequence_number = log[j].sequence_number
                    BY <1>1, <5>1 DEF IInv, RejectedCanBeRetried
                <5>3. LastBefore(j, n + 1)' /\ log'[j] = log[j] /\ j \in Numbered'
                    BY <1>1, <1>5, <1>6, <1>7, <5>1
                <5> QED
                    BY <4>1, <5>2, <5>3
            <4> QED
                BY <4>2, <4>3
        <3>3. log'[n + 1] = e /\ \A i \in Numbered' : i \in Numbered \/ i = n + 1
            BY <1>1, <2>1
        <3>4. ASSUME NEW i \in Numbered'
              PROVE  \/ log'[i].message_type = HELLO
                     \/ log'[i].sequence_number = 1 /\ \A k \in Numbered' : k >= i
                     \/ \E j \in Numbered' : LastBefore(j, i)'
                            /\ log'[i].sequence_number = log'[j].sequence_number + 1
            <4>1. CASE i \in Numbered
                BY <3>1, <4>1
            <4>2. CASE i = n + 1
                BY <3>2, <3>3, <4>2
            <4> QED
                BY <3>3, <4>1, <4>2
        <3> QED
            BY <3>4 DEF GapOnlyAtHello
    <2> QED
        BY <1>3, <1>4, <2>3, <2>4, <2>5 DEF IInv
<1> QED
    BY <1>8, <1>9

\* A HELLO for another session leaves a log of that HELLO only.
LEMMA ResetIInv ==
    ASSUME IInv, NEW e \in Envelopes, e.message_type = HELLO,
           v' = Record(ResetSession(e.session_id), e), log' = <<e>>
    PROVE  IInv'
<1>1. /\ e.message_id \in MessageIds /\ e.sequence_number \in 1..MaxSequence
      /\ e.session_id \in Sessions /\ e.session_id # NoSession
      /\ MaxSequence \in Nat /\ HELLO # ACCEPT
    BY StreamAssumption DEF Envelopes, HELLO, ACCEPT
<1>2. /\ ResetSession(e.session_id) \in Fields
      /\ ResetSession(e.session_id).seen_message_ids = {}
      /\ ResetSession(e.session_id).seen_sequence_numbers = {}
      /\ ResetSession(e.session_id).active_session_id = e.session_id
    BY <1>1, ResetFields
<1>3. /\ v' \in Fields /\ v'.active_session_id # NoSession
      /\ v'.seen_message_ids = {e.message_id}
      /\ v'.seen_sequence_numbers = {e.sequence_number}
      /\ v'.last_sequence_number = e.sequence_number
    BY <1>1, <1>2, RecordFields
<1>4. /\ log' \in Seq(Envelopes) /\ Len(log') = 1 /\ DOMAIN log' = {1} /\ log'[1] = e
      /\ Numbered' = {1}
    BY <1>1 DEF Numbered
<1>5. LastBefore(1, 2)'
    BY <1>4 DEF LastBefore
<1>6. TypeOK'
    BY <1>1, <1>3, <1>4 DEF TypeOK, Fields
<1>7. RejectedCanBeRetried' /\ HasLast'
    <2>1. {log'[i].message_id : i \in DOMAIN log'} = {e.message_id}
          /\ {log'[i].sequence_number : i \in Numbered'} = {e.sequence_number}
        BY <1>4
    <2> QED
        BY <1>3, <1>4, <1>5, <2>1 DEF RejectedCanBeRetried, HasLast
<1>8. NoRepeatSinceReset' /\ GapOnlyAtHello'
    BY <1>4 DEF NoRepeatSinceReset, GapOnlyAtHello
<1> QED
    BY <1>3, <1>6, <1>7, <1>8 DEF IInv

\* One validate_envelope call keeps the invariant, whatever it is given.
LEMMA ReceiveIInv ==
    ASSUME IInv, NEW e \in Envelopes, Receive(e)
    PROVE  IInv'
<1> DEFINE a == AfterHandshake(v, e)
<1>1. CASE RefusedBeforeHandshake(v, e)
    <2>1. v' = v /\ log' = log
        BY <1>1 DEF Receive, ValidateEnvelope, Resets, Accepts
    <2> QED
        BY <2>1 DEF IInv, TypeOK, RejectedCanBeRetried, HasLast, NoRepeatSinceReset,
                    GapOnlyAtHello, Numbered, LastBefore
<1>2. CASE ~RefusedBeforeHandshake(v, e) /\ Resets(e)
    <2>1. a = ResetSession(e.session_id) /\ e.message_type = HELLO
        BY <1>2, HandshakeFields DEF Resets
    <2>2. CASE Accepts(v, e)
        <3>1. v' = Record(ResetSession(e.session_id), e) /\ log' = <<e>>
            BY <1>2, <2>1, <2>2 DEF Receive, ValidateEnvelope
        <3> QED
            BY <2>1, <3>1, ResetIInv
    <2>3. CASE ~Accepts(v, e)
        <3>1. v' = ResetSession(e.session_id) /\ log' = <<>>
            BY <1>2, <2>1, <2>3 DEF Receive, ValidateEnvelope
        <3>2. e.session_id \in Sessions \cup {NoSession}
            BY DEF Envelopes
        <3> QED
            BY <3>1, <3>2, EmptyIInv
    <2> QED
        BY <2>2, <2>3
<1>3. CASE ~RefusedBeforeHandshake(v, e) /\ ~Resets(e)
    <2>1. /\ a \in Fields
          /\ a.session_established => a.active_session_id # NoSession
          /\ a.last_sequence_number = v.last_sequence_number
          /\ a.seen_message_ids = v.seen_message_ids
          /\ a.seen_sequence_numbers = v.seen_sequence_numbers
        BY <1>3, HandshakeFields DEF Resets
    <2>2. CASE Accepts(v, e)
        <3>1. v' = Record(a, e) /\ log' = Append(log, e)
            BY <1>3, <2>2 DEF Receive, ValidateEnvelope
        <3>2. e.message_id \notin v.seen_message_ids
              /\ ~DuplicateSequence(a, e) /\ ~OutOfSequence(a, e)
            BY <1>3, <2>2 DEF Accepts, RefusedBeforeHandshake, DuplicateId
        <3> HIDE DEF a
        <3>3. PICK b \in Fields : b = a
            BY <2>1
        <3> QED
            BY <2>1, <3>1, <3>2, <3>3, RecordIInv
    <2>3. CASE ~Accepts(v, e)
        <3>1. v' = a /\ log' = log
            BY <1>3, <2>3 DEF Receive, ValidateEnvelope
        <3> HIDE DEF a
        <3>2. v' \in Fields /\ (v'.session_established => v'.active_session_id # NoSession)
              /\ v'.last_sequence_number = v.last_sequence_number
              /\ v'.seen_message_ids = v.seen_message_ids
              /\ v'.seen_sequence_numbers = v.seen_sequence_numbers
            BY <2>1, <3>1
        <3>3. TypeOK'
            BY <3>1, <3>2 DEF IInv, TypeOK, Fields
        <3> QED
            BY <3>1, <3>2, <3>3 DEF IInv, RejectedCanBeRetried, HasLast, NoRepeatSinceReset,
                                    GapOnlyAtHello, Numbered, LastBefore
    <2> QED
        BY <2>2, <2>3
<1> QED
    BY <1>1, <1>2, <1>3

-----------------------------------------------------------------------------
\* The invariant: the validator's fields say what its log of accepted envelopes
\* says, between two resets nothing repeats, and only a HELLO leaves a gap.
THEOREM ValidatorInductive == Spec => []IInv
<1>1. Init => IInv
    <2> SUFFICES ASSUME Init PROVE IInv
        OBVIOUS
    <2>1. v \in Fields /\ v.last_sequence_number = 0 /\ v.seen_message_ids = {}
          /\ v.seen_sequence_numbers = {} /\ ~v.session_established
        BY StreamAssumption DEF Init, NewValidator, Fields
    <2>2. log = <<>> /\ DOMAIN log = {} /\ Numbered = {}
        BY DEF Init, Numbered
    <2>3. TypeOK
        BY <2>1, <2>2 DEF TypeOK, Fields
    <2> QED
        BY <2>1, <2>2, <2>3 DEF IInv, RejectedCanBeRetried, HasLast, NoRepeatSinceReset,
                                GapOnlyAtHello
<1>2. IInv /\ [Next]_vars => IInv'
    <2>1. ASSUME IInv, NEW e \in Envelopes, Receive(e)
          PROVE  IInv'
        BY <2>1, ReceiveIInv
    <2>2. ASSUME IInv, NEW session \in Sessions \cup {NoSession}, Reset(session)
          PROVE  IInv'
        BY <2>2, EmptyIInv DEF Reset
    <2>3. ASSUME IInv, UNCHANGED vars
          PROVE  IInv'
        BY <2>3 DEF vars, IInv, TypeOK, RejectedCanBeRetried, HasLast, NoRepeatSinceReset,
                    GapOnlyAtHello, Numbered, LastBefore
    <2> QED
        BY <2>1, <2>2, <2>3 DEF Next
<1> QED
    BY <1>1, <1>2, PTL DEF Spec

\* The validator's fields keep their types whatever it reads.
THEOREM ValidatorTypeCorrect == Spec => []TypeOK
BY ValidatorInductive, PTL DEF IInv

\* Between two resets no id and no number is accepted twice.
THEOREM NothingAcceptedTwice == Spec => []NoRepeatSinceReset
BY ValidatorInductive, PTL DEF IInv

\* The accepted numbers have gaps only where a HELLO restarts the count.
THEOREM GapsOnlyAtHello == Spec => []GapOnlyAtHello
BY ValidatorInductive, PTL DEF IInv

\* What is refused uses up neither id nor number.
THEOREM RefusedUsesNothing == Spec => []RejectedCanBeRetried
BY ValidatorInductive, PTL DEF IInv
=============================================================================
