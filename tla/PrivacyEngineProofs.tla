-------------------------- MODULE PrivacyEngineProofs --------------------------
(***************************************************************************)
(* Proofs about PrivacyEngine for any number of requests, listeners, rules *)
(* and databases: types, which rule an evaluation stops at, the ids of the *)
(* events, the switch, the site exceptions and the report of a block.      *)
(***************************************************************************)
EXTENDS PrivacyEngine, WellFoundedInduction, TLAPS

Exceptions == {"kDefault", "kAllowAll", "kBlockAll"}

EventTypes == {"none", "tracking_parameter_removed", "policy_exception_applied",
               "request_blocked", "tracker_detected"}

Locals ==
    [exception : Exceptions, classification : {"kNotTracker", "kKnownTracker"},
     decision : {"kAllow", "kBlock"}, matched : ParsedRules \cup {NoRule},
     event : EventTypes, id : Nat, audience : Seq(Listeners),
     resume : {"policy", "done"}]

Witnesses ==
    [exempt : BOOLEAN, settled : BOOLEAN, off : BOOLEAN, audience : SUBSET Listeners,
     before : Seq(ParsedRules), standing : SUBSET ParsedRules,
     ever : SUBSET ParsedRules, changes : {0, 1, 2}]

EventRecords ==
    [id : Nat, type : EventTypes, of : Requests, hop : Nat,
     rule : ParsedRules \cup {NoRule}]

\* Everything has its type; TypeOK is what of it a run can check.
Typed ==
    /\ enabled \in BOOLEAN /\ database \in Databases
    /\ content \in [Databases -> Seq(ParsedRules)]
    /\ \A d \in Databases : Len(content[d]) <= MaxRules
    /\ loading \in {NoLoad} \cup [db : Databases, rest : Seq(ParsedRules) \ {<<>>}]
    /\ site_exceptions \in [Sites -> Exceptions]
    /\ event_counter \in Nat \ {0}
    /\ listeners_ \in Seq(Listeners) /\ Len(listeners_) <= MaxListeners
    /\ request \in [Requests -> [kind : RequestRecords, hops : 0..MaxHops]]
    /\ pc \in [Requests -> Labels]
    /\ local \in [Requests -> Locals]
    /\ heard \in [Listeners -> Seq(EventRecords)]
    /\ witness \in [Requests -> Witnesses]
    /\ \A t \in Requests : local[t].id < event_counter

-----------------------------------------------------------------------------
(* The rule an evaluation stops at *)

\* The rule is of the type, covers the request and applies to it.
Covers(rule, type, k) ==
    /\ rule.rule_type = type
    /\ CoversHost(rule, k.host) \/ rule.domain_pattern = Generic
    /\ MatchesPathAndOptions(rule, k.path)
    /\ Applies(rule, k)

\* A set of natural numbers that is not empty has a least element.
LEMMA LeastOfNaturals ==
    ASSUME NEW T, T \subseteq Nat, T # {}
    PROVE  \E n \in T : \A m \in T : n <= m
<1>1. PICK n \in T : \A m \in T : ~(<<m, n>> \in OpToRel(<, Nat))
    BY NatLessThanWellFounded, WFMin
<1>2. \A m \in T : ~(m < n)
    BY <1>1 DEF OpToRel
<1> QED
    BY <1>2

\* Among positions of a database whose domains are not longer than a host one is
\* returned before the others.
LEMMA FirstReturned ==
    ASSUME NEW db \in Seq(ParsedRules), NEW found, found \subseteq DOMAIN db, found # {},
           NEW most \in Nat, \A i \in found : Len(db[i].domain_pattern) <= most
    PROVE  \E i \in found : \A j \in found : ReturnedBefore(db, i, j)
<1> DEFINE labels(i) == Len(db[i].domain_pattern)
           missing == {most - labels(i) : i \in found}
<1>1. DOMAIN db = 1..Len(db) /\ Len(db) \in Nat
    OBVIOUS
<1>2. \A i \in found : labels(i) \in Nat /\ i \in Nat
    <2> SUFFICES ASSUME NEW i \in found PROVE labels(i) \in Nat /\ i \in Nat
        OBVIOUS
    <2>1. i \in 1..Len(db) /\ db[i] \in ParsedRules
        BY <1>1
    <2>2. db[i].domain_pattern \in Seq(STRING)
        BY <2>1 DEF ParsedRules
    <2> QED
        BY <2>1, <2>2
<1> HIDE DEF labels
<1>3. missing \subseteq Nat /\ missing # {}
    BY <1>2 DEF labels
<1>4. PICK n \in missing : \A m \in missing : n <= m
    BY <1>3, LeastOfNaturals
<1> DEFINE longest == {i \in found : most - labels(i) = n}
<1>5. longest \subseteq Nat /\ longest # {}
    BY <1>2, <1>4
<1>6. PICK i \in longest : \A j \in longest : i <= j
    BY <1>5, LeastOfNaturals
<1>7. ASSUME NEW j \in found
      PROVE  labels(i) > labels(j) \/ (labels(i) = labels(j) /\ i <= j)
    <2>1. most - labels(i) = n /\ labels(i) \in Nat /\ labels(j) \in Nat
        BY <1>2, <1>6
    <2>2. n <= most - labels(j)
        BY <1>4
    <2>3. labels(i) = labels(j) => j \in longest
        BY <2>1
    <2> QED
        BY <1>6, <2>1, <2>2, <2>3
<1> QED
    BY <1>6, <1>7 DEF ReturnedBefore, labels

\* A rule's domain that covers a host is no longer than the host.
LEMMA CoveringIsShort ==
    ASSUME NEW rule \in ParsedRules, NEW host \in Seq(STRING),
           CoversHost(rule, host) \/ rule.domain_pattern = Generic
    PROVE  Len(rule.domain_pattern) <= Len(host)
<1>1. CASE rule.domain_pattern = Generic
    BY <1>1 DEF Generic
<1>2. CASE CoversHost(rule, host)
    <2>1. PICK k \in 1..Len(host) : rule.domain_pattern = SubSeq(host, k, Len(host))
        BY <1>2 DEF CoversHost, GenerateCandidateDomains
    <2> QED
        BY <2>1
<1> QED
    BY <1>1, <1>2

\* The loop stops at a rule of the database that covers the request, if there is
\* one, and otherwise at none.
LEMMA FirstCovers ==
    ASSUME NEW db \in Seq(ParsedRules), NEW k \in RequestRecords,
           NEW type \in {"kAllow", "kBlock"}
    PROVE  LET first == FirstApplicable(db, type, k) IN
           /\ (\E rule \in RulesOf(db) : Covers(rule, type, k))
                => first \in RulesOf(db) /\ Covers(first, type, k) /\ first # NoRule
           /\ ~(\E rule \in RulesOf(db) : Covers(rule, type, k)) => first = NoRule
<1> DEFINE found == {i \in FindMatchingRules(db, type, k.host, k.path) : Applies(db[i], k)}
           at == CHOOSE i \in found : \A j \in found : ReturnedBefore(db, i, j)
<1>1. FirstApplicable(db, type, k) = IF found = {} THEN NoRule ELSE db[at]
    BY DEF FirstApplicable
<1>2. \A i : i \in found <=> i \in DOMAIN db /\ Covers(db[i], type, k)
    BY DEF FindMatchingRules, Covers
<1>3. (\E rule \in RulesOf(db) : Covers(rule, type, k)) <=> found # {}
    BY <1>2 DEF RulesOf
<1>4. CASE found # {}
    <2>1. k.host \in Seq(STRING) /\ Len(k.host) \in Nat
        BY DEF RequestRecords
    <2>2. \A i \in found : Len(db[i].domain_pattern) <= Len(k.host)
        BY <1>2, <2>1, CoveringIsShort DEF Covers
    <2> HIDE DEF found
    <2>3. found \subseteq DOMAIN db
        BY <1>2
    <2>4. \E i \in found : \A j \in found : ReturnedBefore(db, i, j)
        BY <1>4, <2>1, <2>2, <2>3, FirstReturned
    <2>5. at \in found
        BY <2>4
    <2> HIDE DEF at
    <2>6. db[at] \in RulesOf(db) /\ Covers(db[at], type, k)
        BY <1>2, <2>5 DEF RulesOf
    <2>7. db[at] # NoRule
        BY <2>6 DEF Covers, NoRule
    <2> QED
        BY <1>1, <1>3, <1>4, <2>6, <2>7
<1>5. CASE found = {}
    BY <1>1, <1>3, <1>5
<1> QED
    BY <1>4, <1>5

\* The rules of a database are parsed rules.
LEMMA RulesParsed ==
    ASSUME NEW db \in Seq(ParsedRules)
    PROVE  RulesOf(db) \subseteq ParsedRules
BY DEF RulesOf

-----------------------------------------------------------------------------
(* Types *)

\* Initially everything has its type.
LEMMA InitTyped == Init => Typed
<1> SUFFICES ASSUME Init PROVE Typed
    OBVIOUS
<1>1. Fresh \in Locals
    BY DEF Fresh, Locals, Exceptions, EventTypes
<1>2. Unwitnessed \in Witnesses
    BY DEF Unwitnessed, Witnesses
<1>3. Fresh.id = 0
    BY DEF Fresh
<1> HIDE DEF Fresh, Unwitnessed, Locals, Witnesses, NoLoad
<1> QED
    BY <1>1, <1>2, <1>3, EngineAssumption, MaxRulesAssumption, DataAssumption
    DEF Init, Typed, Labels, Exceptions

\* A step of one request leaves the others and the settings alone.
LEMMA OthersUnchanged ==
    ASSUME Typed, NEW t \in Requests, Step(t)
    PROVE  /\ UNCHANGED settings
           /\ \A u \in Requests \ {t} :
                /\ pc'[u] = pc[u] /\ local'[u] = local[u]
                /\ request'[u] = request[u] /\ witness'[u] = witness[u]
<1> USE DEF Typed
<1>1. CASE MaybeCreate(t)
    BY <1>1 DEF MaybeCreate, Goto, BeginHop, Witness
<1>2. CASE SanitizeUrl(t)
    BY <1>2 DEF SanitizeUrl, Goto, Emit, Assign
<1>3. CASE EvaluateRequest(t)
    BY <1>3 DEF EvaluateRequest, Goto
<1>4. CASE LookupHostException(t)
    BY <1>4 DEF LookupHostException, ApplyException, Goto, Emit, Assign, Witness
<1>5. CASE LookupDomainException(t)
    BY <1>5 DEF LookupDomainException, ApplyException, Goto, Emit, Assign, Witness
<1>6. CASE LookupKnownTracker(t)
    BY <1>6 DEF LookupKnownTracker, Goto, Assign
<1>7. CASE EvaluateAllowRules(t)
    BY <1>7 DEF EvaluateAllowRules, Report, Goto, Emit, Assign
<1>8. CASE EvaluateBlockRules(t)
    BY <1>8 DEF EvaluateBlockRules, Report, Goto, Emit, Assign
<1>9. CASE GenerateEventId(t)
    BY <1>9 DEF GenerateEventId, Goto, Assign
<1>10. CASE DispatchEvent(t)
    BY <1>10 DEF DispatchEvent, Goto, Assign
<1>11. CASE CallListener(t)
    BY <1>11 DEF CallListener, Assign
<1>12. CASE EventDispatched(t)
    BY <1>12 DEF EventDispatched, Goto
<1>13. CASE \E k \in RequestKinds : WillRedirectRequest(t, k)
    BY <1>13 DEF WillRedirectRequest, Goto, Assign, BeginHop, Witness
<1> QED
    BY <1>1, <1>2, <1>3, <1>4, <1>5, <1>6, <1>7, <1>8, <1>9, <1>10, <1>11, <1>12,
       <1>13 DEF Step

\* The redirected request and the cleaned one are requests.
LEMMA CleanedTyped ==
    ASSUME NEW k \in RequestRecords
    PROVE  StripTrackingParameters(k) \in RequestRecords
BY DEF StripTrackingParameters, RequestRecords

\* A redirected request is a request.
LEMMA RedirectedTyped ==
    ASSUME NEW k \in RequestRecords, NEW type \in ResourceTypes
    PROVE  [k EXCEPT !.resource_type = type] \in RequestRecords
BY DEF RequestRecords

\* What is kept of a request stays typed when its parameters go.
LEMMA RequestTyped ==
    ASSUME NEW r \in [kind : RequestRecords, hops : 0..MaxHops]
    PROVE  /\ [r EXCEPT !.kind = StripTrackingParameters(@)]
                \in [kind : RequestRecords, hops : 0..MaxHops]
           /\ r.kind \in RequestRecords /\ r.hops \in 0..MaxHops
BY CleanedTyped

\* Updates of a request's locals keep their type.
LEMMA MatchedTyped ==
    ASSUME NEW new \in Locals, NEW rule \in ParsedRules \cup {NoRule}
    PROVE  [new EXCEPT !.matched = rule] \in Locals /\ [new EXCEPT !.matched = rule].id = new.id
BY DEF Locals

\* An id is put into the locals.
LEMMA IdTyped ==
    ASSUME NEW new \in Locals, NEW id \in Nat
    PROVE  [new EXCEPT !.id = id] \in Locals /\ [new EXCEPT !.id = id].id = id
BY DEF Locals

\* The audience is put into the locals.
LEMMA AudienceTyped ==
    ASSUME NEW new \in Locals, NEW audience \in Seq(Listeners)
    PROVE  /\ [new EXCEPT !.audience = audience] \in Locals
           /\ [new EXCEPT !.audience = audience].id = new.id
BY DEF Locals

\* The classification is put into the locals.
LEMMA ClassificationTyped ==
    ASSUME NEW new \in Locals, NEW c \in {"kNotTracker", "kKnownTracker"}
    PROVE  /\ [new EXCEPT !.classification = c] \in Locals
           /\ [new EXCEPT !.classification = c].id = new.id
BY DEF Locals

\* And so do those of a witness.
LEMMA BegunTyped ==
    ASSUME NEW exempt \in BOOLEAN, NEW off \in BOOLEAN, NEW audience \in SUBSET Listeners
    PROVE  [Unwitnessed EXCEPT !.exempt = exempt, !.off = off, !.audience = audience]
                \in Witnesses
<1>1. Unwitnessed \in Witnesses
    BY DEF Unwitnessed, Witnesses
<1> QED
    BY <1>1 DEF Witnesses

\* The consultation is noted in the witness.
LEMMA ConsultedTyped ==
    ASSUME NEW old \in Witnesses, NEW db \in Seq(ParsedRules)
    PROVE  [old EXCEPT !.before = db, !.standing = RulesOf(db), !.ever = RulesOf(db),
                       !.changes = 0] \in Witnesses
<1>1. RulesOf(db) \in SUBSET ParsedRules
    BY RulesParsed
<1> QED
    BY <1>1 DEF Witnesses

\* What the exceptions say is an exception.
LEMMA ExceptionTyped ==
    ASSUME Typed, NEW host PROVE GetSiteException(host) \in Exceptions
BY DEF Typed, GetSiteException, Exceptions

\* The parts of the state a step of one request may change, and keep their types.
TypedRequest(t) ==
    /\ request[t] \in [kind : RequestRecords, hops : 0..MaxHops]
    /\ pc[t] \in Labels
    /\ local[t] \in Locals
    /\ witness[t] \in Witnesses
    /\ local[t].id < event_counter

\* An event on its way out leaves the locals typed.
LEMMA EmitTyped ==
    ASSUME Typed, NEW t \in Requests, NEW new \in Locals, NEW event \in EventTypes,
           NEW label \in {"policy", "done"}, Emit(t, new, event, label), new.id < event_counter
    PROVE  /\ pc'[t] \in Labels /\ local'[t] \in Locals /\ local'[t].id < event_counter
<1>1. local'[t] = [new EXCEPT !.event = event, !.resume = label] /\ pc'[t] = "generate_id"
    BY DEF Emit, Assign, Goto, Typed
<1> QED
    BY <1>1 DEF Labels, Locals

\* A step of a request keeps the types of what it may change.
LEMMA StepTyped ==
    ASSUME Typed, NEW t \in Requests, Step(t)
    PROVE  TypedRequest(t)' /\ heard' \in [Listeners -> Seq(EventRecords)]
           /\ event_counter' \in Nat /\ event_counter <= event_counter'
<1>1. /\ TypedRequest(t) /\ heard \in [Listeners -> Seq(EventRecords)]
      /\ event_counter \in Nat \ {0}
      /\ enabled \in BOOLEAN /\ listeners_ \in Seq(Listeners)
      /\ request[t].kind \in RequestRecords /\ request[t].hops \in 0..MaxHops
      /\ local[t] \in Locals /\ local[t].id \in Nat
      /\ rules \in Seq(ParsedRules)
    BY DEF Typed, TypedRequest, rules, Locals
<1>2. ASSUME NEW k \in RequestRecords, BeginHop(t, k)
      PROVE  witness'[t] \in Witnesses
    <2>1. RulesOf(listeners_) \subseteq Listeners
        BY <1>1 DEF RulesOf
    <2>2. witness'[t] = [Unwitnessed EXCEPT !.exempt = Exception(k.initiator) = "kAllowAll",
                                            !.off = ~enabled,
                                            !.audience = RulesOf(listeners_)]
        BY <1>2 DEF BeginHop, Witness, Typed
    <2>3. (Exception(k.initiator) = "kAllowAll") \in BOOLEAN /\ (~enabled) \in BOOLEAN
        OBVIOUS
    <2>4. [Unwitnessed EXCEPT !.exempt = Exception(k.initiator) = "kAllowAll",
                              !.off = ~enabled, !.audience = RulesOf(listeners_)]
            \in Witnesses
        BY <2>1, <2>3, BegunTyped
    <2> QED
        BY <2>2, <2>4
<1>3. CASE MaybeCreate(t)
    <2>1. witness'[t] \in Witnesses
        BY <1>1, <1>2, <1>3 DEF MaybeCreate, Kind
    <2>2. pc'[t] \in Labels
        BY <1>1, <1>3 DEF MaybeCreate, Goto, FirstStep, Labels, Typed
    <2> QED
        BY <1>1, <1>3, <2>1, <2>2 DEF MaybeCreate, TypedRequest
<1>4. CASE SanitizeUrl(t)
    <2>1. CASE enabled /\ Kind(t).tracking
        <3>1. /\ request'[t] = [request[t] EXCEPT !.kind = StripTrackingParameters(@)]
              /\ Emit(t, local[t], "tracking_parameter_removed", "policy")
              /\ UNCHANGED <<event_counter, heard, witness>>
            BY <1>1, <1>4, <2>1 DEF SanitizeUrl, Typed
        <3>2. request'[t] \in [kind : RequestRecords, hops : 0..MaxHops]
            BY <3>1, RequestTyped DEF Typed
        <3> QED
            BY <1>1, <3>1, <3>2, EmitTyped DEF TypedRequest, EventTypes
    <2>2. CASE ~(enabled /\ Kind(t).tracking)
        <3>1. pc'[t] = "policy" /\ UNCHANGED <<request, local, event_counter, heard, witness>>
            BY <1>1, <1>4, <2>2 DEF SanitizeUrl, Goto, Typed
        <3> QED
            BY <1>1, <3>1 DEF TypedRequest, Labels
    <2> QED
        BY <2>1, <2>2
<1>5. CASE EvaluateRequest(t)
    BY <1>1, <1>5 DEF EvaluateRequest, Goto, TypedRequest, Labels, Typed
<1>6. ASSUME NEW exception \in Exceptions, ApplyException(t, exception),
             UNCHANGED <<event_counter, request, heard>>
      PROVE  TypedRequest(t)'
    <2>1. [local[t] EXCEPT !.exception = exception] \in Locals
          /\ [local[t] EXCEPT !.exception = exception].id = local[t].id
        BY <1>1, <1>6 DEF Locals
    <2>2. CASE exception = "kAllowAll"
        <3>1. Emit(t, [local[t] EXCEPT !.exception = exception],
                   "policy_exception_applied", "done") /\ UNCHANGED witness
            BY <1>6, <2>2 DEF ApplyException
        <3> QED
            BY <1>1, <1>6, <2>1, <3>1, EmitTyped DEF TypedRequest, EventTypes
    <2>3. CASE exception # "kAllowAll"
        <3>1. /\ local'[t] = [local[t] EXCEPT !.exception = exception]
              /\ pc'[t] = "known_tracker"
              /\ witness'[t] = [witness[t] EXCEPT
                        !.before = rules, !.standing = RulesOf(rules),
                        !.ever = RulesOf(rules), !.changes = 0]
            BY <1>6, <2>3 DEF ApplyException, Assign, Goto, Witness, Typed
        <3>2. witness'[t] \in Witnesses
            <4>1. witness[t] \in Witnesses /\ rules \in Seq(ParsedRules)
                BY <1>1 DEF TypedRequest
            <4>2. [witness[t] EXCEPT !.before = rules, !.standing = RulesOf(rules),
                                     !.ever = RulesOf(rules), !.changes = 0] \in Witnesses
                BY <4>1, ConsultedTyped
            <4> QED
                BY <3>1, <4>2
        <3> QED
            BY <1>1, <1>6, <2>1, <3>1, <3>2 DEF TypedRequest, Labels
    <2> QED
        BY <2>2, <2>3
<1>7. CASE LookupHostException(t)
    <2>1. CASE GetSiteException(Kind(t).initiator) = "kDefault" /\ Kind(t).initiator # NoHost
        BY <1>1, <1>7, <2>1 DEF LookupHostException, Goto, TypedRequest, Labels, Typed
    <2>2. CASE ~(GetSiteException(Kind(t).initiator) = "kDefault" /\ Kind(t).initiator # NoHost)
        BY <1>1, <1>6, <1>7, <2>2, ExceptionTyped DEF LookupHostException
    <2> QED
        BY <2>1, <2>2
<1>8. CASE LookupDomainException(t)
    BY <1>1, <1>6, <1>8, ExceptionTyped DEF LookupDomainException
<1>9. CASE LookupKnownTracker(t)
    <2> DEFINE c == IF IsKnownTrackerHost(rules, Kind(t).host) THEN "kKnownTracker"
                                                               ELSE "kNotTracker"
    <2>1. /\ local'[t] = [local[t] EXCEPT !.classification = c] /\ pc'[t] = "allow_rules"
          /\ UNCHANGED <<event_counter, request, heard, witness>>
        BY <1>1, <1>9 DEF LookupKnownTracker, Goto, Assign, Typed
    <2>2. c \in {"kNotTracker", "kKnownTracker"}
        OBVIOUS
    <2> HIDE DEF c
    <2>3. /\ [local[t] EXCEPT !.classification = c] \in Locals
          /\ [local[t] EXCEPT !.classification = c].id = local[t].id
        <3>1. local[t] \in Locals
            BY <1>1
        <3> QED
            BY <2>2, <3>1, ClassificationTyped
    <2> QED
        BY <1>1, <2>1, <2>3 DEF TypedRequest, Labels
<1>10. ASSUME NEW result \in Locals, Report(t, result), result.id < event_counter,
              UNCHANGED <<event_counter, request, witness>>
       PROVE  TypedRequest(t)'
    <2>1. CASE \E event \in EventTypes : Emit(t, result, event, "done")
        BY <1>1, <1>10, <2>1, EmitTyped DEF TypedRequest
    <2>2. CASE Assign(t, result) /\ Goto(t, "done")
        BY <1>1, <1>10, <2>2 DEF Assign, Goto, TypedRequest, Labels, Typed
    <2> QED
        BY <1>10, <2>1, <2>2 DEF Report, EventTypes
<1>11. ASSUME NEW type \in {"kAllow", "kBlock"}
       PROVE  FirstApplicable(rules, type, Kind(t)) \in ParsedRules \cup {NoRule}
    BY <1>1, FirstCovers, RulesParsed DEF Kind
<1>12. CASE EvaluateAllowRules(t)
    <2> DEFINE rule == FirstApplicable(rules, "kAllow", Kind(t))
               allowed == [local[t] EXCEPT !.matched = rule]
    <2> HIDE DEF rule
    <2>1. rule \in ParsedRules \cup {NoRule}
        BY <1>11 DEF rule
    <2>2. CASE rule # NoRule
        <3>1. /\ Report(t, allowed)
              /\ UNCHANGED <<event_counter, request, heard, witness>>
            BY <1>12, <2>2 DEF EvaluateAllowRules, rule
        <3>2. allowed \in Locals /\ allowed.id = local[t].id
            <4>1. local[t] \in Locals
                BY <1>1
            <4> QED
                BY <2>1, <4>1, MatchedTyped
        <3> HIDE DEF allowed
        <3>3. allowed.id < event_counter
            BY <1>1, <3>2 DEF TypedRequest
        <3> QED
            BY <1>1, <1>10, <3>1, <3>2, <3>3
    <2>3. CASE rule = NoRule
        BY <1>1, <1>12, <2>3 DEF EvaluateAllowRules, Goto, TypedRequest, Labels, Typed, rule
    <2> QED
        BY <2>2, <2>3
<1>13. CASE EvaluateBlockRules(t)
    <2> DEFINE rule == FirstApplicable(rules, "kBlock", Kind(t))
               blocked == [local[t] EXCEPT !.matched = rule, !.decision = "kBlock",
                                           !.classification = "kKnownTracker"]
    <2> HIDE DEF rule
    <2>1. rule \in ParsedRules \cup {NoRule}
        BY <1>11 DEF rule
    <2>2. blocked \in Locals /\ blocked.id = local[t].id
        BY <1>1, <2>1 DEF Locals
    <2>3. /\ Report(t, blocked) \/ Report(t, local[t])
          /\ UNCHANGED <<event_counter, request, heard, witness>>
        BY <1>13 DEF EvaluateBlockRules, rule
    <2> HIDE DEF blocked
    <2> QED
        BY <1>1, <1>10, <2>2, <2>3 DEF TypedRequest
<1>14. CASE GenerateEventId(t)
    <2>1. local'[t] = [local[t] EXCEPT !.id = event_counter] /\ pc'[t] = "dispatch"
          /\ event_counter' = event_counter + 1 /\ UNCHANGED <<request, heard, witness>>
        BY <1>14 DEF GenerateEventId, Assign, Goto, Typed
    <2>2. local'[t] \in Locals /\ local'[t].id = event_counter
        <3>1. local[t] \in Locals /\ event_counter \in Nat
            BY <1>1
        <3> QED
            BY <2>1, <3>1, IdTyped
    <2> QED
        BY <1>1, <2>1, <2>2 DEF TypedRequest, Labels
<1>15. CASE DispatchEvent(t)
    <2>1. /\ local'[t] = [local[t] EXCEPT !.audience = listeners_] /\ pc'[t] = "call"
          /\ UNCHANGED <<event_counter, request, heard, witness>>
        BY <1>1, <1>15 DEF DispatchEvent, Goto, Assign, Typed
    <2> QED
        BY <1>1, <2>1, AudienceTyped DEF TypedRequest, Labels
<1>16. CASE CallListener(t)
    <2>1. local[t].audience \in Seq(Listeners) /\ local[t].audience # <<>>
        BY <1>1, <1>16 DEF CallListener, Locals
    <2>2. Head(local[t].audience) \in Listeners /\ Tail(local[t].audience) \in Seq(Listeners)
        BY <2>1
    <2>3. PrivacyEvent(t) \in EventRecords
        BY <1>1 DEF PrivacyEvent, EventRecords, Locals
    <2>4. heard' \in [Listeners -> Seq(EventRecords)]
        BY <1>1, <1>16, <2>2, <2>3 DEF CallListener
    <2>5. local'[t] = [local[t] EXCEPT !.audience = Tail(@)]
        BY <1>16 DEF CallListener, Assign, Typed
    <2>6. local'[t] \in Locals /\ local'[t].id = local[t].id
        BY <1>1, <2>2, <2>5, AudienceTyped
    <2> QED
        BY <1>1, <1>16, <2>4, <2>6 DEF CallListener, TypedRequest
<1>17. CASE EventDispatched(t)
    BY <1>1, <1>17 DEF EventDispatched, Goto, TypedRequest, Labels, Locals, Typed
<1>18. ASSUME NEW k \in RequestKinds, WillRedirectRequest(t, k)
       PROVE  TypedRequest(t)' /\ UNCHANGED <<heard, event_counter>>
    <2> DEFINE type == IF k.throttle = "navigation" THEN Kind(t).resource_type ELSE "kOther"
               redirected == [k EXCEPT !.resource_type = type]
    <2>1. redirected \in RequestRecords
        <3>1. k \in RequestRecords /\ type \in ResourceTypes
            <4>1. request[t].kind \in RequestRecords
                BY <1>1
            <4>2. request[t].kind.resource_type \in ResourceTypes
                BY <4>1 DEF RequestRecords
            <4>3. k \in RequestRecords
                BY DataAssumption
            <4>4. CASE k.throttle = "navigation"
                BY <4>2, <4>3, <4>4 DEF Kind
            <4>5. CASE k.throttle # "navigation"
                <5>1. type = "kOther" /\ "kOther" \in ResourceTypes
                    BY <4>5 DEF ResourceTypes
                <5> QED
                    BY <4>3, <5>1
            <4> QED
                BY <4>4, <4>5
        <3> QED
            BY <3>1, RedirectedTyped
    <2>2. /\ request'[t] = [kind |-> redirected, hops |-> request[t].hops + 1]
          /\ BeginHop(t, redirected) /\ pc'[t] = FirstStep(redirected)
          /\ local'[t] = Fresh /\ request[t].hops < MaxHops
          /\ UNCHANGED <<event_counter, heard>>
        BY <1>18 DEF WillRedirectRequest, Goto, Assign, Typed
    <2> HIDE DEF redirected
    <2>3. witness'[t] \in Witnesses
        BY <1>2, <2>1, <2>2
    <2>4. pc'[t] \in Labels
        BY <2>2 DEF FirstStep, Labels
    <2>5. Fresh \in Locals /\ Fresh.id = 0
        BY DEF Fresh, Locals, Exceptions, EventTypes
    <2>6. request'[t] \in [kind : RequestRecords, hops : 0..MaxHops]
        BY <1>1, <2>1, <2>2, EngineAssumption
    <2> QED
        BY <1>1, <2>2, <2>3, <2>4, <2>5, <2>6 DEF TypedRequest
<1> QED
    <2> USE <1>1
    <2>1. CASE \E k \in RequestKinds : WillRedirectRequest(t, k)
        BY <1>18, <2>1
    <2>2. CASE LookupHostException(t) \/ LookupDomainException(t) \/ EvaluateAllowRules(t)
               \/ EvaluateBlockRules(t)
        BY <1>7, <1>8, <1>12, <1>13, <2>2 DEF LookupHostException, LookupDomainException,
           EvaluateAllowRules, EvaluateBlockRules
    <2>3. CASE MaybeCreate(t) \/ SanitizeUrl(t) \/ EvaluateRequest(t) \/ LookupKnownTracker(t)
               \/ DispatchEvent(t) \/ EventDispatched(t) \/ CallListener(t)
        BY ZenonT(60), <1>3, <1>4, <1>5, <1>9, <1>15, <1>16, <1>17, <2>3
        DEF MaybeCreate, SanitizeUrl, EvaluateRequest, LookupKnownTracker, DispatchEvent,
            EventDispatched, CallListener
    <2>4. CASE GenerateEventId(t)
        BY <1>14, <2>4 DEF GenerateEventId
    <2> QED
        BY <2>1, <2>2, <2>3, <2>4 DEF Step

\* A change of the settings leaves the requests alone, but for what they witness.
LEMMA SettingsFrame ==
    ASSUME Settings
    PROVE  UNCHANGED <<event_counter, request, pc, local, heard>>
BY DEF Settings, LoadFromText, LoadNextRule, Clear, SetDatabase, SetSiteException,
       SetPrivacyProtectionEnabled, AddListener, ClearListeners

\* The three changes of the rules are one: content and current database become
\* others, and the requests witness it.
LEMMA BecomeTyped ==
    ASSUME Typed, NEW now \in Seq(ParsedRules), NEW by \in {1, 2}, RulesBecome(now, by)
    PROVE  witness' \in [Requests -> Witnesses]
<1>1. ASSUME NEW t \in Requests
      PROVE  [witness[t] EXCEPT !.standing = @ \cap RulesOf(now),
                                !.ever = @ \cup RulesOf(now),
                                !.changes = IF @ = 0 THEN by ELSE 2] \in Witnesses
    <2>1. witness[t] \in Witnesses /\ RulesOf(now) \subseteq ParsedRules
        BY RulesParsed DEF Typed
    <2> QED
        BY <2>1 DEF Witnesses
<1>2. \A t \in Requests : witness[t] \in Witnesses
    BY DEF Typed
<1> HIDE DEF Witnesses
<1> QED
    BY <1>1, <1>2 DEF RulesBecome

\* One rule more, or the same.
LEMMA AddRuleTyped ==
    ASSUME NEW db \in Seq(ParsedRules), Len(db) <= MaxRules, NEW rule \in ParsedRules
    PROVE  AddRule(db, rule) \in Seq(ParsedRules) /\ Len(AddRule(db, rule)) <= MaxRules
<1>1. Len(Append(db, rule)) = Len(db) + 1 /\ Len(db) \in Nat
    OBVIOUS
<1> QED
    BY <1>1, MaxRulesAssumption DEF AddRule

\* A sequence with more than one element has a tail that is not empty.
LEMMA TailNotEmpty ==
    ASSUME NEW S, NEW s \in Seq(S), s # <<>>, Len(s) # 1
    PROVE  Tail(s) # <<>>
<1> DEFINE tail == Tail(s)
<1>1. tail \in Seq(S) /\ Len(tail) = Len(s) - 1 /\ Len(s) \in Nat
    OBVIOUS
<1> HIDE DEF tail
<1>2. tail # <<>>
    BY <1>1
<1> QED
    BY <1>2 DEF tail

\* A change of the settings keeps the types.
LEMMA SettingsTyped ==
    ASSUME Typed, Settings
    PROVE  Typed'
<1>1. UNCHANGED <<event_counter, request, pc, local, heard>>
    BY SettingsFrame
<1>2. CASE \E list \in RuleLists : LoadFromText(list)
    <2>1. PICK list \in RuleLists : LoadFromText(list)
        BY <1>2
    <2>2. list \in Seq(ParsedRules) \ {<<>>} /\ database \in Databases
        BY EngineAssumption, DataAssumption DEF Typed
    <2>3. loading' \in [db : Databases, rest : Seq(ParsedRules) \ {<<>>}]
        BY <2>1, <2>2 DEF LoadFromText
    <2> QED
        BY <1>1, <2>1, <2>3 DEF LoadFromText, Typed
<1>3. CASE LoadNextRule
    <2> DEFINE next == Head(loading.rest)
               now == [content EXCEPT ![loading.db] = AddRule(@, next)]
    <2>1. /\ loading.db \in Databases /\ loading.rest \in Seq(ParsedRules)
          /\ loading.rest # <<>>
        BY <1>3 DEF LoadNextRule, Typed
    <2>2. next \in ParsedRules
        BY <2>1
    <2> HIDE DEF next
    <2>3. /\ AddRule(content[loading.db], next) \in Seq(ParsedRules)
          /\ Len(AddRule(content[loading.db], next)) <= MaxRules
        BY <2>1, <2>2, AddRuleTyped DEF Typed
    <2>4. /\ now \in [Databases -> Seq(ParsedRules)]
          /\ \A d \in Databases : Len(now[d]) <= MaxRules
        BY <2>1, <2>3 DEF Typed
    <2>5. content' = now /\ RulesBecome(now[database], 1)
        BY <1>3 DEF LoadNextRule, next
    <2>6. now[database] \in Seq(ParsedRules)
        BY <2>4 DEF Typed
    <2> HIDE DEF now
    <2>7. witness' \in [Requests -> Witnesses]
        BY <2>5, <2>6, BecomeTyped
    <2>8. loading' \in {NoLoad} \cup [db : Databases, rest : Seq(ParsedRules) \ {<<>>}]
        <3>1. CASE Len(loading.rest) = 1
            BY <1>3, <3>1 DEF LoadNextRule
        <3>2. CASE Len(loading.rest) # 1
            <4>1. Tail(loading.rest) \in Seq(ParsedRules)
                BY <2>1
            <4>2. Tail(loading.rest) # <<>>
                BY <2>1, <3>2, TailNotEmpty
            <4>3. loading \in [db : Databases, rest : Seq(ParsedRules) \ {<<>>}]
                BY <1>3 DEF LoadNextRule, Typed
            <4>4. loading' = [loading EXCEPT !.rest = Tail(@)]
                BY <1>3, <3>2 DEF LoadNextRule
            <4> QED
                BY <4>1, <4>2, <4>3, <4>4
        <3> QED
            BY <3>1, <3>2
    <2> QED
        BY ZenonT(60), <1>1, <1>3, <2>4, <2>5, <2>7, <2>8 DEF LoadNextRule, Typed
<1>4. CASE Clear
    <2>1. <<>> \in Seq(ParsedRules) /\ Len(<<>>) <= MaxRules
        BY MaxRulesAssumption
    <2>2. witness' \in [Requests -> Witnesses]
        BY <1>4, <2>1, BecomeTyped DEF Clear
    <2> QED
        BY <1>1, <1>4, <2>1, <2>2 DEF Clear, Typed
<1>5. CASE \E d \in Databases : SetDatabase(d)
    <2>1. PICK d \in Databases : SetDatabase(d)
        BY <1>5
    <2>2. content[d] \in Seq(ParsedRules)
        BY DEF Typed
    <2>3. witness' \in [Requests -> Witnesses]
        BY <2>1, <2>2, BecomeTyped DEF SetDatabase
    <2> QED
        BY <1>1, <2>1, <2>3 DEF SetDatabase, Typed
<1>6. CASE \E s \in Sites, e \in Exceptions : SetSiteException(s, e)
    <2>1. PICK s \in Sites, e \in Exceptions : SetSiteException(s, e)
        BY <1>6
    <2>2. ASSUME NEW t \in Requests, NEW still \in BOOLEAN
          PROVE  [witness[t] EXCEPT !.exempt = @ /\ still, !.settled = FALSE] \in Witnesses
        <3>1. witness[t] \in Witnesses
            BY DEF Typed
        <3>2. (witness[t].exempt /\ still) \in BOOLEAN
            OBVIOUS
        <3> QED
            BY <3>1, <3>2 DEF Witnesses
    <2>3. ASSUME NEW t \in Requests
          PROVE  witness'[t] \in Witnesses
        <3>1. CASE ~Running(t)
            BY <2>1, <3>1 DEF SetSiteException, Typed
        <3>2. CASE Running(t)
            <4>1. PICK still \in BOOLEAN :
                    still = (Exception(Kind(t).initiator) = "kAllowAll")'
                OBVIOUS
            <4>2. witness'[t] = [witness[t] EXCEPT !.exempt = @ /\ still, !.settled = FALSE]
                BY <2>1, <3>2, <4>1 DEF SetSiteException
            <4> QED
                BY <2>2, <4>2
        <3> QED
            BY <3>1, <3>2
    <2>4. site_exceptions' \in [Sites -> Exceptions]
        BY <2>1 DEF SetSiteException, Typed
    <2>5. witness' = [t \in Requests |-> witness'[t]]
        BY <2>1 DEF SetSiteException
    <2>6. witness' \in [Requests -> Witnesses]
        BY <2>3, <2>5
    <2> QED
        BY <1>1, <2>1, <2>4, <2>6 DEF SetSiteException, Typed
<1>7. CASE \E on \in BOOLEAN : SetPrivacyProtectionEnabled(on)
    <2>1. PICK on \in BOOLEAN : SetPrivacyProtectionEnabled(on)
        BY <1>7
    <2>2. ASSUME NEW t \in Requests
          PROVE  [witness[t] EXCEPT !.off = @ /\ (~on \/ ~Running(t))] \in Witnesses
        <3>1. witness[t] \in Witnesses
            BY DEF Typed
        <3>2. (witness[t].off /\ (~on \/ ~Running(t))) \in BOOLEAN
            OBVIOUS
        <3> QED
            BY <3>1, <3>2 DEF Witnesses
    <2>3. witness' \in [Requests -> Witnesses]
        BY <2>1, <2>2 DEF SetPrivacyProtectionEnabled
    <2> QED
        BY ZenonT(60), <1>1, <2>1, <2>3 DEF SetPrivacyProtectionEnabled, Typed
<1>8. CASE \E l \in Listeners : AddListener(l)
    <2>1. PICK l \in Listeners : AddListener(l)
        BY <1>8
    <2>2. /\ Append(listeners_, l) \in Seq(Listeners)
          /\ Len(Append(listeners_, l)) = Len(listeners_) + 1 /\ Len(listeners_) \in Nat
        BY DEF Typed
    <2>3. Len(Append(listeners_, l)) <= MaxListeners
        BY <2>1, <2>2, EngineAssumption DEF AddListener
    <2> QED
        BY <1>1, <2>1, <2>2, <2>3 DEF AddListener, Typed
<1>9. CASE ClearListeners
    <2>1. ASSUME NEW t \in Requests
          PROVE  [witness[t] EXCEPT !.audience = {}] \in Witnesses
        BY ZenonT(60) DEF Typed, Witnesses
    <2>2. \A t \in Requests : witness[t] \in Witnesses
        BY DEF Typed
    <2>3. witness' \in [Requests -> Witnesses]
        BY <1>9, <2>1, <2>2 DEF ClearListeners
    <2>4. <<>> \in Seq(Listeners) /\ Len(<<>>) <= MaxListeners
        BY EngineAssumption
    <2> QED
        BY <1>1, <1>9, <2>3, <2>4 DEF ClearListeners, Typed
<1> QED
    BY <1>2, <1>3, <1>4, <1>5, <1>6, <1>7, <1>8, <1>9 DEF Settings, Exceptions

\* Every step keeps the types.
LEMMA NextTyped ==
    ASSUME Typed, [Next]_vars
    PROVE  Typed'
<1>1. CASE UNCHANGED vars
    BY <1>1 DEF vars, settings, Typed
<1>2. CASE Settings
    BY <1>2, SettingsTyped
<1>3. ASSUME NEW t \in Requests, Step(t)
      PROVE  Typed'
    <2>1. /\ TypedRequest(t)' /\ heard' \in [Listeners -> Seq(EventRecords)]
          /\ event_counter' \in Nat /\ event_counter <= event_counter'
        BY <1>3, StepTyped
    <2>2. UNCHANGED settings
          /\ \A u \in Requests \ {t} :
                pc'[u] = pc[u] /\ local'[u] = local[u]
                    /\ request'[u] = request[u] /\ witness'[u] = witness[u]
        BY <1>3, OthersUnchanged
    <2>3. ASSUME NEW u \in Requests
          PROVE  TypedRequest(u)'
        <3>1. CASE u = t
            BY <2>1, <3>1
        <3>2. CASE u # t
            <4>1. TypedRequest(u)
                BY DEF Typed, TypedRequest
            <4>2. local[u].id \in Nat /\ event_counter \in Nat
                BY DEF Typed, Locals
            <4> QED
                BY <2>1, <2>2, <3>2, <4>1, <4>2 DEF TypedRequest
        <3> QED
            BY <3>1, <3>2
    <2>4. /\ request' = [u \in Requests |-> request'[u]]
          /\ pc' = [u \in Requests |-> pc'[u]]
          /\ local' = [u \in Requests |-> local'[u]]
          /\ witness' = [u \in Requests |-> witness'[u]]
        BY <1>3 DEF Typed, Step, MaybeCreate, SanitizeUrl, EvaluateRequest,
           LookupHostException, LookupDomainException, ApplyException, LookupKnownTracker,
           EvaluateAllowRules, EvaluateBlockRules, Report, GenerateEventId, DispatchEvent,
           CallListener, EventDispatched, WillRedirectRequest, Goto, Assign, Emit, BeginHop,
           Witness
    <2> QED
        BY <2>1, <2>2, <2>3, <2>4 DEF Typed, TypedRequest, settings
<1> QED
    BY <1>1, <1>2, <1>3 DEF Next

\* The types are an inductive invariant.
THEOREM EngineInductive == Spec => []Typed
<1>1. Init => Typed
    BY InitTyped
<1>2. Typed /\ [Next]_vars => Typed'
    BY NextTyped
<1> QED
    BY <1>1, <1>2, PTL DEF Spec

\* What the run checks of the types follows from all of them.
LEMMA TypedIsTypeOK == Typed => TypeOK
<1> SUFFICES ASSUME Typed PROVE TypeOK
    OBVIOUS
<1>1. loading.db \in Databases \cup {"none"}
    BY DEF Typed, NoLoad
<1>2. ASSUME NEW t \in Requests
      PROVE  /\ request[t].hops \in 0..MaxHops /\ local[t].decision \in {"kAllow", "kBlock"}
             /\ local[t].id < event_counter /\ local[t].audience \in Seq(Listeners)
    BY DEF Typed, Locals
<1> QED
    BY <1>1, <1>2 DEF Typed, TypeOK

\* Every variable of the engine keeps its type and its bound, for any number of
\* requests, rules and databases: no database exceeds MaxRules.
THEOREM EngineTypeCorrect == Spec => []TypeOK
BY EngineInductive, TypedIsTypeOK, PTL

-----------------------------------------------------------------------------
(* The switch and the exceptions *)

\* A hop that began and runs while the protection is off comes no further than to
\* the next look at the switch.
OffInv(t) ==
    /\ pc[t] = "idle" => local[t] = Fresh
    /\ witness[t].off =>
        /\ local[t].decision = "kAllow" /\ local[t].event = "none"
        /\ pc[t] \in {"idle", "unthrottled", "sanitize", "policy", "done"}
        /\ Running(t) => ~enabled

\* An exempt request whose exceptions were left alone never gets to the rules: on
\* the way from the host's exception to the domain's, the host had none.
ExemptInv(t) ==
    /\ witness[t].settled /\ pc[t] = "site_domain" =>
        GetSiteException(Kind(t).initiator) = "kDefault"
    /\ witness[t].settled /\ witness[t].exempt =>
        /\ local[t].decision = "kAllow"
        /\ Running(t) => Exception(Kind(t).initiator) = "kAllowAll" /\ ~Consulting(t)

HopInv == \A t \in Requests : OffInv(t) /\ ExemptInv(t)

\* Before the first hop nothing is witnessed.
LEMMA InitHop == Init => HopInv
BY DEF Init, HopInv, OffInv, ExemptInv, Unwitnessed, Fresh, Running

\* A step of a request keeps what its own hop owes to switch and exceptions.
LEMMA HopStep ==
    ASSUME Typed, HopInv, NEW t \in Requests, Step(t)
    PROVE  OffInv(t)' /\ ExemptInv(t)'
<1>1. /\ OffInv(t) /\ ExemptInv(t) /\ enabled \in BOOLEAN
      /\ pc \in [Requests -> Labels] /\ local \in [Requests -> Locals]
      /\ request \in [Requests -> [kind : RequestRecords, hops : 0..MaxHops]]
      /\ witness \in [Requests -> Witnesses]
    BY DEF Typed, HopInv
<1>2. UNCHANGED <<enabled, site_exceptions>>
    BY OthersUnchanged DEF settings
<1>3. ASSUME NEW h PROVE GetSiteException(h)' = GetSiteException(h) /\ Exception(h)' = Exception(h)
    BY <1>2 DEF GetSiteException, Exception
<1>4. Exception(Kind(t).initiator) \in Exceptions /\ GetSiteException(Kind(t).initiator) \in Exceptions
    BY ExceptionTyped DEF Exception
<1>5. ASSUME NEW k, BeginHop(t, k), Kind(t)' = k, local'[t] = Fresh,
             pc'[t] \in {"unthrottled", "sanitize", "policy"}
      PROVE  OffInv(t)' /\ ExemptInv(t)'
    <2>1. witness'[t] = [Unwitnessed EXCEPT !.exempt = Exception(k.initiator) = "kAllowAll",
                                            !.off = ~enabled,
                                            !.audience = RulesOf(listeners_)]
        BY <1>1, <1>5 DEF BeginHop, Witness
    <2>2. witness'[t].exempt <=> Exception(k.initiator) = "kAllowAll"
        BY <2>1 DEF Unwitnessed
    <2>3. witness'[t].off <=> ~enabled
        BY <2>1 DEF Unwitnessed
    <2>4. local'[t].decision = "kAllow" /\ local'[t].event = "none"
        BY <1>5 DEF Fresh
    <2>5. OffInv(t)'
        BY <1>2, <1>5, <2>3, <2>4 DEF OffInv
    <2>6. ExemptInv(t)'
        BY <1>3, <1>5, <2>2, <2>4 DEF ExemptInv, Consulting
    <2> QED
        BY <2>5, <2>6
<1>6. CASE MaybeCreate(t)
    <2>1. BeginHop(t, Kind(t)) /\ UNCHANGED <<request, local>> /\ pc[t] = "idle"
          /\ pc'[t] \in {"unthrottled", "sanitize", "policy"}
        BY <1>1, <1>6 DEF MaybeCreate, Goto, FirstStep
    <2>2. Kind(t)' = Kind(t) /\ local'[t] = Fresh
        BY <1>1, <2>1 DEF Kind, OffInv
    <2> QED
        BY <1>5, <2>1, <2>2
<1>7. CASE SanitizeUrl(t)
    <2>1. /\ pc[t] = "sanitize" /\ UNCHANGED witness /\ Kind(t)'.initiator = Kind(t).initiator
          /\ local'[t].decision = local[t].decision
          /\ pc'[t] \in {"generate_id", "policy"}
          /\ ~enabled => pc'[t] = "policy" /\ local'[t] = local[t]
        <3>1. request[t].kind \in RequestRecords /\ local[t] \in Locals
            BY <1>1, RequestTyped
        <3>2. StripTrackingParameters(request[t].kind).initiator = request[t].kind.initiator
            BY <3>1 DEF StripTrackingParameters, RequestRecords
        <3>3. CASE enabled /\ Kind(t).tracking
            <4>1. /\ pc[t] = "sanitize" /\ UNCHANGED witness /\ pc'[t] = "generate_id"
                  /\ request'[t] = [request[t] EXCEPT !.kind = StripTrackingParameters(@)]
                  /\ local'[t] = [local[t] EXCEPT !.event = "tracking_parameter_removed",
                                                 !.resume = "policy"]
                BY <1>1, <1>7, <3>3 DEF SanitizeUrl, Goto, Emit, Assign
            <4>2. local'[t].decision = local[t].decision
                BY <3>1, <4>1 DEF Locals
            <4>3. request'[t].kind = StripTrackingParameters(request[t].kind)
                BY <1>1, <4>1
            <4> QED
                BY <3>2, <3>3, <4>1, <4>2, <4>3 DEF Kind
        <3>4. CASE ~(enabled /\ Kind(t).tracking)
            BY <1>1, <1>7, <3>4 DEF SanitizeUrl, Goto, Kind
        <3> QED
            BY <3>3, <3>4
    <2> QED
        BY <1>1, <1>2, <1>3, <2>1 DEF OffInv, ExemptInv, Running, Consulting
<1>8. CASE EvaluateRequest(t)
    <2>1. /\ pc[t] = "policy" /\ UNCHANGED <<witness, request, local>>
          /\ pc'[t] \in {"site_host", "done"} /\ (~enabled => pc'[t] = "done")
        BY <1>1, <1>8 DEF EvaluateRequest, Goto
    <2> QED
        BY <1>1, <1>2, <1>3, <2>1 DEF OffInv, ExemptInv, Running, Consulting, Kind
<1>9. ASSUME NEW exception, ApplyException(t, exception), UNCHANGED request,
             ~witness[t].off,
             pc[t] \in {"site_host", "site_domain"},
             witness[t].settled /\ witness[t].exempt => exception = "kAllowAll"
      PROVE  OffInv(t)' /\ ExemptInv(t)'
    <2>1. /\ local'[t].decision = local[t].decision
          /\ \/ exception = "kAllowAll" /\ pc'[t] = "generate_id" /\ UNCHANGED witness
             \/ exception # "kAllowAll" /\ pc'[t] = "known_tracker"
                /\ witness'[t].off = witness[t].off
                /\ witness'[t].settled = witness[t].settled
                /\ witness'[t].exempt = witness[t].exempt
        <3>1. local[t] \in Locals /\ witness[t] \in Witnesses
            BY <1>1
        <3>2. CASE exception = "kAllowAll"
            <4>1. /\ pc'[t] = "generate_id" /\ UNCHANGED witness
                  /\ local'[t] = [[local[t] EXCEPT !.exception = exception]
                        EXCEPT !.event = "policy_exception_applied", !.resume = "done"]
                BY <1>1, <1>9, <3>2 DEF ApplyException, Emit, Assign, Goto
            <4> QED
                BY <3>1, <3>2, <4>1 DEF Locals
        <3>3. CASE exception # "kAllowAll"
            <4>1. /\ pc'[t] = "known_tracker"
                  /\ local'[t] = [local[t] EXCEPT !.exception = exception]
                  /\ witness'[t] = [witness[t] EXCEPT
                        !.before = rules, !.standing = RulesOf(rules),
                        !.ever = RulesOf(rules), !.changes = 0]
                BY <1>1, <1>9, <3>3 DEF ApplyException, Assign, Goto, Witness
            <4>2. local'[t].decision = local[t].decision
                BY <3>1, <4>1 DEF Locals
            <4>3. /\ witness'[t].off = witness[t].off
                  /\ witness'[t].settled = witness[t].settled
                  /\ witness'[t].exempt = witness[t].exempt
                BY <3>1, <4>1 DEF Witnesses
            <4> QED
                BY <3>3, <4>1, <4>2, <4>3
        <3> QED
            BY <3>2, <3>3
    <2>2. Kind(t)' = Kind(t)
        BY <1>9 DEF Kind
    <2> QED
        BY <1>1, <1>2, <1>3, <1>9, <2>1, <2>2 DEF OffInv, ExemptInv, Running, Consulting
<1>10. CASE LookupHostException(t)
    <2>1. pc[t] = "site_host" /\ UNCHANGED request /\ Kind(t)' = Kind(t) /\ ~witness[t].off
        BY <1>1, <1>10 DEF LookupHostException, Kind, OffInv
    <2>2. CASE GetSiteException(Kind(t).initiator) = "kDefault" /\ Kind(t).initiator # NoHost
        <3>1. pc'[t] = "site_domain" /\ UNCHANGED <<local, witness>>
            BY <1>1, <1>10, <2>2 DEF LookupHostException, Goto
        <3> QED
            BY <1>1, <1>2, <1>3, <2>1, <2>2, <3>1 DEF OffInv, ExemptInv, Running, Consulting
    <2>3. CASE ~(GetSiteException(Kind(t).initiator) = "kDefault" /\ Kind(t).initiator # NoHost)
        <3>1. ApplyException(t, GetSiteException(Kind(t).initiator))
            BY <1>10, <2>3 DEF LookupHostException
        <3>2. GetDomain(NoHost) = NoHost
            BY DEF GetDomain, NoHost
        <3>3. Exception(Kind(t).initiator) = "kAllowAll"
                => GetSiteException(Kind(t).initiator) = "kAllowAll"
            BY <2>3, <3>2 DEF Exception
        <3> QED
            BY <1>1, <1>9, <2>1, <3>1, <3>3 DEF ExemptInv, Running
    <2> QED
        BY <2>2, <2>3
<1>11. CASE LookupDomainException(t)
    <2>1. /\ pc[t] = "site_domain" /\ UNCHANGED request /\ ~witness[t].off
          /\ ApplyException(t, GetSiteException(GetDomain(Kind(t).initiator)))
        BY <1>1, <1>11 DEF LookupDomainException, OffInv
    <2>2. witness[t].settled /\ witness[t].exempt
            => GetSiteException(GetDomain(Kind(t).initiator)) = "kAllowAll"
        BY <1>1, <2>1 DEF ExemptInv, Running, Exception
    <2> QED
        BY <1>9, <2>1, <2>2
<1>12. ASSUME UNCHANGED <<witness, request>>, ~witness[t].off,
              Consulting(t), pc'[t] \notin {"idle", "site_domain"}
       PROVE  OffInv(t)' /\ ExemptInv(t)'
    BY <1>1, <1>12 DEF OffInv, ExemptInv, Running, Consulting
<1>13. CASE LookupKnownTracker(t) \/ EvaluateAllowRules(t) \/ EvaluateBlockRules(t)
    <2>1. UNCHANGED <<witness, request>> /\ Consulting(t) /\ ~witness[t].off
        BY <1>1, <1>13 DEF LookupKnownTracker, EvaluateAllowRules, EvaluateBlockRules,
           Consulting, OffInv
    <2>2. pc'[t] \in {"allow_rules", "block_rules", "generate_id", "done"}
        BY <1>1, <1>13 DEF LookupKnownTracker, EvaluateAllowRules, EvaluateBlockRules, Report,
           Goto, Emit, Assign
    <2> QED
        BY <1>12, <2>1, <2>2
<1>14. ASSUME UNCHANGED <<witness, request>>, local'[t].decision = local[t].decision,
              pc[t] \in {"generate_id", "dispatch", "call"},
              pc'[t] \in {"dispatch", "call", "policy", "done"}
       PROVE  OffInv(t)' /\ ExemptInv(t)'
    BY <1>1, <1>3, <1>14 DEF OffInv, ExemptInv, Running, Consulting, Kind
<1>15. CASE GenerateEventId(t) \/ DispatchEvent(t) \/ CallListener(t) \/ EventDispatched(t)
    <2>1. UNCHANGED <<witness, request>> /\ local'[t].decision = local[t].decision
          /\ pc[t] \in {"generate_id", "dispatch", "call"}
        BY <1>1, <1>15 DEF GenerateEventId, DispatchEvent, CallListener, EventDispatched,
           Assign, Locals
    <2>2. pc'[t] \in {"dispatch", "call", "policy", "done"}
        BY <1>1, <1>15 DEF GenerateEventId, DispatchEvent, CallListener, EventDispatched,
           Goto, Locals
    <2> QED
        BY <1>14, <2>1, <2>2
<1>16. ASSUME NEW k \in RequestKinds, WillRedirectRequest(t, k)
       PROVE  OffInv(t)' /\ ExemptInv(t)'
    <2> DEFINE redirected == [k EXCEPT !.resource_type =
                    IF k.throttle = "navigation" THEN Kind(t).resource_type ELSE "kOther"]
    <2>1. /\ request'[t] = [kind |-> redirected, hops |-> request[t].hops + 1]
          /\ BeginHop(t, redirected) /\ pc'[t] = FirstStep(redirected)
          /\ local'[t] = Fresh
        BY <1>1, <1>16 DEF WillRedirectRequest, Goto, Assign
    <2> HIDE DEF redirected
    <2>2. Kind(t)' = redirected /\ pc'[t] \in {"unthrottled", "sanitize", "policy"}
        BY <2>1 DEF Kind, FirstStep
    <2> QED
        BY <1>5, <2>1, <2>2
<1> QED
    BY <1>6, <1>7, <1>8, <1>10, <1>11, <1>13, <1>15, <1>16 DEF Step

\* A change of the settings during a hop is witnessed: turning the protection on
\* ends off, and setting an exception ends settled.
LEMMA HopSettings ==
    ASSUME Typed, HopInv, Settings, NEW t \in Requests
    PROVE  OffInv(t)' /\ ExemptInv(t)'
<1>1. /\ OffInv(t) /\ ExemptInv(t) /\ witness[t] \in Witnesses /\ enabled \in BOOLEAN
    BY DEF Typed, HopInv
<1>2. UNCHANGED <<request, pc, local>>
    BY SettingsFrame
<1>3. Kind(t)' = Kind(t) /\ (Running(t)' <=> Running(t)) /\ (Consulting(t)' <=> Consulting(t))
    BY <1>2 DEF Kind, Running, Consulting
<1>4. ASSUME UNCHANGED <<enabled, site_exceptions>>,
             /\ witness'[t].off = witness[t].off /\ witness'[t].settled = witness[t].settled
             /\ witness'[t].exempt = witness[t].exempt
      PROVE  OffInv(t)' /\ ExemptInv(t)'
    <2>1. \A h : GetSiteException(h)' = GetSiteException(h) /\ Exception(h)' = Exception(h)
        BY <1>4 DEF GetSiteException, Exception
    <2> QED
        BY <1>1, <1>2, <1>3, <1>4, <2>1 DEF OffInv, ExemptInv
<1>5. ASSUME NEW now, NEW by, RulesBecome(now, by)
      PROVE  /\ witness'[t].off = witness[t].off /\ witness'[t].settled = witness[t].settled
             /\ witness'[t].exempt = witness[t].exempt
    BY <1>1, <1>5 DEF RulesBecome, Witnesses
<1>6. CASE \/ \E list \in RuleLists : LoadFromText(list)
           \/ \E l \in Listeners : AddListener(l)
    BY <1>4, <1>6 DEF LoadFromText, AddListener
<1>7. CASE LoadNextRule \/ Clear \/ \E d \in Databases : SetDatabase(d)
    <2>1. UNCHANGED <<enabled, site_exceptions>>
        BY <1>7 DEF LoadNextRule, Clear, SetDatabase
    <2>2. \E now, by : RulesBecome(now, by)
        BY <1>7 DEF LoadNextRule, Clear, SetDatabase
    <2> QED
        BY <1>4, <1>5, <2>1, <2>2
<1>8. CASE ClearListeners
    <2>1. UNCHANGED <<enabled, site_exceptions>>
          /\ witness'[t].off = witness[t].off /\ witness'[t].settled = witness[t].settled
          /\ witness'[t].exempt = witness[t].exempt
        BY <1>1, <1>8 DEF ClearListeners, Witnesses
    <2> QED
        BY <1>4, <2>1
<1>9. CASE \E s \in Sites, e \in Exceptions : SetSiteException(s, e)
    <2>1. PICK s \in Sites, e \in Exceptions : SetSiteException(s, e)
        BY <1>9
    <2>2. UNCHANGED enabled
        BY <2>1 DEF SetSiteException
    <2>3. CASE Running(t)
        <3>1. witness'[t].settled = FALSE /\ witness'[t].off = witness[t].off
            BY <1>1, <2>1, <2>3 DEF SetSiteException, Witnesses
        <3> QED
            BY <1>1, <1>2, <1>3, <2>2, <3>1 DEF OffInv, ExemptInv
    <2>4. CASE ~Running(t)
        <3>1. witness'[t] = witness[t] /\ pc[t] # "site_domain"
            BY <2>1, <2>4 DEF SetSiteException, Running
        <3> QED
            BY <1>1, <1>2, <1>3, <2>2, <2>4, <3>1 DEF OffInv, ExemptInv
    <2> QED
        BY <2>3, <2>4
<1>10. CASE \E on \in BOOLEAN : SetPrivacyProtectionEnabled(on)
    <2>1. PICK on \in BOOLEAN : SetPrivacyProtectionEnabled(on)
        BY <1>10
    <2>2. /\ witness'[t].off <=> witness[t].off /\ (~on \/ ~Running(t))
          /\ witness'[t].settled = witness[t].settled
          /\ witness'[t].exempt = witness[t].exempt
          /\ enabled' = on /\ UNCHANGED site_exceptions
        BY <1>1, <2>1 DEF SetPrivacyProtectionEnabled, Witnesses
    <2>3. \A h : GetSiteException(h)' = GetSiteException(h) /\ Exception(h)' = Exception(h)
        BY <2>2 DEF GetSiteException, Exception
    <2>4. ExemptInv(t)'
        BY <1>1, <1>2, <1>3, <2>2, <2>3 DEF ExemptInv
    <2>5. OffInv(t)'
        BY <1>1, <1>2, <1>3, <2>2 DEF OffInv
    <2> QED
        BY <2>4, <2>5
<1> QED
    BY <1>6, <1>7, <1>8, <1>9, <1>10 DEF Settings, Exceptions

\* Every step keeps it for every request.
LEMMA HopInductive ==
    ASSUME Typed, HopInv, [Next]_vars
    PROVE  HopInv'
<1>1. CASE UNCHANGED vars
    BY <1>1 DEF vars, settings, HopInv, OffInv, ExemptInv, Running, Consulting, Kind,
       GetSiteException, Exception
<1>2. CASE Settings
    BY <1>2, HopSettings DEF HopInv
<1>3. ASSUME NEW t \in Requests, Step(t), NEW u \in Requests
      PROVE  OffInv(u)' /\ ExemptInv(u)'
    <2>1. CASE u = t
        BY <1>3, <2>1, HopStep
    <2>2. CASE u # t
        <3>1. /\ pc'[u] = pc[u] /\ local'[u] = local[u]
              /\ request'[u] = request[u] /\ witness'[u] = witness[u]
              /\ UNCHANGED <<enabled, site_exceptions>>
            BY <1>3, <2>2, OthersUnchanged DEF settings
        <3>2. OffInv(u) /\ ExemptInv(u)
            BY DEF HopInv
        <3> QED
            BY <3>1, <3>2 DEF OffInv, ExemptInv, Running, Consulting, Kind,
               GetSiteException, Exception
    <2> QED
        BY <2>1, <2>2
<1> QED
    BY <1>1, <1>2, <1>3 DEF Next, HopInv

\* What a hop owes to switch and exceptions holds always.
LEMMA SpecHop == Spec => []HopInv
<1>1. Typed /\ HopInv /\ [Next]_vars => HopInv'
    BY HopInductive
<1> QED
    BY <1>1, InitHop, EngineInductive, PTL DEF Spec

\* However often the switch is turned, a hop that runs while the protection is off
\* is neither blocked nor reported.
THEOREM OffLeavesUntouched == Spec => []OffMeansUntouched
<1>1. HopInv => OffMeansUntouched
    BY DEF HopInv, OffInv, OffMeansUntouched, Blocked
<1> QED
    BY <1>1, SpecHop, PTL

\* A site that is allowed everything is not blocked, whatever the rules and the
\* other requests, as long as its exceptions are left alone meanwhile.
THEOREM ExemptNeverBlocked == Spec => []ExemptSiteNotBlocked
<1>1. HopInv => ExemptSiteNotBlocked
    BY DEF HopInv, ExemptInv, ExemptSiteNotBlocked, Blocked
<1> QED
    BY <1>1, SpecHop, PTL

-----------------------------------------------------------------------------
(* The events *)

\* The request holds an id that listeners may be called with.
Numbered(t) == pc[t] \in {"dispatch", "call"}

\* An id that is out is below the counter; one that is being dispatched belongs to
\* one request, and a listener that heard it heard that request's event.
IdInv ==
    /\ \A l \in Listeners : \A i \in DOMAIN heard[l] : heard[l][i].id < event_counter
    /\ \A t, u \in Requests :
            Numbered(t) /\ Numbered(u) /\ t # u => local[t].id # local[u].id
    /\ \A t \in Requests, l \in Listeners : \A i \in DOMAIN heard[l] :
            Numbered(t) /\ heard[l][i].id = local[t].id => heard[l][i] = PrivacyEvent(t)
    /\ EventIdsUnique

\* Only GenerateEventId touches the counter, and only CallListener what is heard.
LEMMA EventFrame ==
    ASSUME NEW t \in Requests, Step(t)
    PROVE  /\ GenerateEventId(t) \/ UNCHANGED event_counter
           /\ CallListener(t) \/ UNCHANGED heard
<1>1. CASE MaybeCreate(t) \/ SanitizeUrl(t) \/ EvaluateRequest(t)
    BY <1>1 DEF MaybeCreate, SanitizeUrl, EvaluateRequest
<1>2. CASE LookupHostException(t) \/ LookupDomainException(t) \/ LookupKnownTracker(t)
    BY <1>2 DEF LookupHostException, LookupDomainException, LookupKnownTracker
<1>3. CASE EvaluateAllowRules(t) \/ EvaluateBlockRules(t)
    BY <1>3 DEF EvaluateAllowRules, EvaluateBlockRules
<1>4. CASE DispatchEvent(t) \/ EventDispatched(t)
    BY <1>4 DEF DispatchEvent, EventDispatched
<1>5. CASE GenerateEventId(t)
    BY <1>5 DEF GenerateEventId
<1>6. CASE CallListener(t)
    BY <1>6 DEF CallListener
<1>7. ASSUME NEW k \in RequestKinds, WillRedirectRequest(t, k)
      PROVE  UNCHANGED <<event_counter, heard>>
    BY <1>7 DEF WillRedirectRequest
<1> QED
    BY <1>1, <1>2, <1>3, <1>4, <1>5, <1>6, <1>7 DEF Step

\* While a request holds an id its event stays what it is.
LEMMA EventKept ==
    ASSUME Typed, NEW t \in Requests, Step(t), ~GenerateEventId(t), Numbered(t)'
    PROVE  Numbered(t) /\ local'[t].id = local[t].id /\ PrivacyEvent(t)' = PrivacyEvent(t)
<1>1. /\ pc \in [Requests -> Labels] /\ local \in [Requests -> Locals] /\ local[t] \in Locals
      /\ local[t].resume \in {"policy", "done"}
    BY DEF Typed, Locals
<1>2. pc'[t] \in {"dispatch", "call"}
    BY DEF Numbered
<1>3. CASE DispatchEvent(t) \/ CallListener(t)
    <2>1. /\ pc[t] \in {"dispatch", "call"} /\ UNCHANGED request
          /\ \E audience : local'[t] = [local[t] EXCEPT !.audience = audience]
        BY <1>1, <1>3 DEF DispatchEvent, CallListener, Assign
    <2>2. /\ local'[t].id = local[t].id /\ local'[t].event = local[t].event
          /\ local'[t].matched = local[t].matched
        BY <1>1, <2>1 DEF Locals
    <2> QED
        BY <2>1, <2>2 DEF Numbered, PrivacyEvent
<1>4. CASE EventDispatched(t)
    BY <1>1, <1>2, <1>4 DEF EventDispatched, Goto
<1>5. ~MaybeCreate(t) /\ ~SanitizeUrl(t) /\ ~EvaluateRequest(t)
    BY <1>1, <1>2 DEF MaybeCreate, SanitizeUrl, EvaluateRequest, Goto, Emit, Assign, FirstStep
<1>6. ~LookupHostException(t) /\ ~LookupDomainException(t) /\ ~LookupKnownTracker(t)
    BY <1>1, <1>2 DEF LookupHostException, LookupDomainException, LookupKnownTracker,
       ApplyException, Goto, Emit, Assign
<1>7. ~EvaluateAllowRules(t) /\ ~EvaluateBlockRules(t)
    BY <1>1, <1>2 DEF EvaluateAllowRules, EvaluateBlockRules, Report, Goto, Emit, Assign
<1>8. \A k \in RequestKinds : ~WillRedirectRequest(t, k)
    BY <1>1, <1>2 DEF WillRedirectRequest, Goto, FirstStep
<1> QED
    BY <1>3, <1>4, <1>5, <1>6, <1>7, <1>8 DEF Step

\* A listener that is called hears one event more than before.
LEMMA Heard ==
    ASSUME Typed, NEW t \in Requests, CallListener(t)
    PROVE  \E to \in Listeners :
            /\ to = Head(local[t].audience)
            /\ \A l \in Listeners \ {to} : heard'[l] = heard[l]
            /\ DOMAIN heard'[to] = DOMAIN heard[to] \cup {Len(heard[to]) + 1}
            /\ Len(heard[to]) + 1 \notin DOMAIN heard[to]
            /\ \A i \in DOMAIN heard[to] : heard'[to][i] = heard[to][i]
            /\ heard'[to][Len(heard[to]) + 1] = PrivacyEvent(t)
<1> DEFINE to == Head(local[t].audience)
<1>1. local[t].audience \in Seq(Listeners) /\ local[t].audience # <<>>
    BY DEF Typed, Locals, CallListener
<1>2. to \in Listeners
    BY <1>1
<1>3. heard' = [heard EXCEPT ![to] = Append(@, PrivacyEvent(t))]
    BY DEF CallListener
<1> HIDE DEF to
<1>4. PrivacyEvent(t) \in EventRecords
    BY DEF Typed, PrivacyEvent, EventRecords, Locals
<1>5. heard[to] \in Seq(EventRecords) /\ heard \in [Listeners -> Seq(EventRecords)]
    BY <1>2 DEF Typed
<1>6. heard'[to] = Append(heard[to], PrivacyEvent(t))
      /\ \A l \in Listeners \ {to} : heard'[l] = heard[l]
    BY <1>2, <1>3, <1>5
<1>7. DOMAIN heard[to] = 1..Len(heard[to]) /\ Len(heard[to]) \in Nat
    BY <1>5
<1>8. /\ DOMAIN heard'[to] = 1..(Len(heard[to]) + 1)
      /\ \A i \in 1..Len(heard[to]) : heard'[to][i] = heard[to][i]
      /\ heard'[to][Len(heard[to]) + 1] = PrivacyEvent(t)
    BY <1>4, <1>5, <1>6
<1>9. /\ 1..(Len(heard[to]) + 1) = 1..Len(heard[to]) \cup {Len(heard[to]) + 1}
      /\ Len(heard[to]) + 1 \notin 1..Len(heard[to])
    BY <1>7
<1> QED
    BY <1>2, <1>6, <1>7, <1>8, <1>9 DEF to

\* Initially no id is out.
LEMMA InitIds == Init => IdInv
BY DEF Init, IdInv, EventIdsUnique, Numbered

\* A step that takes no id and calls nobody.
LEMMA QuietKeepsIds ==
    ASSUME Typed, IdInv, UNCHANGED <<event_counter, heard>>,
           \A t \in Requests : Numbered(t)' =>
                Numbered(t) /\ local'[t].id = local[t].id /\ PrivacyEvent(t)' = PrivacyEvent(t)
    PROVE  IdInv'
BY DEF IdInv, EventIdsUnique

\* Every step keeps the ids apart: a new one is the counter, above all others.
LEMMA IdsInductive ==
    ASSUME Typed, IdInv, [Next]_vars
    PROVE  IdInv'
<1>1. CASE UNCHANGED vars
    BY <1>1, QuietKeepsIds DEF vars, settings, Numbered, PrivacyEvent
<1>2. CASE Settings
    BY <1>2, SettingsFrame, QuietKeepsIds DEF Numbered, PrivacyEvent
<1>3. ASSUME NEW t \in Requests, Step(t), NEW u \in Requests, ~GenerateEventId(t),
             Numbered(u)'
      PROVE  Numbered(u) /\ local'[u].id = local[u].id /\ PrivacyEvent(u)' = PrivacyEvent(u)
    <2>1. CASE u = t
        BY <1>3, <2>1, EventKept
    <2>2. CASE u # t
        <3>1. pc'[u] = pc[u] /\ local'[u] = local[u] /\ request'[u] = request[u]
            BY <1>3, <2>2, OthersUnchanged
        <3> QED
            BY <1>3, <3>1 DEF Numbered, PrivacyEvent
    <2> QED
        BY <2>1, <2>2
<1>4. ASSUME NEW t \in Requests, CallListener(t), Step(t)
      PROVE  IdInv'
    <2>1. PICK to \in Listeners :
            /\ \A l \in Listeners \ {to} : heard'[l] = heard[l]
            /\ DOMAIN heard'[to] = DOMAIN heard[to] \cup {Len(heard[to]) + 1}
            /\ \A i \in DOMAIN heard[to] : heard'[to][i] = heard[to][i]
            /\ heard'[to][Len(heard[to]) + 1] = PrivacyEvent(t)
        BY <1>4, Heard
    <2>2. UNCHANGED event_counter /\ ~GenerateEventId(t) /\ Numbered(t)
        BY <1>4 DEF CallListener, GenerateEventId, Numbered
    <2>3. ASSUME NEW l \in Listeners, NEW i \in DOMAIN heard'[l]
          PROVE  heard'[l][i] = PrivacyEvent(t)
                    \/ (i \in DOMAIN heard[l] /\ heard'[l][i] = heard[l][i])
        BY <2>1, <2>3
    <2>4. PrivacyEvent(t).id = local[t].id /\ local[t].id < event_counter
        BY DEF PrivacyEvent, Typed
    <2>5. \A u \in Requests : Numbered(u)' =>
            Numbered(u) /\ local'[u].id = local[u].id /\ PrivacyEvent(u)' = PrivacyEvent(u)
        BY <1>3, <1>4, <2>2
    <2>6. \A l \in Listeners : \A i \in DOMAIN heard'[l] : heard'[l][i].id < event_counter
        BY <2>3, <2>4 DEF IdInv
    <2>7. \A u, w \in Requests :
            Numbered(u)' /\ Numbered(w)' /\ u # w => local'[u].id # local'[w].id
        BY <2>5 DEF IdInv
    <2>8. ASSUME NEW u \in Requests, NEW l \in Listeners, NEW i \in DOMAIN heard'[l],
                 Numbered(u)', heard'[l][i].id = local'[u].id
          PROVE  heard'[l][i] = PrivacyEvent(u)'
        <3>1. CASE heard'[l][i] = PrivacyEvent(t)
            BY <2>2, <2>4, <2>5, <2>8, <3>1 DEF IdInv
        <3>2. CASE i \in DOMAIN heard[l] /\ heard'[l][i] = heard[l][i]
            BY <2>5, <2>8, <3>2 DEF IdInv
        <3> QED
            BY <2>3, <3>1, <3>2
    <2>9. ASSUME NEW l \in Listeners, NEW i \in DOMAIN heard'[l],
                 NEW m \in Listeners, NEW j \in DOMAIN heard'[m],
                 heard'[l][i].id = heard'[m][j].id
          PROVE  heard'[l][i] = heard'[m][j]
        BY <2>2, <2>3, <2>4, <2>9 DEF IdInv, EventIdsUnique
    <2> QED
        BY <2>2, <2>6, <2>7, <2>8, <2>9 DEF IdInv, EventIdsUnique
<1>5. ASSUME NEW t \in Requests, GenerateEventId(t), Step(t)
      PROVE  IdInv'
    <2>1. /\ local'[t].id = event_counter /\ event_counter' = event_counter + 1
          /\ UNCHANGED heard /\ event_counter \in Nat
        <3>1. local'[t] = [local[t] EXCEPT !.id = event_counter] /\ local[t] \in Locals
              /\ event_counter' = event_counter + 1 /\ UNCHANGED heard
            BY <1>5 DEF GenerateEventId, Assign, Typed
        <3>2. local'[t].id = event_counter
            BY <3>1 DEF Locals
        <3> QED
            BY <3>1, <3>2 DEF Typed
    <2>2. \A u \in Requests \ {t} : /\ pc'[u] = pc[u] /\ local'[u] = local[u]
                                    /\ request'[u] = request[u]
        BY <1>5, OthersUnchanged
    <2>3. \A u \in Requests \ {t} :
            /\ (Numbered(u)' <=> Numbered(u)) /\ PrivacyEvent(u)' = PrivacyEvent(u)
            /\ local'[u].id = local[u].id
        BY <2>2 DEF Numbered, PrivacyEvent
    <2>4. \A u \in Requests : local[u].id < event_counter /\ local[u].id \in Nat
        BY DEF Typed, Locals
    <2>5. \A l \in Listeners : \A i \in DOMAIN heard[l] :
            heard[l][i].id \in Nat /\ heard[l][i].id < event_counter
        <3>1. ASSUME NEW l \in Listeners, NEW i \in DOMAIN heard[l]
              PROVE  heard[l][i].id \in Nat
            <4>1. heard[l] \in Seq(EventRecords)
                BY DEF Typed
            <4>2. heard[l][i] \in EventRecords
                BY <4>1
            <4> QED
                BY <4>2 DEF EventRecords
        <3> QED
            BY <3>1 DEF IdInv
    <2>6. \A l \in Listeners : \A i \in DOMAIN heard[l] :
            heard[l][i].id < event_counter' /\ heard[l][i].id # event_counter
        BY <2>1, <2>5
    <2>7. \A u \in Requests : local[u].id # event_counter
        BY <2>1, <2>4
    <2>8. \A u, w \in Requests :
            Numbered(u)' /\ Numbered(w)' /\ u # w => local'[u].id # local'[w].id
        BY <2>1, <2>3, <2>7 DEF IdInv
    <2>9. \A u \in Requests, l \in Listeners : \A i \in DOMAIN heard[l] :
            Numbered(u)' /\ heard[l][i].id = local'[u].id => heard[l][i] = PrivacyEvent(u)'
        BY <2>1, <2>3, <2>6 DEF IdInv
    <2> QED
        BY <2>1, <2>6, <2>8, <2>9 DEF IdInv, EventIdsUnique
<1>6. ASSUME NEW t \in Requests, Step(t)
      PROVE  IdInv'
    <2>1. CASE ~GenerateEventId(t) /\ ~CallListener(t)
        BY <1>3, <1>6, <2>1, EventFrame, QuietKeepsIds
    <2> QED
        BY <1>4, <1>5, <1>6, <2>1
<1> QED
    BY <1>1, <1>2, <1>6 DEF Next

\* No two events carry the same id, for any number of requests and listeners.
THEOREM IdsAreUnique == Spec => []EventIdsUnique
<1>1. Typed /\ IdInv /\ [Next]_vars => IdInv'
    BY IdsInductive
<1>2. IdInv => EventIdsUnique
    BY DEF IdInv
<1> QED
    BY <1>1, <1>2, InitIds, EngineInductive, PTL DEF Spec
=============================================================================
