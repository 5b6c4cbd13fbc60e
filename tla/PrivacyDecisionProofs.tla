------------------------- MODULE PrivacyDecisionProofs -------------------------
(***************************************************************************)
(* Proofs about PrivacyEngine, continued: what the listeners hear of a     *)
(* block, and what the decision of an evaluation owes to rules that change *)
(* while it runs.                                                          *)
(***************************************************************************)
EXTENDS PrivacyEngineProofs

(* What a step does *)

\* The result under construction stays what it is.
SameResult(t) ==
    /\ local'[t].decision = local[t].decision
    /\ local'[t].matched = local[t].matched
    /\ local'[t].exception = local[t].exception

\* And so does the event.
SameEvent(t) ==
    /\ local'[t].event = local[t].event /\ local'[t].resume = local[t].resume

Begins(t) ==
    /\ pc'[t] \in {"unthrottled", "sanitize", "policy"}
    /\ local'[t] = Fresh
    /\ witness'[t].audience = RulesOf(listeners_) /\ witness'[t].before = <<>>

Sanitizes(t) ==
    /\ pc[t] = "sanitize" /\ UNCHANGED witness /\ SameResult(t)
    /\ pc'[t] = "policy" \/ (pc'[t] = "generate_id" /\ local'[t].resume = "policy")

\* On towards the rules, or to the end when the protection is off.
Looks(t) ==
    /\ pc[t] \in {"policy", "site_host"} /\ UNCHANGED <<witness, request, local>>
    /\ pc'[t] \in {"site_host", "site_domain", "done"}

Exempts(t) ==
    /\ pc[t] \in {"site_host", "site_domain"} /\ UNCHANGED <<witness, request>>
    /\ pc'[t] = "generate_id" /\ local'[t].resume = "done"
    /\ local'[t].exception = "kAllowAll"
    /\ local'[t].decision = local[t].decision

Consults(t) ==
    /\ pc[t] \in {"site_host", "site_domain"} /\ UNCHANGED request
    /\ pc'[t] = "known_tracker" /\ local'[t].decision = local[t].decision
    /\ witness'[t] = [witness[t] EXCEPT !.before = rules, !.standing = RulesOf(rules),
                                        !.ever = RulesOf(rules), !.changes = 0]

\* On to the next lookup, without a result.
Continues(t) ==
    /\ UNCHANGED <<witness, request>> /\ SameResult(t)
    /\ \/ pc[t] = "known_tracker" /\ pc'[t] = "allow_rules"
       \/ /\ pc[t] = "allow_rules" /\ pc'[t] = "block_rules"
          /\ FirstApplicable(rules, "kAllow", Kind(t)) = NoRule

\* The report of a result that allows; its end is decided.
AllowedEnd(t) ==
    /\ pc'[t] \in {"generate_id", "done"}
    /\ pc'[t] = "generate_id" => local'[t].resume = "done"

\* An allow rule ends the evaluation, or no rule blocks.
Allows(t) ==
    /\ UNCHANGED <<witness, request>> /\ local'[t].decision = local[t].decision
    /\ local[t].decision = "kAllow" => AllowedEnd(t)
    /\ \/ /\ pc[t] = "allow_rules"
          /\ FirstApplicable(rules, "kAllow", Kind(t)) # NoRule
       \/ /\ pc[t] = "block_rules"
          /\ FirstApplicable(rules, "kBlock", Kind(t)) = NoRule

Blocks(t) ==
    /\ pc[t] = "block_rules" /\ UNCHANGED <<witness, request>>
    /\ FirstApplicable(rules, "kBlock", Kind(t)) # NoRule
    /\ local'[t].matched = FirstApplicable(rules, "kBlock", Kind(t))
    /\ local'[t].decision = "kBlock"
    /\ pc'[t] = "generate_id" /\ local'[t].resume = "done"
    /\ local'[t].event = "request_blocked"

\* A step of the dispatch: an id, the audience, a listener, the way back.
Dispatches(t) ==
    /\ UNCHANGED <<witness, request>> /\ SameResult(t) /\ SameEvent(t)
    /\ \/ pc[t] = "generate_id" /\ pc'[t] = "dispatch"
       \/ pc[t] = "dispatch" /\ pc'[t] = "call" /\ local'[t].audience = listeners_
       \/ /\ CallListener(t) /\ pc[t] = "call" /\ pc'[t] = "call"
          /\ local'[t].audience = Tail(local[t].audience)
       \/ /\ pc[t] = "call" /\ pc'[t] = local[t].resume /\ local[t].audience = <<>>

\* Every step of a request is one of these.
LEMMA StepEffect ==
    ASSUME Typed, HopInv, NEW t \in Requests, Step(t)
    PROVE  \/ Begins(t) \/ Sanitizes(t) \/ Looks(t) \/ Exempts(t) \/ Consults(t)
           \/ Continues(t) \/ Allows(t) \/ Blocks(t) \/ Dispatches(t)
<1>1. /\ pc \in [Requests -> Labels] /\ local \in [Requests -> Locals] /\ local[t] \in Locals
      /\ request \in [Requests -> [kind : RequestRecords, hops : 0..MaxHops]]
      /\ witness \in [Requests -> Witnesses] /\ witness[t] \in Witnesses /\ OffInv(t)
    BY DEF Typed, HopInv
<1>2. ASSUME NEW k, BeginHop(t, k)
      PROVE  witness'[t].audience = RulesOf(listeners_) /\ witness'[t].before = <<>>
    <2>1. witness'[t] = [Unwitnessed EXCEPT !.exempt = Exception(k.initiator) = "kAllowAll",
                                            !.off = ~enabled,
                                            !.audience = RulesOf(listeners_)]
        BY <1>1, <1>2 DEF BeginHop, Witness
    <2> QED
        BY <2>1 DEF Unwitnessed
<1>3. CASE MaybeCreate(t)
    BY <1>1, <1>2, <1>3 DEF MaybeCreate, Goto, FirstStep, OffInv, Begins
<1>4. CASE \E k \in RequestKinds : WillRedirectRequest(t, k)
    <2>1. PICK k : BeginHop(t, k) /\ pc'[t] = FirstStep(k) /\ local'[t] = Fresh
        BY <1>1, <1>4 DEF WillRedirectRequest, Goto, Assign
    <2> QED
        BY <1>2, <2>1 DEF FirstStep, Begins
<1>5. CASE SanitizeUrl(t)
    <2>1. CASE enabled /\ Kind(t).tracking
        <3>1. /\ pc[t] = "sanitize" /\ UNCHANGED witness /\ pc'[t] = "generate_id"
              /\ local'[t] = [local[t] EXCEPT !.event = "tracking_parameter_removed",
                                              !.resume = "policy"]
            BY <1>1, <1>5, <2>1 DEF SanitizeUrl, Goto, Emit, Assign
        <3> QED
            BY <1>1, <3>1 DEF Locals, Sanitizes, SameResult
    <2>2. CASE ~(enabled /\ Kind(t).tracking)
        BY <1>1, <1>5, <2>2 DEF SanitizeUrl, Goto, Sanitizes, SameResult
    <2> QED
        BY <2>1, <2>2
<1>6. CASE EvaluateRequest(t)
    BY <1>1, <1>6 DEF EvaluateRequest, Goto, Looks
<1>7. ASSUME NEW exception, ApplyException(t, exception), UNCHANGED request,
             pc[t] \in {"site_host", "site_domain"}
      PROVE  Exempts(t) \/ Consults(t)
    <2>1. CASE exception = "kAllowAll"
        <3>1. /\ pc'[t] = "generate_id" /\ UNCHANGED witness
              /\ local'[t] = [[local[t] EXCEPT !.exception = exception]
                    EXCEPT !.event = "policy_exception_applied", !.resume = "done"]
            BY <1>1, <1>7, <2>1 DEF ApplyException, Emit, Assign, Goto
        <3> QED
            BY <1>1, <1>7, <2>1, <3>1 DEF Locals, Exempts
    <2>2. CASE exception # "kAllowAll"
        <3>1. /\ pc'[t] = "known_tracker"
              /\ local'[t] = [local[t] EXCEPT !.exception = exception]
              /\ witness'[t] = [witness[t] EXCEPT
                    !.before = rules, !.standing = RulesOf(rules),
                    !.ever = RulesOf(rules), !.changes = 0]
            BY <1>1, <1>7, <2>2 DEF ApplyException, Assign, Goto, Witness
        <3>2. local'[t].decision = local[t].decision
            BY <1>1, <3>1 DEF Locals
        <3> QED
            BY <1>7, <3>1, <3>2 DEF Consults
    <2> QED
        BY <2>1, <2>2
<1>8. CASE LookupHostException(t)
    <2>1. CASE GetSiteException(Kind(t).initiator) = "kDefault" /\ Kind(t).initiator # NoHost
        BY <1>1, <1>8, <2>1 DEF LookupHostException, Goto, Looks
    <2>2. CASE ~(GetSiteException(Kind(t).initiator) = "kDefault" /\ Kind(t).initiator # NoHost)
        BY <1>7, <1>8, <2>2 DEF LookupHostException
    <2> QED
        BY <2>1, <2>2
<1>9. CASE LookupDomainException(t)
    BY <1>7, <1>9 DEF LookupDomainException
<1>10. CASE LookupKnownTracker(t)
    BY <1>1, <1>10 DEF LookupKnownTracker, Goto, Assign, Locals, Continues, SameResult
<1>11. ASSUME NEW result \in Locals, Report(t, result)
       PROVE  /\ local'[t].decision = result.decision /\ local'[t].matched = result.matched
              /\ result.decision = "kAllow" => AllowedEnd(t)
              /\ result.decision = "kBlock" =>
                    /\ pc'[t] = "generate_id" /\ local'[t].resume = "done"
                    /\ local'[t].event = "request_blocked"
    <2>1. \/ /\ \E event : local'[t] = [result EXCEPT !.event = event, !.resume = "done"]
                    /\ (result.decision = "kBlock" => event = "request_blocked")
             /\ pc'[t] = "generate_id"
          \/ local'[t] = result /\ pc'[t] = "done" /\ result.decision = "kAllow"
        BY <1>1, <1>11 DEF Report, Emit, Assign, Goto
    <2> QED
        BY <1>11, <2>1 DEF Locals, AllowedEnd
<1>12. \A type \in {"kAllow", "kBlock"} :
            FirstApplicable(rules, type, Kind(t)) \in ParsedRules \cup {NoRule}
    <2>1. rules \in Seq(ParsedRules) /\ Kind(t) \in RequestRecords
        BY <1>1, RequestTyped DEF Typed, rules, Kind
    <2> QED
        BY <2>1, FirstCovers, RulesParsed
<1>13. CASE EvaluateAllowRules(t)
    <2> DEFINE rule == FirstApplicable(rules, "kAllow", Kind(t))
               allowed == [local[t] EXCEPT !.matched = rule]
    <2> HIDE DEF rule
    <2>1. CASE rule = NoRule
        BY <1>1, <1>13, <2>1 DEF EvaluateAllowRules, Goto, Continues, SameResult, rule
    <2>2. CASE rule # NoRule
        <3>1. allowed \in Locals /\ allowed.decision = local[t].decision
            BY <1>1, <1>12 DEF Locals, rule
        <3>2. pc[t] = "allow_rules" /\ Report(t, allowed) /\ UNCHANGED <<request, witness>>
            BY <1>13, <2>2 DEF EvaluateAllowRules, rule
        <3> HIDE DEF allowed
        <3> QED
            BY <1>11, <2>2, <3>1, <3>2 DEF Allows, rule
    <2> QED
        BY <2>1, <2>2
<1>14. CASE EvaluateBlockRules(t)
    <2> DEFINE rule == FirstApplicable(rules, "kBlock", Kind(t))
               blocked == [local[t] EXCEPT !.matched = rule, !.decision = "kBlock",
                                           !.classification = "kKnownTracker"]
    <2> HIDE DEF rule
    <2>1. CASE rule = NoRule
        <3>1. pc[t] = "block_rules" /\ Report(t, local[t]) /\ UNCHANGED <<request, witness>>
            BY <1>14, <2>1 DEF EvaluateBlockRules, rule
        <3> QED
            BY <1>1, <1>11, <2>1, <3>1 DEF Allows, rule
    <2>2. CASE rule # NoRule
        <3>1. blocked \in Locals /\ blocked.decision = "kBlock" /\ blocked.matched = rule
            BY <1>1, <1>12 DEF Locals, rule
        <3>2. pc[t] = "block_rules" /\ Report(t, blocked) /\ UNCHANGED <<request, witness>>
            BY <1>14, <2>2 DEF EvaluateBlockRules, rule
        <3> HIDE DEF blocked
        <3> QED
            BY <1>11, <2>2, <3>1, <3>2 DEF Blocks, rule
    <2> QED
        BY <2>1, <2>2
<1>15. CASE GenerateEventId(t)
    BY <1>1, <1>15 DEF GenerateEventId, Goto, Assign, Locals, Dispatches, SameResult, SameEvent
<1>16. CASE DispatchEvent(t)
    BY <1>1, <1>16 DEF DispatchEvent, Goto, Assign, Locals, Dispatches, SameResult, SameEvent
<1>17. CASE CallListener(t)
    <2>1. /\ pc[t] = "call" /\ UNCHANGED <<witness, request, pc>>
          /\ local'[t] = [local[t] EXCEPT !.audience = Tail(@)]
        BY <1>1, <1>17 DEF CallListener, Assign
    <2>2. local'[t].audience = Tail(local[t].audience) /\ SameResult(t) /\ SameEvent(t)
        BY <1>1, <2>1 DEF Locals, SameResult, SameEvent
    <2> QED
        BY <1>17, <2>1, <2>2 DEF Dispatches
<1>18. CASE EventDispatched(t)
    BY <1>1, <1>18 DEF EventDispatched, Goto, Dispatches, SameResult, SameEvent
<1> QED
    BY <1>3, <1>4, <1>5, <1>6, <1>8, <1>9, <1>10, <1>13, <1>14, <1>15, <1>16, <1>17, <1>18
    DEF Step

-----------------------------------------------------------------------------
(* The report of a block *)

\* The listener has heard of the block of this hop.
Told(l, t) == \E i \in DOMAIN heard[l] :
    /\ heard[l][i].of = t /\ heard[l][i].hop = request[t].hops
    /\ heard[l][i].type = "request_blocked"
    /\ heard[l][i].rule = local[t].matched

\* A blocked request is on its way through the report, and whoever listened since
\* the hop began is told or will be: before the dispatch because it still listens,
\* then because it is in the copied audience.
ReportInv(t) ==
    /\ Running(t) => witness[t].audience \subseteq RulesOf(listeners_)
    /\ local[t].decision = "kBlock" =>
        /\ pc[t] \in {"generate_id", "dispatch", "call", "done"}
        /\ pc[t] # "done" =>
            local[t].event = "request_blocked" /\ local[t].resume = "done"
        /\ \A l \in witness[t].audience :
            /\ pc[t] = "call" => l \in RulesOf(local[t].audience) \/ Told(l, t)
            /\ pc[t] = "done" => Told(l, t)

ReportsInv == \A t \in Requests : ReportInv(t)

\* What a listener has heard it has heard for good.
LEMMA ToldStays ==
    ASSUME Typed, NEW t \in Requests, Step(t), NEW u \in Requests, NEW l \in Listeners,
           Told(l, u), request'[u] = request[u], local'[u].matched = local[u].matched
    PROVE  Told(l, u)'
<1>1. CASE UNCHANGED heard
    BY <1>1 DEF Told
<1>2. CASE CallListener(t)
    <2>1. PICK to \in Listeners :
            /\ \A m \in Listeners \ {to} : heard'[m] = heard[m]
            /\ DOMAIN heard'[to] = DOMAIN heard[to] \cup {Len(heard[to]) + 1}
            /\ \A i \in DOMAIN heard[to] : heard'[to][i] = heard[to][i]
        BY <1>2, Heard
    <2> QED
        BY <2>1 DEF Told
<1> QED
    BY <1>1, <1>2, EventFrame

\* A listener that is called with the block is told.
LEMMA CalledIsTold ==
    ASSUME Typed, NEW t \in Requests, CallListener(t), local[t].event = "request_blocked",
           request'[t] = request[t], local'[t].matched = local[t].matched,
           NEW l, l = Head(local[t].audience)
    PROVE  Told(l, t)'
<1>1. PICK to \in Listeners :
        /\ to = Head(local[t].audience)
        /\ DOMAIN heard'[to] = DOMAIN heard[to] \cup {Len(heard[to]) + 1}
        /\ heard'[to][Len(heard[to]) + 1] = PrivacyEvent(t)
    BY Heard
<1>2. /\ PrivacyEvent(t).of = t /\ PrivacyEvent(t).hop = request'[t].hops
      /\ PrivacyEvent(t).type = "request_blocked"
      /\ PrivacyEvent(t).rule = local'[t].matched
    BY DEF PrivacyEvent
<1> HIDE DEF PrivacyEvent
<1>3. PICK i \in DOMAIN heard'[l] : heard'[l][i] = PrivacyEvent(t)
    BY <1>1
<1> QED
    BY <1>2, <1>3 DEF Told

\* Who is in a sequence is its head or in its tail.
LEMMA HeadOrTail ==
    ASSUME NEW S, NEW s \in Seq(S), s # <<>>, NEW x \in RulesOf(s)
    PROVE  x = Head(s) \/ x \in RulesOf(Tail(s))
<1>1. PICK i \in 1..Len(s) : x = s[i]
    BY DEF RulesOf
<1>2. CASE i = 1
    BY <1>1, <1>2
<1>3. CASE i # 1
    <2>1. i - 1 \in 1..Len(Tail(s)) /\ Tail(s)[i - 1] = s[i] /\ Tail(s) \in Seq(S)
        BY <1>3
    <2>2. i - 1 \in DOMAIN Tail(s)
        BY <2>1
    <2> QED
        BY <1>1, <2>1, <2>2 DEF RulesOf
<1> QED
    BY <1>2, <1>3

\* An appended sequence keeps who was in.
LEMMA AppendKeeps ==
    ASSUME NEW S, NEW s \in Seq(S), NEW x \in S
    PROVE  RulesOf(Append(s, x)) = RulesOf(s) \cup {x}
<1>1. DOMAIN Append(s, x) = 1..(Len(s) + 1) /\ DOMAIN s = 1..Len(s) /\ Len(s) \in Nat
    OBVIOUS
<1>2. \A i \in 1..Len(s) : Append(s, x)[i] = s[i]
    OBVIOUS
<1>3. Append(s, x)[Len(s) + 1] = x
    OBVIOUS
<1>4. \A i \in 1..(Len(s) + 1) : i \in 1..Len(s) \/ i = Len(s) + 1
    BY <1>1
<1> QED
    BY <1>1, <1>2, <1>3, <1>4 DEF RulesOf

\* Nobody is in the empty sequence.
LEMMA EmptyHasNobody == RulesOf(<<>>) = {}
BY DEF RulesOf

\* A step of a blocked request brings its report on.
LEMMA ReportStep ==
    ASSUME Typed, HopInv, ReportsInv, NEW t \in Requests, Step(t)
    PROVE  ReportInv(t)'
<1>1. /\ ReportInv(t) /\ UNCHANGED listeners_ /\ local[t] \in Locals
      /\ local[t].decision \in {"kAllow", "kBlock"} /\ local[t].resume \in {"policy", "done"}
      /\ witness[t].audience \in SUBSET Listeners /\ local[t].audience \in Seq(Listeners)
    BY OthersUnchanged DEF ReportsInv, settings, Typed, Locals, Witnesses
<1>2. CASE Begins(t)
    BY <1>1, <1>2 DEF Begins, Fresh, ReportInv, Running
<1>3. CASE Sanitizes(t)
    BY <1>1, <1>3 DEF Sanitizes, SameResult, ReportInv, Running
<1>4. CASE Looks(t)
    BY <1>1, <1>4 DEF Looks, ReportInv, Running
<1>5. CASE Exempts(t)
    BY <1>1, <1>5 DEF Exempts, ReportInv, Running
<1>6. CASE Consults(t)
    <2>1. witness'[t].audience = witness[t].audience
        BY <1>6 DEF Consults, Typed, Witnesses
    <2> QED
        BY <1>1, <1>6, <2>1 DEF Consults, ReportInv, Running
<1>7. CASE Continues(t)
    BY <1>1, <1>7 DEF Continues, SameResult, ReportInv, Running
<1>8. CASE Allows(t)
    BY <1>1, <1>8 DEF Allows, ReportInv, Running
<1>9. CASE Blocks(t)
    BY <1>1, <1>9 DEF Blocks, ReportInv, Running
<1>10. CASE Dispatches(t)
    <2>1. /\ UNCHANGED <<witness, request>> /\ local'[t].decision = local[t].decision
          /\ local'[t].matched = local[t].matched /\ local'[t].event = local[t].event
          /\ local'[t].resume = local[t].resume
          /\ pc[t] \in {"generate_id", "dispatch", "call"}
        BY <1>10 DEF Dispatches, SameResult, SameEvent
    <2>2. ASSUME NEW l \in witness[t].audience, local[t].decision = "kBlock",
                 pc'[t] \in {"call", "done"}
          PROVE  /\ pc'[t] = "call" => (l \in RulesOf(local[t].audience) \/ Told(l, t))'
                 /\ pc'[t] = "done" => Told(l, t)'
        <3>1. l \in Listeners /\ local[t].resume = "done" /\ local[t].event = "request_blocked"
            BY <1>1, <2>1, <2>2 DEF ReportInv
        <3>2. CASE pc[t] = "dispatch" /\ pc'[t] = "call" /\ local'[t].audience = listeners_
            <4>1. l \in RulesOf(listeners_)
                BY <1>1, <2>2, <3>2 DEF ReportInv, Running
            <4> QED
                BY <3>2, <4>1
        <3>3. CASE /\ CallListener(t) /\ pc[t] = "call" /\ pc'[t] = "call"
                   /\ local'[t].audience = Tail(local[t].audience)
            <4>1. local[t].audience # <<>>
                BY <3>3 DEF CallListener
            <4>2. CASE Told(l, t)
                BY <2>1, <3>1, <3>3, <4>2, ToldStays
            <4>3. CASE l = Head(local[t].audience)
                BY <2>1, <3>1, <3>3, <4>3, CalledIsTold
            <4>4. CASE l \in RulesOf(Tail(local[t].audience))
                BY <3>3, <4>4
            <4> QED
                BY <1>1, <2>2, <3>3, <4>1, <4>2, <4>3, <4>4, HeadOrTail DEF ReportInv
        <3>4. CASE pc[t] = "call" /\ pc'[t] = local[t].resume /\ local[t].audience = <<>>
            <4>1. Told(l, t)
                BY <1>1, <2>2, <3>4, EmptyHasNobody DEF ReportInv
            <4>2. Told(l, t)'
                BY <2>1, <3>1, <4>1, ToldStays
            <4> QED
                BY <3>1, <3>4, <4>2
        <3> QED
            BY <1>10, <2>2, <3>2, <3>3, <3>4 DEF Dispatches
    <2>3. local[t].decision = "kBlock" => pc'[t] \in {"dispatch", "call", "done"}
        BY <1>1, <1>10 DEF Dispatches, ReportInv
    <2>4. Running(t)' => witness'[t].audience \subseteq RulesOf(listeners_)'
        BY <1>1, <2>1 DEF ReportInv, Running
    <2> QED
        BY <1>1, <2>1, <2>2, <2>3, <2>4 DEF ReportInv
<1> QED
    BY <1>2, <1>3, <1>4, <1>5, <1>6, <1>7, <1>8, <1>9, <1>10, StepEffect

\* A listener that is added only adds to those who listen; when all are removed
\* the running hops witness it.
LEMMA ReportSettings ==
    ASSUME Typed, ReportsInv, Settings, NEW t \in Requests
    PROVE  ReportInv(t)'
<1>1. UNCHANGED <<request, pc, local, heard>> /\ ReportInv(t) /\ witness[t] \in Witnesses
      /\ listeners_ \in Seq(Listeners)
    BY SettingsFrame DEF ReportsInv, Typed
<1>2. (Running(t)' <=> Running(t)) /\ \A l : Told(l, t)' <=> Told(l, t)
    BY <1>1 DEF Running, Told
<1>3. ASSUME witness'[t].audience = witness[t].audience,
             RulesOf(listeners_) \subseteq RulesOf(listeners_)'
      PROVE  ReportInv(t)'
    BY <1>1, <1>2, <1>3 DEF ReportInv
<1>4. ASSUME NEW now, NEW by, RulesBecome(now, by)
      PROVE  witness'[t].audience = witness[t].audience
    BY <1>1, <1>4 DEF RulesBecome, Witnesses
<1>5. CASE \E list \in RuleLists : LoadFromText(list)
    BY <1>3, <1>5 DEF LoadFromText
<1>6. CASE LoadNextRule \/ Clear \/ \E d \in Databases : SetDatabase(d)
    <2>1. UNCHANGED listeners_ /\ \E now, by : RulesBecome(now, by)
        BY <1>6 DEF LoadNextRule, Clear, SetDatabase
    <2> QED
        BY <1>3, <1>4, <2>1
<1>7. CASE \E s \in Sites, e \in {"kDefault", "kAllowAll", "kBlockAll"} : SetSiteException(s, e)
    <2>1. PICK s, e : SetSiteException(s, e)
        BY <1>7
    <2>2. witness'[t] = witness[t] \/ \E still :
            witness'[t] = [witness[t] EXCEPT !.exempt = still, !.settled = FALSE]
        BY <2>1 DEF SetSiteException
    <2>3. UNCHANGED listeners_ /\ witness'[t].audience = witness[t].audience
        BY <1>1, <2>1, <2>2 DEF SetSiteException, Witnesses
    <2> QED
        BY <1>3, <2>3
<1>8. CASE \E on \in BOOLEAN : SetPrivacyProtectionEnabled(on)
    <2>1. UNCHANGED listeners_ /\ witness'[t].audience = witness[t].audience
        BY <1>1, <1>8 DEF SetPrivacyProtectionEnabled, Witnesses
    <2> QED
        BY <1>3, <2>1
<1>9. CASE \E l \in Listeners : AddListener(l)
    <2>1. PICK l \in Listeners : listeners_' = Append(listeners_, l) /\ UNCHANGED witness
        BY <1>9 DEF AddListener
    <2>2. RulesOf(listeners_)' = RulesOf(listeners_) \cup {l}
        BY <1>1, <2>1, AppendKeeps
    <2> QED
        BY <1>3, <2>1, <2>2
<1>10. CASE ClearListeners
    <2>1. CASE Running(t)
        <3>1. witness'[t].audience = {}
            BY <1>1, <1>10, <2>1 DEF ClearListeners, Witnesses
        <3> QED
            BY <1>1, <1>2, <3>1 DEF ReportInv
    <2>2. CASE ~Running(t)
        <3>1. witness'[t] = witness[t]
            BY <1>1, <1>10, <2>2 DEF ClearListeners
        <3> QED
            BY <1>1, <1>2, <2>2, <3>1 DEF ReportInv
    <2> QED
        BY <2>1, <2>2
<1> QED
    BY <1>5, <1>6, <1>7, <1>8, <1>9, <1>10 DEF Settings

\* Every step keeps the reports; that of one request only adds to what is heard.
LEMMA ReportInductive ==
    ASSUME Typed, HopInv, ReportsInv, [Next]_vars
    PROVE  ReportsInv'
<1>1. CASE UNCHANGED vars
    BY <1>1 DEF vars, settings, ReportsInv, ReportInv, Running, Told
<1>2. CASE Settings
    BY <1>2, ReportSettings DEF ReportsInv
<1>3. ASSUME NEW t \in Requests, Step(t), NEW u \in Requests
      PROVE  ReportInv(u)'
    <2>1. CASE u = t
        BY <1>3, <2>1, ReportStep
    <2>2. CASE u # t
        <3>1. /\ pc'[u] = pc[u] /\ local'[u] = local[u] /\ request'[u] = request[u]
              /\ witness'[u] = witness[u] /\ UNCHANGED listeners_
            BY <1>3, <2>2, OthersUnchanged DEF settings
        <3>2. \A l \in witness[u].audience : Told(l, u) => Told(l, u)'
            <4>1. witness[u].audience \subseteq Listeners
                BY DEF Typed, Witnesses
            <4> QED
                BY <1>3, <3>1, <4>1, ToldStays
        <3> QED
            BY <3>1, <3>2 DEF ReportsInv, ReportInv, Running
    <2> QED
        BY <2>1, <2>2
<1> QED
    BY <1>1, <1>2, <1>3 DEF Next, ReportsInv

\* Initially nothing is blocked.
LEMMA InitReport == Init => ReportsInv
BY DEF Init, ReportsInv, ReportInv, Running, Fresh, Unwitnessed

\* The reports are always on their way or told.
LEMMA SpecReport == Spec => []ReportsInv
<1>1. Typed /\ HopInv /\ ReportsInv /\ [Next]_vars => ReportsInv'
    BY ReportInductive
<1> QED
    BY <1>1, InitReport, EngineInductive, SpecHop, PTL DEF Spec

\* Whoever listened since the hop began has heard of its block when the request is
\* cancelled, for any number of requests and listeners.
THEOREM BlockReported == Spec => []BlockIsReported
<1>1. ReportsInv => BlockIsReported
    BY DEF ReportsInv, ReportInv, BlockIsReported, Blocked, Told
<1> QED
    BY <1>1, SpecReport, PTL

-----------------------------------------------------------------------------
(* The decision and the rules *)

\* The hop has not come to the tracker rules.
Early(t) ==
    \/ pc[t] \in {"idle", "unthrottled", "sanitize", "policy", "site_host", "site_domain"}
    \/ pc[t] \in {"generate_id", "dispatch", "call"} /\ local[t].resume = "policy"

\* From the consultation on, the rules are between those that stood all along and
\* those that were there at some time; who gets past the allow rules met none that
\* still stands.  When the evaluation is decided this is what the decision rests on.
RulesInv(t) ==
    /\ Early(t) => local[t].decision = "kAllow" /\ witness[t].before = <<>>
    /\ Consulting(t) =>
        /\ local[t].decision = "kAllow"
        /\ witness[t].standing \subseteq RulesOf(rules)
        /\ RulesOf(rules) \subseteq witness[t].ever
    /\ pc[t] = "block_rules" => ~Speaks("kAllow", witness[t].standing, t)
    /\ Blocked(t) => ~Speaks("kAllow", witness[t].standing, t)
                        /\ local[t].matched \in witness[t].ever
    /\ Cleared(t) /\ Speaks("kBlock", witness[t].standing, t)
        => Speaks("kAllow", witness[t].ever, t)

DecisionsInv == \A t \in Requests : RulesInv(t)

\* A rule alone in a database is found if it covers the request.
LEMMA SpeaksCovers ==
    ASSUME NEW t \in Requests, NEW set, NEW type
    PROVE  Speaks(type, set, t) <=> \E rule \in set : Covers(rule, type, Kind(t))
<1>1. ASSUME NEW rule
      PROVE  FindMatchingRules(<<rule>>, type, Kind(t).host, Kind(t).path) # {}
                <=> /\ rule.rule_type = type
                    /\ CoversHost(rule, Kind(t).host) \/ rule.domain_pattern = Generic
                    /\ MatchesPathAndOptions(rule, Kind(t).path)
    <2>1. DOMAIN <<rule>> = {1} /\ <<rule>>[1] = rule
        OBVIOUS
    <2> QED
        BY <2>1 DEF FindMatchingRules
<1> QED
    BY <1>1 DEF Speaks, Covers

\* The rules an evaluation stops at, in terms of the rules that speak.
LEMMA FirstSpeaks ==
    ASSUME Typed, NEW t \in Requests, NEW type \in {"kAllow", "kBlock"}
    PROVE  /\ FirstApplicable(rules, type, Kind(t)) # NoRule
                <=> Speaks(type, RulesOf(rules), t)
           /\ FirstApplicable(rules, type, Kind(t)) # NoRule
                => FirstApplicable(rules, type, Kind(t)) \in RulesOf(rules)
<1>1. rules \in Seq(ParsedRules) /\ Kind(t) \in RequestRecords
    BY RequestTyped DEF Typed, rules, Kind
<1> QED
    BY <1>1, FirstCovers, SpeaksCovers

\* More rules speak at least as much.
LEMMA MoreSpeak ==
    ASSUME NEW t \in Requests, NEW type, NEW few, NEW many, few \subseteq many,
           Speaks(type, few, t)
    PROVE  Speaks(type, many, t)
BY DEF Speaks

\* Who speaks of a request does so as long as the request asks the same.
LEMMA SpeaksStays ==
    ASSUME NEW t \in Requests, NEW type, request'[t] = request[t]
    PROVE  /\ Kind(t)' = Kind(t)
           /\ Speaks(type, witness[t].standing, t)' <=> Speaks(type, witness'[t].standing, t)
           /\ Speaks(type, witness[t].ever, t)' <=> Speaks(type, witness'[t].ever, t)
BY DEF Speaks, Kind, Applies, Party

\* Nothing that RulesInv says of a hop changes but for where it is.
LEMMA RulesKept ==
    ASSUME NEW t \in Requests, RulesInv(t), UNCHANGED <<request, witness, rules>>,
           local'[t].decision = local[t].decision, local'[t].matched = local[t].matched,
           Early(t)' => Early(t), Consulting(t)' => Consulting(t),
           pc'[t] = "block_rules" => pc[t] = "block_rules",
           Decided(t)' => Decided(t) /\ local'[t].exception = local[t].exception
    PROVE  RulesInv(t)'
<1>1. \A type : /\ Speaks(type, witness[t].standing, t)' <=> Speaks(type, witness[t].standing, t)
                /\ Speaks(type, witness[t].ever, t)' <=> Speaks(type, witness[t].ever, t)
    BY SpeaksStays
<1> QED
    BY <1>1 DEF RulesInv, Blocked, Cleared

\* A step of a request keeps what its decision owes to the rules.
LEMMA RulesStep ==
    ASSUME Typed, HopInv, DecisionsInv, NEW t \in Requests, Step(t)
    PROVE  RulesInv(t)'
<1>1. /\ RulesInv(t) /\ local[t] \in Locals /\ witness \in [Requests -> Witnesses]
      /\ local[t].decision \in {"kAllow", "kBlock"} /\ local[t].resume \in {"policy", "done"}
      /\ witness[t] \in Witnesses /\ UNCHANGED rules
    BY OthersUnchanged DEF DecisionsInv, settings, Typed, Locals, rules
<1>2. ASSUME NEW type, request'[t] = request[t]
      PROVE  /\ Kind(t)' = Kind(t)
             /\ Speaks(type, witness[t].standing, t)' <=> Speaks(type, witness'[t].standing, t)
             /\ Speaks(type, witness[t].ever, t)' <=> Speaks(type, witness'[t].ever, t)
    BY <1>2, SpeaksStays
<1>3. CASE Begins(t)
    <2>1. /\ local'[t].decision = "kAllow" /\ witness'[t].before = <<>>
          /\ pc'[t] \in {"unthrottled", "sanitize", "policy"}
        BY <1>3 DEF Begins, Fresh
    <2>2. ~Consulting(t)' /\ ~Blocked(t)' /\ ~Cleared(t)' /\ pc'[t] # "block_rules"
        BY <2>1 DEF Consulting, Blocked, Cleared, Decided
    <2> QED
        BY <2>1, <2>2 DEF RulesInv
<1>4. CASE Sanitizes(t) \/ Looks(t)
    <2>1. /\ local'[t].decision = "kAllow" /\ witness'[t].before = <<>>
          /\ pc'[t] \in {"policy", "site_host", "site_domain", "done", "generate_id"}
        BY <1>1, <1>4 DEF Sanitizes, Looks, SameResult, RulesInv, Early
    <2>2. ~Consulting(t)' /\ ~Blocked(t)' /\ ~Cleared(t)' /\ pc'[t] # "block_rules"
        BY <2>1 DEF Consulting, Blocked, Cleared, Decided
    <2> QED
        BY <2>1, <2>2 DEF RulesInv
<1>5. CASE Exempts(t)
    <2>1. /\ local'[t].decision = "kAllow" /\ local'[t].exception = "kAllowAll"
          /\ pc'[t] = "generate_id" /\ local'[t].resume = "done"
        BY <1>1, <1>5 DEF Exempts, RulesInv, Early
    <2>2. ~Consulting(t)' /\ ~Blocked(t)' /\ ~Cleared(t)' /\ ~Early(t)'
        BY <2>1 DEF Consulting, Blocked, Cleared, Early
    <2> QED
        BY <2>1, <2>2 DEF RulesInv
<1>6. CASE Consults(t)
    <2>1. /\ local'[t].decision = "kAllow" /\ pc'[t] = "known_tracker"
          /\ witness'[t].standing = RulesOf(rules) /\ witness'[t].ever = RulesOf(rules)
        <3>1. witness'[t].standing = RulesOf(rules) /\ witness'[t].ever = RulesOf(rules)
            BY <1>1, <1>6 DEF Consults, Witnesses
        <3> QED
            BY <1>1, <1>6, <3>1 DEF Consults, RulesInv, Early
    <2>2. ~Early(t)' /\ ~Blocked(t)' /\ ~Cleared(t)' /\ pc'[t] # "block_rules"
        BY <2>1 DEF Early, Blocked, Cleared, Decided
    <2> QED
        BY <1>1, <2>1, <2>2 DEF RulesInv, RulesOf
<1>7. CASE Continues(t)
    <2>1. Consulting(t) /\ Consulting(t)' /\ ~Early(t)' /\ ~Decided(t)'
        BY <1>7 DEF Continues, Consulting, Early, Decided
    <2>2. /\ local'[t].decision = "kAllow" /\ UNCHANGED <<request, witness>>
          /\ witness[t].standing \subseteq RulesOf(rules)
          /\ RulesOf(rules) \subseteq witness[t].ever
        BY <1>1, <1>7, <2>1 DEF Continues, SameResult, RulesInv
    <2>3. pc'[t] = "block_rules" => ~Speaks("kAllow", witness[t].standing, t)
        <3>1. pc'[t] = "block_rules" => FirstApplicable(rules, "kAllow", Kind(t)) = NoRule
            BY <1>7 DEF Continues
        <3> QED
            BY <2>2, <3>1, FirstSpeaks, MoreSpeak
    <2> QED
        BY <1>1, <1>2, <2>1, <2>2, <2>3 DEF RulesInv, Blocked, Cleared, RulesOf
<1>8. CASE Allows(t)
    <2>1. Consulting(t) /\ UNCHANGED <<request, witness>> /\ local'[t].decision = "kAllow"
        BY <1>1, <1>8 DEF Allows, Consulting, RulesInv
    <2>2. AllowedEnd(t)
        BY <1>1, <1>8, <2>1 DEF Allows, RulesInv
    <2>3. ~Early(t)' /\ ~Consulting(t)' /\ ~Blocked(t)' /\ pc'[t] # "block_rules"
        BY <2>1, <2>2 DEF AllowedEnd, Early, Consulting, Blocked
    <2>4. witness[t].standing \subseteq RulesOf(rules) /\ RulesOf(rules) \subseteq witness[t].ever
        BY <1>1, <2>1 DEF RulesInv
    <2>5. Speaks("kAllow", witness[t].ever, t) \/ ~Speaks("kBlock", witness[t].standing, t)
        BY <1>8, <2>4, FirstSpeaks, MoreSpeak DEF Allows
    <2> QED
        BY <1>2, <2>1, <2>3, <2>5 DEF RulesInv
<1>9. CASE Blocks(t)
    <2>1. /\ UNCHANGED <<request, witness>> /\ pc[t] = "block_rules"
          /\ pc'[t] = "generate_id" /\ local'[t].resume = "done"
          /\ local'[t].decision = "kBlock"
        BY <1>9 DEF Blocks
    <2>2. local'[t].matched \in witness[t].ever
        <3>1. RulesOf(rules) \subseteq witness[t].ever
            BY <1>1, <2>1 DEF RulesInv, Consulting
        <3> QED
            BY <1>9, <3>1, FirstSpeaks DEF Blocks
    <2>3. ~Speaks("kAllow", witness[t].standing, t)'
        BY <1>1, <1>2, <2>1 DEF RulesInv
    <2>4. ~Early(t)' /\ ~Consulting(t)' /\ ~Cleared(t)' /\ pc'[t] # "block_rules"
        BY <2>1 DEF Early, Consulting, Cleared
    <2> QED
        BY <2>1, <2>2, <2>3, <2>4 DEF RulesInv
<1>10. CASE Dispatches(t)
    <2>1. /\ UNCHANGED <<request, witness>> /\ local'[t].decision = local[t].decision
          /\ local'[t].matched = local[t].matched /\ local'[t].resume = local[t].resume
          /\ local'[t].exception = local[t].exception
          /\ pc[t] \in {"generate_id", "dispatch", "call"}
          /\ \/ pc'[t] \in {"dispatch", "call"}
             \/ pc'[t] = local[t].resume
        BY <1>10 DEF Dispatches, SameResult, SameEvent
    <2>2. /\ Early(t)' => Early(t)
          /\ Decided(t)' => Decided(t)
          /\ ~Consulting(t)' /\ pc'[t] # "block_rules"
        BY <1>1, <2>1 DEF Early, Decided, Consulting
    <2> QED
        BY <1>1, <2>1, <2>2, RulesKept
<1> QED
    BY <1>3, <1>4, <1>5, <1>6, <1>7, <1>8, <1>9, <1>10, StepEffect

\* Rules that change are witnessed by the requests that consult them.
LEMMA RulesChange ==
    ASSUME Typed, DecisionsInv, NEW t \in Requests, NEW by, RulesBecome(rules', by),
           UNCHANGED <<request, pc, local>>
    PROVE  RulesInv(t)'
<1>1. RulesInv(t) /\ witness[t] \in Witnesses
    BY DEF DecisionsInv, Typed
<1>2. /\ Early(t)' <=> Early(t)
      /\ Consulting(t)' <=> Consulting(t)
      /\ Decided(t)' <=> Decided(t)
    BY DEF Early, Consulting, Decided
<1>3. CASE ~Consulting(t)
    <2>1. witness'[t] = witness[t]
        BY <1>3 DEF RulesBecome
    <2>2. /\ \A type : /\ Speaks(type, witness[t].standing, t)' <=> Speaks(type, witness[t].standing, t)
                       /\ Speaks(type, witness[t].ever, t)' <=> Speaks(type, witness[t].ever, t)
          /\ Early(t)' <=> Early(t)
        BY <1>2, <2>1, SpeaksStays DEF Early
    <2> QED
        BY <1>1, <1>2, <1>3, <2>1, <2>2 DEF RulesInv, Blocked, Cleared, Consulting
<1>4. CASE Consulting(t) /\ rules' = rules
    <2>1. witness'[t] = witness[t]
        BY <1>4 DEF RulesBecome
    <2>2. ~Decided(t)' /\ ~Early(t)'
        BY <1>4 DEF Decided, Early, Consulting
    <2>3. \A type : Speaks(type, witness[t].standing, t)' <=> Speaks(type, witness[t].standing, t)
        BY <2>1, SpeaksStays
    <2> QED
        BY <1>1, <1>4, <2>1, <2>2, <2>3 DEF RulesInv, Blocked, Cleared, RulesOf
<1>5. CASE Consulting(t) /\ rules' # rules
    <2>1. /\ witness'[t].standing = witness[t].standing \cap RulesOf(rules')
          /\ witness'[t].ever = witness[t].ever \cup RulesOf(rules')
        BY <1>1, <1>5 DEF RulesBecome, Witnesses
    <2>2. ~Decided(t)' /\ ~Early(t)'
        BY <1>5 DEF Decided, Early, Consulting
    <2>3. RulesOf(rules)' = RulesOf(rules')
        BY DEF RulesOf
    <2>4. pc[t] = "block_rules" => ~Speaks("kAllow", witness[t].standing, t)'
        <3>1. ~Speaks("kAllow", witness[t].standing, t)
                => ~Speaks("kAllow", witness'[t].standing, t)
            BY <2>1, MoreSpeak
        <3> QED
            BY <1>1, <3>1, SpeaksStays DEF RulesInv
    <2> QED
        BY <1>1, <1>5, <2>1, <2>2, <2>3, <2>4 DEF RulesInv, Blocked, Cleared, Consulting
<1> QED
    BY <1>3, <1>4, <1>5

\* A change of the settings is one of the rules, or leaves what the requests witness
\* of the rules alone.
LEMMA SettingsChange ==
    ASSUME Typed, Settings
    PROVE  /\ UNCHANGED <<request, pc, local>>
           /\ \/ /\ \E by \in {1, 2} : RulesBecome(rules', by)
                 /\ LoadNextRule \/ Clear \/ \E d \in Databases : SetDatabase(d)
              \/ /\ UNCHANGED rules
                 /\ \A t \in Requests :
                        /\ witness'[t].before = witness[t].before
                        /\ witness'[t].standing = witness[t].standing
                        /\ witness'[t].ever = witness[t].ever
                        /\ witness'[t].changes = witness[t].changes
<1>1. UNCHANGED <<request, pc, local>>
    BY SettingsFrame
<1>2. \A t \in Requests : witness[t] \in Witnesses
    BY DEF Typed
<1>3. CASE LoadNextRule \/ Clear \/ \E d \in Databases : SetDatabase(d)
    BY <1>1, <1>3 DEF LoadNextRule, Clear, SetDatabase, rules, Typed
<1>4. CASE \/ \E list \in RuleLists : LoadFromText(list)
           \/ \E l \in Listeners : AddListener(l)
    BY <1>1, <1>4 DEF LoadFromText, AddListener, rules
<1>5. CASE \E s \in Sites, e \in {"kDefault", "kAllowAll", "kBlockAll"} : SetSiteException(s, e)
    <2>1. PICK s, e : SetSiteException(s, e)
        BY <1>5
    <2>2. \A t \in Requests : witness'[t] = witness[t] \/ \E still :
            witness'[t] = [witness[t] EXCEPT !.exempt = still, !.settled = FALSE]
        BY <2>1 DEF SetSiteException
    <2>3. UNCHANGED rules
        BY <2>1 DEF SetSiteException, rules
    <2> QED
        <3>1. \A t \in Requests :
                /\ witness'[t].before = witness[t].before
                /\ witness'[t].standing = witness[t].standing
                /\ witness'[t].ever = witness[t].ever
                /\ witness'[t].changes = witness[t].changes
            BY <1>2, <2>2 DEF Witnesses
        <3> QED
            BY <1>1, <2>3, <3>1
<1>6. CASE \E on \in BOOLEAN : SetPrivacyProtectionEnabled(on)
    <2>1. UNCHANGED rules
        BY <1>6 DEF SetPrivacyProtectionEnabled, rules
    <2>2. \A t \in Requests : \E off : witness'[t] = [witness[t] EXCEPT !.off = off]
        BY <1>6 DEF SetPrivacyProtectionEnabled
    <2> QED
        BY <1>1, <1>2, <2>1, <2>2 DEF Witnesses
<1>7. CASE ClearListeners
    <2>1. UNCHANGED rules
        BY <1>7 DEF ClearListeners, rules
    <2>2. \A t \in Requests : witness'[t] = witness[t]
            \/ witness'[t] = [witness[t] EXCEPT !.audience = {}]
        BY <1>7 DEF ClearListeners
    <2> QED
        BY <1>1, <1>2, <2>1, <2>2 DEF Witnesses
<1> QED
    BY <1>3, <1>4, <1>5, <1>6, <1>7 DEF Settings

\* So does a step that leaves the rules and what is witnessed of them alone.
LEMMA RulesUntouched ==
    ASSUME NEW t \in Requests, RulesInv(t), UNCHANGED rules,
           request'[t] = request[t], pc'[t] = pc[t], local'[t] = local[t],
           witness'[t].before = witness[t].before,
           witness'[t].standing = witness[t].standing, witness'[t].ever = witness[t].ever
    PROVE  RulesInv(t)'
<1>1. \A type : /\ Speaks(type, witness[t].standing, t)' <=> Speaks(type, witness[t].standing, t)
                /\ Speaks(type, witness[t].ever, t)' <=> Speaks(type, witness[t].ever, t)
    BY SpeaksStays
<1>2. /\ Early(t)' <=> Early(t)
      /\ Consulting(t)' <=> Consulting(t)
      /\ Decided(t)' <=> Decided(t)
      /\ RulesOf(rules)' = RulesOf(rules)
    BY DEF Early, Consulting, Decided, RulesOf
<1> QED
    BY <1>1, <1>2 DEF RulesInv, Blocked, Cleared

\* Every step keeps it for every request.
LEMMA DecisionsInductive ==
    ASSUME Typed, HopInv, DecisionsInv, [Next]_vars
    PROVE  DecisionsInv'
<1>1. CASE UNCHANGED vars
    <2>1. UNCHANGED <<rules, request, pc, local, witness>>
        BY <1>1 DEF vars, settings, rules
    <2> QED
        BY <2>1, RulesUntouched DEF DecisionsInv
<1>2. CASE Settings
    <2>1. ASSUME NEW t \in Requests
          PROVE  RulesInv(t)'
        BY <1>2, <2>1, SettingsChange, RulesChange, RulesUntouched DEF DecisionsInv
    <2> QED
        BY <2>1 DEF DecisionsInv
<1>3. ASSUME NEW t \in Requests, Step(t), NEW u \in Requests
      PROVE  RulesInv(u)'
    <2>1. CASE u = t
        BY <1>3, <2>1, RulesStep
    <2>2. CASE u # t
        <3>1. /\ pc'[u] = pc[u] /\ local'[u] = local[u] /\ request'[u] = request[u]
              /\ witness'[u] = witness[u] /\ UNCHANGED rules
            BY <1>3, <2>2, OthersUnchanged DEF settings, rules
        <3> QED
            BY <3>1, RulesUntouched DEF DecisionsInv
    <2> QED
        BY <2>1, <2>2
<1> QED
    BY <1>1, <1>2, <1>3 DEF Next, DecisionsInv

\* Initially nothing is decided.
LEMMA InitDecisions == Init => DecisionsInv
<1> SUFFICES ASSUME Init, NEW t \in Requests PROVE RulesInv(t)
    BY DEF DecisionsInv
<1>1. pc[t] = "idle" /\ local[t].decision = "kAllow" /\ witness[t].before = <<>>
    BY DEF Init, Fresh, Unwitnessed
<1> QED
    BY <1>1 DEF RulesInv, Consulting, Blocked, Cleared, Decided

\* What a decision owes to the rules holds always.
LEMMA SpecDecisions == Spec => []DecisionsInv
<1>1. Typed /\ HopInv /\ DecisionsInv /\ [Next]_vars => DecisionsInv'
    BY DecisionsInductive
<1> QED
    BY <1>1, InitDecisions, EngineInductive, SpecHop, PTL DEF Spec

\* Whatever the rules do meanwhile, a blocked request met no allow rule that stood
\* all along, and the rule that blocked it was there.
THEOREM StandingAllowHolds == Spec => []BlockRespectsStandingAllow
<1>1. DecisionsInv => BlockRespectsStandingAllow
    BY DEF DecisionsInv, RulesInv, BlockRespectsStandingAllow
<1> QED
    BY <1>1, SpecDecisions, PTL

\* Whatever the rules do meanwhile, a request that gets past a block rule that stood
\* all along had an allow rule at some time.
THEOREM StandingBlockHolds == Spec => []StandingBlockIsApplied
<1>1. DecisionsInv => StandingBlockIsApplied
    BY DEF DecisionsInv, RulesInv, StandingBlockIsApplied
<1> QED
    BY <1>1, SpecDecisions, PTL

-----------------------------------------------------------------------------
(* One change at most *)

\* No change, and the rules are those before; one, and they are gone or one more.
\* Who is past the allow rules met none in the rules of one of the two moments.
AtomicInv(t) ==
    Consulting(t) =>
        /\ witness[t].changes = 0 => rules = witness[t].before
        /\ witness[t].changes = 1 =>
            rules = <<>> \/ \E r \in ParsedRules : rules = Append(witness[t].before, r)
        /\ pc[t] = "block_rules" /\ witness[t].changes <= 1 =>
            \/ FirstApplicable(witness[t].before, "kAllow", Kind(t)) = NoRule
            \/ FirstApplicable(rules, "kAllow", Kind(t)) = NoRule

MomentsInv == \A t \in Requests : AtomicInv(t)

\* A step of a request keeps the two moments.
LEMMA AtomicStep ==
    ASSUME Typed, HopInv, DecisionsInv, MomentsInv, NEW t \in Requests, Step(t)
    PROVE  AtomicInv(t)'
<1>1. AtomicInv(t) /\ witness[t] \in Witnesses /\ UNCHANGED rules
      /\ local[t].resume \in {"policy", "done"}
    BY OthersUnchanged DEF MomentsInv, Typed, settings, rules, Locals
<1>2. CASE Consults(t)
    <2>1. witness'[t].changes = 0 /\ witness'[t].before = rules /\ pc'[t] = "known_tracker"
        BY <1>1, <1>2 DEF Consults, Witnesses
    <2> QED
        BY <1>1, <2>1 DEF AtomicInv
<1>3. CASE Continues(t)
    <2>1. /\ UNCHANGED <<witness, request, rules>> /\ Consulting(t)
          /\ pc'[t] = "block_rules" => FirstApplicable(rules, "kAllow", Kind(t)) = NoRule
        BY <1>1, <1>3 DEF Continues, Consulting
    <2>2. FirstApplicable(rules, "kAllow", Kind(t))' = FirstApplicable(rules, "kAllow", Kind(t))
        BY <2>1 DEF Kind, FirstApplicable, Applies, Party, FindMatchingRules, ReturnedBefore
    <2> QED
        BY <1>1, <2>1, <2>2 DEF AtomicInv
<1>4. CASE Begins(t) \/ Sanitizes(t) \/ Looks(t) \/ Exempts(t)
    BY <1>4 DEF Begins, Sanitizes, Looks, Exempts, AtomicInv, Consulting
<1>5. CASE Blocks(t)
    BY <1>5 DEF Blocks, AtomicInv, Consulting
<1>6. CASE Dispatches(t)
    BY <1>1, <1>6 DEF Dispatches, AtomicInv, Consulting
<1>7. CASE Allows(t)
    <2>1. local[t].decision = "kAllow"
        BY <1>7 DEF Allows, Consulting, DecisionsInv, RulesInv
    <2> QED
        BY <1>7, <2>1 DEF Allows, AllowedEnd, AtomicInv, Consulting
<1> QED
    BY <1>2, <1>3, <1>4, <1>5, <1>6, <1>7, StepEffect

\* A load adds one rule at a time, and Clear takes all away.
LEMMA OneRuleMore ==
    ASSUME Typed, LoadNextRule
    PROVE  RulesBecome(rules', 1)
            /\ (rules' = rules \/ \E r \in ParsedRules : rules' = Append(rules, r))
<1> DEFINE next == Head(loading.rest)
           now == [content EXCEPT ![loading.db] = AddRule(@, next)]
<1>1. /\ loading.db \in Databases /\ loading.rest \in Seq(ParsedRules)
      /\ loading.rest # <<>> /\ content \in [Databases -> Seq(ParsedRules)]
      /\ database \in Databases
    BY DEF LoadNextRule, Typed
<1>2. next \in ParsedRules
    BY <1>1
<1> HIDE DEF next
<1>3. content' = now /\ UNCHANGED database /\ RulesBecome(now[database], 1)
    BY DEF LoadNextRule, next
<1>4. rules' = now[database]
    BY <1>3 DEF rules
<1>5. now[database] = rules \/ now[database] = Append(rules, next)
    BY <1>1 DEF AddRule, rules
<1> QED
    BY <1>2, <1>3, <1>4, <1>5

\* The first change ends the moment before, a second one the account.
LEMMA AtomicChange ==
    ASSUME Typed, MomentsInv, NEW t \in Requests, NEW by \in {1, 2}, RulesBecome(rules', by),
           by = 1 => \/ rules' = rules \/ rules' = <<>>
                     \/ \E r \in ParsedRules : rules' = Append(rules, r),
           UNCHANGED <<request, pc, local>>
    PROVE  AtomicInv(t)'
<1>1. AtomicInv(t) /\ witness[t] \in Witnesses /\ (Consulting(t)' <=> Consulting(t))
      /\ Kind(t)' = Kind(t)
    BY DEF MomentsInv, Typed, Consulting, Kind
<1>2. CASE ~Consulting(t)
    BY <1>1, <1>2 DEF AtomicInv
<1>3. CASE rules' = rules
    <2>1. witness'[t] = witness[t]
        BY <1>3 DEF RulesBecome
    <2> QED
        BY <1>1, <1>3, <2>1 DEF AtomicInv
<1>4. CASE Consulting(t) /\ rules' # rules
    <2>1. /\ witness'[t].changes = (IF witness[t].changes = 0 THEN by ELSE 2)
          /\ witness'[t].before = witness[t].before
        BY <1>1, <1>4 DEF RulesBecome, Witnesses
    <2>2. CASE witness[t].changes = 0 /\ by = 1
        <3>1. rules = witness[t].before
            BY <1>1, <1>4, <2>2 DEF AtomicInv
        <3>2. pc[t] = "block_rules" =>
                FirstApplicable(witness[t].before, "kAllow", Kind(t)) = NoRule
            BY <1>1, <1>4, <2>2, <3>1 DEF AtomicInv
        <3> QED
            BY <1>1, <1>4, <2>1, <2>2, <3>1, <3>2 DEF AtomicInv
    <2>3. CASE witness[t].changes # 0 \/ by = 2
        <3>1. witness'[t].changes = 2
            BY <2>1, <2>3
        <3> QED
            BY <3>1 DEF AtomicInv
    <2> QED
        BY <2>2, <2>3
<1> QED
    BY <1>2, <1>3, <1>4

\* Nothing happens to the two moments while the rules stay.
LEMMA AtomicUntouched ==
    ASSUME NEW t \in Requests, AtomicInv(t), UNCHANGED rules,
           request'[t] = request[t], pc'[t] = pc[t],
           witness'[t].before = witness[t].before, witness'[t].changes = witness[t].changes
    PROVE  AtomicInv(t)'
BY DEF AtomicInv, Consulting, Kind

\* Every step keeps the two moments of every request.
LEMMA MomentsInductive ==
    ASSUME Typed, HopInv, DecisionsInv, MomentsInv, [Next]_vars
    PROVE  MomentsInv'
<1>1. CASE UNCHANGED vars
    <2>1. UNCHANGED <<rules, request, pc, witness>>
        BY <1>1 DEF vars, settings, rules
    <2> QED
        BY <2>1, AtomicUntouched DEF MomentsInv
<1>2. CASE Settings
    <2>1. CASE LoadNextRule
        BY <1>2, <2>1, OneRuleMore, SettingsChange, AtomicChange DEF MomentsInv
    <2>2. CASE Clear
        <3>1. RulesBecome(rules', 1) /\ rules' = <<>>
            BY <2>2 DEF Clear, rules, Typed
        <3> QED
            BY <1>2, <3>1, SettingsChange, AtomicChange DEF MomentsInv
    <2>3. CASE \E d \in Databases : SetDatabase(d)
        <3>1. RulesBecome(rules', 2)
            BY <2>3 DEF SetDatabase, rules
        <3> QED
            BY <1>2, <3>1, SettingsChange, AtomicChange DEF MomentsInv
    <2>4. CASE ~LoadNextRule /\ ~Clear /\ ~\E d \in Databases : SetDatabase(d)
        BY <1>2, <2>4, SettingsChange, AtomicUntouched DEF MomentsInv
    <2> QED
        BY <2>1, <2>2, <2>3, <2>4
<1>3. ASSUME NEW t \in Requests, Step(t), NEW u \in Requests
      PROVE  AtomicInv(u)'
    <2>1. CASE u = t
        BY <1>3, <2>1, AtomicStep
    <2>2. CASE u # t
        <3>1. /\ pc'[u] = pc[u] /\ request'[u] = request[u]
              /\ witness'[u] = witness[u] /\ UNCHANGED rules
            BY <1>3, <2>2, OthersUnchanged DEF settings, rules
        <3> QED
            BY <3>1, AtomicUntouched DEF MomentsInv
    <2> QED
        BY <2>1, <2>2
<1> QED
    BY <1>1, <1>2, <1>3 DEF Next, MomentsInv

\* Initially no request consults the rules.
LEMMA InitMoments == Init => MomentsInv
BY DEF Init, MomentsInv, AtomicInv, Consulting

\* One rule more that allows is not one that blocks.
LEMMA BlockWasThere ==
    ASSUME NEW db \in Seq(ParsedRules), NEW r \in ParsedRules, NEW k \in RequestRecords,
           FirstApplicable(db, "kAllow", k) = NoRule,
           FirstApplicable(Append(db, r), "kAllow", k) # NoRule,
           FirstApplicable(Append(db, r), "kBlock", k) # NoRule
    PROVE  FirstApplicable(db, "kBlock", k) # NoRule
<1>1. Append(db, r) \in Seq(ParsedRules) /\ RulesOf(Append(db, r)) = RulesOf(db) \cup {r}
    BY AppendKeeps
<1>2. \A type \in {"kAllow", "kBlock"} :
        /\ FirstApplicable(db, type, k) # NoRule
            <=> \E rule \in RulesOf(db) : Covers(rule, type, k)
        /\ FirstApplicable(Append(db, r), type, k) # NoRule
            <=> \E rule \in RulesOf(db) \cup {r} : Covers(rule, type, k)
    BY <1>1, FirstCovers
<1>3. Covers(r, "kAllow", k)
    BY <1>2
<1>4. ~Covers(r, "kBlock", k)
    BY <1>3 DEF Covers
<1> QED
    BY <1>2, <1>4

\* The step that decides, among rules that changed once at most.
LEMMA DecidingStep ==
    ASSUME Typed, HopInv, DecisionsInv, MomentsInv, NEW t \in Requests, Step(t),
           pc[t] \in {"allow_rules", "block_rules"}, Decided(t)', witness[t].changes <= 1
    PROVE  local'[t].decision \in {DecisionAt(witness[t].before, Kind(t)),
                                   DecisionAt(rules, Kind(t))}
<1>1. /\ AtomicInv(t) /\ Consulting(t) /\ local[t].decision = "kAllow"
      /\ witness[t] \in Witnesses /\ Kind(t) \in RequestRecords /\ rules \in Seq(ParsedRules)
      /\ witness[t].before \in Seq(ParsedRules)
    BY RequestTyped DEF MomentsInv, DecisionsInv, RulesInv, Consulting, Typed, Witnesses, Kind,
       rules
<1>2. Allows(t) \/ Blocks(t)
    <2>1. ~Begins(t) /\ ~Sanitizes(t) /\ ~Looks(t) /\ ~Exempts(t) /\ ~Consults(t)
          /\ ~Continues(t) /\ ~Dispatches(t)
        BY DEF Begins, Sanitizes, Looks, Exempts, Consults, Continues, Dispatches, Decided
    <2> QED
        BY <2>1, StepEffect
<1>3. CASE Allows(t)
    <2>1. local'[t].decision = "kAllow"
        BY <1>1, <1>3 DEF Allows
    <2> QED
        BY <1>3, <2>1 DEF Allows, DecisionAt
<1>4. CASE Blocks(t)
    <2>1. /\ local'[t].decision = "kBlock" /\ pc[t] = "block_rules"
          /\ FirstApplicable(rules, "kBlock", Kind(t)) # NoRule
        BY <1>4 DEF Blocks
    <2>2. CASE FirstApplicable(rules, "kAllow", Kind(t)) = NoRule
        BY <2>1, <2>2 DEF DecisionAt
    <2>3. CASE FirstApplicable(rules, "kAllow", Kind(t)) # NoRule
        <3>1. /\ FirstApplicable(witness[t].before, "kAllow", Kind(t)) = NoRule
              /\ witness[t].changes = 1
            BY <1>1, <2>1, <2>3 DEF AtomicInv, Witnesses
        <3>2. rules # <<>>
            <4>1. rules = <<>> => RulesOf(rules) = {}
                BY EmptyHasNobody
            <4> QED
                BY <1>1, <2>1, <4>1, FirstSpeaks
        <3>3. PICK r \in ParsedRules : rules = Append(witness[t].before, r)
            BY <1>1, <3>1, <3>2 DEF AtomicInv
        <3>4. FirstApplicable(witness[t].before, "kBlock", Kind(t)) # NoRule
            BY <1>1, <2>1, <2>3, <3>1, <3>3, BlockWasThere
        <3> QED
            BY <2>1, <3>1, <3>4 DEF DecisionAt
    <2> QED
        BY <2>2, <2>3
<1> QED
    BY <1>2, <1>3, <1>4

\* With one change of the rules at most, an evaluation that takes the lock three
\* times decides as one that takes it once, before the change or after.
THEOREM OneChangeAtomic == Spec => OneChangeIsAtomic
<1>1. Init => MomentsInv
    BY InitMoments
<1>2. Typed /\ HopInv /\ DecisionsInv /\ MomentsInv /\ [Next]_vars => MomentsInv'
    BY MomentsInductive
<1>3. Typed /\ HopInv /\ DecisionsInv /\ MomentsInv /\ [Next]_vars =>
        [\A t \in Requests :
            pc[t] \in {"allow_rules", "block_rules"} /\ Decided(t)'
                /\ witness[t].changes <= 1
            => local[t].decision' \in {DecisionAt(witness[t].before, Kind(t)),
                                       DecisionAt(rules, Kind(t))}]_vars
    <2> SUFFICES ASSUME Typed, HopInv, DecisionsInv, MomentsInv, Next, NEW t \in Requests,
                        pc[t] \in {"allow_rules", "block_rules"}, Decided(t)',
                        witness[t].changes <= 1
                 PROVE  local'[t].decision \in {DecisionAt(witness[t].before, Kind(t)),
                                                DecisionAt(rules, Kind(t))}
        OBVIOUS
    <2>1. CASE Settings
        BY <2>1, SettingsFrame DEF Decided
    <2>2. ASSUME NEW u \in Requests, Step(u), u # t
          PROVE  FALSE
        BY <2>2, OthersUnchanged DEF Decided
    <2> QED
        BY <2>1, <2>2, DecidingStep DEF Next
<1> QED
    BY <1>1, <1>2, <1>3, EngineInductive, SpecHop, SpecDecisions, PTL
    DEF Spec, OneChangeIsAtomic
=============================================================================
