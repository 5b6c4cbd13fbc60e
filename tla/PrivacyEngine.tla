----------------------------- MODULE PrivacyEngine -----------------------------
(***************************************************************************)
(* The request path of the privacy engine: a throttle asks the process's   *)
(* one PrivacyPolicyManager, which asks the site exceptions and the        *)
(* TrackerBlocker and tells the listeners.  Each part has a lock of its    *)
(* own and no lock spans two of them, so a request is evaluated in steps,  *)
(* one per lock acquisition or shared read, between which other requests   *)
(* are evaluated and the settings change.                                  *)
(***************************************************************************)
EXTENDS ThirdPartyClassifier, RuleDatabase

CONSTANTS
    Requests,      \* identities of the requests in flight
    RequestKinds,  \* what a request may ask: records of its throttle, host, path,
                   \* initiator, resource type and whether it is tagged for tracking
    RuleLists,     \* the parsed rule lists LoadFromText may be given
    Databases,     \* RuleDatabase objects; SetDatabase switches between them
    Sites,         \* hosts and domains that get a site exception
    Listeners,     \* event listeners
    MaxListeners,  \* bound: length of listeners_
    MaxHops        \* bound: redirects of a request

ASSUME EngineAssumption ==
    MaxListeners \in Nat /\ MaxHops \in Nat /\ <<>> \notin RuleLists

ResourceTypes ==
    {"kMainFrame", "kSubFrame", "kScript", "kImage", "kStylesheet", "kFont",
     "kXhrFetch", "kPingBeacon", "kWebSocket", "kMedia", "kOther"}

\* What the parser makes of a line, and what a throttle asks.
ParsedRules ==
    [rule_type : {"kAllow", "kBlock"}, domain_pattern : Seq(STRING),
     path_pattern : STRING, match_subdomains : BOOLEAN, require_third_party : BOOLEAN,
     require_first_party : BOOLEAN, resource_types : SUBSET ResourceTypes]

RequestRecords ==
    [throttle : {"navigation", "loader"}, host : Seq(STRING), path : SUBSET STRING,
     initiator : Seq(STRING), resource_type : ResourceTypes, tracking : BOOLEAN]

ASSUME DataAssumption ==
    RuleLists \subseteq Seq(ParsedRules) /\ RequestKinds \subseteq RequestRecords

VARIABLES
    enabled,          \* PrivacyPolicyManager::enabled_
    database,         \* TrackerBlocker::database_
    content,          \* the rules of each RuleDatabase
    loading,          \* the running LoadFromText: its database and remaining rules
    site_exceptions,  \* exceptions_; a missing key is kDefault
    event_counter,    \* event_counter_
    listeners_,       \* listeners_
    request,          \* what each request asks for, its throttle and its hop
    pc, local,        \* where the evaluation of each request is, and its locals
    heard,            \* history: what each listener was called with, in order
    witness           \* history of the current hop, see Unwitnessed

settings == <<enabled, database, content, loading, site_exceptions, listeners_>>
vars == <<settings, event_counter, request, pc, local, heard, witness>>

NoRule == [rule_type |-> "none"]
NoLoad == [db |-> "none", rest |-> <<>>]

rules == content[database]

\* A new evaluation's locals: the result under construction, the event being
\* dispatched, the listeners still to call, and where to go on after that.
Fresh ==
    [exception |-> "kDefault", classification |-> "kNotTracker",
     decision |-> "kAllow", matched |-> NoRule, event |-> "none", id |-> 0,
     audience |-> <<>>, resume |-> "done"]

\* What held since the hop began: exempt, the initiator's site was allowed all;
\* settled, no site exception was set; off, the protection was disabled;
\* audience, these listened.  And since the tracker rules were first consulted:
\* before, the rules then; standing and ever, the rules present all along and at
\* some time; changes, how often the rules changed.
Unwitnessed ==
    [exempt |-> FALSE, settled |-> TRUE, off |-> FALSE, audience |-> {},
     before |-> <<>>, standing |-> {}, ever |-> {}, changes |-> 0]

Init ==
    /\ enabled = TRUE
    /\ database \in Databases /\ content = [d \in Databases |-> <<>>]
    /\ loading = NoLoad
    /\ site_exceptions = [s \in Sites |-> "kDefault"]
    /\ event_counter = 1 /\ listeners_ = <<>>
    /\ request \in [Requests -> {[kind |-> k, hops |-> 0] : k \in RequestKinds}]
    /\ pc = [t \in Requests |-> "idle"]
    /\ local = [t \in Requests |-> Fresh]
    /\ heard = [l \in Listeners |-> <<>>]
    /\ witness = [t \in Requests |-> Unwitnessed]

-----------------------------------------------------------------------------
(* What a request asks and what the rules say of it *)

\* What CheckPrivacyPolicy and WillStartRequest pass on of a request.
Kind(t) == request[t].kind
Party(k) == Classify(k.host, k.initiator)

StripTrackingParameters(k) == [k EXCEPT !.tracking = FALSE]

GetSiteException(host) ==
    IF host \in Sites THEN site_exceptions[host] ELSE "kDefault"

\* The exception that decides: the host's own, else its domain's.
Exception(initiator) ==
    IF GetSiteException(initiator) # "kDefault" THEN GetSiteException(initiator)
    ELSE GetSiteException(GetDomain(initiator))

Applies(rule, k) ==
    /\ k.resource_type \in rule.resource_types
    /\ rule.require_third_party => Party(k) = "kThirdParty"
    /\ rule.require_first_party => Party(k) \in {"kFirstParty", "kSameSite"}

\* The rule the loop over the returned rules stops at.
FirstApplicable(db, type, k) ==
    LET found == {i \in FindMatchingRules(db, type, k.host, k.path) : Applies(db[i], k)}
    IN  IF found = {} THEN NoRule
        ELSE db[CHOOSE i \in found : \A j \in found : ReturnedBefore(db, i, j)]

-----------------------------------------------------------------------------
(* Steps of one request *)

Goto(t, label) == pc' = [pc EXCEPT ![t] = label]
Assign(t, new) == local' = [local EXCEPT ![t] = new]
Witness(t, new) == witness' = [witness EXCEPT ![t] = new]

\* Dispatch an event, then go on at label.
Emit(t, new, event, label) ==
    /\ Assign(t, [new EXCEPT !.event = event, !.resume = label])
    /\ Goto(t, "generate_id")

\* A navigation is evaluated, a subresource is sanitized first.
FirstStep(k) == IF k.throttle = "navigation" THEN "policy" ELSE "sanitize"

BeginHop(t, k) ==
    Witness(t, [Unwitnessed EXCEPT !.exempt = Exception(k.initiator) = "kAllowAll",
                                   !.off = ~enabled,
                                   !.audience = RulesOf(listeners_)])

\* MaybeCreate, MaybeCreateThrottleFor: no throttle while disabled.
MaybeCreate(t) ==
    /\ pc[t] = "idle"
    /\ Goto(t, IF enabled THEN FirstStep(Kind(t)) ELSE "unthrottled")
    /\ BeginHop(t, Kind(t))
    /\ UNCHANGED <<settings, event_counter, request, local, heard>>

\* Mutant: parameters are stripped although the protection is off.
SanitizeUrlWhenDisabled(t) ==
    /\ pc[t] = "sanitize"
    /\ \/ /\ Kind(t).tracking
          /\ request' = [request EXCEPT ![t].kind = StripTrackingParameters(@)]
          /\ Emit(t, local[t], "tracking_parameter_removed", "policy")
       \/ /\ ~Kind(t).tracking
          /\ Goto(t, "policy")
          /\ UNCHANGED <<request, local>>
    /\ UNCHANGED <<settings, event_counter, heard, witness>>

\* Tracking parameters leave the URL, and an event says so.
SanitizeUrl(t) ==
    /\ pc[t] = "sanitize"
    /\ \/ /\ enabled /\ Kind(t).tracking
          /\ request' = [request EXCEPT ![t].kind = StripTrackingParameters(@)]
          /\ Emit(t, local[t], "tracking_parameter_removed", "policy")
       \/ /\ ~enabled \/ ~Kind(t).tracking
          /\ Goto(t, "policy")
          /\ UNCHANGED <<request, local>>
    /\ UNCHANGED <<settings, event_counter, heard, witness>>

\* PrivacyPolicyManager::EvaluateRequest up to its first lock.
EvaluateRequest(t) ==
    /\ pc[t] = "policy"
    /\ Goto(t, IF enabled THEN "site_host" ELSE "done")
    /\ UNCHANGED <<settings, event_counter, request, local, heard, witness>>

\* On to the event of an exempt site, or to the tracker rules.
ApplyException(t, exception) ==
    LET found == [local[t] EXCEPT !.exception = exception] IN
    \/ /\ exception = "kAllowAll"
       /\ Emit(t, found, "policy_exception_applied", "done")
       /\ UNCHANGED witness
    \/ /\ exception # "kAllowAll"
       /\ Assign(t, found)
       /\ Goto(t, "known_tracker")
       /\ Witness(t, [witness[t] EXCEPT !.before = rules, !.standing = RulesOf(rules),
                                        !.ever = RulesOf(rules), !.changes = 0])

\* Mutant: the exception of the initiator's domain is not looked up.
LookupHostOnly(t) ==
    /\ pc[t] = "site_host"
    /\ ApplyException(t, GetSiteException(Kind(t).initiator))
    /\ UNCHANGED <<settings, event_counter, request, heard>>

LookupHostException(t) ==
    /\ pc[t] = "site_host"
    /\ LET exception == GetSiteException(Kind(t).initiator) IN
       \/ /\ exception = "kDefault" /\ Kind(t).initiator # NoHost
          /\ Goto(t, "site_domain")
          /\ UNCHANGED <<local, witness>>
       \/ /\ exception # "kDefault" \/ Kind(t).initiator = NoHost
          /\ ApplyException(t, exception)
    /\ UNCHANGED <<settings, event_counter, request, heard>>

LookupDomainException(t) ==
    /\ pc[t] = "site_domain"
    /\ ApplyException(t, GetSiteException(GetDomain(Kind(t).initiator)))
    /\ UNCHANGED <<settings, event_counter, request, heard>>

LookupKnownTracker(t) ==
    /\ pc[t] = "known_tracker"
    /\ Assign(t, [local[t] EXCEPT !.classification =
            IF IsKnownTrackerHost(rules, Kind(t).host) THEN "kKnownTracker"
                                                       ELSE "kNotTracker"])
    /\ Goto(t, "allow_rules")
    /\ UNCHANGED <<settings, event_counter, request, heard, witness>>

\* Mutant: the report depends on the classification only.
ReportTrackerOnly(t, result) ==
    \/ /\ result.classification = "kKnownTracker"
       /\ Emit(t, result, "tracker_detected", "done")
    \/ /\ result.classification # "kKnownTracker"
       /\ Assign(t, result) /\ Goto(t, "done")

\* The event a result of the TrackerBlocker is reported with, if any.
Report(t, result) ==
    \/ /\ result.decision = "kBlock"
       /\ Emit(t, result, "request_blocked", "done")
    \/ /\ result.decision = "kAllow" /\ result.classification = "kKnownTracker"
       /\ Emit(t, result, "tracker_detected", "done")
    \/ /\ result.decision = "kAllow" /\ result.classification # "kKnownTracker"
       /\ Assign(t, result) /\ Goto(t, "done")

\* Mutant: an allow rule is noted and the block rules are evaluated all the same.
AllowRuleDoesNotReturn(t) ==
    /\ pc[t] = "allow_rules"
    /\ Assign(t, [local[t] EXCEPT
            !.matched = FirstApplicable(rules, "kAllow", Kind(t))])
    /\ Goto(t, "block_rules")
    /\ UNCHANGED <<settings, event_counter, request, heard, witness>>

EvaluateAllowRules(t) ==
    /\ pc[t] = "allow_rules"
    /\ LET rule == FirstApplicable(rules, "kAllow", Kind(t)) IN
       \/ /\ rule # NoRule
          /\ Report(t, [local[t] EXCEPT !.matched = rule])
       \/ /\ rule = NoRule
          /\ Goto(t, "block_rules")
          /\ UNCHANGED local
    /\ UNCHANGED <<settings, event_counter, request, heard, witness>>

\* Mutant: only the first rule returned is looked at.
BlockByFirstRuleOnly(t) ==
    /\ pc[t] = "block_rules"
    /\ LET found == FindMatchingRules(rules, "kBlock", Kind(t).host, Kind(t).path)
           first == rules[CHOOSE i \in found :
                            \A j \in found : ReturnedBefore(rules, i, j)]
       IN  Report(t, IF found = {} \/ ~Applies(first, Kind(t)) THEN local[t]
                     ELSE [local[t] EXCEPT !.matched = first, !.decision = "kBlock"])
    /\ UNCHANGED <<settings, event_counter, request, heard, witness>>

\* Mutant: any block rule of the host blocks, whatever its options say.
BlockRulesIgnoreOptions(t) ==
    /\ pc[t] = "block_rules"
    /\ Report(t, [local[t] EXCEPT !.decision =
            IF FindMatchingRules(rules, "kBlock", Kind(t).host, Kind(t).path) # {}
            THEN "kBlock" ELSE "kAllow"])
    /\ UNCHANGED <<settings, event_counter, request, heard, witness>>

\* The branch of the loop that allows a first-party request is never taken: a
\* rule that requires a third party was skipped for such a request.
EvaluateBlockRules(t) ==
    /\ pc[t] = "block_rules"
    /\ LET rule == FirstApplicable(rules, "kBlock", Kind(t)) IN
       \/ /\ rule # NoRule
          /\ Report(t, [local[t] EXCEPT !.matched = rule, !.decision = "kBlock",
                                        !.classification = "kKnownTracker"])
       \/ /\ rule = NoRule
          /\ Report(t, local[t])
    /\ UNCHANGED <<settings, event_counter, request, heard, witness>>

\* Mutant: the counter is loaded and stored, and an increment may get lost.
GenerateEventIdTorn(t) ==
    /\ pc[t] = "generate_id"
    /\ Assign(t, [local[t] EXCEPT !.id = event_counter])
    /\ event_counter' \in {event_counter, event_counter + 1}
    /\ Goto(t, "dispatch")
    /\ UNCHANGED <<settings, request, heard, witness>>

\* fetch_add
GenerateEventId(t) ==
    /\ pc[t] = "generate_id"
    /\ Assign(t, [local[t] EXCEPT !.id = event_counter])
    /\ event_counter' = event_counter + 1
    /\ Goto(t, "dispatch")
    /\ UNCHANGED <<settings, request, heard, witness>>

\* The listeners are copied under the lock and called outside it.
DispatchEvent(t) ==
    /\ pc[t] = "dispatch"
    /\ Assign(t, [local[t] EXCEPT !.audience = listeners_])
    /\ Goto(t, "call")
    /\ UNCHANGED <<settings, event_counter, request, heard, witness>>

\* The event's id, its type and the rule, and, as history, what it is about.
PrivacyEvent(t) ==
    [id |-> local[t].id, type |-> local[t].event, of |-> t,
     hop |-> request[t].hops, rule |-> local[t].matched]

CallListener(t) ==
    /\ pc[t] = "call" /\ local[t].audience # <<>>
    /\ heard' = [heard EXCEPT ![Head(local[t].audience)] = Append(@, PrivacyEvent(t))]
    /\ Assign(t, [local[t] EXCEPT !.audience = Tail(@)])
    /\ UNCHANGED <<settings, event_counter, request, pc, witness>>

EventDispatched(t) ==
    /\ pc[t] = "call" /\ local[t].audience = <<>>
    /\ Goto(t, local[t].resume)
    /\ UNCHANGED <<settings, event_counter, request, local, heard, witness>>

\* The throttle lets the request through, the server redirects it, and
\* WillRedirectRequest evaluates the new URL: a subresource as kOther.
WillRedirectRequest(t, k) ==
    /\ pc[t] = "done" /\ local[t].decision = "kAllow"
    /\ request[t].hops < MaxHops
    /\ k.throttle = Kind(t).throttle
    /\ LET redirected ==
            [k EXCEPT !.resource_type =
                IF k.throttle = "navigation" THEN Kind(t).resource_type ELSE "kOther"]
       IN  /\ request' = [request EXCEPT ![t] = [kind |-> redirected, hops |-> @.hops + 1]]
           /\ BeginHop(t, redirected)
           /\ Goto(t, FirstStep(redirected))
    /\ Assign(t, Fresh)
    /\ UNCHANGED <<settings, event_counter, heard>>

-----------------------------------------------------------------------------
(* Settings, changed by any thread *)

Running(t) == pc[t] \notin {"idle", "unthrottled", "done"}
Consulting(t) == pc[t] \in {"known_tracker", "allow_rules", "block_rules"}

\* The rules the requests are evaluated against become now; if they differ, that
\* counts as by changes, and two are as good as many.
RulesBecome(now, by) ==
    witness' = [t \in Requests |->
        IF now = rules \/ ~Consulting(t) THEN witness[t]
        ELSE [witness[t] EXCEPT !.standing = @ \cap RulesOf(now),
                                !.ever = @ \cup RulesOf(now),
                                !.changes = IF @ = 0 THEN by ELSE 2]]

\* The parsed list is added rule by rule, one lock acquisition each.
LoadFromText(list) ==
    /\ loading = NoLoad
    /\ loading' = [db |-> database, rest |-> list]
    /\ UNCHANGED <<enabled, database, content, site_exceptions, listeners_,
                   event_counter, request, pc, local, heard, witness>>

LoadNextRule ==
    /\ loading # NoLoad
    /\ LET now == [content EXCEPT ![loading.db] = AddRule(@, Head(loading.rest))]
       IN  content' = now /\ RulesBecome(now[database], 1)
    /\ loading' = IF Len(loading.rest) = 1 THEN NoLoad
                  ELSE [loading EXCEPT !.rest = Tail(@)]
    /\ UNCHANGED <<enabled, database, site_exceptions, listeners_, event_counter,
                   request, pc, local, heard>>

Clear ==
    /\ content' = [content EXCEPT ![database] = <<>>]
    /\ RulesBecome(<<>>, 1)
    /\ UNCHANGED <<enabled, database, loading, site_exceptions, listeners_,
                   event_counter, request, pc, local, heard>>

\* Another set of rules at once: as many changes as one likes.
SetDatabase(d) ==
    /\ database' = d
    /\ RulesBecome(content[d], 2)
    /\ UNCHANGED <<enabled, content, loading, site_exceptions, listeners_,
                   event_counter, request, pc, local, heard>>

SetSiteException(site, exception) ==
    /\ site_exceptions' = [site_exceptions EXCEPT ![site] = exception]
    /\ UNCHANGED <<enabled, database, content, loading, listeners_, event_counter,
                   request, pc, local, heard>>
    /\ witness' = [t \in Requests |-> IF ~Running(t) THEN witness[t] ELSE
            [witness[t] EXCEPT
                !.exempt = @ /\ (Exception(Kind(t).initiator) = "kAllowAll")',
                !.settled = FALSE]]

SetPrivacyProtectionEnabled(on) ==
    /\ enabled' = on
    /\ witness' = [t \in Requests |->
            [witness[t] EXCEPT !.off = @ /\ (~on \/ ~Running(t))]]
    /\ UNCHANGED <<database, content, loading, site_exceptions, listeners_,
                   event_counter, request, pc, local, heard>>

AddListener(listener) ==
    /\ Len(listeners_) < MaxListeners
    /\ listeners_' = Append(listeners_, listener)
    /\ UNCHANGED <<enabled, database, content, loading, site_exceptions,
                   event_counter, request, pc, local, heard, witness>>

ClearListeners ==
    /\ listeners_' = <<>>
    /\ witness' = [t \in Requests |->
            IF Running(t) THEN [witness[t] EXCEPT !.audience = {}] ELSE witness[t]]
    /\ UNCHANGED <<enabled, database, content, loading, site_exceptions,
                   event_counter, request, pc, local, heard>>

-----------------------------------------------------------------------------
Step(t) ==
    \/ MaybeCreate(t) \/ SanitizeUrl(t) \/ EvaluateRequest(t)
    \/ LookupHostException(t) \/ LookupDomainException(t)
    \/ LookupKnownTracker(t) \/ EvaluateAllowRules(t) \/ EvaluateBlockRules(t)
    \/ GenerateEventId(t) \/ DispatchEvent(t) \/ CallListener(t) \/ EventDispatched(t)
    \/ \E k \in RequestKinds : WillRedirectRequest(t, k)

Settings ==
    \/ \E list \in RuleLists : LoadFromText(list)
    \/ LoadNextRule
    \/ Clear
    \/ \E d \in Databases : SetDatabase(d)
    \/ \E s \in Sites, e \in {"kDefault", "kAllowAll", "kBlockAll"} :
            SetSiteException(s, e)
    \/ \E on \in BOOLEAN : SetPrivacyProtectionEnabled(on)
    \/ \E l \in Listeners : AddListener(l)
    \/ ClearListeners

Next == (\E t \in Requests : Step(t)) \/ Settings

Spec == Init /\ [][Next]_vars
-----------------------------------------------------------------------------
Labels == {"idle", "unthrottled", "sanitize", "policy", "site_host", "site_domain",
           "known_tracker", "allow_rules", "block_rules", "generate_id", "dispatch",
           "call", "done"}

TypeOK ==
    /\ enabled \in BOOLEAN /\ database \in Databases
    /\ \A d \in Databases : Len(content[d]) <= MaxRules
    /\ loading.db \in Databases \cup {"none"}
    /\ event_counter \in Nat \ {0} /\ Len(listeners_) <= MaxListeners
    /\ pc \in [Requests -> Labels]
    /\ \A t \in Requests :
        /\ request[t].hops \in 0..MaxHops
        /\ local[t].decision \in {"kAllow", "kBlock"}
        /\ local[t].id < event_counter
        /\ local[t].audience \in Seq(Listeners)

\* The result is decided; what is left is to tell the listeners.
Decided(t) ==
    \/ pc[t] = "done"
    \/ pc[t] \in {"generate_id", "dispatch", "call"} /\ local[t].resume = "done"

Blocked(t) == Decided(t) /\ local[t].decision = "kBlock"

\* The tracker rules were consulted and let the request through.
Cleared(t) ==
    /\ Decided(t) /\ local[t].decision = "kAllow"
    /\ local[t].exception # "kAllowAll" /\ witness[t].before # <<>>

Speaks(type, set, t) == \E rule \in set :
    rule.rule_type = type /\ Applies(rule, Kind(t))
        /\ FindMatchingRules(<<rule>>, type, Kind(t).host, Kind(t).path) # {}

\* However the rules change meanwhile, a request is not blocked against an allow
\* rule that stood during the whole evaluation, nor by a rule that never was there.
BlockRespectsStandingAllow ==
    \A t \in Requests : Blocked(t) =>
        /\ ~Speaks("kAllow", witness[t].standing, t)
        /\ local[t].matched \in witness[t].ever

\* Nor is a request let through against a block rule that stood during the whole
\* evaluation, unless some allow rule for it was there at some time.
StandingBlockIsApplied ==
    \A t \in Requests :
        Cleared(t) /\ Speaks("kBlock", witness[t].standing, t)
            => Speaks("kAllow", witness[t].ever, t)

\* The decision the rules of one moment lead to.
DecisionAt(db, k) ==
    IF FirstApplicable(db, "kAllow", k) = NoRule
       /\ FirstApplicable(db, "kBlock", k) # NoRule
    THEN "kBlock" ELSE "kAllow"

\* The three lookups of an evaluation take the lock three times; as long as the
\* rules change at most once in between, the decision is that of one moment.
OneChangeIsAtomic ==
    [][\A t \in Requests :
        pc[t] \in {"allow_rules", "block_rules"} /\ Decided(t)'
            /\ witness[t].changes <= 1
        => local[t].decision' \in {DecisionAt(witness[t].before, Kind(t)),
                                   DecisionAt(rules, Kind(t))}]_vars

\* A site that is allowed everything is not blocked, as long as its exceptions
\* are left alone during the evaluation.
ExemptSiteNotBlocked ==
    \A t \in Requests :
        Blocked(t) => ~(witness[t].exempt /\ witness[t].settled)

\* A hop that runs while the protection is off is neither blocked nor reported,
\* though the throttle was created while it was on.
OffMeansUntouched ==
    \A t \in Requests :
        witness[t].off => ~Blocked(t) /\ local[t].event = "none"

\* A listener that listened since the hop began has heard of the block, with the
\* rule that blocked, when the request is cancelled.
BlockIsReported ==
    \A t \in Requests : pc[t] = "done" /\ Blocked(t) =>
        \A l \in witness[t].audience : \E i \in DOMAIN heard[l] :
            /\ heard[l][i].of = t /\ heard[l][i].hop = request[t].hops
            /\ heard[l][i].type = "request_blocked"
            /\ heard[l][i].rule = local[t].matched

\* No two events carry the same id, whichever listeners and threads they reach.
EventIdsUnique ==
    \A l, m \in Listeners : \A i \in DOMAIN heard[l], j \in DOMAIN heard[m] :
        heard[l][i].id = heard[m][j].id => heard[l][i] = heard[m][j]
=============================================================================
