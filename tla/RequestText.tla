------------------------------ MODULE RequestText ------------------------------
(***************************************************************************)
(* What becomes of the texts: filter lists become rules, and the URL of a  *)
(* request is cleaned, matched against them and reported, or observed and  *)
(* sent to Cognitia.  PrivacyEngine models the same request path with its  *)
(* interleavings and settings, over parsed requests; here an operation is  *)
(* one step, the protection is on and no site has an exception.            *)
(***************************************************************************)
EXTENDS RuleIndex, UrlText, ThirdPartyClassifier

CONSTANT Workloads   \* records: the lists, URLs, initiators, numbers of types, URL
                     \* policies and further tracking parameters of a behaviour

\* UrlExposurePolicy
UrlPolicies == {"kFullUrlSanitized", "kOriginOnly", "kOmitted"}

\* Lines that are rules keep to the syntax; a list may hold any other lines.
ASSUME WorkloadAssumption ==
    \A w \in Workloads :
        /\ \A list \in w.lists :
            /\ list \in Seq(ToSet(list))
            /\ \A line \in ToSet(list) : line \in Seq(ToSet(line)) /\ (IsValid(line) => IsRuleLine(line))
        /\ \A url \in w.urls : IsUrl(url)
        /\ w.types \subseteq Nat /\ w.policies \subseteq UrlPolicies

VARIABLES
    workload,          \* the workload of this behaviour
    tracking_params_,  \* TrackingParameterFilter::tracking_params_
    url_policy_,       \* BrowserObservationCollector::url_policy_
    last               \* what the operation under way was given and what it gave

vars == <<indexVars, workload, tracking_params_, url_policy_, last>>

Nothing == [op |-> "none"]

Init ==
    /\ IndexInit
    /\ workload \in Workloads
    /\ tracking_params_ = CanonicalTrackingParams
    /\ url_policy_ = "kFullUrlSanitized"
    /\ last = Nothing

-----------------------------------------------------------------------------
(* TrackerBlocker::EvaluateRequest *)

Classification(host) == IF IsKnownTrackerHost(host) THEN "kKnownTracker" ELSE "kNotTracker"

\* The type and the party of the request are the rule's.
Applies(rule, type, party) ==
    /\ MatchesResourceType(type, rule.resource_types)
    /\ rule.require_third_party => party = "kThirdParty"
    /\ rule.require_first_party => party \in {"kFirstParty", "kSameSite"}

\* The first allow rule that applies decides, else the first block rule.  (A block
\* rule for third parties applies to third parties only, so it blocks, too.)
EvaluateRequest(url, initiator, type) ==
    LET host == ExtractHostname(url)
        party == Classify(host, initiator)
        Some(found) == \E v \in DOMAIN found : Applies(found[v], type, party)
    IN  IF /\ ~Some(FindMatchingAllowRules(host, ExtractPath(url)))
           /\ Some(FindMatchingBlockRules(host, ExtractPath(url)))
        THEN [decision |-> "kBlock", classification |-> "kKnownTracker"]
        ELSE [decision |-> "kAllow", classification |-> Classification(host)]

-----------------------------------------------------------------------------
(* Requests *)

\* The types of Chromium by their numbers from 0; a larger one is kOther.
ConvertResourceType(number) ==
    LET types == << "kMainFrame", "kSubFrame", "kStylesheet", "kScript", "kImage",
                    "kFont", "kSubFrame", "kOther", "kMedia", "kWebSocket",
                    "kPingBeacon", "kXhrFetch" >>
    IN  IF number < Len(types) THEN types[number + 1] ELSE "kOther"

Event(type, url) ==
    [event_type |-> type, host |-> ExtractHostname(url),
     sanitized_url |-> SanitizeUrlForTelemetry(url)]

DecisionEvents(result, url) ==
    CASE result.decision = "kBlock" -> << Event("request_blocked", url) >>
      [] result.decision = "kAllow" /\ result.classification = "kKnownTracker"
            -> << Event("tracker_detected", url) >>
      [] OTHER -> <<>>

\* SanitizeUrl and EvaluateRequest, as both handlers of the throttle call them.
Throttled(op, url, initiator, type) ==
    LET cleaned == StripTrackingParameters(tracking_params_, url)
        target == cleaned.cleaned_url
        result == EvaluateRequest(target, initiator, type)
    IN  last' = [op |-> op, given |-> url, target |-> target,
                 initiator |-> initiator, type |-> type, decision |-> result.decision,
                 events |-> (IF cleaned.removed_parameters = <<>> THEN <<>>
                             ELSE << Event("tracking_parameter_removed", target) >>)
                            \o DecisionEvents(result, target)]

Passive == UNCHANGED <<indexVars, workload, tracking_params_, url_policy_>>

Idle == last = Nothing

WillStartRequest(url, initiator, number) ==
    /\ Idle
    /\ Throttled("request", url, initiator, ConvertResourceType(number))
    /\ Passive

\* The server may redirect to any URL, the cleaned one of the request included.
WillRedirectRequest(url) ==
    /\ last.op \in {"request", "redirect"} /\ last.decision = "kAllow"
    /\ Throttled("redirect", url, last.initiator, "kOther")
    /\ Passive

-----------------------------------------------------------------------------
(* Observations *)

\* The page of an envelope.  The origin goes with it, kOmitted or not.
Page(url, policy) == [url |-> SanitizeUrl(url, policy), origin |-> Origin(url)]

EmitEvent(url) ==
    /\ Idle
    /\ last' = [op |-> "observation", given |-> url,
                payload |-> [page |-> Page(url, url_policy_)]]
    /\ Passive

MaxBytes == [kSelectedText |-> 65536, kMetadataOnly |-> 16384, kMainPageContent |-> 262144]

\* The size of the text is all that is left of it; a longer one is cut off.
SanitizeRawText(size, max_bytes) ==
    [byte_length |-> IF size > max_bytes THEN max_bytes ELSE size,
     is_truncated |-> size > max_bytes]

Scope(mode) == IF mode = "kSelectedText" THEN "selection" ELSE "page"

\* What varies of the payload of a ContentEnvelope.
ContentPayload(mode, page, content) ==
    [content_authorization |-> [mode |-> mode, scope |-> Scope(mode)],
     page |-> page, content |-> content]

\* The URL of the page is sent in full, whatever url_policy_ says; without a page the
\* callback gets no envelope.  The text of size bytes is the selection, or title and
\* origin for kMetadataOnly.
ExtractAuthorizedContent(url, mode, size) ==
    /\ Idle
    /\ last' = [op |-> "content", given |-> url,
                payload |-> ContentPayload(mode, Page(url, "kFullUrlSanitized"),
                                           SanitizeRawText(size, MaxBytes[mode]))]
    /\ Passive

\* The mock adapter's observation of a page.
observe_navigation(url) ==
    /\ Idle
    /\ last' = [op |-> "mock", given |-> url, url |-> sanitize_url(url)]
    /\ Passive

-----------------------------------------------------------------------------
(* Settings *)

AddTrackingParameter(name) ==
    /\ Idle
    /\ tracking_params_' = tracking_params_ \cup {ToLower(name)}
    /\ UNCHANGED <<indexVars, workload, url_policy_, last>>

SetUrlExposurePolicy(policy) ==
    /\ Idle
    /\ url_policy_' = policy
    /\ UNCHANGED <<indexVars, workload, tracking_params_, last>>

ChangeRules ==
    /\ Idle
    /\ \/ \E t \in Loaders :
            AddRule(t) \/ \E list \in workload.lists : LoadFromText(t, list)
       \/ Clear
    /\ UNCHANGED <<workload, tracking_params_, url_policy_, last>>

\* A request that was not cancelled may be redirected, then or never.
Finish == ~Idle /\ last' = Nothing /\ Passive

Next ==
    \/ ChangeRules
    \/ \E name \in workload.params : AddTrackingParameter(name)
    \/ \E policy \in workload.policies : SetUrlExposurePolicy(policy)
    \/ \E url \in workload.urls :
        \/ \E initiator \in workload.initiators, number \in workload.types :
                WillStartRequest(url, initiator, number)
        \/ WillRedirectRequest(url)
        \/ EmitEvent(url)
        \/ \E mode \in DOMAIN MaxBytes :
                \E size \in {MaxBytes[mode], MaxBytes[mode] + 1} :
                    ExtractAuthorizedContent(url, mode, size)
        \/ observe_navigation(url)
    \/ last.op \in {"request", "redirect"} /\ WillRedirectRequest(last.target)
    \/ Finish

Spec == Init /\ [][Next]_vars

-----------------------------------------------------------------------------
(* Rules *)

Throttles == last.op \in {"request", "redirect"}

\* The buckets of rule_database.cc return, for the hosts and paths of the workload,
\* the rules that RuleDatabase's list returns and in its order, and know the same
\* tracker hosts, in whatever order the lines of the lists came in: what
\* PrivacyEngine shows over that list it shows of the buckets.
LookupsAgree ==
    \A url \in workload.urls : AgreesOn(ExtractHostname(url), ExtractPath(url))

\* The values of the tokens of a kind in a line.
With(line, kind) == {line[i][2] : i \in {j \in DOMAIN line : line[j][1] = kind}}

\* The options of a line but for the party's, known or not, and the types they name.
TypeOptions(line) == With(line, "option") \ {"third-party", "3p", "first-party", "1p"}
NamedTypes(line) == {TypeOfOption[o] : o \in TypeOptions(line) \cap DOMAIN TypeOfOption}

\* What a line of a filter list says of a request, as documented: subdomains are for
\* || lines (PRIVACY_RULE_ENGINE.md:13-19, test_privacy_p1.py:105-108, :180), and
\* an option nobody knows is a type that no request has (test_privacy_p1.py:126, :194).
LineCovers(line, host, path, party, type) ==
    LET options == With(line, "option")
    IN  /\ \E domain \in With(line, "domain") :
            IF "||" \in Kinds(line) THEN IsSuffix(domain, host) ELSE domain = host
        /\ With(line, "/") \subseteq path
        /\ options \cap {"third-party", "3p"} # {} => party = "kThirdParty"
        /\ options \cap {"first-party", "1p"} # {} => party # "kThirdParty"
        /\ TypeOptions(line) # {} => type \in NamedTypes(line)

\* The host and the path of a URL, wherever its delimiters stand.
HostOf(url) == url[Find(url, {"host"})][2]
PathPatterns(url) ==
    UNION {token[2] : token \in {t \in ToSet(Before(url, {"?", "#"})) : t[1] = "/"}}

\* The lines that became rules.
RuleLines == {rule.original_rule_text : rule \in ToSet(accepted)}

\* The request was blocked exactly if a block line covers it and no line with @@ does.
DecidedByLines ==
    LET host == HostOf(last.target)
        Covering == {line \in RuleLines :
                        LineCovers(line, host, PathPatterns(last.target),
                                   Classify(host, last.initiator), last.type)}
    IN  last.decision = "kBlock" <=>
            /\ Covering # {}
            /\ \A line \in Covering : line[1][1] # "@@"

\* The code reads a line otherwise only if it has no || and the host is below its
\* domain, or if it names types and the code knows none of them.
ReadAsDocumented(line, host) ==
    /\ \/ "||" \in Kinds(line)
       \/ \A domain \in With(line, "domain") : IsSuffix(domain, host) => domain = host
    /\ TypeOptions(line) # {} => NamedTypes(line) # {}

\* Where every line is read as documented, the decision is that of the lines: parsing,
\* buckets, lookup order and the two loops of TrackerBlocker together mean what the
\* rule syntax says.  It is not what the code makes of the other lines: it keeps
\* match_subdomains on without ||, reads types of which it knows none as all types,
\* and takes the user of a URL with userinfo for the host.
RulesMeanTheirLines ==
    /\ Throttles
    /\ "@" \notin Kinds(last.target)
    /\ \A line \in RuleLines : ReadAsDocumented(line, HostOf(last.target))
    => DecidedByLines

-----------------------------------------------------------------------------
(* URLs *)

\* The first "?" starts the query and is not part of the fragment.
HasQuery(url) == "?" \in Kinds(Before(url, {"#"}))

\* Cleaning takes the tracking parameters out of the query and nothing else: what
\* is before and after the query stays, and of the query every other item, in its
\* order, a repeated one as often as it was.  A URL without a "?" stays as it is.
\* (In a URL without
\* a query the code takes a "?" in the fragment for the start of one.)
OnlyTrackingRemoved ==
    LET Query(url) == Items(QueryText(Before(url, {"#"})), "&")
        Functional(items) ==
            {k \in DOMAIN items : ~IsTrackingParameter(tracking_params_, Key(items[k]))}
    IN  Throttles =>
        /\ HasQuery(last.given) =>
            /\ Before(last.target, {"?", "#"}) = Before(last.given, {"?", "#"})
            /\ From(last.target, {"#"}) = From(last.given, {"#"})
            /\ Query(last.target) = Pick(Query(last.given), Functional(Query(last.given)))
        /\ "?" \notin Kinds(last.given) => last.target = last.given

\* Cleaning a URL never changes what the rules say of it: the throttle may decide
\* over the cleaned URL although Chromium was asked for the raw one, and a value
\* that holds the path of a rule does not make the URL match that rule.
CleaningKeepsDecision ==
    Throttles =>
        /\ ExtractHostname(last.target) = ExtractHostname(last.given)
        /\ EvaluateRequest(last.given, last.initiator, last.type).decision = last.decision

SentUrls ==
    CASE Throttles -> {event.sanitized_url : event \in ToSet(last.events)}
      [] last.op \in {"observation", "content"} -> {last.payload.page.url, last.payload.page.origin}
      [] last.op = "mock" -> {last.url}
      [] OTHER -> {}

\* The query keys of the redaction matrix (COGNITIA_SECURITY_MODEL_V1.md:69).
MatrixKeys ==
    {"token", "auth", "password", "key", "secret", "session", "sig", "apikey", "code",
     "refresh_token"}

\* The keys whose values a sender hides: the engine and the mock have lists of their
\* own, the adapter's covers the matrix.
HiddenKeys ==
    CASE Throttles -> SensitiveQueryKeys
      [] last.op \in {"observation", "content"} -> MatrixKeys
      [] last.op = "mock" -> SENSITIVE_QUERY_PARAMS

\* The query of the URL has no value of these keys, however they are spelled.
RedactsQuery(url, keys) ==
    \A item \in ToSet(Items(QueryText(Before(url, {"#"})), "&")) :
        ToLower(Key(item)) \in keys => item[1][3] = Redacted

\* The query of a URL that is sent has no value of a key that its sender means to
\* hide, and the URL has no password.  An observation or a content envelope keeps to
\* the redaction matrix and has no userinfo and no fragment; an event has no userinfo
\* in its URL.  So the daemon's credential check, which looks for a password in the
\* URL, never refuses what the browser sends.  (What the engine leaves in: see
\* DocEventFields.  The mock keeps the user of user:pass@host.)
SecretsRedacted ==
    \A url \in SentUrls :
        /\ "pass" \notin Kinds(url)
        /\ RedactsQuery(url, HiddenKeys)
        /\ last.op # "mock" => "user" \notin Kinds(url) /\ ~LeaksPassword(url)
        /\ last.op \in {"observation", "content"} => "#" \notin Kinds(url)

\* The fields of an event: the "Target host", and an "Explicitly sanitized URL (zero
\* credentials/tokens/secrets)" (privacy_event.h:14-15).  Of user:pass@host the code
\* takes the user for the host; its list of keys is shorter than the adapter's, and
\* the fragment, in which an access_token may stand, is copied.
DocEventFields ==
    Throttles => \A event \in ToSet(last.events) :
        LET url == event.sanitized_url
        IN  /\ event.host = HostOf(last.target)
            /\ \A i \in DOMAIN url :
                    url[i][1] = "param"
                    /\ ToLower(url[i][2]) \in MatrixKeys \cup {"access_token"}
                        => url[i][3] \in {Redacted, NoValue}
=============================================================================
