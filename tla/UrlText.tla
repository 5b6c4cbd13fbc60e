-------------------------------- MODULE UrlText --------------------------------
(***************************************************************************)
(* The four rewritings of a URL: without its tracking parameters, for the  *)
(* events of the privacy engine, for the observations of the Cognitia      *)
(* adapter, and by the mock adapter.  Each scans the text on its own and   *)
(* none parses the whole URL, so where a "?" or an "@" stands matters.     *)
(*                                                                         *)
(* A URL is what follows "://", as GURL prints it: the host has a path,    *)
(* and "@", "/" before the path occur only around the userinfo.  Tokens:   *)
(* <<"user">>, <<"pass">>, <<"host", labels>>, <<"/", patterns>> for a     *)
(* path and the patterns it contains, <<"param", key, value>> for an item  *)
(* of a query, and the delimiters @ : ? & #.                               *)
(***************************************************************************)
EXTENDS TextTokens

CONSTANT LowerCase   \* spellings of keys that are not in lower case, and what they become

\* A key with a "?" in it has no other spelling, for nobody looks for it.
ASSUME LowerCaseAssumption == "?" \notin DOMAIN LowerCase

\* The kinds before the first "/".
AuthorityKinds == {<<"host">>, <<"user", "@", "host">>, <<"user", ":", "pass", "@", "host">>}

IsUrl(url) ==
    /\ url \in Seq(ToSet(url))
    /\ "/" \in Kinds(url)
    /\ Shape(Before(url, {"/"})) \in AuthorityKinds
    /\ {"user", "pass", "host"} \cap Kinds(From(url, {"/"})) = {}
    /\ \A i \in DOMAIN url : url[i][1] = "host" => url[i][2] \in Seq(ToSet(url[i][2])) \ {<<>>}

ToLower(key) == IF key \in DOMAIN LowerCase THEN LowerCase[key] ELSE key

Redacted == "[REDACTED]"
NoValue == "none"     \* an item without "="

HasValue(item) == \E i \in DOMAIN item : item[i][1] = "param" /\ item[i][3] # NoValue

\* The text of an item up to its first "=", the whole item if there is none.  If
\* a stray "?" is part of it, it is a key nobody looks for.
Key(item) ==
    IF item[1][1] = "param" /\ (item[1][3] # NoValue \/ Len(item) = 1)
    THEN item[1][2] ELSE "?"

-----------------------------------------------------------------------------
(* Hosts and paths *)

NotAHost == <<"userinfo">>   \* any text that no rule and no site is named

\* Up to the first of / ? # and :, so that of user:pass@host the user remains, and of
\* user@host all, a text that differs from the host in its first label.
ExtractHostname(url) ==
    LET text == Before(url, {"/", "?", "#", ":"})
        end == text[Len(text)]
    IN  CASE text = <<>> -> <<>>
          [] text # <<>> /\ end[1] # "host" -> NotAHost
          [] text # <<>> /\ end[1] = "host" ->
                IF Len(text) = 1 THEN end[2] ELSE [end[2] EXCEPT ![1] = "user@"]

\* Mutant: the query is searched for the path of a rule, too.
ExtractPathAndQuery(url) ==
    UNION {url[i][2] : i \in {j \in DOMAIN url : url[j][1] = "/"}}

\* The patterns the path contains.
ExtractPath(url) ==
    LET text == Before(From(url, {"/"}), {"?", "#"})
    IN  UNION {text[i][2] : i \in {j \in DOMAIN text : text[j][1] = "/"}}

-----------------------------------------------------------------------------
(* tracking_parameter_filter.cc *)

\* TrackingParameterFilter::tracking_params_ after its construction.
CanonicalTrackingParams ==
    {"utm_source", "utm_medium", "utm_campaign", "utm_term", "utm_content", "utm_id",
     "utm_source_platform", "utm_creative_format", "utm_marketing_tactic",
     "gclid", "gbraid", "wbraid", "dclid", "fbclid", "msclkid", "mc_eid", "mc_cid",
     "yclid", "_openstat", "igshid", "twclid", "mkt_tok", "_hsenc", "_hsmi",
     "elqtrackid", "elqaid", "elqat"}

IsTrackingParameter(params, key) == ToLower(key) \in params

\* The query as all three scanners of the code cut it out: after the first "?",
\* wherever that is, and up to the "#" that follows it.
QueryText(url) == Before(After(url, {"?"}), {"#"})
FragmentText(url) == From(After(url, {"?"}), {"#"})

\* Mutant: the fragment is forgotten.
RebuiltWithoutFragment(url, items) ==
    Before(url, {"?"}) \o (IF items = <<>> THEN <<>> ELSE << <<"?">> >>) \o Join(items, "&")

Rebuilt(url, items) ==
    Before(url, {"?"}) \o (IF items = <<>> THEN <<>> ELSE << <<"?">> >>)
        \o Join(items, "&") \o FragmentText(url)

\* A URL without a tracking parameter is left as it is, its empty items included.
StripTrackingParameters(params, url) ==
    LET items == Items(QueryText(url), "&")
        removed == {k \in DOMAIN items : IsTrackingParameter(params, Key(items[k]))}
    IN  [cleaned_url |-> IF removed = {} THEN url
                         ELSE Rebuilt(url, Pick(items, DOMAIN items \ removed)),
         removed_parameters |-> MapSeq(Key, Pick(items, removed))]

-----------------------------------------------------------------------------
(* privacy_policy_manager.cc: the URL of an event *)

SensitiveQueryKeys ==
    {"token", "auth", "key", "secret", "password", "passwd", "access_token", "api_key",
     "apikey", "session", "session_id"}

IsSensitiveQueryKey(key) == ToLower(key) \in SensitiveQueryKeys

\* The userinfo goes if an "@" stands before the first "/".
WithoutUserinfo(url) ==
    IF "@" \in Kinds(Before(url, {"/"})) THEN After(url, {"@"}) ELSE url

\* Mutant: keys are compared as they are spelled.
RedactAsSpelled(item) ==
    IF Key(item) \in {"token", "secret"} THEN << <<"param", Key(item), Redacted>> >>
    ELSE item

RedactForTelemetry(item) ==
    IF IsSensitiveQueryKey(Key(item)) THEN << <<"param", Key(item), Redacted>> >>
    ELSE item

SanitizeUrlForTelemetry(url) ==
    LET bare == WithoutUserinfo(url)
    IN  IF "?" \notin Kinds(bare) THEN bare
        ELSE Rebuilt(bare, MapSeq(RedactForTelemetry, Items(QueryText(bare), "&")))

-----------------------------------------------------------------------------
(* url_sanitizer.cc: the URL of an observation *)

IsSensitiveQueryParam(key) ==
    ToLower(key) \in {"token", "access_token", "auth", "authtoken", "auth_token",
                      "password", "pass", "pwd", "secret", "session", "session_id",
                      "apikey", "api_key", "key", "signature", "sig", "code",
                      "refresh_token"}

\* GURL::DeprecatedGetOriginAsURL
Origin(url) == << <<"host", ExtractHostname(WithoutUserinfo(url))>>, <<"/", {}>> >>

\* net::QueryIterator: empty items are kept, but for one at the end.
QueryIterator(query) == Parts(query, "&")

\* Every item is written with a "=".
WrittenPair(item) ==
    IF item # <<>> /\ IsSensitiveQueryParam(Key(item))
    THEN << <<"param", Key(item), Redacted>> >>
    ELSE IF HasValue(item) THEN item ELSE item \o << <<"=">> >>

SanitizeUrl(url, policy) ==
    CASE policy = "kOmitted" -> <<>>
      [] policy = "kOriginOnly" -> Origin(url)
      [] policy = "kFullUrlSanitized" ->
            LET bare == Before(WithoutUserinfo(url), {"#"})
            IN  IF "?" \notin Kinds(bare) THEN bare
                ELSE Before(bare, {"?"}) \o << <<"?">> >>
                     \o Join(MapSeq(WrittenPair, QueryIterator(QueryText(bare))), "&")

-----------------------------------------------------------------------------
(* security_validator.py: the mock adapter's URL, and the daemon's test of it *)

SENSITIVE_QUERY_PARAMS ==
    {"token", "auth", "password", "secret", "session", "sig", "key", "access_token",
     "api_key", "passwd", "pwd", "client_secret", "refresh_token", "credential",
     "private_key", "bearer", "nonce", "csrf"}

Netloc(url) == Before(url, {"/", "?", "#"})

\* The user stays if there is a password.
HiddenUserinfo(netloc) ==
    LET user == Before(netloc, {"@", ":"})
    IN  IF "@" \notin Kinds(netloc) THEN netloc
        ELSE (IF ":" \in Kinds(Before(netloc, {"@"})) THEN user \o << <<":">> >> ELSE <<>>)
             \o << <<"***">> >> \o From(netloc, {"@"})

\* urlencode quotes the delimiters that an item holds.
Quoted(token) == IF token[1] \in {"?", "/"} THEN <<"%", token>> ELSE token

\* parse_qsl, the redaction, and urlencode, which writes a "=" for every item.
QuotedPair(item) ==
    IF ToLower(Key(item)) \in SENSITIVE_QUERY_PARAMS
    THEN << <<"param", Key(item), Redacted>> >>
    ELSE MapSeq(Quoted, item) \o (IF HasValue(item) THEN <<>> ELSE << <<"=">> >>)

sanitize_url(url) ==
    LET bare == Before(url, {"#"})
        pairs == MapSeq(QuotedPair, Items(QueryText(bare), "&"))
        fragment == After(url, {"#"})
    IN  HiddenUserinfo(Netloc(url)) \o Before(From(bare, {"/"}), {"?"})
        \o (IF pairs = <<>> THEN <<>> ELSE << <<"?">> >>) \o Join(pairs, "&")
        \o (IF fragment = <<>> THEN <<>> ELSE << <<"#">> >> \o fragment)

\* _check_credential_leakage refuses a URL that urlparse finds a password in.
LeaksPassword(url) ==
    "@" \in Kinds(Netloc(url)) /\ ":" \in Kinds(Before(Netloc(url), {"@"}))
=============================================================================
