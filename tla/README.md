# A verification development for Lean Thorium and its Cognitia adapter

This directory holds TLA+ models of the two subsystems of the repository that
have behaviour worth checking, the TLC runs that check them on small instances,
and TLAPS proofs of their central theorems for every size.

* the **Cognitia adapter**: browser observations travel from the UI thread
  through a bounded queue and a named pipe to a local daemon
  (`src/lean_thorium/src/chrome/browser/cognitia_adapter`, C++), and the session
  protocol on top of it, which the repository implements as an executable
  reference in Python (`src/protocol/mock`);
* the **privacy engine**: every request passes a throttle, a policy manager, a
  tracker rule database and an event dispatcher
  (`src/lean_thorium/src/chrome/browser/privacy`, C++).

To repeat everything: `tlc -config X.cfg M` for the runs of the table below and
`tlapm M.tla` for the eight `*Proofs` modules.

## 1. Inventory

| Component | State | Operations | Who calls it, on which thread |
|---|---|---|---|
| `BoundedEventQueue` (C++) | `queue_`, `dropped_count_` | Enqueue, EnqueueContentWithPolicy, Dequeue, Clear | the transport's worker; thread-safe by `lock_` |
| `NamedPipeTransportWin` | `pipe_handle_`, `status_`, the queue | SendObservation, TryReconnect post closures; connect, flush and send run them | UI thread posts, one sequenced worker runs |
| `BrowserObservationCollector` | `is_enabled_`, `url_policy_` | tab strip and page callbacks, EmitEvent | UI thread |
| `ProtocolValidator` | session, last number, used ids and numbers, established | validate_envelope, reset_session | the daemon, the replay harness |
| `MockThoriumAdapter` | kill switch, session, number, queue | start/close session, observe, kill switch | the browser side |
| `MockCognitiaDaemon` | validator, active session, own number, audit log, stores | process_incoming_envelope, generate_candidate_proposal | the transport, the host |
| `PrivacyPolicyManager` | `enabled_`, `event_counter_`, exceptions | EvaluateRequest, SanitizeUrl, setters | any thread; one instance per process |
| `TrackerBlocker`, `RuleDatabase` | the rules, four buckets, their count | lookups, AddRule, LoadFromText, Clear, SetDatabase | any thread; the database has a lock, the pointer to it has none |
| `PrivacyEventDispatcher` | `listeners_` | AddListener, ClearListeners, DispatchEvent | any thread |
| throttles | none of their own | MaybeCreate, start, redirect | one per request |
| `RuleParser`, `ThirdPartyClassifier`, URL sanitizers, security validator | none | pure functions | the above |
| `TrackingParameterFilter` | `tracking_params_` | AddTrackingParameter, StripTrackingParameters | the policy manager |
| `ContentExtractor` | none | ExtractAuthorizedContent | nobody yet |

What makes them hard, and where:

* *Interleaving.* The transport's worker blocks in `CreateFileW` and `WriteFile`
  while the UI thread posts and the daemon starts, stops and reads. A privacy
  evaluation takes four locks one after another (exceptions, database three
  times, listeners), and no lock spans two of them.
* *Failure.* A write fails in the middle of a flush; the daemon dies with unread
  messages; a rejected message has already moved the validator's session; the
  protocol check has used up a number when the security check refuses.
* *Ordering.* Re-queued items, delayed and repeated envelopes, two senders that
  number one session, events dispatched outside the lock.
* *Text.* Five scanners cut a URL at the first `?`, `#`, `@` or `/` they meet, each
  by itself; what one takes for the query another takes for the fragment.
* *Bounds.* Two drop-oldest queues, the rule limit, the strict sequence numbers
  that turn one drop into a gap.
* *Liveness.* Nothing retries a connection by itself.

Each hazard is listed at its line in `PROJECT.json` with the properties that
would notice it, or with the reason why none does.

What makes each component correct: the queue drops the oldest and counts; the
transport delivers at most once, in order except after a failed flush, and
leaves nothing posted; the validator takes no number twice and records nothing
it rejects; ingestion is a sequenced log; a privacy decision respects the rules,
exceptions and switch that held during the evaluation and is reported to
everyone who listens; a rule means what its line says; a cleaned or sent URL
has lost what it should and nothing else.

## 2. Modules

```
BoundedBuffer ------+-- BoundedEventQueue ---- BoundedEventQueueProofs
 (operators)        +-- NamedPipeTransport --- NamedPipeTransportProofs
                    |        | implements LossyChannel
ProtocolValidator --+-- SessionProtocol ------ SessionProtocolProofs
 (operators)        |        | implements SequencedLog
                    |        +-- SessionMC
                    +-- ValidatorStream ------ ValidatorStreamProofs

ThirdPartyClassifier + RuleDatabase --- PrivacyEngine --- PrivacyMC --- PrivacyRequestsMC
 (operators)                                  +--- PrivacyEngineProofs --- PrivacyDecisionProofs

TextTokens --+-- RuleParser --- RuleIndex --+
 (operators) +-- UrlText -------------------+-- RequestText --- RequestTextMC
             |                                      |
             +-- TextProofs ------------------------+-- RequestTextProofs
```

**BoundedBuffer** is the arithmetic of both drop-oldest queues on a sequence.

**BoundedEventQueue** is the C++ queue as callers see it: every operation holds
`lock_`, so an operation is one action. A payload is the number of the call that
offered it; history variables remember what was delivered, evicted, refused and
cleared. `Size`, `IsEmpty` and `dropped_count()` change nothing.

**NamedPipeTransport** is the outbound path. `tasks` is the worker's queue of
closures (0 is the closure of `TryReconnect`, n that of sending payload n), `pc`
the place of the worker between two blocking calls:

| `pc` | in the code |
|---|---|
| `create_file` | inside `CreateFileW` of ConnectOnBackgroundThread |
| `flush`, `write_item` | head of the flush loop; inside its `WriteFile`, with `queued_item` in hand |
| `after_connect` | ConnectOnBackgroundThread has returned |
| `write_payload` | inside the `WriteFile` of SendPayloadOnBackgroundThread |

The code between two such points runs in one action: the worker is the only
thread that touches the handle and the queue. A handle whose daemon is gone is
`"broken"`: writes to it fail. The pipe's kernel buffer (`pipe`, `PipeCapacity`)
and the daemon (`ServerStart`, `ServerStop`, `DaemonReads`) are external and are
modelled from how the code uses them. An observation is its number, in the order
of emission; one tab strip callback can emit none, one or two.

**LossyChannel** is what the path promises: each payload arrives at most once,
any may be lost. The refinement maps `sent` to `emitted`, `delivered` to
`received`, and `inTransit` to everything posted, in hand, buffered or in the pipe.

**ProtocolValidator** is `protocol_validator.py` as functions from the validator's
fields and an envelope to its new fields, in the order of the checks; a check
that raises keeps what the earlier ones assigned (`AfterHandshake`).
**ValidatorStream** feeds it any stream of envelopes.

**SessionProtocol** composes the mock adapter, a transport and the mock daemon.
The transport is a set, `wire`: any envelope on it may arrive, late, out of
order, again or never. That is a worse transport than a pipe; it is the one the
protocol document's duplicate, gap and order checks are written for, and the
tests deliver envelopes that way. In the repository no code drains the mock
adapter's queue (`Transmit` stands for the missing pump). The host's governance
reports decisions with envelopes and numbers of its own choosing, as the
governance tests do. The adapter's envelopes never include a SESSION_ACCEPT:
that is the daemon's reply, and the daemon's validator never sees it, so it
never counts as *established* (this is behind `DocGapIsFault` and `ImplementsSequencedLog`).
`detail = "oversized"` stands for whatever `validate_message_security` refuses
after the protocol check has used up the number.

**SequencedLog** is what ingestion promises: numbers 1, 2, 3, ... are consumed in
that order, each once; a consumed number may stay out of the log.

**SessionMC** holds the state constraint of its run.

**ThirdPartyClassifier**, **RuleDatabase** are the pure parts of the privacy
engine. A host is its sequence of labels (lower case, no trailing dot), a path
the set of patterns it contains, a resource mask a set of types. A database is
the sequence of the rules it accepted; the code's four buckets are projections
of it, and the order in which the code returns matches (longest domain first,
then by age, generic rules last) is `ReturnedBefore`.

**PrivacyEngine** takes one request at a time through a throttle and the policy
manager, with one action per lock acquisition or shared read, so everything else
can happen in between:

| `pc` | next thing read or done | code |
|---|---|---|
| `idle` | `enabled_`, to create a throttle | MaybeCreate, MaybeCreateThrottleFor |
| `sanitize` | `enabled_`, strip the parameters (not for a navigation) | SanitizeUrl |
| `policy` | `enabled_` | EvaluateRequest |
| `site_host`, `site_domain` | the exceptions, once for the initiator's host, once for its domain | SiteExceptionsManager |
| `known_tracker`, `allow_rules`, `block_rules` | the database, three times | TrackerBlocker::EvaluateRequest |
| `generate_id`, `dispatch`, `call` | the counter, the listeners (copied under the lock), each listener | PrivacyEventDispatcher |

`witness` is history: which rules, exceptions, switch and listeners held during
the current hop. The properties compare a decision with it. Rule lists load rule
by rule, one `LoadFromText` at a time, into the database that was current when it
began, while `SetDatabase` may switch databases. Rules and requests are given
parsed; `DataAssumption` names their fields. **PrivacyMC** and
**PrivacyRequestsMC** hold the constants and constraints of the two runs.

**RequestText** models what the other module is given parsed: the text of filter
lists and URLs. A text is a sequence of tokens (**TextTokens**): each delimiter the
code searches for is a token of its own, and so is what lies between two of
them. So the scanners are modelled by what they do, down to which delimiter they
look for first, and never character by character. `WorkloadAssumption` says which
texts there are: a URL is an authority, a path and any tokens behind it (`IsUrl`),
a list holds lines in the syntax of the rules (`IsRuleLine`) among any others that
are no rules, and a URL policy is one of the enumeration's three.

* **RuleParser** is `rule_parser.cc`: prefix, options, caret, domain and path.
* **RuleIndex** is `rule_database.cc` as it is built: buckets by domain, the walk
  from a host to its parents, the count and its limit, and several threads that
  load lists rule by rule, with the accepted rules as history. `LookupsAgree` says that its lookups are those of
  **RuleDatabase**, in the same order, which is why PrivacyEngine may use the list.
* **UrlText** has the four rewritings of a URL: `StripTrackingParameters`,
  `SanitizeUrlForTelemetry` (the events), `SanitizeUrl` (the observations) and the
  mock adapter's `sanitize_url`, and the daemon's test for a password in a URL.
* **RequestText** puts them together: a request or a redirect is cleaned,
  evaluated and reported; a page is observed by the collector, extracted by
  `ContentExtractor` or observed by the mock. Here an operation is one step, for
  its interleavings are PrivacyEngine's subject.

## 3. Runs

All runs finish in well under two minutes; sizes are distinct states.

| Run | Instance | Shows |
|---|---|---|
| BoundedEventQueue (941) | capacity 2 | order, oldest-first eviction, exact drop count, nothing unaccounted for |
| Transport (28 608) | capacity 2, 4 observations, 1 pending reconnect, pipe of 2 | eleven properties of the outbound path, see below |
| Validator (23 135) | 2 sessions, 3 ids, numbers to 3 | no number twice, gaps only at a HELLO, rejected messages leave no trace but a session switch |
| Session (520 542) | capacity 2, 2 sessions, numbers to 3, or to 2 where there are proposals, 2 proposals | ingestion refines SequencedLog, in a session whose HELLO was accepted a dropped envelope is a gap for good, active session accepted, the kill switch empties the queue, the daemon's own numbers are unique |
| PrivacyRules (1 281 504) | 1 request, 2 rule lists, 2 databases of 2 rules | the decision against changing rules |
| PrivacyRequests (805 888) | 2 requests and a listener registered up to twice; or 1 redirect, a site and its subdomain with exceptions | reports and event ids under concurrency; exceptions and the switch |
| RequestText (58 476) | 4 rule lists, 3 rules, 2 loaders; 28 URLs in two workloads | lines that the code reads as documented decide as documented, the buckets are the list, URLs lose what their sender means to hide |

Two runs join behaviours by an action constraint instead of multiplying them.
`ShortWithProposals` cuts long streams of observations once the daemon has
proposed something: proposals and observations are numbered independently and
meet only in the host's reports, for which two numbers are enough. `KeepsFocus`
gives a behaviour either two concurrent navigations with listeners, or redirects
and exceptions for one request at a time: events do not depend on exceptions
except through the event of an exempt site, which the second focus reaches.

Why these bounds are enough for the interesting cases. Capacity 2 is the least at
which an overflow keeps something younger than what it discards; 4 observations fill
queue, hand and pipe and still overflow (5 observations and 125 018 states were
checked too). Two sessions are enough for every stale, late or repeated message of an
old session, three numbers for a gap with something on both sides. Two rules are
enough for an allow and a block rule or for two block rules of different length, the
limit of 2 is reached inside a list, and two databases allow both a clear and a
switch. Two requests are needed for a clash of ids; everything else about a request is
independent of other requests except through the shared settings, which any action may
change at any time. The four rule lists have every kind of line (comment, no domain,
too long, `@@`, path, each party option, type options known, and one unknown beside a
known one), rules of a host and of its parent, and fill the database of 3 in the
middle of a list; two loaders interleave theirs. The URLs combine every delimiter with
every other one's text: a `?`, a second `?`, an empty item, a `#` before and after the
query, userinfo with and without a password, and sensitive and tracking keys in both
spellings.

The transport's properties: `NothingBufferedBehindOpenPipe`, `StatusMatchesHandle`,
`FailedFlushLosesNothing`, `PayloadsAccountedFor`, `DeliveredAtMostOnce` (safety);
`OrderLostOnlyByFailedFlush` (order is only ever lost in one place),
`OverflowDropsOldest` (as long as it is not, the queue drops the oldest of all),
`ImplementsLossyChannel` (refinement); `PostedIsHandled`,
`ReconnectDeliversBacklog` (liveness).

The privacy properties: `BlockRespectsStandingAllow` (no block against an allow
rule that stood throughout, nor by a rule that was never there),
`StandingBlockIsApplied` (no pass against a block rule that stood throughout,
unless an allow rule for it was there at some time), `OneChangeIsAtomic` (if the
rules change at most once during the three lookups, the decision is that of the
rules before or after), `ExemptSiteNotBlocked`, `OffMeansUntouched`,
`BlockIsReported`, `EventIdsUnique`.

The properties of texts: `RulesMeanTheirLines` (a request is blocked exactly if a
block line covers it and no `@@` line does, each line read as a whole, as the
documents and tests read it, and not by the parser; of the lines and URLs of which the
code means something else it says nothing: a line without `||` when a subdomain is
asked for, options of which the code knows none, a URL with userinfo), `LookupsAgree`
(the buckets return what the list would, in its order), `LoadsAccountedFor` (under
concurrent loads `total_rules_` is what the buckets hold, never above the limit, and
together with what Clears removed it is what the loaders report; without a Clear a
rule is refused only by a full database), `OnlyTrackingRemoved` (everything before,
after and between the removed items stays), `CleaningKeepsDecision` (the rules say the
same of the raw and the cleaned URL), `SecretsRedacted` (no URL that is sent carries a
password, or in its query the value of a key on its sender's list, for observations
and content the redaction matrix of the security model; observations and content carry
no userinfo and no fragment, the URL of an event no userinfo; so the daemon's
credential check never refuses the browser's). What this leaves out is what the code
does leave in: an event's fragment, an event's `host`, which can be the user of a
userinfo, the keys that only other lists have, and the mock's user name: see
`DocEventFields` and the notes below.

The session's `GapIsFinal` looks at one session at a time: no stored observation
follows a dropped envelope of the same session whose number no other envelope of that
session used. It claims that of sessions whose HELLO the validator accepted; of the
others the contrary happens (`DocGapIsFault`).

### Fairness

Only the transport has liveness properties, under `FairSpec`: weak fairness of
the worker (the Chromium task runner keeps running posted closures, and a
blocking call returns once its condition holds) and of `DaemonReads` (a live
daemon keeps reading its pipe). Users, `TryReconnect`, the start and the end of
the daemon are owed nothing. Without the daemon's fairness a full pipe would
block the worker for ever, which is also what the code does.
`ReconnectDeliversBacklog` therefore speaks of an attempt that takes place.

### Where the documents and the code disagree

Five runs expect a violation; each checks a sentence of a document or a comment.

* `DocDropsOldest`: the flush re-queues the failed item, the oldest, at the back
  (`named_pipe_transport_win.cc:85`); the next overflow discards a younger one.
* `DocBackgroundRetry`: nothing retries; `TryReconnect` has no caller.
* `DocGapIsFault`: the daemon's validator is never established, so a second session's
  HELLO does not start its count anew and is refused as a duplicate number
  (`protocol_validator.py:76-80`, `:110`). The validator moves to that session all the
  same. After HELLO 1 and CLOSE 2 of the first session, and with observation 2 of the
  second discarded by the kill switch, its observation 3 is stored as if nothing were
  missing, though every envelope arrives once and in order
  (`protocol_validator.py:117`; `COGNITIA_PROTOCOL_V1.md:90` has numbers start "at 1 for
  each session" and a gap trigger a fault).
* `DocStaleProposalRejected`: an authorization is stored without a look at the
  proposal's session (`mock_cognitia_daemon.py:143-145`).
* `DocEventFields`: the event about a URL with userinfo has the user as its `host`; its
  URL keeps the values of keys that the engine's list does not have (`refresh_token`,
  `sig`, `code`), and the whole fragment, an `access_token` included
  (`privacy_policy_manager.cc:29-34`, `:102`, `:141`; `privacy_event.h:14-15` promises the
  target host and a URL with "zero credentials/tokens/secrets"). The one request of the
  run shows all three.

Noted while modelling, in the model as the code does it, and not given a run:

* `SetEnabled(false)` leaves posted and buffered observations to be written
  (`browser_observation_collector.h:28`; `COGNITIA_SECURITY_MODEL_V1.md:94-95`).
* The session of a reconnected browser is never opened, since its HELLO is refused as
  in `DocGapIsFault` (`COGNITIA_PROTOCOL_V1.md:400`).
* A HELLO or ACCEPT that fails a later check has already switched the session
  (`protocol_validator.py:74-84`; `COGNITIA_PROTOCOL_V1.md:376` rejects it whole).
* `protocol_validator.py:96` tests `and` where its comment at `:95` asks for an
  established session: a message of a merely greeted session passes.
* Loading an allow rule and then its block rule between the two lookups of one
  evaluation blocks the request although the allow rule precedes
  (`tracker_blocker.cc:54` and `:79`); hence *standing* in the properties.
* An exception that moves from the domain to the host between the two lookups of
  one evaluation is missed (`privacy_policy_manager.cc:166-170`); hence
  `ExemptSiteNotBlocked` asks for exceptions left alone.
* `tracker_blocker.cc:98-108`: the branch that allows a first-party request is
  dead, since such a rule was skipped before; a rule without `$third-party`
  blocks in first-party context.
* `kBlockAll` ("block all third-party requests", `site_exceptions.h:14`) only
  prevents the lookup of the domain's exception; nothing is blocked for it.
* Redirected subresources are evaluated as `kOther`, so rules for scripts do not
  match them (`lean_privacy_url_loader_throttle.cc:89`).
* Two threads may deliver events to a listener against the order of their ids
  (`PRIVACY_TEST_MATRIX.md:54` speaks of monotonic emission).
* The mock's `sanitize_url` leaves `user:***@` of a URL with a password, in which
  `_check_credential_leakage` still finds one (`security_validator.py:185`, whose
  comment at `:172` speaks of unredacted credentials): the observation is refused
  after its number is used up.
* What `RulesMeanTheirLines` excludes. `match_subdomains` is always true, `||` or not
  (`rule_parser.h:22`), so the line `trk.net` blocks `ad.trk.net`
  (`test_privacy_p1.py:105-108` expects the contrary). Options that name only types
  the code does not know match all types (`rule_parser.cc:55`;
  `test_privacy_p1.py:126`, `:194`: none). Of `user:pass@host` `ExtractHostname` returns
  the user, and the host's rules are not found (`third_party_classifier.cc:57`;
  `test_privacy_p1.py:25-26` takes the host behind the userinfo).
* What `SecretsRedacted` excludes, besides `DocEventFields`. The mock adapter, which
  stands for the adapter's contract, keeps the user of `user:pass@host` and the values
  of `code` and `apikey` (`security_validator.py:70`, `:25`;
  `COGNITIA_SECURITY_MODEL_V1.md:21`, `:68-69`; `test_security_boundary.py:27` expects
  the user). A key behind a second `?`, as in `??token=...`, is not recognised.
* The parameter filter takes the first `?` of the whole text for the start of the
  query (`tracking_parameter_filter.cc:77`), so of a URL without a query it removes items
  of the fragment (`LEAN_THORIUM_PRIVACY_P1.md:111` preserves fragments).
* `rule_parser.cc`: the comment at `:113` lets `^` or `/` end a domain, the code only
  strips a last `^`; the first `$` splits, wherever it is; rule ids number the lines of
  one list and repeat in the next.
* While a list is loading, a block rule can be in the database and the allow rule
  behind it not yet (`rule_database.cc:72`); `SanitizeUrl` and `EvaluateRequest` each
  read `enabled_`, so a request can be cleaned and not evaluated. No property claims
  otherwise.
* An observation carries origin and title also under `kOmitted`, and
  `ExtractAuthorizedContent` sends the URL in full whatever the policy is.
* Content is cut at 256 KB (`COGNITIA_SECURITY_MODEL_V1.md` speaks of 4 KB), and by
  bytes, in the middle of a character if need be.
* `ConvertResourceType` has a table of twelve; Chromium's own numbering is not in
  the repository, so the model takes the table for what it says.

## 4. Proofs

Eight modules hold theorems. All constants are arbitrary under the named
assumptions: `MaxCapacityAssumption` (a positive capacity: at 0 the code would pop
an empty deque), `MaxOffersAssumption`, `TransportAssumption`, `SessionAssumption`,
`StreamAssumption`, `MaxRulesAssumption`, `EngineAssumption` and `DataAssumption`
(rules and requests have the fields of their structs), `IndexAssumption` (the limit
is a number), `LowerCaseAssumption` (a key with a stray "?" in it, which no list of
keys has, is not another spelling of one) and `WorkloadAssumption`.

**BoundedEventQueueProofs.** `IInv` is the conjunction of `TypeOK`, `Fifo`,
`EvictsOldest` and `DropAccounting`: the order of the queue is what makes the
evicted item older than all others, and the type bounds every payload by the
number of calls, so that a new one is the youngest. `Conservation` needs more:
every payload is in exactly one place (`InPlaces`), and a step moves payloads
between places (`Parted`).

**NamedPipeTransportProofs**, in three layers. (1) `IInv`: types, the agreement
of `pc` with handle and locals (`Control`), and the three control invariants,
which are inductive only together: that a flush always has room for the item it
holds follows from its having taken it and from the worker owning the queue.
(2) `PInv`: a function `loc` says where each payload is; every action moves some
payloads from one place to another, so all places stay disjoint and complete.
The queues are allowed to repeat the closure 0, never a payload.
(3) `TransportRefinement`: by (2), what is in transit is what was emitted and is
neither read nor lost, so emitting is `Send`, a read is `Deliver`, an overflow or
the daemon's end is `Lose`, and any other step stutters.

Then the order. `OrderedPlaces` takes `InOrder` apart, place by
place and pair by pair, and one lemma per action shows that the action keeps it.
The one that cannot be shown is a write that fails inside a flush with something
left in the buffer, which is what `OrderLostOnlyByFailedFlush` says. For
`OverflowDropsOldest` the pipe matters too: an overflow happens only without a
handle, and a pipe without a good handle is empty (`PipeOpen`), so the front of the
queue is the oldest observation that has not been read.

**SessionProtocolProofs.** `IInv` adds to the types that the used numbers are
exactly `1..last` (`NumbersUsed`), which needs that the validator is never
established, and that the daemon's own count runs with its proposals
(`OutboundCount`). The first makes every accepted number `last + 1` (`Counts`),
which is both the refinement of SequencedLog and the reason why only one HELLO is
ever accepted, hence why restarting the count at a HELLO cannot repeat a number.
`ActiveMeansAccepted` follows the log: only a HELLO with the right token opens a
session and every logged CLOSE ends it.

`GapIsFinal` needs to know where an envelope can
be: `OnePlace` says that a number the adapter gave out is in its queue, on the wire
or dropped, never in two of these, and `SeenArrived` that what the daemon has seen
was on the wire; an envelope that was dropped has then never been seen, so if its number
is used, another envelope used it. That this one is of the same session is
`OpenedFirst`: the session of the one accepted HELLO used all numbers up to its last,
since others come in only when the validator has left it, and it never returns. A
session that was not opened has no such start, and there the claim fails.
`DisabledQueueHoldsNoObservation` follows from what the kill switch filters.

**ValidatorStreamProofs** takes any stream of envelopes. `FieldsAreLog` says that the
validator's sets and its last number are those of what was accepted since the last
reset (`HasLast` that the last number is among them); uniqueness, gaps and the
retry of what was refused follow from it, without an assumption on the stream.

**PrivacyEngineProofs.** `Typed` types all records, those in the listeners' logs
included. `FirstCovers` is the lemma about the rule loop: the rule at which it stops
covers the request if any rule of the database does; that there is a first one
needs the well-foundedness of the numbers, for the code orders matches by the
length of their domain and then by age. `HopInv` says how far a hop can have come
while the protection is off, and where an exempt one can be: in particular that
between its two lookups the host had no exception of its own. `IdInv` says that
every id in flight is below the counter and apart from every other.

**PrivacyDecisionProofs** first reduces the thirteen actions of a request to nine
effects (`StepEffect`), then has one invariant per question. `ReportInv`: a blocked
request's audience still listens, is in the copied list, or has been told.
`RulesInv`: between its lookups the rules lie between those that stood and those
that were ever there, and past the allow lookup no standing rule allows; the
decision inherits both. `AtomicInv`: after one change the rules are those before
plus one, or none; a rule that was added to allow is not one that blocks, which is
why two lookups of a changing database still decide as at one moment. With
`SetDatabase`, or after two changes, that fails, and the property does not claim it.

**TextProofs** is about texts of any length. The recursions of the model are functions
on numbers, so a fold is taken as the function that satisfies its equation
(`RecursionExists`) and followed by induction over sets of numbers, without a
theorem that takes an operator. What `Pick` returns is characterised by an
increasing map of its positions into those of the text (`PickEmbeds`), which is
unique (`EmbedsOnce`): two ways to select the same positions give the same text, and
that is what the buckets need, too. `Cuts`, `CutFirst` and `CutSecond` say where a
text cut at the first delimiter ends and what remains of a text that is put together
again. On these rest two results about scanners: `StripKeepsHostAndPath`, that
the rebuilt URL has the host and the path of the given one, and `RuleOfLine`, that
prefix, anchor, caret, domain, path and options of a line in the rule syntax arrive
in the fields of its rule. The latter goes through the shapes of lines
(`RuleShapes`): each of the sixteen is a string of four optional delimiters and a
domain, of which each step of the parser removes one.

The third result is about queries: to cut a joined query into items returns the items
(`ItemsOfJoin`), by induction on how many are joined. The items of a text are its parts
at the places where one begins (`ItemsEmbed`); a "&" and one more part add one such
place behind all others (`ItemsAppend`), and by `EmbedsOnce` the items are then the old
ones and the part. With it `JoinedQuery` and `RebuiltQuery` say what the scanners find
in a URL whose query was put together again: what was before and behind the query, and
the items it was put together from.

**RequestTextProofs** uses them in five invariants. `Counts` has the types, and that
the counter is the number of the accepted rules. `Index` says that for each type and
domain a bucket is the accepted rules of these two, embedded in their order; a rule
that is added extends one embedding and leaves the others. From it `BucketsAreList`
follows by a correspondence of visits (the k-th parent of the host, the j-th rule of
its bucket) with places in the list: both sides order by the length of the domain and
then by age. `Ledger` counts: `Held` and `Reported` are sets of pairs, one for each rule
in a bucket and one for each rule a loader reports, so that adding a rule adds one
element to each, whatever the number of buckets and threads. `Decided` keeps that the
last request was decided over what stripping made of the URL it was given, a URL with
the same host and path: hence `CleaningIsHarmless`, and with `StripRemoves`
`StrippingIsExact`. `RulesAreTheirLines` joins all of it: a decision is that of
the buckets (`Decided`), the buckets are the list (`Index`), the rules of the list are
those of their lines (`RuleOfLine`), and of a URL without userinfo the scanned host
and path are those of the text (`PlainUrl`). Under the hypotheses of
`RulesMeanTheirLines` the rule then covers a request exactly if its line does.

`SecretsAreRedacted` has three parts. Where a URL begins: without its userinfo it has
a host and a path at its front (`BareUrl`), and neither cutting it behind them nor
putting a text there lets a scanner find a password (`StaysAddressed`, `NoPassword`).
What becomes of an item: each of the three rewritings returns an item that is not
empty, has no delimiter of the query in it and either hides its value or has a key that
is not on the sender's list (`TelemetryItem`, `WrittenItem`, `QuotedItem`); an item of several
tokens keeps a key only if it keeps the value behind it. And that these items are those
of the query that is sent (`RedactedQuery`), or that it has no query, as when the first
"?" stands in the fragment (`StaysUnqueried`). `Sent` carries along of which URL the
event, envelope or observation was made.

Only model-checked: liveness, since the proof system has no support for ENABLED. Every
safety property of the runs that pass is a theorem.

## 5. What is not modelled

* Contents of payloads, JSON text, ids and timestamps, titles, header redaction and
  the injection patterns of the security validator: data, no control.
* Invalid URLs, for which the adapter's sanitizer returns the empty text, and percent
  encoding, but for the delimiters that `urlencode` quotes (`Quoted`).
* The two generic buckets of the rule database, which the parser never fills.
* Data races as such: the unlocked reads of `status_` and `dropped_count_`, the
  plain `enabled_`, the unsynchronised `shared_ptr` of `SetDatabase` are read and
  written atomically in the models. A null database, for which the code allows
  everything, is not among the databases.
* Destruction: the transport's destructor against closures bound with
  `base::Unretained`. What a build does with such a closure is undefined, so a
  model of it would say nothing.
* The way from the extracted content to the transport: nothing connects them yet.
* Chromium patches, build arguments, the new tab page, the JSON rule files,
  which no code loads, and the test scripts.

## 6. Plan

Done: the transport and its queue, the validator and the session protocol, the
privacy engine, the texts of rules and URLs, and the proofs of section 4. What is
left:

1. An abstract evaluation that decides in one step among the rule sets of its
   duration, which `PrivacyEngine` implements; `RulesInv` is the core of that
   refinement.
2. A lifetime module for the transport, should it get an owner that destroys it.
