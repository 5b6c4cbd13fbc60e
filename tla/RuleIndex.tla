-------------------------------- MODULE RuleIndex --------------------------------
(***************************************************************************)
(* rule_database.cc as it is built: rules lie in buckets by their domain,  *)
(* allow and block rules apart, and a lookup visits the buckets of the     *)
(* host and of its parents.  RuleDatabase is the same as one list of       *)
(* rules; PrivacyEngine uses that one, and LookupsAgree says that it may.  *)
(* Several threads load lists at once, rule by rule.  The parser makes no  *)
(* rule without a domain, so the two generic buckets stay empty and are    *)
(* left out.                                                               *)
(***************************************************************************)
EXTENDS RuleParser, FiniteSets

CONSTANTS
    MaxRules,   \* 50000 in AddRule
    Loaders     \* threads that call LoadFromText, once each

ASSUME IndexAssumption == MaxRules \in Nat

VARIABLES
    allow_rules_by_domain_, block_rules_by_domain_,
    total_rules_,
    loading,    \* each loader: the parsed rules still to add, those added and refused
    accepted,   \* history: the rules taken since the last Clear, oldest first
    removed     \* history: how many rules the Clears removed

indexVars == <<allow_rules_by_domain_, block_rules_by_domain_, total_rules_,
               loading, accepted, removed>>

Flat == INSTANCE RuleDatabase

\* No list given yet.
Uncalled == [called |-> FALSE, rest |-> <<>>, loaded |-> 0, refused |-> 0]

IndexInit ==
    /\ allow_rules_by_domain_ = <<>> /\ block_rules_by_domain_ = <<>>
    /\ total_rules_ = 0
    /\ loading = [t \in Loaders |-> Uncalled]
    /\ accepted = <<>> /\ removed = 0

-----------------------------------------------------------------------------
(* Lookups, each under the lock *)

Bucket(rules_by_domain, domain) ==
    IF domain \in DOMAIN rules_by_domain THEN rules_by_domain[domain] ELSE <<>>

\* Mutant: the buckets are visited from the last parent to the host.
ParentsFirst(host) == [k \in DOMAIN host |-> SubSeq(host, Len(host) - k + 1, Len(host))]

\* ads.foo.com -> <<ads.foo.com, foo.com, com>>
GenerateCandidateDomains(host) == [k \in DOMAIN host |-> SubSeq(host, k, Len(host))]

\* The bucket of the k-th candidate.
Visited(rules_by_domain, host, k) ==
    Bucket(rules_by_domain, GenerateCandidateDomains(host)[k])

\* The rules a lookup comes to: <<k, j>> is the j-th rule in the bucket of the k-th
\* candidate, and the rules of the parents' buckets are there for subdomains.
VisitBuckets(rules_by_domain, host) ==
    UNION {{<<k, j>> : j \in {i \in DOMAIN Visited(rules_by_domain, host, k) :
                                k = 1 \/ Visited(rules_by_domain, host, k)[i].match_subdomains}}
           : k \in DOMAIN host}

\* The loops go from candidate to candidate and through each bucket.
VisitedBefore(v, w) == v[1] < w[1] \/ (v[1] = w[1] /\ v[2] <= w[2])

MatchesPathAndOptions(rule, path) == rule.path_pattern \in path \cup {""}

\* The matches of a lookup, each under its visit; their order is that of the visits.
FindIn(rules_by_domain, host, path) ==
    LET RuleAt(v) == Visited(rules_by_domain, host, v[1])[v[2]]
    IN  [v \in {w \in VisitBuckets(rules_by_domain, host) :
                    MatchesPathAndOptions(RuleAt(w), path)} |-> RuleAt(v)]

FindMatchingAllowRules(host, path) == FindIn(allow_rules_by_domain_, host, path)
FindMatchingBlockRules(host, path) == FindIn(block_rules_by_domain_, host, path)

IsKnownTrackerHost(host) == VisitBuckets(block_rules_by_domain_, host) # {}

-----------------------------------------------------------------------------
(* Changes *)

\* The list is parsed without the lock.
LoadFromText(t, list) ==
    /\ ~loading[t].called
    /\ loading' = [loading EXCEPT ![t].called = TRUE, ![t].rest = ParseText(list)]
    /\ UNCHANGED <<allow_rules_by_domain_, block_rules_by_domain_, total_rules_,
                   accepted, removed>>

AddTo(rules_by_domain, rule) ==
    [d \in DOMAIN rules_by_domain \cup {rule.domain_pattern} |->
        IF d = rule.domain_pattern THEN Append(Bucket(rules_by_domain, d), rule)
                                   ELSE rules_by_domain[d]]

PutInBucket(rule) ==
    \/ /\ rule.rule_type = "kAllow"
       /\ allow_rules_by_domain_' = AddTo(allow_rules_by_domain_, rule)
       /\ UNCHANGED block_rules_by_domain_
    \/ /\ rule.rule_type = "kBlock"
       /\ block_rules_by_domain_' = AddTo(block_rules_by_domain_, rule)
       /\ UNCHANGED allow_rules_by_domain_

\* The loader is done with a rule.
Advance(t, count) ==
    loading' = [loading EXCEPT ![t] = [count EXCEPT !.rest = Tail(@)]]

Took(t) ==
    /\ PutInBucket(Head(loading[t].rest))
    /\ total_rules_' = total_rules_ + 1
    /\ accepted' = Append(accepted, Head(loading[t].rest))
    /\ Advance(t, [loading[t] EXCEPT !.loaded = @ + 1])
    /\ UNCHANGED removed

\* A full database refuses the rule.
Refused(t) ==
    /\ Advance(t, [loading[t] EXCEPT !.refused = @ + 1])
    /\ UNCHANGED <<allow_rules_by_domain_, block_rules_by_domain_, total_rules_,
                   accepted, removed>>

\* Mutant: one rule too many.
AddRuleOffByOne(t) ==
    /\ loading[t].rest # <<>>
    /\ \/ total_rules_ > MaxRules /\ Refused(t)
       \/ total_rules_ <= MaxRules /\ Took(t)

AddRule(t) ==
    /\ loading[t].rest # <<>>
    /\ \/ total_rules_ >= MaxRules /\ Refused(t)
       \/ total_rules_ < MaxRules /\ Took(t)

Clear ==
    /\ allow_rules_by_domain_' = <<>> /\ block_rules_by_domain_' = <<>>
    /\ total_rules_' = 0
    /\ accepted' = <<>> /\ removed' = removed + Len(accepted)
    /\ UNCHANGED loading

-----------------------------------------------------------------------------
(* What the lookups must return *)

\* These are the rules of RuleDatabase that match, each once and in its order.
AreThoseOfList(found, type, host, path) ==
    LET list == Flat!FindMatchingRules(accepted, type, host, path)
    IN  \E place \in [DOMAIN found -> list] :
            /\ \A i \in list : \E v \in DOMAIN found : place[v] = i
            /\ \A v \in DOMAIN found : found[v] = accepted[place[v]]
            /\ \A v, w \in DOMAIN found :
                VisitedBefore(v, w) <=> Flat!ReturnedBefore(accepted, place[v], place[w])

AgreesOn(host, path) ==
    /\ AreThoseOfList(FindMatchingAllowRules(host, path), "kAllow", host, path)
    /\ AreThoseOfList(FindMatchingBlockRules(host, path), "kBlock", host, path)
    /\ IsKnownTrackerHost(host) = Flat!IsKnownTrackerHost(accepted, host)

\* What the loaders reported and what the buckets hold, rule by rule.
Reported == UNION {{t} \X (1..loading[t].loaded) : t \in Loaders}
Held(rules_by_domain) ==
    UNION {{d} \X DOMAIN rules_by_domain[d] : d \in DOMAIN rules_by_domain}

\* Whatever the threads' lists and their interleaving, total_rules_ and the rules
\* the Clears removed add up to what the loaders report; total_rules_ counts the
\* rules in the buckets, and is never over the limit; and without a Clear a rule is
\* refused only if the database is still full.
LoadsAccountedFor ==
    /\ total_rules_ + removed = Cardinality(Reported)
    /\ total_rules_ = Cardinality(Held(allow_rules_by_domain_))
                      + Cardinality(Held(block_rules_by_domain_))
    /\ total_rules_ <= MaxRules
    /\ (\E t \in Loaders : loading[t].refused > 0) /\ removed = 0
        => total_rules_ = MaxRules
=============================================================================
