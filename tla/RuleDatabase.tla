----------------------------- MODULE RuleDatabase -----------------------------
(***************************************************************************)
(* rule_database.cc.  The database is the sequence of the rules it took,   *)
(* oldest first: the four buckets of the code are the rules of one type    *)
(* and one domain key in that order, the generic ones under the key <<>>.  *)
(* A rule's path pattern is AnyPath or a string; a request's path is the   *)
(* set of patterns it contains.  A resource mask is the set of its types.  *)
(***************************************************************************)
EXTENDS Naturals, Sequences

CONSTANT MaxRules   \* 50000 in AddRule

ASSUME MaxRulesAssumption == MaxRules \in Nat

AnyPath == ""
Generic == <<>>

RulesOf(db) == {db[i] : i \in DOMAIN db}

\* Mutant: no bound on the number of rules.
AddRuleUnbounded(db, rule) == Append(db, rule)

\* A full database refuses the rule.
AddRule(db, rule) == IF Len(db) >= MaxRules THEN db ELSE Append(db, rule)

\* ads.foo.com -> {ads.foo.com, foo.com, com}
GenerateCandidateDomains(host) == {SubSeq(host, k, Len(host)) : k \in 1..Len(host)}

\* The rule's bucket is visited for the host.
CoversHost(rule, host) ==
    /\ rule.domain_pattern \in GenerateCandidateDomains(host)
    /\ rule.domain_pattern = host \/ rule.match_subdomains

MatchesPathAndOptions(rule, path) == rule.path_pattern \in path \cup {AnyPath}

\* Positions of the rules FindMatchingAllowRules / FindMatchingBlockRules return.
FindMatchingRules(db, type, host, path) ==
    {i \in DOMAIN db :
        /\ db[i].rule_type = type
        /\ CoversHost(db[i], host) \/ db[i].domain_pattern = Generic
        /\ MatchesPathAndOptions(db[i], path)}

\* They are returned longest domain first, then by age; generic rules come last.
ReturnedBefore(db, i, j) ==
    LET labels(k) == Len(db[k].domain_pattern)
    IN  labels(i) > labels(j) \/ (labels(i) = labels(j) /\ i <= j)

\* Any block rule of the host will do, whatever its path and options.
IsKnownTrackerHost(db, host) ==
    \E rule \in RulesOf(db) : rule.rule_type = "kBlock" /\ CoversHost(rule, host)
=============================================================================
