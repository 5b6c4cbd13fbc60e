--------------------------- MODULE RequestTextProofs ---------------------------
(***************************************************************************)
(* Proofs about RequestText for any workload of lists and URLs, any number *)
(* of loading threads and any limit on the rules.                          *)
(***************************************************************************)
EXTENDS RequestText, TextProofs, FiniteSetTheorems, TLAPS

\* The lines the loaders may be given, and the rules they become.
Lines == UNION {ToSet(list) : list \in UNION {w.lists : w \in Workloads}}
Rules == {ParsedRule(line) : line \in {l \in Lines : IsValid(l)}}

Loading == [called : BOOLEAN, rest : Seq(Rules), loaded : Nat, refused : Nat]

\* Types, and that the counter counts the accepted rules.
Counts ==
    /\ accepted \in Seq(Rules) /\ loading \in [Loaders -> Loading]
    /\ total_rules_ = Len(accepted) /\ total_rules_ <= MaxRules /\ removed \in Nat
    /\ workload \in Workloads

\* The buckets of one type hold the rules of that type of a list: those of a domain
\* in one bucket, each once and oldest first.
PlacesOf(list, rule_type, domain) ==
    {i \in DOMAIN list : list[i].rule_type = rule_type /\ list[i].domain_pattern = domain}

InBucket(bucket, list, rule_type, domain) ==
    bucket \in Seq(Rules) /\ \E e : Embeds(e, bucket, list, PlacesOf(list, rule_type, domain))

Indexed(rules_by_domain, list, rule_type) ==
    \A domain : InBucket(Bucket(rules_by_domain, domain), list, rule_type, domain)

Index ==
    /\ Indexed(allow_rules_by_domain_, accepted, "kAllow")
    /\ Indexed(block_rules_by_domain_, accepted, "kBlock")

\* A rule has one of the two types and a domain.
LEMMA RuleFields ==
    ASSUME NEW rule \in Rules
    PROVE  rule.rule_type \in {"kAllow", "kBlock"} /\ rule.domain_pattern # <<>>
           /\ rule.match_subdomains
BY DEF Rules, ParsedRule, IsValid

\* Loading makes rules of the lines.
LEMMA ParseTextType ==
    ASSUME NEW w \in Workloads, NEW list \in w.lists
    PROVE  ParseText(list) \in Seq(Rules)
<1> DEFINE valid == {i \in DOMAIN list : IsValid(list[i])}
           picked == Pick(list, valid)
           S == ToSet(list)
<1>1. list \in Seq(S) /\ S \subseteq Lines
  <2>1. list \in Seq(ToSet(list))
    BY WorkloadAssumption
  <2>2. list \in UNION {v.lists : v \in Workloads}
    <3>1. w.lists \in {v.lists : v \in Workloads}
        OBVIOUS
    <3> QED BY <3>1
  <2>3. ToSet(list) \subseteq Lines
    BY <2>2 DEF Lines
  <2> QED BY <2>1, <2>3
<1>2. picked \in Seq(S) /\ \A k \in DOMAIN picked : \E i \in valid : picked[k] = list[i]
  <2> HIDE DEF S, valid
  <2>1. picked \in Seq(S)
    BY <1>1, PickEmbeds
  <2>2. \A k \in DOMAIN picked : \E i \in valid \cap DOMAIN list : picked[k] = list[i]
    BY <1>1, PickElements
  <2> QED BY <2>1, <2>2
<1>3. \A k \in DOMAIN picked : picked[k] \in Lines /\ IsValid(picked[k])
  <2> SUFFICES ASSUME NEW k \in DOMAIN picked PROVE picked[k] \in Lines /\ IsValid(picked[k])
    OBVIOUS
  <2>1. PICK i \in valid : picked[k] = list[i]
    BY <1>2
  <2>2. list[i] \in S
    BY DEF ToSet
  <2> QED BY <1>1, <2>1, <2>2
<1>4. ParseText(list) = [k \in DOMAIN picked |-> ParsedRule(picked[k])]
    BY DEF ParseText, MapSeq
<1>5. \A k \in DOMAIN picked : ParsedRule(picked[k]) \in Rules
    BY <1>3 DEF Rules
<1> HIDE DEF picked
<1>6. DOMAIN picked = 1..Len(picked) /\ Len(picked) \in Nat
    BY <1>2
<1> QED BY <1>4, <1>5, <1>6

-----------------------------------------------------------------------------
(* The buckets hold what was accepted *)

\* The rule goes to the end of its bucket, and to no other.
LEMMA AddToBucket ==
    ASSUME NEW list \in Seq(Rules), NEW rule \in Rules, NEW bucket, NEW rule_type, NEW domain,
           InBucket(bucket, list, rule_type, domain)
    PROVE  InBucket(IF rule.rule_type = rule_type /\ rule.domain_pattern = domain
                    THEN Append(bucket, rule) ELSE bucket,
                    Append(list, rule), rule_type, domain)
<1> DEFINE longer == Append(list, rule)
           n == Len(list) + 1
           chosen == PlacesOf(list, rule_type, domain)
           S == Rules
<1>1. /\ n \in Nat /\ longer[n] = rule /\ DOMAIN longer = DOMAIN list \cup {n}
      /\ \A i \in DOMAIN list : longer[i] = list[i] /\ i < n /\ i \in Nat
    OBVIOUS
<1>2. chosen \in SUBSET Nat /\ \A i \in chosen : i < n /\ longer[i] = list[i]
    BY <1>1 DEF PlacesOf
<1>3. PICK e : Embeds(e, bucket, list, chosen)
    BY DEF InBucket
<1>4. bucket \in Seq(S) /\ longer[n] \in S
    BY <1>1 DEF InBucket
<1> HIDE DEF longer, n, S
<1>5. Embeds(e, bucket, longer, chosen)
  <2> HIDE DEF chosen
  <2> QED BY <1>2, <1>3, EmbedsLonger
<1>6. CASE rule.rule_type = rule_type /\ rule.domain_pattern = domain
  <2>1. PlacesOf(longer, rule_type, domain) = chosen \cup {n}
    BY <1>1, <1>6 DEF PlacesOf
  <2>2. \E f : Embeds(f, Append(bucket, longer[n]), longer, chosen \cup {n})
    <3> HIDE DEF chosen
    <3> QED BY <1>1, <1>2, <1>4, <1>5, EmbedsAppend
  <2>3. Append(bucket, rule) \in Seq(Rules)
    BY <1>4 DEF S
  <2> HIDE DEF chosen
  <2> QED BY <1>1, <1>6, <2>1, <2>2, <2>3 DEF InBucket, longer
<1>7. CASE ~(rule.rule_type = rule_type /\ rule.domain_pattern = domain)
  <2>1. PlacesOf(longer, rule_type, domain) = chosen
    BY <1>1, <1>7 DEF PlacesOf
  <2> HIDE DEF chosen
  <2> QED BY <1>4, <1>5, <1>7, <2>1 DEF InBucket, S, longer
<1> QED BY <1>6, <1>7

\* AddTo changes the bucket of the rule's domain only.
LEMMA BucketOfAddTo ==
    ASSUME NEW rules_by_domain, NEW rule, NEW domain
    PROVE  Bucket(AddTo(rules_by_domain, rule), domain)
           = IF rule.domain_pattern = domain THEN Append(Bucket(rules_by_domain, domain), rule)
             ELSE Bucket(rules_by_domain, domain)
BY DEF Bucket, AddTo

\* The buckets of the rule's type have it, those of the other type do not want it.
LEMMA AddToIndexed ==
    ASSUME NEW list \in Seq(Rules), NEW rule \in Rules, NEW buckets, NEW rule_type,
           Indexed(buckets, list, rule_type)
    PROVE  Indexed(IF rule.rule_type = rule_type THEN AddTo(buckets, rule) ELSE buckets,
                   Append(list, rule), rule_type)
<1> SUFFICES ASSUME NEW domain
             PROVE  InBucket(Bucket(IF rule.rule_type = rule_type THEN AddTo(buckets, rule)
                                    ELSE buckets, domain),
                             Append(list, rule), rule_type, domain)
    BY DEF Indexed
<1>1. InBucket(Bucket(buckets, domain), list, rule_type, domain)
    BY DEF Indexed
<1>2. InBucket(IF rule.rule_type = rule_type /\ rule.domain_pattern = domain
               THEN Append(Bucket(buckets, domain), rule) ELSE Bucket(buckets, domain),
               Append(list, rule), rule_type, domain)
    BY <1>1, AddToBucket
<1> QED BY <1>2, BucketOfAddTo

\* Initially no list is given and no rule there.
LEMMA InitCounts == Init => Counts
<1> SUFFICES ASSUME Init PROVE Counts
    OBVIOUS
<1>1. <<>> \in Seq(Rules) /\ Len(<<>>) = 0
    OBVIOUS
<1>2. Uncalled \in Loading
    BY <1>1 DEF Uncalled, Loading
<1> QED BY <1>1, <1>2, IndexAssumption DEF Init, IndexInit, Counts

\* A loader gets its list, and its rules with it.
LEMMA LoadCounts ==
    ASSUME Counts, NEW t \in Loaders, NEW list \in workload.lists, LoadFromText(t, list),
           UNCHANGED workload
    PROVE  Counts'
<1>1. ParseText(list) \in Seq(Rules)
    BY ParseTextType DEF Counts
<1>2. loading' \in [Loaders -> Loading]
    BY <1>1 DEF Counts, Loading, LoadFromText
<1> QED BY <1>2 DEF Counts, LoadFromText

\* The rule a loader adds next.
LEMMA NextRule ==
    ASSUME Counts, NEW t \in Loaders, loading[t].rest # <<>>
    PROVE  /\ Head(loading[t].rest) \in Rules /\ Tail(loading[t].rest) \in Seq(Rules)
           /\ loading[t] \in Loading
<1>1. loading[t].rest \in Seq(Rules)
    BY DEF Counts, Loading
<1> QED BY <1>1 DEF Counts

\* A loader is done with a rule.
LEMMA AdvanceType ==
    ASSUME Counts, NEW t \in Loaders, NEW count \in Loading,
           Tail(count.rest) \in Seq(Rules), Advance(t, count)
    PROVE  loading' \in [Loaders -> Loading]
<1>1. [count EXCEPT !.rest = Tail(@)] \in Loading
    BY DEF Loading
<1> QED BY <1>1 DEF Counts, Advance

\* Whether it is taken or refused, the counts stay right.
LEMMA AddRuleCounts ==
    ASSUME Counts, NEW t \in Loaders, AddRule(t), UNCHANGED workload
    PROVE  Counts'
<1>1. /\ Head(loading[t].rest) \in Rules /\ Tail(loading[t].rest) \in Seq(Rules)
      /\ loading[t] \in Loading
    BY NextRule DEF AddRule
<1>2. CASE total_rules_ >= MaxRules /\ Refused(t)
  <2> DEFINE count == [loading[t] EXCEPT !.refused = @ + 1]
  <2>0. loading[t].refused + 1 \in Nat
    BY <1>1 DEF Loading
  <2>1. count \in Loading /\ Tail(count.rest) \in Seq(Rules)
    BY <1>1, <2>0 DEF Loading
  <2>2. loading' \in [Loaders -> Loading]
    BY <1>2, <2>1, AdvanceType DEF Refused
  <2> QED BY <1>2, <2>2 DEF Counts, Refused
<1>3. CASE total_rules_ < MaxRules /\ Took(t)
  <2> DEFINE count == [loading[t] EXCEPT !.loaded = @ + 1]
  <2>0. loading[t].loaded + 1 \in Nat
    BY <1>1 DEF Loading
  <2>1. count \in Loading /\ Tail(count.rest) \in Seq(Rules)
    BY <1>1, <2>0 DEF Loading
  <2>2. loading' \in [Loaders -> Loading]
    BY <1>3, <2>1, AdvanceType DEF Took
  <2>3. accepted' \in Seq(Rules) /\ Len(accepted') = Len(accepted) + 1
    BY <1>1, <1>3 DEF Counts, Took
  <2> QED BY <1>3, <2>2, <2>3, IndexAssumption DEF Counts, Took
<1> QED BY <1>2, <1>3 DEF AddRule

\* Taking a rule puts it in its bucket.
LEMMA TookIndex ==
    ASSUME Counts, Index, NEW t \in Loaders, loading[t].rest # <<>>, Took(t)
    PROVE  Index'
<1> DEFINE rule == Head(loading[t].rest)
<1>1. rule \in Rules /\ accepted \in Seq(Rules) /\ accepted' = Append(accepted, rule)
    BY NextRule DEF Took, Counts
<1>2. /\ allow_rules_by_domain_' = IF rule.rule_type = "kAllow"
                                   THEN AddTo(allow_rules_by_domain_, rule)
                                   ELSE allow_rules_by_domain_
      /\ block_rules_by_domain_' = IF rule.rule_type = "kBlock"
                                   THEN AddTo(block_rules_by_domain_, rule)
                                   ELSE block_rules_by_domain_
    BY DEF Took, PutInBucket
<1> HIDE DEF rule
<1>3. Indexed(allow_rules_by_domain_', accepted', "kAllow")
    BY <1>1, <1>2, AddToIndexed DEF Index
<1>4. Indexed(block_rules_by_domain_', accepted', "kBlock")
    BY <1>1, <1>2, AddToIndexed DEF Index
<1> QED BY <1>3, <1>4 DEF Index

\* The empty buckets hold an empty list.
LEMMA EmptyIndexed ==
    ASSUME NEW rule_type
    PROVE  Indexed(<<>>, <<>>, rule_type)
<1> SUFFICES ASSUME NEW domain PROVE InBucket(Bucket(<<>>, domain), <<>>, rule_type, domain)
    BY DEF Indexed
<1>1. Bucket(<<>>, domain) = <<>> /\ PlacesOf(<<>>, rule_type, domain) = {}
    BY DEF Bucket, PlacesOf
<1>2. Embeds(<<>>, <<>>, <<>>, {})
    BY DEF Embeds
<1>3. <<>> \in Seq(Rules)
    OBVIOUS
<1> QED BY <1>1, <1>2, <1>3 DEF InBucket

\* Clear removes all there is, from the buckets and from the count.
LEMMA ClearStep ==
    ASSUME Counts, Clear, UNCHANGED workload
    PROVE  Counts' /\ Index'
<1>1. <<>> \in Seq(Rules) /\ Len(<<>>) = 0 /\ Len(accepted) \in Nat
    BY DEF Counts
<1>2. Counts'
    BY <1>1, IndexAssumption DEF Counts, Clear
<1>3. Index'
    BY EmptyIndexed DEF Clear, Index
<1> QED BY <1>2, <1>3

\* Each change of the rules.
LEMMA ChangeRulesStep ==
    ASSUME Counts, Index, ChangeRules
    PROVE  Counts' /\ Index'
<1>1. ASSUME NEW t \in Loaders, AddRule(t) PROVE Counts' /\ Index'
  <2>1. Counts'
    BY <1>1, AddRuleCounts DEF ChangeRules
  <2>2. CASE Refused(t)
    BY <2>1, <2>2 DEF Refused, Index
  <2>3. CASE Took(t)
    BY <1>1, <2>1, <2>3, TookIndex DEF AddRule
  <2> QED BY <1>1, <2>1, <2>2, <2>3 DEF AddRule
<1>2. ASSUME NEW t \in Loaders, NEW list \in workload.lists, LoadFromText(t, list)
      PROVE  Counts' /\ Index'
  <2>1. Counts'
    BY <1>2, LoadCounts DEF ChangeRules
  <2>2. Index'
    BY <1>2 DEF LoadFromText, Index
  <2> QED BY <2>1, <2>2
<1>3. CASE Clear
    BY <1>3, ClearStep DEF ChangeRules
<1> QED BY <1>1, <1>2, <1>3 DEF ChangeRules

\* All other steps leave the database alone.
LEMMA OthersPassive ==
    ASSUME [Next]_vars
    PROVE  ChangeRules \/ UNCHANGED <<indexVars, workload>>
BY DEF Next, vars, Passive, WillStartRequest, WillRedirectRequest, EmitEvent,
       ExtractAuthorizedContent, observe_navigation, AddTrackingParameter,
       SetUrlExposurePolicy, Finish

IndexInv == Counts /\ Index

\* The index and its counts, whatever the threads' lists and their interleaving.
THEOREM IndexInductive == Spec => []IndexInv
<1>1. Init => IndexInv
    BY InitCounts, EmptyIndexed DEF Init, IndexInit, IndexInv, Index
<1>2. IndexInv /\ [Next]_vars => IndexInv'
  <2> SUFFICES ASSUME IndexInv, [Next]_vars PROVE IndexInv'
    OBVIOUS
  <2>1. CASE ChangeRules
    BY <2>1, ChangeRulesStep DEF IndexInv
  <2>2. CASE UNCHANGED <<indexVars, workload>>
    BY <2>2 DEF IndexInv, Counts, Index, indexVars
  <2> QED BY <2>1, <2>2, OthersPassive
<1> QED BY <1>1, <1>2, PTL DEF Spec

-----------------------------------------------------------------------------
(* The loaders' reports *)

\* What the loaders reported is what is there and what was removed; the buckets hold
\* what total_rules_ says; a rule was refused by a database that is still full.
Ledger ==
    /\ IsFiniteSet(Reported) /\ Cardinality(Reported) = total_rules_ + removed
    /\ IsFiniteSet(Held(allow_rules_by_domain_)) /\ IsFiniteSet(Held(block_rules_by_domain_))
    /\ total_rules_ = Cardinality(Held(allow_rules_by_domain_))
                      + Cardinality(Held(block_rules_by_domain_))
    /\ (\E t \in Loaders : loading[t].refused > 0) /\ removed = 0 => total_rules_ = MaxRules

LedgerInv == IndexInv /\ Ledger

\* A rule more in a bucket is one more held.
LEMMA HeldAddTo ==
    ASSUME NEW buckets, NEW list, NEW rule_type, Indexed(buckets, list, rule_type),
           NEW rule, IsFiniteSet(Held(buckets))
    PROVE  /\ IsFiniteSet(Held(AddTo(buckets, rule)))
           /\ Cardinality(Held(AddTo(buckets, rule))) = Cardinality(Held(buckets)) + 1
<1> DEFINE d == rule.domain_pattern
           x == <<d, Len(Bucket(buckets, d)) + 1>>
<1>1. \A c : Bucket(buckets, c) \in Seq(Rules)
    BY DEF Indexed, InBucket
<1>2. \A c, j : <<c, j>> \in Held(buckets) <=> j \in DOMAIN Bucket(buckets, c)
  <2> SUFFICES ASSUME NEW c, NEW j
               PROVE  <<c, j>> \in Held(buckets) <=> j \in DOMAIN Bucket(buckets, c)
    OBVIOUS
  <2>1. CASE c \in DOMAIN buckets
    BY <2>1 DEF Held, Bucket
  <2>2. CASE c \notin DOMAIN buckets
    BY <2>2 DEF Held, Bucket
  <2> QED BY <2>1, <2>2
<1>3. \A c, j : <<c, j>> \in Held(AddTo(buckets, rule))
                <=> j \in DOMAIN Bucket(AddTo(buckets, rule), c)
  <2> SUFFICES ASSUME NEW c, NEW j
               PROVE  <<c, j>> \in Held(AddTo(buckets, rule))
                      <=> j \in DOMAIN Bucket(AddTo(buckets, rule), c)
    OBVIOUS
  <2> DEFINE more == AddTo(buckets, rule)
  <2> HIDE DEF more
  <2>1. CASE c \in DOMAIN more
    BY <2>1 DEF Held, Bucket
  <2>2. CASE c \notin DOMAIN more
    BY <2>2 DEF Held, Bucket
  <2> QED BY <2>1, <2>2 DEF more
<1>4. \A c : DOMAIN Bucket(AddTo(buckets, rule), c)
             = DOMAIN Bucket(buckets, c) \cup (IF c = d THEN {Len(Bucket(buckets, d)) + 1} ELSE {})
  <2> SUFFICES ASSUME NEW c
               PROVE  DOMAIN Bucket(AddTo(buckets, rule), c)
                      = DOMAIN Bucket(buckets, c)
                        \cup (IF c = d THEN {Len(Bucket(buckets, d)) + 1} ELSE {})
    OBVIOUS
  <2>1. Bucket(AddTo(buckets, rule), c)
        = IF d = c THEN Append(Bucket(buckets, c), rule) ELSE Bucket(buckets, c)
    BY BucketOfAddTo
  <2>2. Bucket(buckets, c) \in Seq(Rules)
    BY <1>1
  <2> QED BY <2>1, <2>2
<1>5. Held(AddTo(buckets, rule)) = Held(buckets) \cup {x}
  <2>1. ASSUME NEW h PROVE h \in Held(AddTo(buckets, rule)) => h = <<h[1], h[2]>>
    BY DEF Held
  <2>2. ASSUME NEW h PROVE h \in Held(buckets) => h = <<h[1], h[2]>>
    BY DEF Held
  <2>3. \A c, j : <<c, j>> \in Held(AddTo(buckets, rule))
                  <=> <<c, j>> \in Held(buckets) \/ <<c, j>> = x
    BY <1>2, <1>3, <1>4
  <2> QED BY <2>1, <2>2, <2>3
<1>6. x \notin Held(buckets)
  <2>1. Len(Bucket(buckets, d)) + 1 \notin DOMAIN Bucket(buckets, d)
    BY <1>1
  <2> QED BY <1>2, <2>1
<1> QED BY <1>5, <1>6, FS_AddElement

\* A rule taken is one more reported; nothing else changes the reports.
LEMMA ReportedTook ==
    ASSUME Counts, NEW t \in Loaders, Advance(t, [loading[t] EXCEPT !.loaded = @ + 1]),
           IsFiniteSet(Reported)
    PROVE  IsFiniteSet(Reported') /\ Cardinality(Reported') = Cardinality(Reported) + 1
<1> DEFINE x == <<t, loading[t].loaded + 1>>
<1>1. \A u \in Loaders : loading[u].loaded \in Nat
    BY DEF Counts, Loading
<1>2. \A u \in Loaders : loading'[u].loaded = loading[u].loaded + IF u = t THEN 1 ELSE 0
    BY <1>1 DEF Advance, Counts, Loading
<1>3. \A u, j : <<u, j>> \in Reported <=> u \in Loaders /\ j \in 1..loading[u].loaded
    BY DEF Reported
<1>4. \A u, j : <<u, j>> \in Reported' <=> u \in Loaders /\ j \in 1..loading'[u].loaded
    BY DEF Reported
<1>5. Reported' = Reported \cup {x}
  <2>1. ASSUME NEW h PROVE h \in Reported' => h = <<h[1], h[2]>>
    BY DEF Reported
  <2>2. ASSUME NEW h PROVE h \in Reported => h = <<h[1], h[2]>>
    BY DEF Reported
  <2>3. ASSUME NEW u \in Loaders, NEW j
        PROVE  j \in 1..loading'[u].loaded
               <=> j \in 1..loading[u].loaded \/ (u = t /\ j = loading[t].loaded + 1)
    BY <1>1, <1>2
  <2>4. \A u, j : <<u, j>> \in Reported' <=> <<u, j>> \in Reported \/ <<u, j>> = x
    BY <1>3, <1>4, <2>3
  <2> QED BY <2>1, <2>2, <2>4
<1>6. x \notin Reported
    BY <1>1, <1>3
<1> QED BY <1>5, <1>6, FS_AddElement

\* The reports are a matter of the loaded counts.
LEMMA ReportedSame ==
    ASSUME \A u \in Loaders : loading'[u].loaded = loading[u].loaded
    PROVE  Reported' = Reported
BY DEF Reported

\* Nobody has reported anything yet.
LEMMA InitLedger == Init => Ledger
<1> SUFFICES ASSUME Init PROVE Ledger
    OBVIOUS
<1>1. \A t \in Loaders : loading[t].loaded = 0 /\ loading[t].refused = 0
    BY DEF Init, IndexInit, Uncalled
<1>2. Reported = {} /\ Held(<<>>) = {}
    BY <1>1 DEF Reported, Held
<1>3. ~(\E t \in Loaders : loading[t].refused > 0)
    BY <1>1
<1>4. IsFiniteSet({}) /\ Cardinality({}) = 0
    BY FS_EmptySet
<1>5. total_rules_ = 0 /\ removed = 0
    BY DEF Init, IndexInit
<1>6. Held(allow_rules_by_domain_) = {} /\ Held(block_rules_by_domain_) = {}
    BY <1>2 DEF Init, IndexInit
<1>7. Cardinality(Reported) = total_rules_ + removed
    BY <1>2, <1>4, <1>5
<1>8. total_rules_ = Cardinality(Held(allow_rules_by_domain_))
                     + Cardinality(Held(block_rules_by_domain_))
    BY <1>4, <1>5, <1>6
<1> QED BY <1>2, <1>3, <1>4, <1>6, <1>7, <1>8 DEF Ledger

\* A rule taken is one more in a bucket and one more reported.
LEMMA TookLedger ==
    ASSUME LedgerInv, NEW t \in Loaders, loading[t].rest # <<>>, total_rules_ < MaxRules, Took(t)
    PROVE  Ledger'
<1> DEFINE rule == Head(loading[t].rest)
           allow == allow_rules_by_domain_
           block == block_rules_by_domain_
<1>1. Counts /\ Index /\ Ledger
    BY DEF LedgerInv, IndexInv
<1>2. IsFiniteSet(Reported') /\ Cardinality(Reported') = Cardinality(Reported) + 1
    BY <1>1, ReportedTook DEF Took, Ledger
<1>3. /\ IsFiniteSet(Held(AddTo(allow, rule)))
      /\ Cardinality(Held(AddTo(allow, rule))) = Cardinality(Held(allow)) + 1
      /\ IsFiniteSet(Held(AddTo(block, rule)))
      /\ Cardinality(Held(AddTo(block, rule))) = Cardinality(Held(block)) + 1
    BY <1>1, HeldAddTo DEF Index, Ledger
<1>4. /\ IsFiniteSet(Held(allow')) /\ IsFiniteSet(Held(block'))
      /\ \/ /\ Cardinality(Held(allow')) = Cardinality(Held(allow)) + 1
            /\ Cardinality(Held(block')) = Cardinality(Held(block))
         \/ /\ Cardinality(Held(allow')) = Cardinality(Held(allow))
            /\ Cardinality(Held(block')) = Cardinality(Held(block)) + 1
  <2>1. CASE allow' = AddTo(allow, rule) /\ block' = block
    BY <1>1, <1>3, <2>1 DEF Ledger
  <2>2. CASE allow' = allow /\ block' = AddTo(block, rule)
    BY <1>1, <1>3, <2>2 DEF Ledger
  <2> QED BY <2>1, <2>2 DEF Took, PutInBucket
<1>5. \A u \in Loaders : loading'[u].refused = loading[u].refused
    BY <1>1 DEF Took, Advance, Counts, Loading
<1>6. total_rules_ \in Nat /\ removed \in Nat /\ total_rules_' = total_rules_ + 1 /\ removed' = removed
    BY <1>1 DEF Counts, Took
<1>7. ~(\E u \in Loaders : loading'[u].refused > 0 /\ removed = 0)
    BY <1>1, <1>5, <1>6, IndexAssumption DEF Ledger
<1>8. /\ Cardinality(Held(allow)) \in Nat /\ Cardinality(Held(block)) \in Nat
      /\ Cardinality(Reported) = total_rules_ + removed
      /\ total_rules_ = Cardinality(Held(allow)) + Cardinality(Held(block))
    BY <1>1, FS_CardinalityType DEF Ledger
<1>9. Cardinality(Reported') = total_rules_' + removed'
    BY <1>2, <1>6, <1>8
<1>10. total_rules_' = Cardinality(Held(allow')) + Cardinality(Held(block'))
    BY <1>4, <1>6, <1>8
<1> HIDE DEF rule
<1> QED BY <1>2, <1>4, <1>6, <1>7, <1>9, <1>10 DEF Ledger

\* A refused rule changes nothing, and the database is full.
LEMMA RefusedLedger ==
    ASSUME LedgerInv, NEW t \in Loaders, total_rules_ >= MaxRules, Refused(t)
    PROVE  Ledger'
<1>1. \A u \in Loaders : loading'[u].loaded = loading[u].loaded
    BY DEF LedgerInv, IndexInv, Refused, Advance, Counts, Loading
<1>2. Reported' = Reported
    BY <1>1, ReportedSame
<1>3. total_rules_ = MaxRules
    BY IndexAssumption DEF LedgerInv, IndexInv, Counts
<1> QED BY <1>2, <1>3 DEF LedgerInv, Ledger, Refused

\* A list given to a loader has no rule in the database yet.
LEMMA LoadLedger ==
    ASSUME LedgerInv, NEW t \in Loaders, NEW list, LoadFromText(t, list)
    PROVE  Ledger'
<1>1. \A u \in Loaders : loading'[u].loaded = loading[u].loaded
                        /\ loading'[u].refused = loading[u].refused
    BY DEF LedgerInv, IndexInv, LoadFromText, Counts, Loading
<1>2. Reported' = Reported
    BY <1>1, ReportedSame
<1> QED BY <1>1, <1>2 DEF LedgerInv, Ledger, LoadFromText

\* What Clear removes was reported, too.
LEMMA ClearLedger ==
    ASSUME LedgerInv, Clear
    PROVE  Ledger'
<1>1. Reported' = Reported
    BY ReportedSame DEF Clear
<1>2. Held(<<>>) = {}
    BY DEF Held
<1>3. /\ total_rules_ = Len(accepted) /\ Len(accepted) \in Nat /\ removed \in Nat
      /\ Cardinality(Reported) = total_rules_ + removed
  <2>1. accepted \in Seq(Rules) /\ total_rules_ = Len(accepted) /\ removed \in Nat
    BY DEF LedgerInv, IndexInv, Counts
  <2>2. Cardinality(Reported) = total_rules_ + removed
    BY DEF LedgerInv, Ledger
  <2> QED BY <2>1, <2>2
<1>4. removed' = 0 => removed = 0 /\ total_rules_ = 0
    BY <1>3 DEF Clear
<1>5. (\E t \in Loaders : loading'[t].refused > 0) /\ removed' = 0 => MaxRules = 0
    BY <1>4 DEF Clear, LedgerInv, Ledger
<1>6. Cardinality(Reported') = total_rules_' + removed'
    BY <1>1, <1>3 DEF Clear
<1>7. IsFiniteSet({}) /\ Cardinality({}) = 0
    BY FS_EmptySet
<1>8. IsFiniteSet(Reported)
    BY DEF LedgerInv, Ledger
<1>9. /\ Held(allow_rules_by_domain_') = {} /\ Held(block_rules_by_domain_') = {}
      /\ total_rules_' = 0
    BY <1>2 DEF Clear
<1> QED BY <1>1, <1>5, <1>6, <1>7, <1>8, <1>9 DEF Ledger

\* The books balance at every step of every loader.
THEOREM LedgerInductive == Spec => []LedgerInv
<1>1. Init => Ledger
    BY InitLedger
<1>2. LedgerInv /\ [Next]_vars => Ledger'
  <2> SUFFICES ASSUME LedgerInv, [Next]_vars PROVE Ledger'
    OBVIOUS
  <2>1. ASSUME NEW t \in Loaders, AddRule(t) PROVE Ledger'
    BY <2>1, TookLedger, RefusedLedger DEF AddRule
  <2>2. ASSUME NEW t \in Loaders, NEW list, LoadFromText(t, list) PROVE Ledger'
    BY <2>2, LoadLedger
  <2>3. CASE ChangeRules
    BY <2>1, <2>2, <2>3, ClearLedger DEF ChangeRules
  <2>4. CASE UNCHANGED <<indexVars, workload>>
    BY <2>4 DEF LedgerInv, Ledger, indexVars, Reported
  <2> QED BY <2>3, <2>4, OthersPassive
<1> QED BY <1>1, <1>2, IndexInductive, PTL DEF Spec, LedgerInv

\* Whatever the lists and their interleaving, the loaders' reports, total_rules_ and
\* the buckets agree, the limit is kept, and a rule is refused by a full database only.
THEOREM LoadsBalance == Spec => []LoadsAccountedFor
<1>1. LedgerInv => LoadsAccountedFor
    BY DEF LedgerInv, IndexInv, Counts, Ledger, LoadsAccountedFor
<1> QED BY <1>1, LedgerInductive, PTL

-----------------------------------------------------------------------------
(* What the lookups return *)

\* The k-th candidate of a host, and the places of its rules.
Candidate(host, k) == SubSeq(host, k, Len(host))

LEMMA Candidates ==
    ASSUME NEW S, NEW host \in Seq(S)
    PROVE  /\ DOMAIN host = 1..Len(host) /\ Len(host) \in Nat
           /\ \A k \in DOMAIN host : Len(Candidate(host, k)) = Len(host) - k + 1
           /\ \A k \in DOMAIN host : GenerateCandidateDomains(host)[k] = Candidate(host, k)
           /\ Flat!GenerateCandidateDomains(host) = {Candidate(host, k) : k \in DOMAIN host}
           /\ \A k \in DOMAIN host : Candidate(host, k) = host => k = 1
           /\ \A k \in DOMAIN host : k = 1 => Candidate(host, k) = host
<1>1. DOMAIN host = 1..Len(host) /\ Len(host) \in Nat
    OBVIOUS
<1>2. \A k \in DOMAIN host : Len(Candidate(host, k)) = Len(host) - k + 1
    BY <1>1 DEF Candidate
<1>3. \A k \in DOMAIN host : Candidate(host, k) = host => k = 1
    BY <1>1, <1>2
<1>4. \A k \in DOMAIN host : k = 1 => Candidate(host, k) = host
    BY <1>1 DEF Candidate
<1> QED BY <1>1, <1>2, <1>3, <1>4
        DEF Candidate, GenerateCandidateDomains, Flat!GenerateCandidateDomains

\* What the buckets are searched for: the rules of the candidates' buckets.
Searched(buckets, host, path) ==
    {v \in (DOMAIN host) \X Nat :
        /\ v[2] \in DOMAIN Bucket(buckets, Candidate(host, v[1]))
        /\ MatchesPathAndOptions(Bucket(buckets, Candidate(host, v[1]))[v[2]], path)}

LEMMA FindInSearches ==
    ASSUME NEW S, NEW host \in Seq(S), NEW path, NEW buckets, NEW list, NEW rule_type,
           Indexed(buckets, list, rule_type)
    PROVE  /\ DOMAIN FindIn(buckets, host, path) = Searched(buckets, host, path)
           /\ \A v \in Searched(buckets, host, path) :
                FindIn(buckets, host, path)[v] = Bucket(buckets, Candidate(host, v[1]))[v[2]]
           /\ VisitBuckets(buckets, host)
              = {v \in (DOMAIN host) \X Nat : v[2] \in DOMAIN Bucket(buckets, Candidate(host, v[1]))}
<1> DEFINE At(k) == Bucket(buckets, Candidate(host, k))
           Visits == {v \in (DOMAIN host) \X Nat : v[2] \in DOMAIN At(v[1])}
<1>1. \A k \in DOMAIN host : Visited(buckets, host, k) = At(k)
    BY Candidates DEF Visited
<1>2. \A k \in DOMAIN host : At(k) \in Seq(Rules)
    BY DEF Indexed, InBucket
<1> HIDE DEF At
<1>3. \A k \in DOMAIN host : \A j \in DOMAIN At(k) : j \in Nat /\ At(k)[j].match_subdomains
  <2> SUFFICES ASSUME NEW k \in DOMAIN host, NEW j \in DOMAIN At(k)
               PROVE  j \in Nat /\ At(k)[j].match_subdomains
    OBVIOUS
  <2>1. j \in Nat /\ At(k)[j] \in Rules
    BY <1>2
  <2> QED BY <2>1, RuleFields
<1>4. VisitBuckets(buckets, host) = UNION {{<<k, j>> : j \in DOMAIN At(k)} : k \in DOMAIN host}
  <2> DEFINE Seen(k) == {i \in DOMAIN Visited(buckets, host, k) :
                            k = 1 \/ Visited(buckets, host, k)[i].match_subdomains}
  <2>1. \A k \in DOMAIN host : Seen(k) = DOMAIN At(k)
    BY <1>1, <1>3
  <2>2. VisitBuckets(buckets, host) = UNION {{<<k, j>> : j \in Seen(k)} : k \in DOMAIN host}
    BY DEF VisitBuckets
  <2> HIDE DEF Seen
  <2> QED BY <2>1, <2>2
<1>5. VisitBuckets(buckets, host) = Visits
  <2>1. ASSUME NEW v \in VisitBuckets(buckets, host) PROVE v \in Visits
    BY <1>3, <1>4
  <2>2. ASSUME NEW v \in Visits PROVE v \in VisitBuckets(buckets, host)
    <3>1. v = <<v[1], v[2]>> /\ v[1] \in DOMAIN host /\ v[2] \in DOMAIN At(v[1])
        OBVIOUS
    <3>2. <<v[1], v[2]>> \in {<<v[1], j>> : j \in DOMAIN At(v[1])}
        BY <3>1
    <3> QED BY <1>4, <3>1, <3>2
  <2> QED BY <2>1, <2>2
<1>6. Searched(buckets, host, path)
      = {v \in VisitBuckets(buckets, host) : MatchesPathAndOptions(At(v[1])[v[2]], path)}
    BY <1>5 DEF Searched, At
<1>7. \A v \in VisitBuckets(buckets, host) : Visited(buckets, host, v[1]) = At(v[1])
    BY <1>1, <1>5
<1>8. FindIn(buckets, host, path) = [v \in Searched(buckets, host, path) |-> At(v[1])[v[2]]]
    BY <1>6, <1>7 DEF FindIn
<1> QED BY <1>5, <1>8 DEF At

\* The rules of the list that the lookups look for.
LEMMA ListSearched ==
    ASSUME NEW S, NEW host \in Seq(S), NEW path, NEW rule_type, accepted \in Seq(Rules)
    PROVE  \A i : i \in Flat!FindMatchingRules(accepted, rule_type, host, path)
                 <=> /\ \E k \in DOMAIN host : i \in PlacesOf(accepted, rule_type, Candidate(host, k))
                     /\ MatchesPathAndOptions(accepted[i], path)
<1>1. \A i \in DOMAIN accepted : accepted[i].domain_pattern # <<>> /\ accepted[i].match_subdomains
  <2> SUFFICES ASSUME NEW i \in DOMAIN accepted
               PROVE  accepted[i].domain_pattern # <<>> /\ accepted[i].match_subdomains
    OBVIOUS
  <2>1. accepted[i] \in Rules
    OBVIOUS
  <2> QED BY <2>1, RuleFields
<1>2. \A i \in DOMAIN accepted :
        Flat!CoversHost(accepted[i], host) \/ accepted[i].domain_pattern = Flat!Generic
        <=> \E k \in DOMAIN host : accepted[i].domain_pattern = Candidate(host, k)
    BY <1>1, Candidates DEF Flat!CoversHost, Flat!Generic
<1>3. \A rule : Flat!MatchesPathAndOptions(rule, path) <=> MatchesPathAndOptions(rule, path)
    BY DEF Flat!MatchesPathAndOptions, MatchesPathAndOptions, Flat!AnyPath
<1> QED BY <1>2, <1>3 DEF Flat!FindMatchingRules, PlacesOf

\* Where the rule of a visit is in the list.
EmbeddingOf(buckets, rule_type, domain) ==
    CHOOSE e : Embeds(e, Bucket(buckets, domain), accepted, PlacesOf(accepted, rule_type, domain))

PlaceOf(buckets, rule_type, host, v) ==
    EmbeddingOf(buckets, rule_type, Candidate(host, v[1]))[v[2]]

\* A visit's place has its rule and lies among those of its candidate; the visits of
\* one candidate come in the order of their places.
LEMMA VisitPlaces ==
    ASSUME NEW buckets, NEW rule_type, Indexed(buckets, accepted, rule_type),
           NEW host, NEW k,
           NEW j \in DOMAIN Bucket(buckets, Candidate(host, k))
    PROVE  LET bucket == Bucket(buckets, Candidate(host, k))
               Place(n) == PlaceOf(buckets, rule_type, host, <<k, n>>)
           IN  /\ Place(j) \in PlacesOf(accepted, rule_type, Candidate(host, k))
               /\ accepted[Place(j)] = bucket[j]
               /\ \A n \in DOMAIN bucket : j < n => Place(j) < Place(n)
<1> DEFINE d == Candidate(host, k)
           e == EmbeddingOf(buckets, rule_type, d)
<1>1. Embeds(e, Bucket(buckets, d), accepted, PlacesOf(accepted, rule_type, d))
  <2>1. \E f : Embeds(f, Bucket(buckets, d), accepted, PlacesOf(accepted, rule_type, d))
    BY DEF Indexed, InBucket
  <2> HIDE DEF d
  <2> QED BY <2>1 DEF EmbeddingOf
<1>2. \A n : PlaceOf(buckets, rule_type, host, <<k, n>>) = e[n]
    BY DEF PlaceOf
<1> HIDE DEF e, d
<1> QED BY <1>1, <1>2 DEF Embeds, d

\* The j-th rule of the candidate's bucket is this one.
VisitOf(buckets, rule_type, host, k, j, i) ==
    /\ j \in DOMAIN Bucket(buckets, Candidate(host, k))
    /\ PlaceOf(buckets, rule_type, host, <<k, j>>) = i

\* Each place has its visit.
LEMMA PlacesVisited ==
    ASSUME NEW buckets, NEW rule_type, Indexed(buckets, accepted, rule_type),
           NEW host, NEW k, NEW i, i \in PlacesOf(accepted, rule_type, Candidate(host, k))
    PROVE  \E j : VisitOf(buckets, rule_type, host, k, j, i)
<1> DEFINE d == Candidate(host, k)
           e == EmbeddingOf(buckets, rule_type, d)
<1>1. Embeds(e, Bucket(buckets, d), accepted, PlacesOf(accepted, rule_type, d))
  <2>1. \E f : Embeds(f, Bucket(buckets, d), accepted, PlacesOf(accepted, rule_type, d))
    BY DEF Indexed, InBucket
  <2> HIDE DEF d
  <2> QED BY <2>1 DEF EmbeddingOf
<1>2. \A n : PlaceOf(buckets, rule_type, host, <<k, n>>) = e[n]
    BY DEF PlaceOf
<1> HIDE DEF e, d
<1> QED BY <1>1, <1>2 DEF Embeds, d, VisitOf

\* The matches of a lookup are those of the list, in its order.
LEMMA FindAgrees ==
    ASSUME NEW S, NEW host \in Seq(S), NEW path, NEW buckets, NEW rule_type,
           accepted \in Seq(Rules), Indexed(buckets, accepted, rule_type)
    PROVE  AreThoseOfList(FindIn(buckets, host, path), rule_type, host, path)
<1> DEFINE found == FindIn(buckets, host, path)
           searched == Searched(buckets, host, path)
           list == Flat!FindMatchingRules(accepted, rule_type, host, path)
           BucketAt(k) == Bucket(buckets, Candidate(host, k))
           place == [v \in searched |-> PlaceOf(buckets, rule_type, host, v)]
<1>1. DOMAIN found = searched /\ \A v \in searched : found[v] = BucketAt(v[1])[v[2]]
    BY FindInSearches
<1>2. \A v \in searched : /\ v = <<v[1], v[2]>> /\ v[1] \in DOMAIN host
                           /\ v[2] \in DOMAIN BucketAt(v[1]) /\ v[2] \in Nat
                           /\ MatchesPathAndOptions(BucketAt(v[1])[v[2]], path)
    BY DEF Searched
<1>3. \A v \in searched :
        /\ place[v] \in PlacesOf(accepted, rule_type, Candidate(host, v[1]))
        /\ accepted[place[v]] = BucketAt(v[1])[v[2]]
        /\ \A n \in DOMAIN BucketAt(v[1]) :
                v[2] < n => place[v] < PlaceOf(buckets, rule_type, host, <<v[1], n>>)
  <2> SUFFICES ASSUME NEW v \in searched
               PROVE  /\ place[v] \in PlacesOf(accepted, rule_type, Candidate(host, v[1]))
                      /\ accepted[place[v]] = BucketAt(v[1])[v[2]]
                      /\ \A n \in DOMAIN BucketAt(v[1]) :
                            v[2] < n => place[v] < PlaceOf(buckets, rule_type, host, <<v[1], n>>)
    OBVIOUS
  <2>1. place[v] = PlaceOf(buckets, rule_type, host, <<v[1], v[2]>>)
    BY <1>2
  <2>2. v[2] \in DOMAIN Bucket(buckets, Candidate(host, v[1]))
    BY <1>2
  <2> HIDE DEF place, searched
  <2> QED BY <2>1, <2>2, VisitPlaces
<1> HIDE DEF place, searched, found
<1>4. \A v \in searched : place[v] \in list
  <2> SUFFICES ASSUME NEW v \in searched PROVE place[v] \in list
    OBVIOUS
  <2>1. v[1] \in DOMAIN host /\ MatchesPathAndOptions(accepted[place[v]], path)
    BY <1>2, <1>3
  <2> QED BY <1>3, <2>1, ListSearched
<1>5. place \in [DOMAIN found -> list]
    BY <1>1, <1>4 DEF place
<1>6. \A i \in list : \E v \in DOMAIN found : place[v] = i
  <2> SUFFICES ASSUME NEW i \in list PROVE \E v \in searched : place[v] = i
    BY <1>1
  <2>1. MatchesPathAndOptions(accepted[i], path)
    BY ListSearched
  <2>2. PICK k \in DOMAIN host : i \in PlacesOf(accepted, rule_type, Candidate(host, k))
    BY ListSearched
  <2>7. PICK j : VisitOf(buckets, rule_type, host, k, j, i)
    BY <2>2, PlacesVisited
  <2>3. j \in DOMAIN BucketAt(k) /\ PlaceOf(buckets, rule_type, host, <<k, j>>) = i
    BY <2>7 DEF VisitOf
  <2>4. accepted[i] = BucketAt(k)[j]
    BY <2>3, VisitPlaces
  <2>5. BucketAt(k) \in Seq(Rules)
    BY DEF Indexed, InBucket
  <2>8. j \in Nat
    BY <2>3, <2>5
  <2>6. <<k, j>> \in searched
    BY <2>1, <2>3, <2>4, <2>8 DEF searched, Searched
  <2> QED BY <2>3, <2>6 DEF place
<1>7. \A v \in DOMAIN found : found[v] = accepted[place[v]]
    BY <1>1, <1>3
<1>8. \A v, w \in DOMAIN found :
        VisitedBefore(v, w) <=> Flat!ReturnedBefore(accepted, place[v], place[w])
  <2> SUFFICES ASSUME NEW v \in searched, NEW w \in searched
               PROVE  VisitedBefore(v, w) <=> Flat!ReturnedBefore(accepted, place[v], place[w])
    BY <1>1
  <2>0. ASSUME NEW u \in searched
        PROVE  /\ Len(accepted[place[u]].domain_pattern) = Len(host) - u[1] + 1
               /\ u[1] \in Nat /\ u[1] <= Len(host) /\ u[2] \in Nat /\ place[u] \in Nat
    <3>1. accepted[place[u]].domain_pattern = Candidate(host, u[1]) /\ place[u] \in DOMAIN accepted
        BY <1>3 DEF PlacesOf
    <3>2. u[1] \in DOMAIN host /\ u[2] \in Nat
        BY <1>2
    <3>3. Len(Candidate(host, u[1])) = Len(host) - u[1] + 1 /\ u[1] \in 1..Len(host)
        BY <3>2, Candidates
    <3>4. place[u] \in Nat
        BY <3>1
    <3> QED BY <3>1, <3>2, <3>3, <3>4
  <2>1. /\ Len(accepted[place[v]].domain_pattern) = Len(host) - v[1] + 1
        /\ Len(accepted[place[w]].domain_pattern) = Len(host) - w[1] + 1
    BY <2>0
  <2>2. /\ v[1] \in Nat /\ w[1] \in Nat /\ Len(host) \in Nat /\ v[1] <= Len(host) /\ w[1] <= Len(host)
        /\ v[2] \in Nat /\ w[2] \in Nat /\ place[v] \in Nat /\ place[w] \in Nat
    BY <2>0
  <2>3. CASE v[1] = w[1]
    <3>1. v[2] < w[2] => place[v] < place[w]
        BY <1>2, <1>3, <2>3 DEF place
    <3>2. w[2] < v[2] => place[w] < place[v]
        BY <1>2, <1>3, <2>3 DEF place
    <3>3. v[2] = w[2] => place[v] = place[w]
        BY <1>2, <2>3
    <3> QED BY <2>1, <2>2, <2>3, <3>1, <3>2, <3>3 DEF VisitedBefore, Flat!ReturnedBefore
  <2>4. CASE v[1] # w[1]
    BY <2>1, <2>2, <2>4, SMTT(30) DEF VisitedBefore, Flat!ReturnedBefore
  <2> QED BY <2>3, <2>4
<1> QED BY <1>5, <1>6, <1>7, <1>8 DEF AreThoseOfList, found

\* A lookup comes to a rule if the list has one for a candidate.
LEMMA VisitsSome ==
    ASSUME NEW S, NEW host \in Seq(S), NEW buckets, NEW rule_type,
           Indexed(buckets, accepted, rule_type)
    PROVE  VisitBuckets(buckets, host) # {}
           <=> \E k \in DOMAIN host : PlacesOf(accepted, rule_type, Candidate(host, k)) # {}
<1>1. VisitBuckets(buckets, host)
      = {v \in (DOMAIN host) \X Nat : v[2] \in DOMAIN Bucket(buckets, Candidate(host, v[1]))}
    BY FindInSearches
<1>2. ASSUME NEW v \in VisitBuckets(buckets, host)
      PROVE  \E k \in DOMAIN host : PlacesOf(accepted, rule_type, Candidate(host, k)) # {}
  <2>1. v[1] \in DOMAIN host /\ v[2] \in DOMAIN Bucket(buckets, Candidate(host, v[1]))
    BY <1>1
  <2>2. PlaceOf(buckets, rule_type, host, <<v[1], v[2]>>)
        \in PlacesOf(accepted, rule_type, Candidate(host, v[1]))
    BY <2>1, VisitPlaces
  <2> QED BY <2>1, <2>2
<1>3. ASSUME NEW k \in DOMAIN host, NEW i \in PlacesOf(accepted, rule_type, Candidate(host, k))
      PROVE  VisitBuckets(buckets, host) # {}
  <2>0. PICK j : VisitOf(buckets, rule_type, host, k, j, i)
    BY PlacesVisited
  <2>1. j \in DOMAIN Bucket(buckets, Candidate(host, k))
    BY <2>0 DEF VisitOf
  <2>2. Bucket(buckets, Candidate(host, k)) \in Seq(Rules)
    BY DEF Indexed, InBucket
  <2>3. j \in Nat
    BY <2>1, <2>2
  <2>4. <<k, j>> \in VisitBuckets(buckets, host)
    BY <1>1, <2>1, <2>3
  <2> QED BY <2>4
<1> QED BY <1>2, <1>3

\* A host is known for a tracker by the buckets and by the list alike.
LEMMA KnownAgrees ==
    ASSUME NEW S, NEW host \in Seq(S), accepted \in Seq(Rules), Index
    PROVE  IsKnownTrackerHost(host) = Flat!IsKnownTrackerHost(accepted, host)
<1>1. IsKnownTrackerHost(host)
      <=> \E k \in DOMAIN host : PlacesOf(accepted, "kBlock", Candidate(host, k)) # {}
    BY VisitsSome DEF Index, IsKnownTrackerHost
<1>2. \A i \in DOMAIN accepted : accepted[i].match_subdomains
  <2> SUFFICES ASSUME NEW i \in DOMAIN accepted PROVE accepted[i].match_subdomains
    OBVIOUS
  <2>1. accepted[i] \in Rules
    OBVIOUS
  <2> QED BY <2>1, RuleFields
<1>3. Flat!IsKnownTrackerHost(accepted, host)
      <=> \E k \in DOMAIN host : PlacesOf(accepted, "kBlock", Candidate(host, k)) # {}
  <2>1. \A i \in DOMAIN accepted :
            Flat!CoversHost(accepted[i], host)
            <=> \E k \in DOMAIN host : accepted[i].domain_pattern = Candidate(host, k)
    BY <1>2, Candidates DEF Flat!CoversHost
  <2>2. Flat!IsKnownTrackerHost(accepted, host)
        <=> \E i \in DOMAIN accepted : accepted[i].rule_type = "kBlock"
                                         /\ Flat!CoversHost(accepted[i], host)
    BY DEF Flat!IsKnownTrackerHost, Flat!RulesOf
  <2> QED BY <2>1, <2>2 DEF PlacesOf
<1> QED BY <1>1, <1>3 DEF IsKnownTrackerHost, Flat!IsKnownTrackerHost

\* The lookups of the buckets and of the list agree on every URL of the workload.
THEOREM BucketsAreList == Spec => []LookupsAgree
<1>1. IndexInv => LookupsAgree
  <2> SUFFICES ASSUME IndexInv, NEW url \in workload.urls
               PROVE  AgreesOn(ExtractHostname(url), ExtractPath(url))
    BY DEF LookupsAgree
  <2> DEFINE host == ExtractHostname(url)
             path == ExtractPath(url)
  <2>1. IsUrl(url)
    BY WorkloadAssumption DEF IndexInv, Counts
  <2>2. PICK labels : host \in Seq(labels)
    BY <2>1, HostType
  <2>3. accepted \in Seq(Rules) /\ Index
    BY DEF IndexInv, Counts
  <2> HIDE DEF host, path
  <2>4. AreThoseOfList(FindMatchingAllowRules(host, path), "kAllow", host, path)
    BY <2>2, <2>3, FindAgrees DEF FindMatchingAllowRules, Index
  <2>5. AreThoseOfList(FindMatchingBlockRules(host, path), "kBlock", host, path)
    BY <2>2, <2>3, FindAgrees DEF FindMatchingBlockRules, Index
  <2>6. IsKnownTrackerHost(host) = Flat!IsKnownTrackerHost(accepted, host)
    BY <2>2, <2>3, KnownAgrees
  <2> QED BY <2>4, <2>5, <2>6 DEF AgreesOn, host, path
<1> QED BY <1>1, IndexInductive, PTL

-----------------------------------------------------------------------------
(* The URL that is decided over *)

\* A throttle decided over the URL it cleaned with the parameters that are still in
\* force, and that has the host and the path of the URL it was given.
Decided ==
    Throttles =>
        /\ IsUrl(last.given) /\ IsUrl(last.target)
        /\ last.target = StripTrackingParameters(tracking_params_, last.given).cleaned_url
        /\ ExtractHostname(last.target) = ExtractHostname(last.given)
        /\ ExtractPath(last.target) = ExtractPath(last.given)
        /\ last.decision = EvaluateRequest(last.target, last.initiator, last.type).decision
        /\ last.type \in ResourceTypes

DecidedInv == IndexInv /\ Decided

\* Every number of Chromium's becomes a type of the rules.
LEMMA ConvertedType ==
    ASSUME NEW number \in Nat
    PROVE  ConvertResourceType(number) \in ResourceTypes
<1> DEFINE types == << "kMainFrame", "kSubFrame", "kStylesheet", "kScript", "kImage",
                       "kFont", "kSubFrame", "kOther", "kMedia", "kWebSocket",
                       "kPingBeacon", "kXhrFetch" >>
<1>1. types \in Seq(ResourceTypes)
    BY DEF ResourceTypes
<1>2. ConvertResourceType(number) = IF number < Len(types) THEN types[number + 1] ELSE "kOther"
    BY DEF ConvertResourceType
<1> HIDE DEF types
<1>3. number < Len(types) => number + 1 \in 1..Len(types)
    BY <1>1
<1> QED BY <1>1, <1>2, <1>3 DEF ResourceTypes

\* What the throttle does with a URL.
LEMMA ThrottledDecides ==
    ASSUME NEW op, NEW url, IsUrl(url), NEW initiator, NEW type \in ResourceTypes,
           Throttled(op, url, initiator, type), Passive
    PROVE  Decided'
<1>1. PICK target : target = StripTrackingParameters(tracking_params_, url).cleaned_url
    OBVIOUS
<1>2. /\ IsUrl(target) /\ ExtractHostname(target) = ExtractHostname(url)
      /\ ExtractPath(target) = ExtractPath(url)
    BY <1>1, StripKeepsHostAndPath
<1>3. /\ last'.given = url /\ last'.target = target
      /\ last'.initiator = initiator /\ last'.type = type
      /\ last'.decision = EvaluateRequest(target, initiator, type).decision
    BY <1>1 DEF Throttled
<1>4. EvaluateRequest(last.target, last.initiator, last.type)'
      = EvaluateRequest(target, initiator, type)
    BY <1>3 DEF Passive, indexVars, EvaluateRequest, FindMatchingAllowRules, FindMatchingBlockRules,
           Classification, IsKnownTrackerHost
<1>5. tracking_params_' = tracking_params_
    BY DEF Passive
<1> QED BY <1>1, <1>2, <1>3, <1>4, <1>5 DEF Decided

\* The steps that keep it, one by one.
THEOREM DecidedInductive == Spec => []DecidedInv
<1>1. Init => Decided
    BY DEF Init, Nothing, Decided, Throttles
<1>2. IndexInv /\ Decided /\ [Next]_vars => Decided'
  <2> SUFFICES ASSUME IndexInv, Decided, [Next]_vars PROVE Decided'
    OBVIOUS
  <2>1. \A url \in workload.urls : IsUrl(url)
    BY WorkloadAssumption DEF IndexInv, Counts
  <2>2. CASE ChangeRules
    BY <2>2 DEF ChangeRules, Idle, Nothing, Decided, Throttles
  <2>3. ASSUME NEW name \in workload.params, AddTrackingParameter(name) PROVE Decided'
    BY <2>3 DEF AddTrackingParameter, Idle, Nothing, Decided, Throttles
  <2>4. ASSUME NEW policy \in workload.policies, SetUrlExposurePolicy(policy) PROVE Decided'
    BY <2>4 DEF SetUrlExposurePolicy, Idle, Nothing, Decided, Throttles
  <2>5. ASSUME NEW url \in workload.urls, NEW initiator, NEW number \in workload.types,
               WillStartRequest(url, initiator, number)
        PROVE  Decided'
    <3>1. number \in Nat
        BY WorkloadAssumption DEF IndexInv, Counts
    <3>2. ConvertResourceType(number) \in ResourceTypes
        BY <3>1, ConvertedType
    <3> QED BY <2>1, <2>5, <3>2, ThrottledDecides DEF WillStartRequest
  <2>6. ASSUME NEW url, IsUrl(url), WillRedirectRequest(url) PROVE Decided'
    <3>1. "kOther" \in ResourceTypes
        BY DEF ResourceTypes
    <3> QED BY <2>6, <3>1, ThrottledDecides DEF WillRedirectRequest
  <2>7. ASSUME NEW url, EmitEvent(url) PROVE Decided'
    BY <2>7 DEF EmitEvent, Decided, Throttles
  <2>8. ASSUME NEW url, NEW mode, NEW size, ExtractAuthorizedContent(url, mode, size)
        PROVE  Decided'
    BY <2>8 DEF ExtractAuthorizedContent, Decided, Throttles
  <2>9. ASSUME NEW url, observe_navigation(url) PROVE Decided'
    BY <2>9 DEF observe_navigation, Decided, Throttles
  <2>10. CASE last.op \in {"request", "redirect"} /\ WillRedirectRequest(last.target)
    BY <2>6, <2>10 DEF Decided, Throttles
  <2>11. CASE Finish
    BY <2>11 DEF Finish, Nothing, Decided, Throttles
  <2>12. CASE UNCHANGED vars
    BY <2>12 DEF vars, indexVars, Decided, Throttles, EvaluateRequest, FindMatchingAllowRules,
           FindMatchingBlockRules, Classification, IsKnownTrackerHost
  <2> QED BY <2>1, <2>2, <2>3, <2>4, <2>5, <2>6, <2>7, <2>8, <2>9, <2>10, <2>11, <2>12 DEF Next
<1> QED BY <1>1, <1>2, IndexInductive, PTL DEF Spec, DecidedInv

\* Cleaning a URL never changes what the rules say of it.
THEOREM CleaningIsHarmless == Spec => []CleaningKeepsDecision
<1>1. DecidedInv => CleaningKeepsDecision
    BY DEF DecidedInv, Decided, CleaningKeepsDecision, EvaluateRequest
<1> QED BY <1>1, DecidedInductive, PTL

\* Of the query only the tracking parameters go, in whatever order and number they
\* and the others come, and nothing before or behind the query.
THEOREM StrippingIsExact == Spec => []OnlyTrackingRemoved
<1>1. DecidedInv => OnlyTrackingRemoved
  <2> SUFFICES ASSUME DecidedInv, Throttles PROVE OnlyTrackingRemoved
    BY DEF OnlyTrackingRemoved
  <2> DEFINE given == last.given
             params == tracking_params_
             target == StripTrackingParameters(params, given).cleaned_url
             items == Items(QueryText(Before(given, {"#"})), "&")
             functional == {k \in DOMAIN items : ~IsTrackingParameter(params, Key(items[k]))}
  <2>1. IsUrl(given) /\ last.target = target
    BY DEF DecidedInv, Decided
  <2>2. /\ Queried(given) =>
            /\ Before(target, {"?", "#"}) = Before(given, {"?", "#"})
            /\ From(target, {"#"}) = From(given, {"#"})
            /\ Items(QueryText(Before(target, {"#"})), "&") = Pick(items, functional)
        /\ "?" \notin Kinds(given) => target = given
    BY <2>1, StripRemoves
  <2> HIDE DEF target
  <2> QED BY <2>1, <2>2 DEF OnlyTrackingRemoved, HasQuery, Queried
<1> QED BY <1>1, DecidedInductive, PTL

-----------------------------------------------------------------------------
(* What the rules mean *)

\* The code finds the host and the path of a URL without userinfo.
LEMMA PlainUrl ==
    ASSUME NEW url, IsUrl(url), "@" \notin Kinds(url)
    PROVE  ExtractHostname(url) = HostOf(url) /\ ExtractPath(url) = PathPatterns(url)
<1> DEFINE S == ToSet(url)
           a == Authority(url)
           r == Rest(url)
           ends == {"/", "?", "#", ":"}
           marks == {"?", "#"}
           hosts == {"host"}
           p == Before(r, marks)
<1>1. url \in Seq(S)
    BY DEF IsUrl
<1> HIDE DEF S
<1>2. /\ a \in Seq(S) /\ r \in Seq(S) /\ url = a \o r /\ r # <<>> /\ r[1][1] = "/"
      /\ Kinds(a) \cap {"/", "?", "#"} = {}
    BY <1>1, UrlParts
<1>3. Shape(a) \in AuthorityKinds
    BY DEF IsUrl, Authority
<1>4. ExtractPath(url) = UNION Values(Before(From(url, {"/"}), marks), "/")
    BY DEF ExtractPath, Values
<1>5. From(url, {"/"}) = r
    BY DEF Rest
<1> HIDE DEF a, r
<1>6. "@" \notin Kinds(a)
  <2>1. Kinds(a \o r) = Kinds(a) \cup Kinds(r)
    BY <1>2, KindsConcat
  <2> QED BY <1>2, <2>1
<1>7. DOMAIN a = {1} /\ a[1][1] = "host" /\ Len(a) = 1
  <2>1. DOMAIN Shape(a) = DOMAIN a /\ \A i \in DOMAIN a : Shape(a)[i] = a[i][1]
    BY DEF Shape
  <2>2. Shape(a) = <<"host">>
    <3>1. \A i \in DOMAIN Shape(a) : Shape(a)[i] # "@"
        BY <1>6, <2>1 DEF Kinds
    <3>2. ASSUME NEW s \in AuthorityKinds, \A i \in DOMAIN s : s[i] # "@"
          PROVE  s = <<"host">>
        BY <3>2 DEF AuthorityKinds
    <3> QED BY <1>3, <3>1, <3>2
  <2>3. DOMAIN a = {1} /\ a[1][1] = "host"
    BY <2>1, <2>2
  <2>4. DOMAIN a = 1..Len(a) /\ Len(a) \in Nat
    BY <1>2
  <2>5. 1 \in 1..Len(a) /\ (Len(a) >= 2 => 2 \in 1..Len(a))
    BY <2>3, <2>4
  <2> QED BY <2>3, <2>4, <2>5
<1>8. Kinds(a) = hosts
    BY <1>7 DEF Kinds
<1>9. Before(url, ends) = a
  <2>1. Kinds(a) \cap ends = {} /\ r[1][1] \in ends
    BY <1>2, <1>8
  <2> HIDE DEF ends
  <2>2. a \in Seq(S) /\ r \in Seq(S) /\ r # <<>>
    BY <1>2
  <2>3. Before(a \o r, ends) = a \o Before(r, ends)
    BY <2>1, <2>2, CutSecond
  <2>4. Before(r, ends) = <<>>
    BY <2>1, <2>2, CutAtFront
  <2>5. a \o <<>> = a
    BY <2>2
  <2> QED BY <1>2, <2>3, <2>4, <2>5
<1>10. ExtractHostname(url) = a[1][2]
  <2>1. a # <<>>
    BY <1>7
  <2> HIDE DEF hosts, marks
  <2> QED BY <1>7, <1>9, <2>1 DEF ExtractHostname
<1>11. HostOf(url) = a[1][2]
  <2>1. Find(a \o r, hosts) = Find(a, hosts)
    <3>1. Kinds(a) \cap hosts # {}
        BY <1>8
    <3> HIDE DEF hosts
    <3> QED BY <1>2, <3>1, CutFirst
  <2>2. a # <<>> /\ a[1][1] \in hosts
    BY <1>7
  <2>3. Find(a, hosts) = 1
    <3> HIDE DEF hosts
    <3> QED BY <1>2, <2>2, CutAtFront
  <2>4. url[1] = a[1]
    <3>1. a \in Seq(S) /\ r \in Seq(S) /\ 1 \in 1..Len(a)
        BY <1>2, <1>7
    <3>2. (a \o r)[1] = a[1]
        BY <3>1
    <3> QED BY <1>2, <3>2
  <2>5. Find(url, hosts) = 1
    BY <1>2, <2>1, <2>3
  <2> QED BY <2>4, <2>5 DEF HostOf
<1>12. Before(url, marks) = a \o p /\ p \in Seq(S)
  <2>1. Kinds(a) \cap marks = {}
    BY <1>2
  <2> HIDE DEF marks
  <2>2. Before(a \o r, marks) = a \o Before(r, marks)
    BY <1>2, <2>1, CutSecond
  <2>3. p \in Seq(S)
    BY <1>2, CutTypes
  <2> QED BY <1>2, <2>2, <2>3
<1> HIDE DEF p
<1>13. PathPatterns(url) = UNION Values(a \o p, "/")
  <2> DEFINE t == Before(url, marks)
  <2>1. {token[2] : token \in {u \in ToSet(t) : u[1] = "/"}} = Values(t, "/")
    <3> HIDE DEF t
    <3> QED BY DEF ToSet, Values
  <2>2. PathPatterns(url) = UNION Values(t, "/")
    BY <2>1 DEF PathPatterns
  <2> QED BY <1>12, <2>2
<1>14. Values(a \o p, "/") = Values(p, "/")
  <2>1. Values(a \o p, "/") = Values(a, "/") \cup Values(p, "/")
    BY <1>2, <1>12, ValuesConcat
  <2>2. Values(a, "/") = {}
    BY <1>2, ValuesNone
  <2> QED BY <2>1, <2>2
<1>15. ExtractPath(url) = UNION Values(p, "/")
    BY <1>4, <1>5 DEF p
<1> QED BY <1>10, <1>11, <1>13, <1>14, <1>15

\* A rule is what the parser made of its line, and that line has the rules' syntax.
LEMMA RuleHasLine ==
    ASSUME NEW rule \in Rules
    PROVE  /\ rule = ParsedRule(rule.original_rule_text)
           /\ rule.original_rule_text \in Seq(ToSet(rule.original_rule_text))
           /\ IsRuleLine(rule.original_rule_text)
<1>1. PICK line \in {l \in Lines : IsValid(l)} : rule = ParsedRule(line)
    BY DEF Rules
<1>2. rule.original_rule_text = line
    BY <1>1 DEF ParsedRule
<1>5. PICK w \in Workloads : \E list \in w.lists : line \in ToSet(list)
    BY DEF Lines
<1>3. PICK list \in w.lists : line \in ToSet(list)
    BY <1>5
<1>4. line \in Seq(ToSet(line)) /\ IsRuleLine(line)
    BY <1>1, <1>3, WorkloadAssumption
<1> QED BY <1>1, <1>2, <1>4

\* The candidates of a host are its suffixes.
LEMMA CandidateIs ==
    ASSUME NEW rule \in Rules, NEW S, NEW host \in Seq(S)
    PROVE  IsSuffix(rule.domain_pattern, host)
           <=> \E k \in DOMAIN host : rule.domain_pattern = Candidate(host, k)
<1> DEFINE line == rule.original_rule_text
           domain == rule.domain_pattern
           T == ToSet(domain) \cup S
<1>1. line \in Seq(ToSet(line)) /\ IsRuleLine(line) /\ rule = ParsedRule(line)
    BY RuleHasLine
<1>2. Values(line, "domain") = {domain}
  <2> HIDE DEF line
  <2>1. Values(line, "domain") = {ParsedRule(line).domain_pattern}
    BY <1>1, RuleOfLine
  <2> QED BY <1>1, <2>1
<1>3. domain \in Seq(ToSet(domain))
  <2>1. PICK i \in DOMAIN line : line[i][1] = "domain" /\ line[i][2] = domain
    BY <1>2 DEF Values
  <2> QED BY <1>1, <2>1 DEF IsRuleLine
<1>4. domain # <<>>
    BY RuleFields
<1> HIDE DEF domain
<1>5. domain \in Seq(T) /\ host \in Seq(T)
    BY <1>3
<1> HIDE DEF T
<1>6. IsSuffix(domain, host) <=> \E k \in DOMAIN host : domain = Suffix(host, k)
    BY <1>4, <1>5, SuffixIs
<1> QED BY <1>6 DEF domain, Suffix, Candidate

\* A request of a rule's type and party, for a host and a path of the rule.
Matches(rule, host, path, party, type) ==
    /\ \E k \in DOMAIN host : rule.domain_pattern = Candidate(host, k)
    /\ MatchesPathAndOptions(rule, path)
    /\ Applies(rule, type, party)

\* The options of a line but for the parties', which name no type.
LEMMA LineOptions ==
    ASSUME NEW line
    PROVE  LET options == Values(line, "option")
           IN  /\ With(line, "domain") = Values(line, "domain")
               /\ With(line, "/") = Values(line, "/")
               /\ With(line, "option") = options
               /\ TypeOptions(line) = options \ {"third-party", "3p", "first-party", "1p"}
               /\ NamedTypes(line) = {TypeOfOption[o] : o \in options \cap DOMAIN TypeOfOption}
<1> DEFINE parties == {"third-party", "3p", "first-party", "1p"}
           options == Values(line, "option")
<1>1. parties \cap DOMAIN TypeOfOption = {}
    BY DEF TypeOfOption
<1>2. \A kind : With(line, kind) = Values(line, kind)
    BY DEF With, Values
<1>3. TypeOptions(line) = options \ parties
    BY <1>2 DEF TypeOptions
<1> HIDE DEF parties, options
<1>4. (options \ parties) \cap DOMAIN TypeOfOption = options \cap DOMAIN TypeOfOption
    BY <1>1
<1>5. NamedTypes(line) = {TypeOfOption[o] : o \in options \cap DOMAIN TypeOfOption}
    BY <1>3, <1>4 DEF NamedTypes
<1> QED BY <1>2, <1>3, <1>5 DEF parties, options

\* A host is a suffix of itself.
LEMMA OwnSuffix ==
    ASSUME NEW S, NEW host \in Seq(S), host # <<>>
    PROVE  IsSuffix(host, host)
<1>1. 1 \in DOMAIN host /\ host = Suffix(host, 1)
    BY DEF Suffix
<1> QED BY <1>1, SuffixIs

\* A rule matches what its line covers, if the line is read as documented.
LEMMA RuleMeansLine ==
    ASSUME NEW rule \in Rules, NEW S, NEW host \in Seq(S), NEW path,
           NEW party \in {"kFirstParty", "kSameSite", "kThirdParty"}, NEW type \in ResourceTypes,
           ReadAsDocumented(rule.original_rule_text, host)
    PROVE  /\ Matches(rule, host, path, party, type)
              <=> LineCovers(rule.original_rule_text, host, path, party, type)
           /\ rule.rule_type = "kAllow" <=> rule.original_rule_text[1][1] = "@@"
<1> DEFINE line == rule.original_rule_text
           options == Values(line, "option")
           text == After(WithoutPrefix(line, "@@"), {"$"})
           types == {TypeOfOption[o] : o \in options \cap DOMAIN TypeOfOption}
           named == options \ {"third-party", "3p", "first-party", "1p"}
           anchored == "||" \in Kinds(line)
<1>1. line \in Seq(ToSet(line)) /\ IsRuleLine(line) /\ rule = ParsedRule(line)
    BY RuleHasLine
<1> HIDE DEF line
<1>2. /\ rule.rule_type = IF line[1][1] = "@@" THEN "kAllow" ELSE "kBlock"
      /\ Values(line, "domain") = {rule.domain_pattern}
      /\ Values(line, "/") = IF rule.path_pattern = "" THEN {} ELSE {rule.path_pattern}
      /\ options = Options(text)
  <2> DEFINE parsed == ParsedRule(line)
  <2>1. /\ parsed.rule_type = IF line[1][1] = "@@" THEN "kAllow" ELSE "kBlock"
        /\ Values(line, "domain") = {parsed.domain_pattern}
        /\ Values(line, "/") = IF parsed.path_pattern = "" THEN {} ELSE {parsed.path_pattern}
        /\ Values(line, "option") = Options(text)
    BY <1>1, RuleOfLine
  <2> HIDE DEF parsed, text
  <2>2. rule = parsed
    BY <1>1 DEF parsed
  <2> QED BY <2>1, <2>2
<1>3. /\ rule.require_third_party = (Options(text) \cap {"third-party", "3p"} # {})
      /\ rule.require_first_party = (Options(text) \cap {"first-party", "1p"} # {})
      /\ rule.resource_types = ParseResourceTypeMask(text)
    BY <1>1 DEF ParsedRule
<1>4. ParseResourceTypeMask(text) = IF types = {} THEN ResourceTypes ELSE types
    BY <1>2 DEF ParseResourceTypeMask
<1>5. LineCovers(line, host, path, party, type)
      <=> /\ \E domain \in Values(line, "domain") :
                IF anchored THEN IsSuffix(domain, host) ELSE domain = host
          /\ Values(line, "/") \subseteq path
          /\ options \cap {"third-party", "3p"} # {} => party = "kThirdParty"
          /\ options \cap {"first-party", "1p"} # {} => party # "kThirdParty"
          /\ named # {} => type \in types
    BY LineOptions DEF LineCovers
<1>6. /\ anchored \/ \A domain \in Values(line, "domain") : IsSuffix(domain, host) => domain = host
      /\ named # {} => types # {}
    BY LineOptions DEF ReadAsDocumented, line
<1>7. types # {} => named # {}
  <2>1. named = TypeOptions(line) /\ types = NamedTypes(line)
    BY LineOptions
  <2>2. NamedTypes(line) # {} => TypeOptions(line) # {}
    BY DEF NamedTypes
  <2> QED BY <2>1, <2>2
<1> HIDE DEF options, text, types, named, anchored
<1>8. (\E domain \in Values(line, "domain") : IF anchored THEN IsSuffix(domain, host) ELSE domain = host)
      <=> \E k \in DOMAIN host : rule.domain_pattern = Candidate(host, k)
  <2> DEFINE domain == rule.domain_pattern
  <2>1. (\E k \in DOMAIN host : domain = Candidate(host, k)) <=> IsSuffix(domain, host)
    BY CandidateIs
  <2>2. domain # <<>>
    BY RuleFields
  <2>3. domain = host => IsSuffix(domain, host)
    BY <2>2, OwnSuffix
  <2> HIDE DEF domain
  <2>4. Values(line, "domain") = {domain}
    BY <1>2 DEF domain
  <2>5. anchored \/ (IsSuffix(domain, host) => domain = host)
    BY <1>6, <2>4
  <2> QED BY <2>1, <2>3, <2>4, <2>5 DEF domain
<1>9. Values(line, "/") \subseteq path <=> MatchesPathAndOptions(rule, path)
    BY <1>2 DEF MatchesPathAndOptions
<1>10. Applies(rule, type, party)
      <=> /\ options \cap {"third-party", "3p"} # {} => party = "kThirdParty"
          /\ options \cap {"first-party", "1p"} # {} => party # "kThirdParty"
          /\ named # {} => type \in types
  <2>1. type \in rule.resource_types <=> (named # {} => type \in types)
    BY <1>3, <1>4, <1>6, <1>7
  <2>2. rule.require_third_party <=> options \cap {"third-party", "3p"} # {}
    BY <1>2, <1>3
  <2>3. rule.require_first_party <=> options \cap {"first-party", "1p"} # {}
    BY <1>2, <1>3
  <2>4. party \in {"kFirstParty", "kSameSite"} <=> party # "kThirdParty"
    OBVIOUS
  <2> QED BY <2>1, <2>2, <2>3, <2>4 DEF Applies, MatchesResourceType
<1>11. Matches(rule, host, path, party, type) <=> LineCovers(line, host, path, party, type)
    BY <1>5, <1>8, <1>9, <1>10 DEF Matches
<1>12. rule.rule_type = "kAllow" <=> line[1][1] = "@@"
    BY <1>2
<1> QED BY <1>11, <1>12 DEF line

\* A lookup finds a rule that applies if one was accepted.
LEMMA FindsSome ==
    ASSUME NEW S, NEW host \in Seq(S), NEW path, NEW buckets, NEW rule_type, NEW type, NEW party,
           accepted \in Seq(Rules), Indexed(buckets, accepted, rule_type)
    PROVE  LET found == FindIn(buckets, host, path)
           IN  (\E v \in DOMAIN found : Applies(found[v], type, party))
               <=> \E i \in DOMAIN accepted :
                        /\ accepted[i].rule_type = rule_type
                        /\ Matches(accepted[i], host, path, party, type)
<1> DEFINE found == FindIn(buckets, host, path)
           list == Flat!FindMatchingRules(accepted, rule_type, host, path)
<1>1. AreThoseOfList(found, rule_type, host, path)
    BY FindAgrees
<1> HIDE DEF found
<1>2. PICK place \in [DOMAIN found -> list] :
            /\ \A i \in list : \E v \in DOMAIN found : place[v] = i
            /\ \A v \in DOMAIN found : found[v] = accepted[place[v]]
    BY <1>1 DEF AreThoseOfList
<1>3. \A i : i \in list <=> /\ i \in DOMAIN accepted /\ accepted[i].rule_type = rule_type
                            /\ \E k \in DOMAIN host : accepted[i].domain_pattern = Candidate(host, k)
                            /\ MatchesPathAndOptions(accepted[i], path)
    BY ListSearched DEF PlacesOf
<1> HIDE DEF list
<1>4. ASSUME NEW v \in DOMAIN found, Applies(found[v], type, party)
      PROVE  \E i \in DOMAIN accepted : accepted[i].rule_type = rule_type
                                         /\ Matches(accepted[i], host, path, party, type)
  <2>1. place[v] \in list /\ found[v] = accepted[place[v]]
    BY <1>2
  <2> QED BY <1>3, <1>4, <2>1 DEF Matches
<1>5. ASSUME NEW i \in DOMAIN accepted, accepted[i].rule_type = rule_type,
             Matches(accepted[i], host, path, party, type)
      PROVE  \E v \in DOMAIN found : Applies(found[v], type, party)
  <2>1. i \in list /\ Applies(accepted[i], type, party)
    BY <1>3, <1>5 DEF Matches
  <2> QED BY <1>2, <2>1
<1> QED BY <1>4, <1>5 DEF found

\* A block decision means a block line that covers the request, and none with @@.
LEMMA DecisionMeansLines ==
    ASSUME Counts, Index, NEW url, IsUrl(url), "@" \notin Kinds(url),
           NEW initiator, NEW type \in ResourceTypes,
           \A line \in RuleLines : ReadAsDocumented(line, HostOf(url))
    PROVE  LET host == HostOf(url)
               Covering == {line \in RuleLines :
                               LineCovers(line, host, PathPatterns(url), Classify(host, initiator), type)}
           IN  EvaluateRequest(url, initiator, type).decision = "kBlock"
               <=> Covering # {} /\ \A line \in Covering : line[1][1] # "@@"
<1> DEFINE host == HostOf(url)
           path == PathPatterns(url)
           party == Classify(host, initiator)
           Covering == {line \in RuleLines : LineCovers(line, host, path, party, type)}
           Allowing == \E i \in DOMAIN accepted :
                            /\ accepted[i].rule_type = "kAllow"
                            /\ Matches(accepted[i], host, path, party, type)
           Blocking == \E i \in DOMAIN accepted :
                            /\ accepted[i].rule_type = "kBlock"
                            /\ Matches(accepted[i], host, path, party, type)
           allow == FindMatchingAllowRules(host, path)
           block == FindMatchingBlockRules(host, path)
<1>1. ExtractHostname(url) = host /\ ExtractPath(url) = path
    BY PlainUrl
<1>2. PICK labels : host \in Seq(labels)
    BY <1>1, HostType
<1>3. /\ accepted \in Seq(Rules) /\ party \in {"kFirstParty", "kSameSite", "kThirdParty"}
      /\ \A line \in RuleLines : ReadAsDocumented(line, host)
    BY DEF Counts, Classify
<1> HIDE DEF host, path, party
<1>4. (\E v \in DOMAIN allow : Applies(allow[v], type, party)) <=> Allowing
    BY <1>2, <1>3, FindsSome DEF Index, FindMatchingAllowRules
<1>5. (\E v \in DOMAIN block : Applies(block[v], type, party)) <=> Blocking
    BY <1>2, <1>3, FindsSome DEF Index, FindMatchingBlockRules
<1>6. EvaluateRequest(url, initiator, type).decision = "kBlock" <=> ~Allowing /\ Blocking
  <2>1. Classify(ExtractHostname(url), initiator) = party
    BY <1>1 DEF party
  <2> HIDE DEF Allowing, Blocking
  <2> QED BY <1>1, <1>4, <1>5, <2>1 DEF EvaluateRequest
<1>7. ASSUME NEW i \in DOMAIN accepted
      PROVE  /\ Matches(accepted[i], host, path, party, type)
                <=> accepted[i].original_rule_text \in Covering
             /\ accepted[i].rule_type = "kAllow" <=> accepted[i].original_rule_text[1][1] = "@@"
             /\ accepted[i].rule_type \in {"kAllow", "kBlock"}
  <2> DEFINE rule == accepted[i]
  <2>1. rule \in Rules /\ rule \in ToSet(accepted)
    BY <1>3 DEF ToSet
  <2> HIDE DEF rule
  <2>2. rule.original_rule_text \in RuleLines /\ ReadAsDocumented(rule.original_rule_text, host)
    BY <1>3, <2>1 DEF RuleLines
  <2>3. /\ Matches(rule, host, path, party, type)
           <=> LineCovers(rule.original_rule_text, host, path, party, type)
        /\ rule.rule_type = "kAllow" <=> rule.original_rule_text[1][1] = "@@"
    BY <1>2, <1>3, <2>1, <2>2, RuleMeansLine
  <2>4. rule.rule_type \in {"kAllow", "kBlock"}
    BY <2>1, RuleFields
  <2> QED BY <2>3, <2>4, <2>2 DEF rule
<1>8. \A line \in Covering : \E i \in DOMAIN accepted : line = accepted[i].original_rule_text
    BY DEF RuleLines, ToSet
<1> HIDE DEF Covering
<1>9. Allowing <=> \E line \in Covering : line[1][1] = "@@"
    BY <1>7, <1>8
<1>10. Blocking <=> \E line \in Covering : line[1][1] # "@@"
    BY <1>7, <1>8
<1> HIDE DEF Allowing, Blocking
<1>11. EvaluateRequest(url, initiator, type).decision = "kBlock"
       <=> Covering # {} /\ \A line \in Covering : line[1][1] # "@@"
    BY <1>6, <1>9, <1>10
<1> QED BY <1>11 DEF Covering, host, path, party

\* Where every line is read as documented, a request is blocked exactly if a block line
\* covers it and no line with @@ does.
THEOREM RulesAreTheirLines == Spec => []RulesMeanTheirLines
<1>1. DecidedInv => RulesMeanTheirLines
  <2> SUFFICES ASSUME DecidedInv, Throttles, "@" \notin Kinds(last.target),
                      \A line \in RuleLines : ReadAsDocumented(line, HostOf(last.target))
               PROVE  DecidedByLines
    BY DEF RulesMeanTheirLines
  <2>1. /\ Counts /\ Index /\ IsUrl(last.target) /\ last.type \in ResourceTypes
        /\ last.decision = EvaluateRequest(last.target, last.initiator, last.type).decision
    BY DEF DecidedInv, IndexInv, Decided
  <2> QED BY <2>1, DecisionMeansLines DEF DecidedByLines
<1> QED BY <1>1, DecidedInductive, PTL

-----------------------------------------------------------------------------
(* Items without their secrets *)

\* What the rewritings may put between the tokens of a URL.
Written(T) ==
    T \cup {<<mark>> : mark \in {"?", "&", "=", ":", "***", "#"}}
      \cup {<<"param", Key(item), Redacted>> : item \in Seq(T)} \cup {<<"%", token>> : token \in T}

\* The keys are those that the sender hides.
Hides(item, keys) == ToLower(Key(item)) \in keys => item[1][3] = Redacted

Rewritten(item, T, keys) ==
    item \in Seq(Without(Written(T), {"#"})) /\ IsPart(item, "&") /\ Hides(item, keys)

LEMMA WrittenHas ==
    ASSUME NEW T
    PROVE  /\ T \subseteq Written(T)
           /\ \A mark \in {"?", "&", "=", ":", "***", "#"} : <<mark>> \in Written(T)
           /\ \A item \in Seq(T) : <<"param", Key(item), Redacted>> \in Written(T)
           /\ \A token \in T : <<"%", token>> \in Written(T)
BY DEF Written

LEMMA WrittenKinds ==
    ASSUME NEW T, NEW kinds, \A token \in T : token[1] \notin kinds,
           kinds \cap {"?", "&", "=", ":", "***", "#", "param", "%"} = {}
    PROVE  Written(T) \subseteq Without(Written(T), kinds)
<1>1. \A token \in Written(T) :
        token \in T \/ token[1] \in {"?", "&", "=", ":", "***", "#", "param", "%"}
    BY DEF Written
<1> QED BY <1>1 DEF Without

LEMMA OneToken ==
    ASSUME NEW S, NEW token \in S
    PROVE  /\ <<token>> \in Seq(S) /\ Len(<<token>>) = 1 /\ <<token>>[1] = token
           /\ Kinds(<<token>>) = {token[1]} /\ <<token>> # <<>>
BY DEF Kinds

\* An item that is redacted.
LEMMA RedactedItem ==
    ASSUME NEW keys, NEW T, NEW item \in Seq(T)
    PROVE  Rewritten(<< <<"param", Key(item), Redacted>> >>, T, keys)
<1> DEFINE token == <<"param", Key(item), Redacted>>
           S == Without(Written(T), {"#"})
           new == <<token>>
<1>1. token[1] = "param" /\ token[3] = Redacted
    OBVIOUS
<1>2. token \in S
  <2>1. token \in Written(T)
    BY WrittenHas
  <2>2. token[1] \notin {"#"}
    BY <1>1
  <2> HIDE DEF token
  <2> QED BY <2>1, <2>2 DEF Without
<1> HIDE DEF token, S
<1>3. new \in Seq(S) /\ Len(new) = 1 /\ new[1] = token /\ Kinds(new) = {"param"} /\ new # <<>>
    BY <1>1, <1>2, OneToken
<1> HIDE DEF new
<1>4. new # <<>> /\ "&" \notin Kinds(new)
  <2>1. "&" \notin {"param"}
    OBVIOUS
  <2> QED BY <1>3, <2>1
<1>5. Hides(new, keys)
    BY <1>1, <1>3 DEF Hides
<1>6. Rewritten(new, T, keys)
    BY <1>3, <1>4, <1>5 DEF Rewritten, IsPart, S
<1> QED BY <1>6 DEF new, token

\* The tokens of an item are among those that may be written.
LEMMA KeptItem ==
    ASSUME NEW T, NEW item \in Seq(Without(T, {"#"}))
    PROVE  item \in Seq(T) /\ item \in Seq(Without(Written(T), {"#"}))
<1>1. Without(T, {"#"}) \subseteq T /\ Without(T, {"#"}) \subseteq Without(Written(T), {"#"})
    BY WrittenHas DEF Without
<1> QED BY <1>1

LEMMA TelemetryItem ==
    ASSUME NEW T, NEW item \in Seq(Without(T, {"#"})), IsPart(item, "&")
    PROVE  Rewritten(RedactForTelemetry(item), T, SensitiveQueryKeys)
<1>1. item \in Seq(T) /\ item \in Seq(Without(Written(T), {"#"}))
    BY KeptItem
<1>2. CASE IsSensitiveQueryKey(Key(item))
    BY <1>1, <1>2, RedactedItem DEF RedactForTelemetry
<1>3. CASE ~IsSensitiveQueryKey(Key(item))
  <2>1. Hides(item, SensitiveQueryKeys)
    BY <1>3 DEF Hides, IsSensitiveQueryKey
  <2> QED BY <1>1, <1>3, <2>1 DEF RedactForTelemetry, Rewritten
<1> QED BY <1>2, <1>3

\* The key "?" is nobody's.
LEMMA StrayKey ==
    ASSUME NEW keys, "?" \notin keys, NEW item, Key(item) = "?"
    PROVE  Hides(item, keys)
BY LowerCaseAssumption DEF Hides, ToLower

\* An item to which a "=" is appended has no key.
LEMMA WithEquals ==
    ASSUME NEW keys, "?" \notin keys, NEW S, NEW item \in Seq(S), <<"=">> \in S, ~HasValue(item), "&" \notin Kinds(item)
    PROVE  LET new == item \o << <<"=">> >>
           IN  new \in Seq(S) /\ IsPart(new, "&") /\ Hides(new, keys)
<1> DEFINE token == <<"=">>
           end == <<token>>
           new == item \o end
<1>1. token[1] = "=" /\ token \in S
    OBVIOUS
<1> HIDE DEF token
<1>2. end \in Seq(S) /\ Len(end) = 1 /\ end[1] = token /\ Kinds(end) = {"="}
    BY <1>1, OneToken
<1> HIDE DEF end
<1>3. Concatenated(new, item, end, S)
    BY <1>2, Concatenation
<1>4. Kinds(new) = Kinds(item) \cup Kinds(end)
    BY <1>2, KindsConcat
<1> HIDE DEF new
<1>5. Len(item) \in Nat /\ DOMAIN item = 1..Len(item)
    OBVIOUS
<1>6. /\ new \in Seq(S) /\ Len(new) = Len(item) + 1 /\ \A i \in 1..Len(item) : new[i] = item[i]
      /\ new[Len(item) + 1] = token
    BY <1>2, <1>3 DEF Concatenated
<1>7. IsPart(new, "&")
    BY <1>2, <1>4, <1>5, <1>6 DEF IsPart
<1>8. Key(new) = "?"
  <2>1. CASE Len(item) = 0
    <3>1. new[1][1] # "param"
        BY <1>1, <1>6, <2>1
    <3> QED BY <3>1 DEF Key
  <2>2. CASE Len(item) # 0
    <3>1. 1 \in DOMAIN item /\ new[1] = item[1] /\ Len(new) # 1
        BY <1>5, <1>6, <2>2
    <3>2. ~(item[1][1] = "param" /\ item[1][3] # NoValue)
        BY <3>1 DEF HasValue
    <3> QED BY <3>1, <3>2 DEF Key
  <2> QED BY <2>1, <2>2
<1> QED BY <1>6, <1>7, <1>8, StrayKey DEF new, end, token

LEMMA WrittenItem ==
    ASSUME NEW T, NEW item \in Seq(Without(T, {"#"})), "&" \notin Kinds(item)
    PROVE  Rewritten(WrittenPair(item), T, MatrixKeys)
<1> DEFINE S == Without(Written(T), {"#"})
<1>1. item \in Seq(T) /\ item \in Seq(S)
    BY KeptItem
<1>2. <<"=">> \in S /\ "?" \notin MatrixKeys
    BY WrittenHas DEF Without, MatrixKeys
<1> HIDE DEF S
<1>3. CASE item # <<>> /\ IsSensitiveQueryParam(Key(item))
    BY <1>1, <1>3, RedactedItem DEF WrittenPair
<1>4. CASE ~(item # <<>> /\ IsSensitiveQueryParam(Key(item))) /\ HasValue(item)
  <2>1. item # <<>>
    BY <1>4 DEF HasValue
  <2>2. Hides(item, MatrixKeys)
    BY <1>4, <2>1 DEF Hides, IsSensitiveQueryParam, MatrixKeys
  <2> QED BY <1>1, <1>4, <2>1, <2>2 DEF WrittenPair, Rewritten, IsPart, S
<1>5. CASE ~(item # <<>> /\ IsSensitiveQueryParam(Key(item))) /\ ~HasValue(item)
  <2>1. WrittenPair(item) = item \o << <<"=">> >>
    BY <1>5 DEF WrittenPair
  <2> QED BY <1>1, <1>2, <1>5, <2>1, WithEquals DEF Rewritten, S
<1> QED BY <1>3, <1>4, <1>5

LEMMA QuotedItem ==
    ASSUME NEW T, NEW item \in Seq(Without(T, {"#"})), IsPart(item, "&")
    PROVE  Rewritten(QuotedPair(item), T, SENSITIVE_QUERY_PARAMS)
<1> DEFINE S == Without(Written(T), {"#"})
           new == MapSeq(Quoted, item)
<1>1. item \in Seq(T) /\ item \in Seq(S) /\ item # <<>> /\ "&" \notin Kinds(item)
    BY KeptItem DEF IsPart
<1>2. <<"=">> \in S /\ "?" \notin SENSITIVE_QUERY_PARAMS
    BY WrittenHas DEF Without, SENSITIVE_QUERY_PARAMS
<1>3. DOMAIN item = 1..Len(item) /\ Len(item) \in Nat /\ 1 \in DOMAIN item
    BY <1>1
<1>4. \A i \in DOMAIN item : Quoted(item[i]) \in S /\ Quoted(item[i])[1] \in {item[i][1], "%"}
  <2> SUFFICES ASSUME NEW i \in DOMAIN item
               PROVE  Quoted(item[i]) \in S /\ Quoted(item[i])[1] \in {item[i][1], "%"}
    OBVIOUS
  <2>1. item[i] \in T /\ item[i] \in S
    BY <1>1
  <2>2. <<"%", item[i]>> \in Written(T)
    BY <2>1, WrittenHas
  <2>3. <<"%", item[i]>>[1] = "%"
    OBVIOUS
  <2>4. <<"%", item[i]>> \in S
    BY <2>2, <2>3 DEF Without
  <2> QED BY <2>1, <2>3, <2>4 DEF Quoted
<1>5. new = [i \in DOMAIN item |-> Quoted(item[i])]
    BY DEF MapSeq
<1>6. new \in Seq(S) /\ Len(new) = Len(item) /\ DOMAIN new = DOMAIN item
  <2> HIDE DEF S
  <2> QED BY <1>3, <1>4, <1>5
<1>7. "&" \notin Kinds(new) /\ new # <<>>
    BY <1>1, <1>3, <1>4, <1>5, <1>6 DEF Kinds
<1> HIDE DEF S, new
<1>8. CASE ToLower(Key(item)) \in SENSITIVE_QUERY_PARAMS
    BY <1>1, <1>8, RedactedItem DEF QuotedPair
<1>9. CASE ToLower(Key(item)) \notin SENSITIVE_QUERY_PARAMS /\ HasValue(item)
  <2>1. QuotedPair(item) = new
    BY <1>6, <1>9 DEF QuotedPair, new
  <2>2. new[1] = Quoted(item[1])
    BY <1>3, <1>5
  <2>3. Hides(new, SENSITIVE_QUERY_PARAMS)
    <3>1. CASE item[1][1] \in {"?", "/"}
      <4>1. new[1][1] = "%"
        BY <2>2, <3>1 DEF Quoted
      <4>2. Key(new) = "?"
        BY <4>1 DEF Key
      <4> QED BY <1>2, <4>2, StrayKey
    <3>2. CASE item[1][1] \notin {"?", "/"}
      <4>1. new[1] = item[1]
        BY <2>2, <3>2 DEF Quoted
      <4>2. Key(new) = Key(item)
        BY <1>6, <4>1 DEF Key
      <4> QED BY <1>9, <4>2 DEF Hides
    <3> QED BY <3>1, <3>2
  <2> QED BY <1>6, <1>7, <2>1, <2>3 DEF Rewritten, IsPart, S
<1>10. CASE ToLower(Key(item)) \notin SENSITIVE_QUERY_PARAMS /\ ~HasValue(item)
  <2>1. QuotedPair(item) = new \o << <<"=">> >>
    BY <1>10 DEF QuotedPair, new
  <2>2. ~HasValue(new)
    <3>1. \A i \in DOMAIN item : new[i] \in {item[i], <<"%", item[i]>>}
        BY <1>5 DEF Quoted
    <3>2. \A i \in DOMAIN item : ~(item[i][1] = "param" /\ item[i][3] # NoValue)
        BY <1>10 DEF HasValue
    <3>3. \A i \in DOMAIN item : <<"%", item[i]>>[1] = "%"
        OBVIOUS
    <3> QED BY <1>6, <3>1, <3>2, <3>3 DEF HasValue
  <2> QED BY <1>2, <1>6, <1>7, <2>1, <2>2, WithEquals DEF Rewritten, S
<1> QED BY <1>8, <1>9, <1>10

-----------------------------------------------------------------------------
(* Queries without their secrets *)

\* Without a query there is nothing to hide.
LEMMA Unqueried ==
    ASSUME NEW keys, NEW S, NEW url \in Seq(S), ~Queried(url)
    PROVE  QueryText(Before(url, {"#"})) = <<>> /\ RedactsQuery(url, keys)
<1> DEFINE b == Before(url, {"#"})
           mark == {"?"}
           hash == {"#"}
           none == <<>>
<1>1. b \in Seq(S) /\ Kinds(b) \cap mark = {}
    BY CutTypes DEF Queried
<1>2. none \in Seq(S) /\ Kinds(none) \cap hash = {}
    BY DEF Kinds
<1> HIDE DEF b, mark, hash, none
<1>3. After(b, mark) = none
    BY <1>1, Uncut DEF none
<1>4. Before(none, hash) = none
    BY <1>2, Uncut
<1>5. QueryText(b) = <<>>
    BY <1>3, <1>4 DEF QueryText, mark, hash, none
<1>6. Items(<<>>, "&") = <<>>
    BY NoItems
<1>7. ToSet(Items(QueryText(b), "&")) = {}
    BY <1>5, <1>6 DEF ToSet
<1> QED BY <1>5, <1>7 DEF RedactsQuery, Hides, b, hash

LEMMA NoMark ==
    ASSUME NEW S, NEW url \in Seq(S), "?" \notin Kinds(url)
    PROVE  ~Queried(url)
<1> DEFINE b == Before(url, {"#"})
<1>1. url = b \o From(url, {"#"}) /\ b \in Seq(S) /\ From(url, {"#"}) \in Seq(S)
    BY CutInTwo, CutTypes
<1> HIDE DEF b
<1>2. Kinds(b \o From(url, {"#"})) = Kinds(b) \cup Kinds(From(url, {"#"}))
    BY <1>1, KindsConcat
<1> QED BY <1>1, <1>2 DEF Queried, b

\* With its first "?" in the fragment a URL has no query, whatever is put there.
LEMMA StaysUnqueried ==
    ASSUME NEW S, NEW url \in Seq(S), NEW tail \in Seq(S), "?" \in Kinds(url), ~Queried(url)
    PROVE  ~Queried(Before(url, {"?"}) \o tail)
<1> DEFINE mark == {"?"}
           hash == {"#"}
           b == Before(url, hash)
           g == From(url, hash)
           p == Before(url, mark)
<1>1. /\ b \in Seq(S) /\ g \in Seq(S) /\ url = b \o g /\ Kinds(b) \cap hash = {}
      /\ (g # <<>> => g[1][1] \in hash)
    BY CutTypes, CutInTwo
<1>2. Kinds(b) \cap mark = {}
    BY DEF Queried
<1>3. Kinds(url) \cap mark # {}
    OBVIOUS
<1>4. {"#"} \cap {"?"} = {}
    OBVIOUS
<1>5. Before(url, {"#"}) = b /\ Queried(p \o tail) = ("?" \in Kinds(Before(p \o tail, hash)))
    BY DEF Queried
<1> HIDE DEF mark, hash, b, g, p
<1>6. p = b \o Before(g, mark)
    BY <1>1, <1>2, CutSecond DEF p
<1>7. g # <<>>
  <2>1. ASSUME g = <<>> PROVE FALSE
    <3>1. url = b
        BY <1>1, <2>1
    <3> QED BY <1>2, <1>3, <3>1
  <2> QED BY <2>1
<1> DEFINE q == Before(g, mark)
<1>8. q \in Seq(S) /\ Kinds(q) \cap hash # {}
  <2>1. /\ Find(g, mark) \in 1..(Len(g) + 1) /\ (Find(g, mark) <= Len(g) => g[Find(g, mark)][1] \in mark)
    BY <1>1, FindPlace
  <2>2. Find(g, mark) # 1
    BY <1>1, <1>4, <1>7, <2>1 DEF mark, hash
  <2>3. LET f == Find(g, mark)
        IN  q \in Seq(S) /\ Len(q) = f - 1 /\ \A i \in 1..(f - 1) : q[i] = g[i]
    BY <1>1, Cuts
  <2> HIDE DEF q
  <2>4. 1 \in 1..(Find(g, mark) - 1) /\ Len(g) \in Nat
    BY <1>1, <2>1, <2>2
  <2>5. q \in Seq(S) /\ Len(q) = Find(g, mark) - 1 /\ q[1] = g[1]
    BY <2>3, <2>4
  <2>6. 1 \in DOMAIN q
    BY <2>4, <2>5
  <2> QED BY <1>1, <1>7, <2>5, <2>6 DEF Kinds
<1> HIDE DEF q
<1> DEFINE r == q \o tail
<1>9. p \o tail = b \o r
  <2>1. b \in Seq(S) /\ q \in Seq(S) /\ tail \in Seq(S)
    BY <1>1, <1>8
  <2>2. (b \o q) \o tail = b \o (q \o tail)
    BY <2>1
  <2> QED BY <1>6, <2>2 DEF q
<1>10. Before(r, hash) = Before(q, hash) /\ r \in Seq(S)
  <2>1. Before(q \o tail, hash) = Before(q, hash)
    BY <1>8, CutFirst
  <2> QED BY <1>8, <2>1
<1> HIDE DEF r
<1>11. Before(b \o r, hash) = b \o Before(q, hash)
  <2>1. b \in Seq(S) /\ r \in Seq(S) /\ Kinds(b) \cap hash = {}
    BY <1>1, <1>10
  <2>2. Before(b \o r, hash) = b \o Before(r, hash)
    BY <2>1, CutSecond
  <2> QED BY <1>10, <2>2
<1>12. Kinds(b \o Before(q, hash)) \cap mark = {}
  <2>1. Kinds(q) \cap mark = {}
    BY <1>1, CutInTwo DEF q
  <2>2. q = Before(q, hash) \o From(q, hash) /\ Before(q, hash) \in Seq(S) /\ From(q, hash) \in Seq(S)
    <3>1. q \in Seq(S)
        BY <1>8
    <3>2. q = Before(q, hash) \o From(q, hash)
        BY <3>1, CutInTwo
    <3>3. Before(q, hash) \in Seq(S) /\ From(q, hash) \in Seq(S)
        BY <3>1, CutTypes
    <3> QED BY <3>2, <3>3
  <2>3. Kinds(q) = Kinds(Before(q, hash)) \cup Kinds(From(q, hash))
    <3>1. Before(q, hash) \in Seq(S) /\ From(q, hash) \in Seq(S)
        BY <2>2
    <3>2. Kinds(Before(q, hash) \o From(q, hash)) = Kinds(Before(q, hash)) \cup Kinds(From(q, hash))
        BY <3>1, KindsConcat
    <3> QED BY <2>2, <3>2
  <2>4. Kinds(b \o Before(q, hash)) = Kinds(b) \cup Kinds(Before(q, hash))
    <3>1. b \in Seq(S) /\ Before(q, hash) \in Seq(S)
        BY <1>1, <2>2
    <3> QED BY <3>1, KindsConcat
  <2> QED BY <1>2, <2>1, <2>3, <2>4
<1>13. "?" \notin Kinds(Before(p \o tail, hash))
    BY <1>9, <1>11, <1>12 DEF mark
<1> QED BY <1>5, <1>13 DEF p, mark

\* The items of a query, rewritten one by one.
Redactions(items, T, keys) ==
    /\ items \in Seq(Seq(Without(Written(T), {"#"})))
    /\ \A k \in DOMAIN items : IsPart(items[k], "&") /\ Hides(items[k], keys)

LEMMA RewrittenItems ==
    ASSUME NEW keys, NEW T, NEW S, NEW items \in Seq(S), NEW new, DOMAIN new = DOMAIN items,
           new = [k \in DOMAIN new |-> new[k]], \A k \in DOMAIN items : Rewritten(new[k], T, keys)
    PROVE  Redactions(new, T, keys)
<1> DEFINE V == Seq(Without(Written(T), {"#"}))
<1>1. DOMAIN items = 1..Len(items) /\ Len(items) \in Nat
    OBVIOUS
<1>2. \A k \in DOMAIN new : new[k] \in V /\ IsPart(new[k], "&") /\ Hides(new[k], keys)
    BY DEF Rewritten
<1> HIDE DEF V
<1>3. new \in Seq(V)
    BY <1>1, <1>2
<1> QED BY <1>2, <1>3 DEF Redactions, V

LEMMA RedactedQuery ==
    ASSUME NEW keys, NEW T, NEW p \in Seq(Written(T)), NEW g \in Seq(Written(T)), Encloses(p, g),
           NEW items, Redactions(items, T, keys)
    PROVE  LET url == p \o << <<"?">> >> \o Join(items, "&") \o g
           IN  url \in Seq(Written(T)) /\ RedactsQuery(url, keys)
<1> DEFINE S == Written(T)
           j == Join(items, "&")
           front == << <<"?">> >>
           url == p \o front \o j \o g
<1>1. <<"?">> \in S /\ <<"&">> \in S
    BY WrittenHas
<1>2. items \in Seq(Seq(Without(S, {"#"}))) /\ \A k \in DOMAIN items : IsPart(items[k], "&")
    BY DEF Redactions
<1>3. front \in Seq(S)
    BY <1>1
<1> HIDE DEF S
<1>4. j \in Seq(S)
  <2>1. Without(S, {"#"}) \subseteq S
    BY DEF Without
  <2>2. items \in Seq(Seq(S))
    BY <1>2, <2>1
  <2> QED BY <1>1, <2>2, JoinType
<1>5. AreParts(url, p, j, g) /\ Items(j, "&") = items
    BY <1>1, <1>2, JoinedQuery DEF S
<1> HIDE DEF j, front
<1>6. url \in Seq(S)
  <2>1. p \in Seq(S) /\ g \in Seq(S)
    BY DEF S
  <2> QED BY <1>3, <1>4, <2>1
<1> HIDE DEF url
<1>7. Items(QueryText(Before(url, {"#"})), "&") = items
    BY <1>5 DEF AreParts
<1>8. \A item \in ToSet(items) : Hides(item, keys)
    BY DEF Redactions, ToSet
<1> QED BY <1>6, <1>7, <1>8 DEF RedactsQuery, Hides, url, S, j, front

-----------------------------------------------------------------------------
(* The URLs that are sent *)

\* Nothing of the userinfo is in it.
Public(url) == "user" \notin Kinds(url) /\ "pass" \notin Kinds(url) /\ ~LeaksPassword(url)

\* The tokens of a URL but for its userinfo.
PublicTokens(url) == Without(ToSet(url), Private)

LEMMA PublicText ==
    ASSUME NEW url, NEW text \in Seq(Written(PublicTokens(url))), Addressed(text)
    PROVE  Public(text)
<1> DEFINE T == PublicTokens(url)
           S == Written(T)
<1>1. \A token \in T : token[1] \notin Private
    BY DEF PublicTokens, Without
<1>2. Private \cap {"?", "&", "=", ":", "***", "#", "param", "%"} = {}
    BY DEF Private
<1> HIDE DEF T
<1>3. S \subseteq Without(S, Private)
    BY <1>1, <1>2, WrittenKinds
<1>4. text \in Seq(S)
    BY DEF T
<1> HIDE DEF S
<1>5. text \in Seq(Without(S, Private))
    BY <1>3, <1>4
<1> QED BY <1>5, NoPassword DEF Public

LEMMA BareText ==
    ASSUME NEW url, IsUrl(url)
    PROVE  LET bare == WithoutUserinfo(url)
               T == PublicTokens(url)
           IN  bare \in Seq(T) /\ bare \in Seq(Written(T)) /\ Addressed(bare)
<1> DEFINE T == PublicTokens(url)
           bare == WithoutUserinfo(url)
<1>1. bare \in Seq(T) /\ Addressed(bare)
    BY BareUrl DEF PublicTokens
<1> HIDE DEF T, bare
<1>2. T \subseteq Written(T)
    BY WrittenHas
<1> QED BY <1>1, <1>2 DEF T, bare

\* A rebuilt URL is the old one up to its "?", and something behind it.
LEMMA RebuiltBehind ==
    ASSUME NEW S, <<"?">> \in S, <<"&">> \in S, NEW url \in Seq(S), NEW items \in Seq(Seq(S))
    PROVE  \E tail \in Seq(S) : Rebuilt(url, items) = Before(url, {"?"}) \o tail
<1> DEFINE b == Before(url, {"?"})
           front == IF items = <<>> THEN <<>> ELSE << <<"?">> >>
           j == Join(items, "&")
           g == FragmentText(url)
           tail == front \o j \o g
<1>1. b \in Seq(S)
    BY CutTypes
<1>2. front \in Seq(S)
    OBVIOUS
<1>3. j \in Seq(S)
    BY JoinType
<1>4. g \in Seq(S)
  <2>1. After(url, {"?"}) \in Seq(S)
    BY CutTypes
  <2> QED BY <2>1, CutTypes DEF FragmentText
<1>5. Rebuilt(url, items) = b \o front \o j \o g
    BY DEF Rebuilt
<1> HIDE DEF b, front, j, g
<1>6. tail \in Seq(S)
  <2>1. front \in Seq(S) /\ j \in Seq(S) /\ g \in Seq(S)
    BY <1>2, <1>3, <1>4
  <2> QED BY <2>1
<1>7. b \o front \o j \o g = b \o tail
  <2>1. b \in Seq(S) /\ front \in Seq(S) /\ j \in Seq(S) /\ g \in Seq(S)
    BY <1>1, <1>2, <1>3, <1>4
  <2> QED BY <2>1, SMTT(30)
<1> HIDE DEF tail
<1>8. Rebuilt(url, items) = b \o tail
    BY <1>5, <1>7
<1> QED BY <1>6, <1>8 DEF b

\* What the rewriting of an event makes of the items.
LEMMA TelemetryItems ==
    ASSUME NEW T, NEW query \in Seq(Without(T, {"#"}))
    PROVE  Redactions(MapSeq(RedactForTelemetry, Items(query, "&")), T, SensitiveQueryKeys)
<1> DEFINE items == Items(query, "&")
           V == Seq(Without(T, {"#"}))
           new == MapSeq(RedactForTelemetry, items)
<1>1. items \in Seq(V)
    BY ItemsType
<1>2. \A k \in DOMAIN items : IsPart(items[k], "&")
    BY ItemsAreParts
<1>3. DOMAIN new = DOMAIN items /\ new = [k \in DOMAIN new |-> new[k]]
    BY DEF MapSeq
<1>4. \A k \in DOMAIN items : new[k] = RedactForTelemetry(items[k])
    BY DEF MapSeq
<1> HIDE DEF items, new
<1>5. ASSUME NEW k \in DOMAIN items PROVE Rewritten(new[k], T, SensitiveQueryKeys)
  <2> DEFINE item == items[k]
  <2>1. item \in V /\ IsPart(item, "&")
    BY <1>1, <1>2
  <2> HIDE DEF item
  <2>2. Rewritten(RedactForTelemetry(item), T, SensitiveQueryKeys)
    BY <2>1, TelemetryItem
  <2> QED BY <1>4, <2>2 DEF item
<1> HIDE DEF V
<1>6. Redactions(new, T, SensitiveQueryKeys)
    BY <1>1, <1>3, <1>5, RewrittenItems
<1> QED BY <1>6 DEF new, items

\* The URL of an event.
LEMMA TelemetryHides ==
    ASSUME NEW url, IsUrl(url)
    PROVE  LET sent == SanitizeUrlForTelemetry(url)
           IN  Public(sent) /\ RedactsQuery(sent, SensitiveQueryKeys)
<1> DEFINE bare == WithoutUserinfo(url)
           T == PublicTokens(url)
           S == Written(T)
           items == MapSeq(RedactForTelemetry, Items(QueryText(bare), "&"))
           sent == SanitizeUrlForTelemetry(url)
<1>1. bare \in Seq(T) /\ bare \in Seq(S) /\ Addressed(bare)
    BY BareText
<1>2. sent = IF "?" \notin Kinds(bare) THEN bare ELSE Rebuilt(bare, items)
    BY DEF SanitizeUrlForTelemetry
<1> HIDE DEF bare, sent
<1>3. CASE "?" \notin Kinds(bare)
  <2>1. ~Queried(bare)
    BY <1>1, <1>3, NoMark
  <2>2. RedactsQuery(bare, SensitiveQueryKeys)
    BY <1>1, <2>1, Unqueried
  <2> QED BY <1>1, <1>2, <1>3, <2>2, PublicText DEF sent
<1>4. CASE "?" \in Kinds(bare)
  <2>1. QueryText(bare) \in Seq(Without(T, {"#"}))
    <3> DEFINE after == After(bare, {"?"})
               hash == {"#"}
    <3>1. after \in Seq(T) /\ QueryText(bare) = Before(after, hash)
        BY <1>1, CutTypes DEF QueryText
    <3> HIDE DEF after, T, hash
    <3>2. Before(after, hash) \in Seq(T) /\ Kinds(Before(after, hash)) \cap hash = {}
        BY <3>1, CutTypes, CutInTwo
    <3>3. Before(after, hash) \in Seq(Without(T, hash))
        BY <3>2, WithoutKinds
    <3> QED BY <3>1, <3>3 DEF hash
  <2>2. Redactions(items, T, SensitiveQueryKeys)
    BY <2>1, TelemetryItems
  <2> HIDE DEF items, T
  <2>3. <<"?">> \in S /\ <<"&">> \in S
    BY WrittenHas
  <2>4. /\ items \in Seq(Seq(Without(S, {"#"})))
        /\ \A k \in DOMAIN items : IsPart(items[k], "&") /\ Hides(items[k], SensitiveQueryKeys)
    BY <2>2 DEF Redactions
  <2> HIDE DEF S
  <2>5. items \in Seq(Seq(S))
    <3>1. Without(S, {"#"}) \subseteq S
        BY DEF Without
    <3> QED BY <2>4, <3>1
  <2>6. PICK tail \in Seq(S) : Rebuilt(bare, items) = Before(bare, {"?"}) \o tail
    BY <1>1, <2>3, <2>5, RebuiltBehind
  <2> DEFINE mark == {"?"}
             b == Before(bare, mark)
  <2>7. Addressed(b \o tail) /\ b \o tail \in Seq(S)
    <3>1. "host" \notin mark /\ "/" \notin mark
        OBVIOUS
    <3> HIDE DEF mark
    <3>2. Addressed(b \o tail)
        BY <1>1, <3>1, StaysAddressed
    <3>3. b \in Seq(S)
        BY <1>1, CutTypes
    <3> HIDE DEF b
    <3> QED BY <3>2, <3>3
  <2>8. Public(Rebuilt(bare, items))
    <3>1. Rebuilt(bare, items) \in Seq(Written(PublicTokens(url))) /\ Addressed(Rebuilt(bare, items))
        BY <2>6, <2>7 DEF S, T
    <3> QED BY <3>1, PublicText
  <2>9. RedactsQuery(Rebuilt(bare, items), SensitiveQueryKeys)
    <3>1. CASE Queried(bare)
      <4>1. Items(QueryText(Before(Rebuilt(bare, items), {"#"})), "&") = items
        BY <1>1, <2>3, <2>4, <3>1, RebuiltQuery
      <4>2. \A item \in ToSet(items) : Hides(item, SensitiveQueryKeys)
        BY <2>4 DEF ToSet
      <4> QED BY <4>1, <4>2 DEF RedactsQuery, Hides
    <3>2. CASE ~Queried(bare)
      <4>1. ~Queried(b \o tail)
        BY <1>1, <1>4, <3>2, StaysUnqueried
      <4>2. RedactsQuery(b \o tail, SensitiveQueryKeys)
        BY <2>7, <4>1, Unqueried
      <4> QED BY <2>6, <4>2
    <3> QED BY <3>1, <3>2
  <2> QED BY <1>2, <1>4, <2>8, <2>9 DEF sent
<1> QED BY <1>3, <1>4

\* The origin has a host and an empty path only.
LEMMA OriginHides ==
    ASSUME NEW url
    PROVE  LET origin == Origin(url)
           IN  Public(origin) /\ RedactsQuery(origin, MatrixKeys) /\ "#" \notin Kinds(origin)
<1> DEFINE host == <<"host", ExtractHostname(WithoutUserinfo(url))>>
           path == <<"/", {}>>
           S == {host, path}
           origin == <<host, path>>
<1>1. Origin(url) = origin
    BY DEF Origin
<1>2. host[1] = "host" /\ path[1] = "/" /\ host \in S /\ path \in S
    OBVIOUS
<1>3. \A token \in S : token = host \/ token = path
    OBVIOUS
<1> HIDE DEF host, path, S
<1>4. host \in Without(S, Private) /\ path \in Without(S, Private)
    BY <1>2 DEF Without, Private
<1>5. origin \in Seq(S) /\ Len(origin) = 2 /\ origin[1] = host /\ origin[2] = path /\ DOMAIN origin = 1..2
    BY <1>2
<1>6. origin \in Seq(Without(S, Private))
    BY <1>4
<1> HIDE DEF origin
<1>7. Addressed(origin)
    BY <1>2, <1>5 DEF Addressed
<1>8. Public(origin)
    BY <1>6, <1>7, NoPassword DEF Public
<1>9. "?" \notin Kinds(origin) /\ "#" \notin Kinds(origin)
  <2>1. ASSUME NEW i \in DOMAIN origin PROVE origin[i][1] # "?" /\ origin[i][1] # "#"
    <3>1. i = 1 \/ i = 2
        BY <1>5
    <3> QED BY <1>2, <1>5, <3>1
  <2> QED BY <2>1 DEF Kinds
<1>10. RedactsQuery(origin, MatrixKeys)
  <2>1. origin \in Seq(S)
    BY <1>5
  <2>2. ~Queried(origin)
    BY <1>9, <2>1, NoMark
  <2> QED BY <2>1, <2>2, Unqueried
<1> QED BY <1>1, <1>8, <1>9, <1>10

\* What the rewriting of an observation makes of the parts of a query.
LEMMA WrittenItems ==
    ASSUME NEW T, NEW query \in Seq(Without(T, {"#"}))
    PROVE  Redactions(MapSeq(WrittenPair, QueryIterator(query)), T, MatrixKeys)
<1> DEFINE S == Without(T, {"#"})
           kinds == {"&"}
           starts == PartStarts(query, "&")
           items == Parts(query, "&")
           V == Seq(S)
           new == MapSeq(WrittenPair, items)
<1>1. QueryIterator(query) = items
    BY DEF QueryIterator
<1>2. items \in Seq(V)
    BY PartsType
<1>3. starts \in Seq(DOMAIN query)
    BY PartStartsEmbed
<1>4. DOMAIN items = 1..Len(starts) /\ \A k \in 1..Len(starts) : items[k] = PartAt(query, "&", starts[k])
    BY PartIs
<1>5. DOMAIN new = DOMAIN items /\ new = [k \in DOMAIN new |-> new[k]]
    BY DEF MapSeq
<1>6. \A k \in DOMAIN items : new[k] = WrittenPair(items[k])
    BY DEF MapSeq
<1> HIDE DEF items, new, starts
<1>7. ASSUME NEW k \in DOMAIN items PROVE Rewritten(new[k], T, MatrixKeys)
  <2> DEFINE item == items[k]
             i == starts[k]
             rest == Suffix(query, i)
  <2>1. i \in DOMAIN query /\ item = PartAt(query, "&", i) /\ item \in V
    BY <1>2, <1>3, <1>4
  <2>2. new[k] = WrittenPair(item)
    BY <1>6
  <2>3. rest \in V
    BY <2>1 DEF Suffix
  <2> HIDE DEF item, i, rest, kinds, S
  <2>4. Kinds(Before(rest, kinds)) \cap kinds = {}
    BY <2>3, CutInTwo
  <2>5. "&" \notin Kinds(item)
    BY <2>1, <2>4 DEF PartAt, rest, kinds
  <2>6. Rewritten(WrittenPair(item), T, MatrixKeys)
    BY <2>1, <2>5, WrittenItem DEF S
  <2> QED BY <2>2, <2>6
<1> HIDE DEF V
<1>8. Redactions(new, T, MatrixKeys)
    BY <1>2, <1>5, <1>7, RewrittenItems
<1> QED BY <1>1, <1>8 DEF new

\* A text without a "#" is cut into texts without one.
LEMMA QueryWithoutHash ==
    ASSUME NEW T, NEW text \in Seq(T)
    PROVE  QueryText(text) \in Seq(Without(T, {"#"}))
<1> DEFINE after == After(text, {"?"})
           hash == {"#"}
<1>1. after \in Seq(T) /\ QueryText(text) = Before(after, hash)
    BY CutTypes DEF QueryText
<1> HIDE DEF after, hash
<1>2. Before(after, hash) \in Seq(T) /\ Kinds(Before(after, hash)) \cap hash = {}
    BY <1>1, CutTypes, CutInTwo
<1>3. Before(after, hash) \in Seq(Without(T, hash))
    BY <1>2, WithoutKinds
<1> QED BY <1>1, <1>3 DEF hash

\* The URL of an observation.
LEMMA ObservationHides ==
    ASSUME NEW url, IsUrl(url), NEW policy \in UrlPolicies
    PROVE  LET sent == SanitizeUrl(url, policy)
           IN  Public(sent) /\ RedactsQuery(sent, MatrixKeys) /\ "#" \notin Kinds(sent)
<1> DEFINE sent == SanitizeUrl(url, policy)
<1>1. CASE policy = "kOmitted"
  <2> DEFINE none == <<>>
             S == {}
             ends == {"/", "?", "#"}
  <2>1. none \in Seq(S) /\ Kinds(none) = {}
    BY DEF Kinds
  <2>2. sent = none
    BY <1>1 DEF SanitizeUrl
  <2> HIDE DEF none, ends, S
  <2>3. Before(none, ends) = none
    BY <2>1, Uncut
  <2>4. ~LeaksPassword(none)
    BY <2>1, <2>3 DEF LeaksPassword, Netloc, ends
  <2>5. RedactsQuery(none, MatrixKeys)
    BY <2>1, NoMark, Unqueried
  <2> QED BY <2>1, <2>2, <2>4, <2>5 DEF Public
<1>2. CASE policy = "kOriginOnly"
  <2>1. sent = Origin(url)
    BY <1>2 DEF SanitizeUrl
  <2> QED BY <2>1, OriginHides
<1>3. CASE policy = "kFullUrlSanitized"
  <2> DEFINE whole == WithoutUserinfo(url)
             T == PublicTokens(url)
             S == Written(T)
             hash == {"#"}
             mark == {"?"}
             none == <<>>
             bare == Before(whole, hash)
             items == MapSeq(WrittenPair, QueryIterator(QueryText(bare)))
             p == Before(bare, mark)
             front == << <<"?">> >>
             j == Join(items, "&")
  <2>1. whole \in Seq(T) /\ whole \in Seq(S) /\ Addressed(whole)
    BY BareText
  <2>2. sent = IF "?" \notin Kinds(bare) THEN bare ELSE p \o front \o j
    BY <1>3 DEF SanitizeUrl
  <2>3. /\ "host" \notin hash /\ "/" \notin hash /\ "host" \notin mark /\ "/" \notin mark
        /\ none \in Seq(S) /\ none = <<>>
    OBVIOUS
  <2>4. front \in Seq(S)
    BY WrittenHas
  <2> HIDE DEF whole, sent, front
  <2>5. bare \in Seq(T) /\ bare \in Seq(S) /\ Kinds(bare) \cap hash = {}
    <3> HIDE DEF hash, T, S
    <3> QED BY <2>1, CutTypes, CutInTwo
  <2>6. Addressed(bare)
    <3> HIDE DEF hash, T, S
    <3> QED BY <2>1, <2>3, StaysAddressed
  <2> HIDE DEF bare
  <2>7. CASE "?" \notin Kinds(bare)
    <3>1. Public(bare)
        BY <2>5, <2>6, PublicText
    <3>2. RedactsQuery(bare, MatrixKeys)
        BY <2>5, <2>7, NoMark, Unqueried
    <3> QED BY <2>2, <2>5, <2>7, <3>1, <3>2 DEF sent, hash
  <2>8. CASE "?" \in Kinds(bare)
    <3>1. Redactions(items, T, MatrixKeys)
        BY <2>5, QueryWithoutHash, WrittenItems
    <3> HIDE DEF items
    <3>2. Encloses(p, none) /\ p \in Seq(S)
      <4>1. p \in Seq(S) /\ Kinds(p) \cap mark = {}
        <5> HIDE DEF mark, S
        <5> QED BY <2>5, CutTypes, CutInTwo
      <4>2. Kinds(p) \subseteq Kinds(bare)
        <5> HIDE DEF p
        <5>1. p = Before(bare, mark) /\ From(bare, mark) \in Seq(S)
            BY <2>5, CutTypes DEF p
        <5>2. bare = p \o From(bare, mark)
            BY <2>5, CutInTwo DEF p
        <5>3. Kinds(p \o From(bare, mark)) = Kinds(p) \cup Kinds(From(bare, mark))
            BY <4>1, <5>1, KindsConcat
        <5> QED BY <5>2, <5>3
      <4> HIDE DEF p
      <4> QED BY <2>5, <4>1, <4>2 DEF Encloses
    <3>3. p \o front \o j \o none \in Seq(S) /\ RedactsQuery(p \o front \o j \o none, MatrixKeys)
        BY <2>3, <3>1, <3>2, RedactedQuery DEF front
    <3> DEFINE tail == front \o j
    <3>4. j \in Seq(S)
      <4>1. items \in Seq(Seq(Without(S, {"#"}))) /\ <<"&">> \in S
        BY <3>1, WrittenHas DEF Redactions
      <4>2. Without(S, {"#"}) \subseteq S
        BY DEF Without
      <4> HIDE DEF S
      <4>3. items \in Seq(Seq(S))
        BY <4>1, <4>2
      <4> QED BY <4>1, <4>3, JoinType
    <3>5. Kinds(j) \cap {"#"} = {}
      <4> DEFINE N == Without(S, {"#"})
      <4>1. items \in Seq(Seq(N)) /\ <<"&">> \in N
        BY <3>1, WrittenHas DEF Redactions, Without
      <4> HIDE DEF N
      <4>2. j \in Seq(N)
        BY <4>1, JoinType
      <4> HIDE DEF S, j
      <4> QED BY <3>4, <4>2, WithoutKinds DEF N
    <3> HIDE DEF j
    <3>6. Kinds(tail) \cap {"#"} = {}
      <4>1. Kinds(front) = {"?"}
        BY DEF front, Kinds
      <4> HIDE DEF S
      <4>2. Kinds(front \o j) = Kinds(front) \cup Kinds(j)
        BY <2>4, <3>4, KindsConcat
      <4> QED BY <3>5, <4>1, <4>2
    <3>7. tail \in Seq(S)
      <4> HIDE DEF S
      <4>1. front \in Seq(S) /\ j \in Seq(S)
        BY <2>4, <3>4
      <4> QED BY <4>1
    <3>8. Addressed(p \o tail)
      <4> HIDE DEF tail, mark, S
      <4> QED BY <2>3, <2>5, <2>6, <3>7, StaysAddressed
    <3> HIDE DEF p, S
    <3>9. p \o front \o j = p \o tail /\ p \o front \o j \o none = p \o tail
      <4>1. p \in Seq(S) /\ front \in Seq(S) /\ j \in Seq(S)
        BY <2>4, <3>2, <3>4
      <4>2. p \o front \o j = p \o (front \o j)
        BY <4>1
      <4>3. (p \o front \o j) \o <<>> = p \o front \o j
        BY <4>1
      <4> QED BY <4>2, <4>3
    <3> HIDE DEF tail, none
    <3>10. sent = p \o tail /\ p \o tail \in Seq(S) /\ RedactsQuery(p \o tail, MatrixKeys)
        BY <2>2, <2>8, <3>3, <3>9
    <3>11. Public(p \o tail)
        BY <3>8, <3>10, PublicText DEF S
    <3>12. Kinds(p \o tail) = Kinds(p) \cup Kinds(tail)
        BY <3>2, <3>7, KindsConcat
    <3>13. Kinds(p \o tail) \cap {"#"} = {}
        BY <3>2, <3>6, <3>12 DEF Encloses
    <3> QED BY <3>10, <3>11, <3>13 DEF sent
  <2> QED BY <2>7, <2>8
<1> QED BY <1>1, <1>2, <1>3 DEF UrlPolicies

-----------------------------------------------------------------------------
(* The mock adapter's URL *)

\* What the mock adapter takes of the userinfo has no password.
LEMMA UserinfoParts ==
    ASSUME NEW S, NEW a \in Seq(S), HasForm(a)
    PROVE  LET T == Without(S, {"pass"})
           IN  /\ "@" \notin Kinds(a) => a \in Seq(T)
               /\ "@" \in Kinds(a) => Before(a, {"@", ":"}) \in Seq(T) /\ From(a, {"@"}) \in Seq(T)
<1> DEFINE secret == {"pass"}
           ends == {"@", ":"}
           at == {"@"}
           T == Without(S, secret)
           user == Before(a, ends)
           rest == From(a, at)
<1>1. DOMAIN a = 1..Len(a) /\ Len(a) \in Nat
    OBVIOUS
<1>2. user \in Seq(S) /\ rest \in Seq(S)
    BY CutTypes
<1>3. /\ Len(user) = Find(a, ends) - 1 /\ \A i \in 1..(Find(a, ends) - 1) : user[i] = a[i]
      /\ Len(rest) = Len(a) - Find(a, at) + 1
      /\ \A i \in 1..(Len(a) - Find(a, at) + 1) : rest[i] = a[Find(a, at) + i - 1]
  <2> HIDE DEF ends, at
  <2>1. LET f == Find(a, ends)
        IN  Len(user) = f - 1 /\ \A i \in 1..(f - 1) : user[i] = a[i]
    BY Cuts
  <2>2. LET f == Find(a, at)
        IN  Len(rest) = Len(a) - f + 1 /\ \A i \in 1..(Len(a) - f + 1) : rest[i] = a[f + i - 1]
    BY Cuts
  <2> QED BY <2>1, <2>2
<1> HIDE DEF user, rest
<1>4. DOMAIN user = 1..Len(user) /\ DOMAIN rest = 1..Len(rest)
    BY <1>2
<1>5. ASSUME NEW text \in Seq(S), \A i \in DOMAIN text : text[i][1] # "pass" PROVE text \in Seq(T)
  <2>1. Kinds(text) \cap secret = {}
    BY <1>5 DEF Kinds
  <2> HIDE DEF secret
  <2> QED BY <2>1, WithoutKinds
<1> HIDE DEF T
<1>6. ASSUME HostForm(a) PROVE "@" \notin Kinds(a) /\ a \in Seq(T)
  <2>1. \A i \in DOMAIN a : a[i][1] = "host"
    BY <1>1, <1>6 DEF HostForm
  <2> QED BY <1>5, <2>1 DEF Kinds
<1>7. ASSUME NEW m \in 1..Len(a), NEW n \in 1..Len(a), m = 2, a[1][1] = "user", a[m][1] \in ends,
             a[n][1] = "@", \A i \in 1..(n - 1) : a[i][1] # "@",
             \A i \in n..Len(a) : a[i][1] # "pass"
      PROVE  "@" \in Kinds(a) /\ user \in Seq(T) /\ rest \in Seq(T)
  <2>1. "@" \in Kinds(a)
    BY <1>1, <1>7 DEF Kinds
  <2>2. Find(a, ends) = 2
    <3>1. /\ 2 \in 1..(Len(a) + 1) /\ (2 <= Len(a) => a[2][1] \in ends)
          /\ \A i \in 1..(2 - 1) : a[i][1] \notin ends
      <4>1. "user" \notin ends
        OBVIOUS
      <4>2. \A i \in 1..(2 - 1) : i = 1
        OBVIOUS
      <4> QED BY <1>1, <1>7, <4>1, <4>2
    <3> HIDE DEF ends
    <3> QED BY <3>1, FindIs
  <2>3. Find(a, at) = n
    <3>1. /\ n \in 1..(Len(a) + 1) /\ (n <= Len(a) => a[n][1] \in at)
          /\ \A i \in 1..(n - 1) : a[i][1] \notin at
        BY <1>1, <1>7
    <3> HIDE DEF at
    <3> QED BY <3>1, FindIs
  <2>4. user \in Seq(T)
    <3>1. \A i \in DOMAIN user : i = 1 /\ user[i] = a[i]
        BY <1>3, <1>4, <2>2
    <3> QED BY <1>2, <1>5, <1>7, <3>1
  <2>5. rest \in Seq(T)
    <3>1. ASSUME NEW i \in DOMAIN rest PROVE rest[i][1] # "pass"
      <4>1. i \in 1..(Len(a) - n + 1) /\ n + i - 1 \in n..Len(a)
        BY <1>1, <1>3, <1>4, <2>3
      <4>2. rest[i] = a[n + i - 1]
        BY <1>3, <2>3, <4>1
      <4> QED BY <1>7, <4>1, <4>2
    <3> QED BY <1>2, <1>5, <3>1
  <2> QED BY <2>1, <2>4, <2>5
<1>8. ASSUME UserForm(a) PROVE "@" \in Kinds(a) /\ user \in Seq(T) /\ rest \in Seq(T)
  <2>1. /\ 2 \in 1..Len(a) /\ a[1][1] = "user" /\ a[2][1] = "@"
        /\ \A i \in 1..(2 - 1) : a[i][1] # "@"
        /\ \A i \in 2..Len(a) : a[i][1] # "pass"
    BY <1>8 DEF UserForm
  <2>2. a[2][1] \in ends
    BY <2>1
  <2> QED BY <1>7, <2>1, <2>2
<1>9. ASSUME PasswordForm(a) PROVE "@" \in Kinds(a) /\ user \in Seq(T) /\ rest \in Seq(T)
  <2>1. /\ 2 \in 1..Len(a) /\ 4 \in 1..Len(a) /\ a[1][1] = "user" /\ a[2][1] = ":" /\ a[4][1] = "@"
    BY <1>9 DEF PasswordForm
  <2>2. \A i \in 1..(4 - 1) : i = 1 \/ i = 2 \/ i = 3
    OBVIOUS
  <2>3. \A i \in 4..Len(a) : i = 4 \/ i = 5
    BY <1>9 DEF PasswordForm
  <2>4. /\ \A i \in 1..(4 - 1) : a[i][1] # "@"
        /\ \A i \in 4..Len(a) : a[i][1] # "pass"
    BY <1>9, <2>2, <2>3 DEF PasswordForm
  <2>5. a[2][1] \in ends
    BY <2>1
  <2> QED BY <1>7, <2>1, <2>4, <2>5
<1>10. /\ "@" \notin Kinds(a) => a \in Seq(T)
       /\ "@" \in Kinds(a) => user \in Seq(T) /\ rest \in Seq(T)
    BY <1>6, <1>8, <1>9 DEF HasForm
<1> QED BY <1>10 DEF T, user, rest, ends, at, secret

\* The tokens of a URL but for its password.
MockTokens(url) == Without(ToSet(url), {"pass"})

\* The hidden userinfo has neither a password nor a delimiter of the query.
LEMMA HiddenText ==
    ASSUME NEW url, IsUrl(url)
    PROVE  LET S == Written(MockTokens(url))
               hidden == HiddenUserinfo(Netloc(url))
           IN  hidden \in Seq(S) /\ Kinds(hidden) \cap {"?", "#"} = {}
<1> DEFINE U == ToSet(url)
           marks == {"?", "#"}
           V == Without(U, marks)
           T == MockTokens(url)
           N == Without(Written(T), marks)
           a == Authority(url)
           r == Rest(url)
           ends == {"/", "?", "#"}
           user == Before(a, {"@", ":"})
           rest == From(a, {"@"})
           colon == << <<":">> >>
           stars == << <<"***">> >>
           hidden == HiddenUserinfo(a)
<1>1. url \in Seq(U)
    BY DEF IsUrl
<1>2. HasForm(a)
    BY AuthorityForm
<1> HIDE DEF U
<1>3. /\ a \in Seq(U) /\ r \in Seq(U) /\ url = a \o r /\ r # <<>> /\ r[1][1] \in ends
      /\ Kinds(a) \cap ends = {} /\ Kinds(a) \cap marks = {}
    BY <1>1, UrlParts
<1>4. Netloc(url) = a
  <2>1. Netloc(url) = Before(url, ends)
    BY DEF Netloc
  <2> HIDE DEF a, r, ends
  <2>2. Before(a \o r, ends) = a \o Before(r, ends)
    BY <1>3, CutSecond
  <2>3. Before(r, ends) = <<>>
    BY <1>3, CutAtFront
  <2>4. a \o <<>> = a
    BY <1>3
  <2> QED BY <1>3, <2>1, <2>2, <2>3, <2>4
<1>5. hidden = IF "@" \notin Kinds(a) THEN a
               ELSE (IF ":" \in Kinds(Before(a, {"@"})) THEN user \o colon ELSE <<>>) \o stars \o rest
    BY DEF HiddenUserinfo
<1> HIDE DEF a, r, ends, hidden
<1>6. a \in Seq(V)
  <2> HIDE DEF marks
  <2> QED BY <1>3, WithoutKinds
<1>7. Without(V, {"pass"}) \subseteq N
  <2>1. Without(V, {"pass"}) \subseteq T
    BY DEF Without, MockTokens, U
  <2>2. T \subseteq Written(T)
    BY WrittenHas
  <2>3. \A token \in Without(V, {"pass"}) : token[1] \notin marks
    BY DEF Without
  <2> HIDE DEF T, V, marks
  <2> QED BY <2>1, <2>2, <2>3 DEF Without
<1>8. <<":">> \in N /\ <<"***">> \in N
    BY WrittenHas DEF Without
<1> HIDE DEF N, V
<1>9. /\ "@" \notin Kinds(a) => a \in Seq(N)
      /\ "@" \in Kinds(a) => user \in Seq(N) /\ rest \in Seq(N)
  <2>1. /\ "@" \notin Kinds(a) => a \in Seq(Without(V, {"pass"}))
        /\ "@" \in Kinds(a) => user \in Seq(Without(V, {"pass"})) /\ rest \in Seq(Without(V, {"pass"}))
    BY <1>2, <1>6, UserinfoParts
  <2> QED BY <1>7, <2>1
<1>10. colon \in Seq(N) /\ stars \in Seq(N)
    BY <1>8
<1> HIDE DEF colon, stars, user, rest
<1>11. hidden \in Seq(N)
  <2>1. CASE "@" \notin Kinds(a)
    BY <1>5, <1>9, <2>1
  <2>2. CASE "@" \in Kinds(a)
    <3>1. user \in Seq(N) /\ rest \in Seq(N) /\ colon \in Seq(N) /\ stars \in Seq(N)
        BY <1>9, <1>10, <2>2
    <3>2. user \o colon \o stars \o rest \in Seq(N) /\ <<>> \o stars \o rest \in Seq(N)
        BY <3>1
    <3> QED BY <1>5, <2>2, <3>2
  <2> QED BY <2>1, <2>2
<1>12. hidden \in Seq(Written(T)) /\ Kinds(hidden) \cap marks = {}
  <2>1. N \subseteq Written(T)
    BY DEF N, Without
  <2>2. hidden \in Seq(Written(T))
    BY <1>11, <2>1
  <2> HIDE DEF marks
  <2>3. Kinds(hidden) \cap marks = {}
    BY <1>11, <2>2, WithoutKinds DEF N
  <2> QED BY <2>2, <2>3
<1> QED BY <1>4, <1>12 DEF hidden

LEMMA QuotedItems ==
    ASSUME NEW T, NEW query \in Seq(Without(T, {"#"}))
    PROVE  Redactions(MapSeq(QuotedPair, Items(query, "&")), T, SENSITIVE_QUERY_PARAMS)
<1> DEFINE items == Items(query, "&")
           V == Seq(Without(T, {"#"}))
           new == MapSeq(QuotedPair, items)
<1>1. items \in Seq(V)
    BY ItemsType
<1>2. \A k \in DOMAIN items : IsPart(items[k], "&")
    BY ItemsAreParts
<1>3. DOMAIN new = DOMAIN items /\ new = [k \in DOMAIN new |-> new[k]]
    BY DEF MapSeq
<1>4. \A k \in DOMAIN items : new[k] = QuotedPair(items[k])
    BY DEF MapSeq
<1> HIDE DEF items, new
<1>5. ASSUME NEW k \in DOMAIN items PROVE Rewritten(new[k], T, SENSITIVE_QUERY_PARAMS)
  <2> DEFINE item == items[k]
  <2>1. item \in V /\ IsPart(item, "&")
    BY <1>1, <1>2
  <2> HIDE DEF item
  <2>2. Rewritten(QuotedPair(item), T, SENSITIVE_QUERY_PARAMS)
    BY <2>1, QuotedItem
  <2> QED BY <1>4, <2>2 DEF item
<1> HIDE DEF V
<1>6. Redactions(new, T, SENSITIVE_QUERY_PARAMS)
    BY <1>1, <1>3, <1>5, RewrittenItems
<1> QED BY <1>6 DEF new, items

\* What the mock adapter takes of the rest of the URL.
LEMMA MockParts ==
    ASSUME NEW url, IsUrl(url)
    PROVE  LET T == MockTokens(url)
               bare == Before(url, {"#"})
               path == Before(From(bare, {"/"}), {"?"})
           IN  /\ path \in Seq(T) /\ Kinds(path) \cap {"?", "#"} = {}
               /\ QueryText(bare) \in Seq(Without(T, {"#"}))
               /\ After(url, {"#"}) \in Seq(T)
<1> DEFINE U == ToSet(url)
           T == MockTokens(url)
           a == Authority(url)
           r == Rest(url)
           hash == {"#"}
           mark == {"?"}
           slash == {"/"}
           secret == {"pass"}
           bare == Before(url, hash)
           c == Before(r, hash)
           N == Without(T, hash)
           path == Before(From(bare, slash), mark)
           after == After(bare, mark)
<1>1. url \in Seq(U)
    BY DEF IsUrl
<1> HIDE DEF U
<1>2. /\ a \in Seq(U) /\ r \in Seq(U) /\ url = a \o r
      /\ Kinds(a) \cap hash = {} /\ Kinds(a) \cap mark = {} /\ Kinds(a) \cap slash = {}
      /\ Kinds(r) \cap secret = {}
    BY <1>1, UrlParts
<1> HIDE DEF a, r
<1>3. r \in Seq(T)
  <2>1. T = Without(U, secret)
    BY DEF MockTokens, U
  <2> HIDE DEF T, secret
  <2>2. r \in Seq(Without(U, secret))
    BY <1>2, WithoutKinds
  <2> QED BY <2>1, <2>2
<1> HIDE DEF T, secret
<1>4. c \in Seq(T) /\ Kinds(c) \cap hash = {} /\ c \in Seq(U)
  <2> HIDE DEF hash
  <2>1. c \in Seq(T) /\ Kinds(c) \cap hash = {}
    BY <1>3, CutTypes, CutInTwo
  <2>2. c \in Seq(U)
    BY <1>2, CutTypes
  <2> QED BY <2>1, <2>2
<1>5. bare = a \o c /\ After(url, hash) = After(r, hash)
  <2> HIDE DEF hash
  <2> QED BY <1>2, CutSecond
<1>6. After(url, hash) \in Seq(T)
  <2> HIDE DEF hash
  <2> QED BY <1>3, <1>5, CutTypes
<1>7. c \in Seq(N)
  <2> HIDE DEF hash, c
  <2> QED BY <1>4, WithoutKinds
<1> HIDE DEF c, bare, N
<1>8. From(bare, slash) = From(c, slash) /\ after = After(c, mark)
  <2> HIDE DEF slash, mark
  <2>1. From(a \o c, slash) = From(c, slash)
    BY <1>2, <1>4, CutSecond
  <2>2. After(a \o c, mark) = After(c, mark)
    BY <1>2, <1>4, CutSecond
  <2> QED BY <1>5, <2>1, <2>2
<1>9. path \in Seq(N) /\ Kinds(path) \cap mark = {}
  <2> HIDE DEF slash, mark
  <2>1. From(c, slash) \in Seq(N)
    BY <1>7, CutTypes
  <2> QED BY <1>8, <2>1, CutTypes, CutInTwo
<1>10. after \in Seq(N)
  <2> HIDE DEF mark
  <2> QED BY <1>7, <1>8, CutTypes
<1>11. QueryText(bare) = Before(after, hash)
    BY DEF QueryText
<1> HIDE DEF path, after
<1>12. QueryText(bare) \in Seq(N)
  <2> HIDE DEF hash
  <2> QED BY <1>10, <1>11, CutTypes
<1>13. path \in Seq(T) /\ Kinds(path) \cap hash = {}
  <2>1. N \subseteq T
    BY DEF N, Without
  <2>2. path \in Seq(T)
    BY <1>9, <2>1
  <2> HIDE DEF hash
  <2>3. Kinds(path) \cap hash = {}
    BY <1>9, <2>2, WithoutKinds DEF N
  <2> QED BY <2>2, <2>3
<1>14. Kinds(path) \cap {"?", "#"} = {}
    BY <1>9, <1>13
<1> QED BY <1>6, <1>12, <1>13, <1>14 DEF T, N, path, bare, hash, mark, slash

\* The mock's URL has no password and hides its secrets.
LEMMA MockHides ==
    ASSUME NEW url, IsUrl(url)
    PROVE  LET sent == sanitize_url(url)
           IN  "pass" \notin Kinds(sent) /\ RedactsQuery(sent, SENSITIVE_QUERY_PARAMS)
<1> DEFINE T == MockTokens(url)
           S == Written(T)
           hash == {"#"}
           bare == Before(url, hash)
           hidden == HiddenUserinfo(Netloc(url))
           path == Before(From(bare, {"/"}), {"?"})
           pairs == MapSeq(QuotedPair, Items(QueryText(bare), "&"))
           fragment == After(url, hash)
           front == << <<"?">> >>
           sharp == << <<"#">> >>
           j == Join(pairs, "&")
           g == IF fragment = <<>> THEN <<>> ELSE sharp \o fragment
           p == hidden \o path
           sent == sanitize_url(url)
<1>1. sent = p \o (IF pairs = <<>> THEN <<>> ELSE front) \o j \o g
    BY DEF sanitize_url
<1>2. T \subseteq S
    BY WrittenHas
<1>3. hidden \in Seq(S) /\ Kinds(hidden) \cap {"?", "#"} = {}
    BY HiddenText
<1>4. path \in Seq(T) /\ Kinds(path) \cap {"?", "#"} = {} /\ fragment \in Seq(T)
    BY MockParts
<1>5. Redactions(pairs, T, SENSITIVE_QUERY_PARAMS)
    BY MockParts, QuotedItems
<1>6. sharp \in Seq(S) /\ sharp[1][1] = "#" /\ Len(sharp) = 1
    BY WrittenHas
<1> HIDE DEF S, T, hidden, path, pairs, fragment, sharp, sent, bare, front
<1>7. p \in Seq(S) /\ Kinds(p) \cap {"?", "#"} = {}
  <2>1. hidden \in Seq(S) /\ path \in Seq(S)
    BY <1>2, <1>3, <1>4
  <2>2. Kinds(hidden \o path) = Kinds(hidden) \cup Kinds(path)
    BY <2>1, KindsConcat
  <2> QED BY <1>3, <1>4, <2>1, <2>2
<1>8. g \in Seq(S) /\ (g # <<>> => g[1][1] = "#")
  <2>1. fragment \in Seq(S)
    BY <1>2, <1>4
  <2>2. Concatenated(sharp \o fragment, sharp, fragment, S)
    BY <1>6, <2>1, Concatenation
  <2>3. 1 \in 1..Len(sharp)
    BY <1>6
  <2>4. sharp \o fragment \in Seq(S) /\ (sharp \o fragment)[1] = sharp[1]
    BY <2>2, <2>3 DEF Concatenated
  <2> QED BY <1>6, <2>4
<1> HIDE DEF p, g
<1>9. sent \in Seq(S) /\ RedactsQuery(sent, SENSITIVE_QUERY_PARAMS)
  <2>1. CASE pairs # <<>>
    <3>1. Encloses(p, g)
        BY <1>7, <1>8 DEF Encloses
    <3>2. p \o front \o j \o g \in Seq(S) /\ RedactsQuery(p \o front \o j \o g, SENSITIVE_QUERY_PARAMS)
        BY <1>5, <1>7, <1>8, <3>1, RedactedQuery DEF S, front
    <3> QED BY <1>1, <2>1, <3>2
  <2>2. CASE pairs = <<>>
    <3> DEFINE both == p \o g
    <3>1. j = <<>>
        BY <2>2, JoinNothing
    <3> HIDE DEF j
    <3>2. sent = p \o <<>> \o <<>> \o g
        BY <1>1, <2>2, <3>1
    <3>3. sent = both /\ both \in Seq(S)
      <4>1. p \in Seq(S) /\ g \in Seq(S)
        BY <1>7, <1>8
      <4>2. p \o <<>> \o <<>> = p /\ p \o g \in Seq(S)
        BY <4>1
      <4> QED BY <3>2, <4>2
    <3>4. Before(both, hash) = p
      <4>1. Kinds(p) \cap hash = {} /\ (g # <<>> => g[1][1] \in hash)
        BY <1>7, <1>8
      <4> HIDE DEF hash
      <4>2. Before(p \o g, hash) = Before(p, hash)
        BY <1>7, <1>8, <4>1, BeforeFirst
      <4>3. Before(p, hash) = p
        BY <1>7, <4>1, Uncut
      <4> QED BY <4>2, <4>3
    <3>5. ~Queried(both)
        BY <1>7, <3>4 DEF Queried
    <3> HIDE DEF both
    <3>6. RedactsQuery(both, SENSITIVE_QUERY_PARAMS)
        BY <3>3, <3>5, Unqueried
    <3> QED BY <3>3, <3>6
  <2> QED BY <2>1, <2>2
<1>10. "pass" \notin Kinds(sent)
  <2> DEFINE secret == {"pass"}
  <2>1. \A token \in T : token[1] \notin secret
    BY DEF T, MockTokens, Without
  <2>2. secret \cap {"?", "&", "=", ":", "***", "#", "param", "%"} = {}
    OBVIOUS
  <2> HIDE DEF secret
  <2>3. S \subseteq Without(S, secret)
    BY <2>1, <2>2, WrittenKinds DEF S
  <2>4. sent \in Seq(Without(S, secret))
    BY <1>9, <2>3
  <2>5. Kinds(sent) \cap secret = {}
    BY <1>9, <2>4, WithoutKinds
  <2> QED BY <2>5 DEF secret
<1> QED BY <1>9, <1>10 DEF sent

-----------------------------------------------------------------------------
(* What is sent *)

\* What was sent is what the sanitizers made of a URL.
Sent ==
    /\ url_policy_ \in UrlPolicies
    /\ last.op \in {"none", "request", "redirect", "observation", "content", "mock"}
    /\ Throttles => \A event \in ToSet(last.events) :
            event.sanitized_url = SanitizeUrlForTelemetry(last.target)
    /\ last.op \in {"observation", "content"} =>
            /\ IsUrl(last.given)
            /\ \E policy \in UrlPolicies : last.payload.page = Page(last.given, policy)
    /\ last.op = "mock" => IsUrl(last.given) /\ last.url = sanitize_url(last.given)

SentInv == DecidedInv /\ Sent

\* Every event of a request has the cleaned URL of the request.
LEMMA ThrottledSends ==
    ASSUME NEW op \in {"request", "redirect"}, NEW url, NEW initiator, NEW type, Sent,
           Throttled(op, url, initiator, type), Passive
    PROVE  Sent'
<1> DEFINE cleaned == StripTrackingParameters(tracking_params_, url)
           target == cleaned.cleaned_url
           result == EvaluateRequest(target, initiator, type)
           first == IF cleaned.removed_parameters = <<>> THEN <<>>
                    ELSE << Event("tracking_parameter_removed", target) >>
           second == DecisionEvents(result, target)
           removal == Event("tracking_parameter_removed", target)
           block == Event("request_blocked", target)
           tracker == Event("tracker_detected", target)
           E == {removal, block, tracker}
<1>1. last'.op = op /\ last'.target = target /\ last'.events = first \o second
    BY DEF Throttled
<1>2. \A event \in E : event.sanitized_url = SanitizeUrlForTelemetry(target)
    BY DEF Event
<1>3. /\ removal \in E /\ block \in E /\ tracker \in E
      /\ first = <<>> \/ first = <<removal>>
      /\ second = <<>> \/ second = <<block>> \/ second = <<tracker>>
    BY DEF DecisionEvents
<1> HIDE DEF cleaned, target, result, first, second, removal, block, tracker, E
<1>4. first \in Seq(E) /\ second \in Seq(E)
  <2>1. <<removal>> \in Seq(E) /\ <<block>> \in Seq(E) /\ <<tracker>> \in Seq(E)
    BY <1>3, OneToken
  <2>2. <<>> \in Seq(E)
    OBVIOUS
  <2> QED BY <1>3, <2>1, <2>2
<1>5. first \o second \in Seq(E)
    BY <1>4
<1>6. \A event \in ToSet(last'.events) : event \in E
    BY <1>1, <1>5 DEF ToSet
<1>7. \A event \in ToSet(last'.events) : event.sanitized_url = SanitizeUrlForTelemetry(target)
    BY <1>2, <1>6
<1> QED BY <1>1, <1>7 DEF Sent, Throttles, Passive
\* The steps that keep it, one by one.
THEOREM SentInductive == Spec => []SentInv
<1>1. Init => Sent
    BY DEF Init, Nothing, Sent, Throttles, UrlPolicies
<1>2. DecidedInv /\ DecidedInv' /\ Sent /\ [Next]_vars => Sent'
  <2> SUFFICES ASSUME DecidedInv, Sent, [Next]_vars PROVE Sent'
    OBVIOUS
  <2>1. \A url \in workload.urls : IsUrl(url)
    BY WorkloadAssumption DEF DecidedInv, IndexInv, Counts
  <2>2. CASE ChangeRules
    BY <2>2 DEF ChangeRules, Idle, Nothing, Sent, Throttles
  <2>3. ASSUME NEW name \in workload.params, AddTrackingParameter(name) PROVE Sent'
    BY <2>3 DEF AddTrackingParameter, Idle, Nothing, Sent, Throttles
  <2>4. ASSUME NEW policy \in workload.policies, SetUrlExposurePolicy(policy) PROVE Sent'
    <3>1. policy \in UrlPolicies
        BY WorkloadAssumption DEF DecidedInv, IndexInv, Counts
    <3> QED BY <2>4, <3>1 DEF SetUrlExposurePolicy, Idle, Nothing, Sent, Throttles
  <2>5. ASSUME NEW url, NEW initiator, NEW number, WillStartRequest(url, initiator, number)
        PROVE  Sent'
    BY <2>5, ThrottledSends DEF WillStartRequest
  <2>6. ASSUME NEW url, WillRedirectRequest(url) PROVE Sent'
    BY <2>6, ThrottledSends DEF WillRedirectRequest
  <2>7. ASSUME NEW url \in workload.urls, EmitEvent(url) PROVE Sent'
    <3>1. /\ last'.op = "observation" /\ last'.given = url
          /\ last'.payload.page = Page(url, url_policy_) /\ url_policy_' = url_policy_
        BY <2>7 DEF EmitEvent, Passive
    <3> QED BY <2>1, <3>1 DEF Sent, Throttles
  <2>8. ASSUME NEW url \in workload.urls, NEW mode, NEW size, ExtractAuthorizedContent(url, mode, size)
        PROVE  Sent'
    <3>1. /\ last'.op = "content" /\ last'.given = url
          /\ last'.payload.page = Page(url, "kFullUrlSanitized") /\ url_policy_' = url_policy_
        BY <2>8 DEF ExtractAuthorizedContent, ContentPayload, Passive
    <3>2. "kFullUrlSanitized" \in UrlPolicies
        BY DEF UrlPolicies
    <3> QED BY <2>1, <3>1, <3>2 DEF Sent, Throttles
  <2>9. ASSUME NEW url \in workload.urls, observe_navigation(url) PROVE Sent'
    <3>1. last' = [op |-> "mock", given |-> url, url |-> sanitize_url(url)] /\ url_policy_' = url_policy_
        BY <2>9 DEF observe_navigation, Passive
    <3> QED BY <2>1, <3>1 DEF Sent, Throttles
  <2>10. CASE Finish
    BY <2>10 DEF Finish, Nothing, Passive, Sent, Throttles
  <2>11. CASE UNCHANGED vars
    BY <2>11 DEF vars, Sent, Throttles
  <2> QED BY <2>2, <2>3, <2>4, <2>5, <2>6, <2>7, <2>8, <2>9, <2>10, <2>11 DEF Next
<1> QED BY <1>1, <1>2, DecidedInductive, PTL DEF Spec, SentInv

\* No URL that is sent has a password, or in its query the value of a key its sender
\* hides; those of the browser have no userinfo, and those of an observation no fragment.
THEOREM SecretsAreRedacted == Spec => []SecretsRedacted
<1>1. SentInv => SecretsRedacted
  <2> SUFFICES ASSUME SentInv, NEW url \in SentUrls
               PROVE  /\ "pass" \notin Kinds(url) /\ RedactsQuery(url, HiddenKeys)
                      /\ last.op # "mock" => Public(url)
                      /\ last.op \in {"observation", "content"} => "#" \notin Kinds(url)
    BY DEF SecretsRedacted, Public
  <2>1. CASE Throttles
    <3>1. PICK event \in ToSet(last.events) : url = event.sanitized_url
        BY <2>1 DEF SentUrls, Throttles
    <3>2. url = SanitizeUrlForTelemetry(last.target) /\ IsUrl(last.target)
        BY <2>1, <3>1 DEF SentInv, Sent, DecidedInv, Decided
    <3>3. HiddenKeys = SensitiveQueryKeys /\ last.op \notin {"observation", "content"}
        BY <2>1 DEF HiddenKeys, Throttles
    <3> QED BY <3>2, <3>3, TelemetryHides DEF Public
  <2>2. CASE last.op \in {"observation", "content"}
    <3>1. PICK policy \in UrlPolicies : last.payload.page = Page(last.given, policy)
        BY <2>2 DEF SentInv, Sent
    <3>2. IsUrl(last.given)
        BY <2>2 DEF SentInv, Sent
    <3>3. url \in {last.payload.page.url, last.payload.page.origin}
        BY <2>2 DEF SentUrls, Throttles
    <3>4. url = SanitizeUrl(last.given, policy) \/ url = Origin(last.given)
        BY <3>1, <3>3 DEF Page
    <3>5. HiddenKeys = MatrixKeys
        BY <2>2 DEF HiddenKeys, Throttles
    <3> QED BY <3>2, <3>4, <3>5, ObservationHides, OriginHides DEF Public
  <2>3. CASE last.op = "mock"
    <3>1. url = sanitize_url(last.given) /\ IsUrl(last.given)
        BY <2>3 DEF SentInv, Sent, SentUrls, Throttles
    <3>2. HiddenKeys = SENSITIVE_QUERY_PARAMS
        BY <2>3 DEF HiddenKeys, Throttles
    <3> QED BY <2>3, <3>1, <3>2, MockHides
  <2> QED BY <2>1, <2>2, <2>3 DEF SentUrls
<1> QED BY <1>1, SentInductive, PTL
===============================================================================
