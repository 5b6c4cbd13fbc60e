------------------------- MODULE ThirdPartyClassifier -------------------------
(***************************************************************************)
(* third_party_classifier.cc.  A host is the sequence of its labels, in    *)
(* lower case and without a trailing dot; <<>> is the empty string, the    *)
(* host of a navigation nobody initiated.                                  *)
(***************************************************************************)
EXTENDS Naturals, Sequences

CONSTANT TwoPartTlds   \* GetTwoPartTlds: pairs of labels such as <<"co", "uk">>

NoHost == <<>>
Loopback == <<"127", "0", "0", "1">>

LastLabels(host, n) == SubSeq(host, Len(host) - n + 1, Len(host))

GetDomain(host) ==
    IF Len(host) <= 2 \/ host = Loopback THEN host
    ELSE LastLabels(host, IF LastLabels(host, 2) \in TwoPartTlds THEN 3 ELSE 2)

Classify(target, initiator) ==
    IF NoHost \in {target, initiator} \/ target = initiator THEN "kFirstParty"
    ELSE IF GetDomain(target) = GetDomain(initiator) THEN "kSameSite"
    ELSE "kThirdParty"
=============================================================================
