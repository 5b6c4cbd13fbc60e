----------------------------- MODULE LossyChannel -----------------------------
(***************************************************************************)
(* What the adapter promises its daemon: numbered payloads travel one way, *)
(* each arrives at most once, none is invented, any of them may be lost.   *)
(* Order is not promised (see OrderLostOnlyByFailedFlush for when it is).  *)
(***************************************************************************)
EXTENDS Naturals, Sequences

VARIABLES
    sent,        \* number of payloads sent so far; a payload is its number
    inTransit,   \* the set of payloads neither delivered nor lost
    delivered    \* what the daemon read, in order

vars == <<sent, inTransit, delivered>>

Init == sent = 0 /\ inTransit = {} /\ delivered = <<>>

\* A UI callback may send several payloads at once.
Send ==
    /\ sent' \in Nat /\ sent' > sent
    /\ inTransit' = inTransit \cup (sent + 1)..sent'
    /\ UNCHANGED delivered

Deliver ==
    \E p \in inTransit :
        /\ inTransit' = inTransit \ {p}
        /\ delivered' = Append(delivered, p)
        /\ UNCHANGED sent

Lose ==
    /\ inTransit' \subseteq inTransit
    /\ UNCHANGED <<sent, delivered>>

Next == Send \/ Deliver \/ Lose

Spec == Init /\ [][Next]_vars

-----------------------------------------------------------------------------
\* No payload arrives twice, and none arrives that is still on its way.
AtMostOnce ==
    /\ \A i, j \in DOMAIN delivered : delivered[i] = delivered[j] => i = j
    /\ \A i \in DOMAIN delivered : delivered[i] \notin inTransit
=============================================================================
