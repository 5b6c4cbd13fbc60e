--------------------------- MODULE PrivacyRequestsMC ---------------------------
(***************************************************************************)
(* PrivacyEngine for TLC, without the rules that PrivacyMC is about.  Two  *)
(* requests at once, listeners, redirects and exceptions multiply each     *)
(* other's states, so a behaviour has one of two focuses: "events" has two *)
(* navigations and a listener, but no redirect and no exception, and       *)
(* "settings" has redirects and exceptions, but one request at a time and  *)
(* no listener.                                                            *)
(***************************************************************************)
EXTENDS PrivacyMC, FiniteSets

AllKinds == {Frame, TaggedScript, Typed}
Started == {t \in Requests : pc[t] # "idle"}

Focus == IF \A t \in Requests : Kind(t) = Frame THEN "events" ELSE "settings"

MCInit == Init /\ \A t, u \in Requests : Kind(t) = Kind(u)

MCSpec == MCInit /\ [][Next]_vars

KeepsFocus ==
    /\ Focus = "events" =>
          /\ \A t \in Requests : request'[t].hops = 0 /\ witness'[t].settled
          /\ site_exceptions' = site_exceptions
    /\ Focus = "settings" =>
          /\ listeners_' = <<>>
          /\ Cardinality(Started') <= 1
          /\ \A t \in Requests : Kind(t)' # Frame
=============================================================================
