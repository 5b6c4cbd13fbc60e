------------------------------ MODULE PrivacyMC ------------------------------
(* Small instances of PrivacyEngine for TLC. *)
EXTENDS PrivacyEngine, TLC

Site == <<"news", "co", "uk">>
Sub == <<"live", "news", "co", "uk">>
Tracker == <<"trk", "net">>
AdHost == <<"ad", "trk", "net">>
CoUk == {<<"co", "uk">>}

Rule(type, domain, path, types, third) ==
    [rule_type |-> type, domain_pattern |-> domain, path_pattern |-> path,
     match_subdomains |-> TRUE, require_third_party |-> third,
     require_first_party |-> FALSE, resource_types |-> types]

AllTypes == {"kMainFrame", "kSubFrame", "kScript", "kOther"}
BlockTracker == Rule("kBlock", Tracker, AnyPath, AllTypes, TRUE)
BlockScripts == Rule("kBlock", AdHost, AnyPath, {"kScript"}, FALSE)
AllowPixel == Rule("kAllow", AdHost, "/pixel", AllTypes, FALSE)

Ask(throttle, host, initiator, type, tracking) ==
    [throttle |-> throttle, host |-> host, path |-> {"/pixel"}, initiator |-> initiator,
     resource_type |-> type, tracking |-> tracking]

TaggedScript == Ask("loader", AdHost, Sub, "kScript", TRUE)
Frame == Ask("navigation", AdHost, Sub, "kSubFrame", FALSE)
Typed == Ask("navigation", Tracker, NoHost, "kMainFrame", FALSE)

FrameOnly == {Frame}
BlockOnly == {<<BlockTracker>>}
AllowThenBlock == {<<AllowPixel, BlockTracker>>, <<BlockScripts>>}

TheDatabase == {"d1"}
TwoDatabases == {"d1", "d2"}
NoSites == {}
TheSites == {Site, Sub}
NoListeners == {}
AListener == {"l1"}

RequestSymmetry == Permutations(Requests)
=============================================================================
