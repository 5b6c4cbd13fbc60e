----------------------------- MODULE RequestTextMC -----------------------------
(* Small instances of RequestText for TLC. *)
EXTENDS RequestText

Spellings == [Token |-> "token", UTM_Source |-> "utm_source", Page |-> "page"]
CoUk == {<<"co", "uk">>}

Tracker == <<"trk", "net">>
AdHost == <<"ad", "trk", "net">>
Other == <<"news", "org">>

Domain(labels) == << <<"domain", labels>> >>
Block(labels) == << <<"||">> >> \o Domain(labels) \o << <<"^">> >>
Allow(labels) == << <<"@@">> >> \o Block(labels)
Only(names) == << <<"$">> >> \o Join([i \in DOMAIN names |-> << <<"option", names[i]>> >>], ",")

Comment == << <<"!">>, <<"domain", Tracker>> >>
Pathless == << <<"/", "/pixel">>, <<"^">> >>
TooLong == << <<"domain", Tracker>>, <<"long">> >>
BlockPixel == << <<"||">>, <<"domain", Tracker>>, <<"/", "/pixel">>, <<"^">> >>

\* Lists whose lines meet in one bucket and in a parent's, and lists of all options.
Lists ==
    { << Comment, Block(Tracker) \o Only(<<"third-party">>), BlockPixel >>,
      << Pathless, Domain(AdHost) \o Only(<<"script", "img">>), TooLong >>,
      << Allow(AdHost) \o Only(<<"first-party">>), Block(AdHost) \o Only(<<"popup", "script">>) >>,
      << <<>>, Allow(Tracker) \o Only(<<"script", "3p">>), Block(Tracker) >> }

Param(key, value) == << <<"param", key, value>> >>
Path(patterns) == << <<"/", patterns>> >>
Host(labels) == << <<"host", labels>> >>
Query(params) == << <<"?">> >> \o Join(params, "&")
Fragment(text) == << <<"#">> >> \o text
Userinfo == << <<"user">>, <<":">>, <<"pass">>, <<"@">> >>
UserOnly == << <<"user">>, <<"@">> >>

Pixel == {"/pixel"}
Ad == Host(AdHost) \o Path({})

\* Pages that differ in host and path only, for the rules.
Places == {Ad, Host(AdHost) \o Path(Pixel), Host(Tracker) \o Path({}), Host(Other) \o Path(Pixel)}

Queries ==
    { <<>>, << <<"?">> >>,
      Query(<< Param("utm_source", "a") >>),
      Query(<< Param("UTM_Source", "a"), Param("Page", "1"), Param("Page", "1") >>),
      Query(<< Param("Token", "s3cret"), <<>>, Param("q", NoValue), Param("gclid", NoValue) >>),
      Query(<< Param("code", "s3cret"), Param("gclid", "2") \o Path(Pixel) >>),
      << <<"?">>, <<"?">> >> \o Param("utm_source", "a") }

Fragments ==
    { <<>>, Fragment(<<>>), Fragment(Path(Pixel) \o Query(<< Param("utm_source", "a") >>)) }

Spelled == {Ad \o query \o fragment : query \in Queries, fragment \in Fragments}
WithUserinfo ==
    {user \o url : user \in {Userinfo, UserOnly},
                   url \in {Ad, Ad \o Query(<< Param("token", "s3cret") >>)}}

RuleWorkload ==
    [lists |-> Lists, urls |-> Places, initiators |-> {NoHost, Tracker, Other},
     types |-> {3, 7}, policies |-> {}, params |-> {}]

TextWorkload ==
    [lists |-> {<< BlockPixel >>}, urls |-> Spelled \cup WithUserinfo, initiators |-> {Other},
     types |-> {3}, policies |-> {"kOmitted", "kOriginOnly"}, params |-> {"Page"}]

RuleAndText == {RuleWorkload, TextWorkload}

\* A request that is cleaned and reported, whose URL has a user, a password, and a
\* secret in its query and in its fragment.
SecretUrl ==
    Userinfo \o Ad
        \o Query(<< Param("utm_source", "a"), Param("refresh_token", "s3cret") >>)
        \o Fragment(Param("access_token", "s3cret"))

SecretRequest ==
    {[lists |-> {<<>>}, urls |-> {SecretUrl}, initiators |-> {Other}, types |-> {3},
      policies |-> {}, params |-> {}]}
=============================================================================
