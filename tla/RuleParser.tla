------------------------------ MODULE RuleParser ------------------------------
(***************************************************************************)
(* rule_parser.cc: a filter list becomes rules.  A line is a sequence of   *)
(* tokens: <<"domain", labels>>, <<"/", pattern>> for a "/" and all up to  *)
(* the next delimiter, <<"option", name>>, <<"long">> for more than 1024   *)
(* characters, and the delimiters @@ || ^ $ , ! #.  Domains and options    *)
(* are compared in lower case and are given in lower case.                 *)
(***************************************************************************)
EXTENDS TextTokens

\* The kinds before the "$" of [@@][||]domain[/path][^][$option,option].
RuleKinds ==
    {exception \o anchor \o <<"domain">> \o path \o caret :
        exception \in {<<>>, <<"@@">>}, anchor \in {<<>>, <<"||">>},
        path \in {<<>>, <<"/">>}, caret \in {<<>>, <<"^">>}}

\* A line in the syntax of the rules (PRIVACY_RULE_ENGINE.md:13-19): between two
\* delimiters lies one token, and a "/" is part of its pattern.
IsRuleLine(line) ==
    LET options == After(line, {"$"})
    IN  /\ Shape(Before(line, {"$"})) \in RuleKinds
        /\ \A i \in DOMAIN line :
            /\ line[i][1] = "domain" => line[i][2] \in Seq(ToSet(line[i][2]))
            /\ line[i][1] = "/" => line[i][2] # ""
        /\ \A i \in DOMAIN options :
            \/ options[i][1] = ","
            \/ options[i][1] = "option" /\ i \in Starts(options, ",")

ResourceTypes ==
    {"kMainFrame", "kSubFrame", "kScript", "kImage", "kStylesheet", "kFont",
     "kXhrFetch", "kPingBeacon", "kWebSocket", "kMedia", "kOther"}

\* The type an option names.
TypeOfOption ==
    [script |-> "kScript", image |-> "kImage", img |-> "kImage",
     stylesheet |-> "kStylesheet", css |-> "kStylesheet", font |-> "kFont",
     xmlhttprequest |-> "kXhrFetch", xhr |-> "kXhrFetch", fetch |-> "kXhrFetch",
     ping |-> "kPingBeacon", beacon |-> "kPingBeacon", websocket |-> "kWebSocket",
     subdocument |-> "kSubFrame", frame |-> "kSubFrame", media |-> "kMedia"]

Options(text) == {part[1][2] : part \in ToSet(Items(text, ","))}

\* Mutant: a list of options without a type matches nothing.
ParseNamedTypesOnly(text) == {TypeOfOption[o] : o \in Options(text) \cap DOMAIN TypeOfOption}

\* No type named is all types, a type nobody knows among them.
ParseResourceTypeMask(text) ==
    LET types == {TypeOfOption[o] : o \in Options(text) \cap DOMAIN TypeOfOption}
    IN  IF types = {} THEN ResourceTypes ELSE types

MatchesResourceType(type, mask) == type \in mask

IsComment(line) == line = <<>> \/ Kinds(line) \cap {"long"} # {} \/ line[1][1] \in {"!", "#"}

\* One leading delimiter, if it is there.
WithoutPrefix(text, kind) ==
    IF text # <<>> /\ text[1][1] = kind THEN Tail(text) ELSE text

WithoutCaret(text) ==
    IF text # <<>> /\ text[Len(text)][1] = "^" THEN SubSeq(text, 1, Len(text) - 1) ELSE text

DomainOf(text) ==
    LET domain == Before(text, {"/"}) IN IF domain = <<>> THEN <<>> ELSE domain[1][2]

PathOf(text) ==
    LET path == From(text, {"/"}) IN IF path = <<>> THEN "" ELSE path[1][2]

\* Everything about a rule but its id, which numbers the lines of one list only.
\* match_subdomains is on by default and nothing turns it off, "||" or not.
ParsedRule(line) ==
    LET body == WithoutPrefix(line, "@@")
        options == After(body, {"$"})
        pattern == WithoutCaret(WithoutPrefix(Before(body, {"$"}), "||"))
    IN  [rule_type |-> IF body # line THEN "kAllow" ELSE "kBlock",
         domain_pattern |-> DomainOf(pattern), path_pattern |-> PathOf(pattern),
         match_subdomains |-> TRUE,
         require_third_party |-> Options(options) \cap {"third-party", "3p"} # {},
         require_first_party |-> Options(options) \cap {"first-party", "1p"} # {},
         resource_types |-> ParseResourceTypeMask(options),
         original_rule_text |-> line]

\* A comment is no rule, nor is a line without a domain.
IsValid(line) == ~IsComment(line) /\ ParsedRule(line).domain_pattern # <<>>

ParseText(list) == MapSeq(ParsedRule, Pick(list, {i \in DOMAIN list : IsValid(list[i])}))
=============================================================================
