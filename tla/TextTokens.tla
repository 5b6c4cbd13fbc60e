------------------------------ MODULE TextTokens ------------------------------
(***************************************************************************)
(* Text as the parsers of the code see it: a sequence of tokens.  A token  *)
(* is a tuple whose first element is its kind.  The delimiters a parser    *)
(* looks for are kinds of their own (<<"?">>, <<"&">>, <<"@">>); what lies *)
(* between two delimiters is one token.                                    *)
(***************************************************************************)
EXTENDS Naturals, Sequences, SequencesExt

Kinds(text) == {text[i][1] : i \in DOMAIN text}
Shape(text) == [i \in DOMAIN text |-> text[i][1]]

\* Where the first token of these kinds is; one past the end if there is none.
Find(text, kinds) ==
    Min({i \in DOMAIN text : text[i][1] \in kinds} \cup {Len(text) + 1})

Before(text, kinds) == SubSeq(text, 1, Find(text, kinds) - 1)
From(text, kinds) == SubSeq(text, Find(text, kinds), Len(text))
After(text, kinds) == SubSeq(text, Find(text, kinds) + 1, Len(text))

\* The elements at these positions, in their order.
Pick(text, positions) ==
    LET Picked[n \in 0..Len(text)] ==
            IF n = 0 THEN <<>>
            ELSE IF n \in positions THEN Append(Picked[n - 1], text[n])
            ELSE Picked[n - 1]
    IN  Picked[Len(text)]

\* Where a part begins: at the front and after each delimiter.
Starts(text, kind) == {i \in DOMAIN text : i = 1 \/ text[i - 1][1] = kind}

\* What lies between the delimiters, the empty parts included but for one at the end.
Parts(text, kind) ==
    LET starts == Pick([i \in DOMAIN text |-> i], Starts(text, kind))
    IN  [k \in DOMAIN starts |-> Before(SubSeq(text, starts[k], Len(text)), {kind})]

\* std::getline until the end of the text, without its empty parts.
Items(text, kind) ==
    LET parts == Parts(text, kind)
    IN  Pick(parts, {k \in DOMAIN parts : parts[k] # <<>>})

Join(parts, kind) ==
    LET Joined[n \in 0..Len(parts)] ==
            IF n = 0 THEN <<>>
            ELSE IF n = 1 THEN parts[1]
            ELSE Joined[n - 1] \o << <<kind>> >> \o parts[n]
    IN  Joined[Len(parts)]

\* One element for each element of the sequence.
MapSeq(Op(_), seq) == [i \in DOMAIN seq |-> Op(seq[i])]
=============================================================================
