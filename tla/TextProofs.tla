------------------------------ MODULE TextProofs ------------------------------
(***************************************************************************)
(* What the operators on texts, filter lists and URLs return, for texts of *)
(* any length.                                                             *)
(***************************************************************************)
EXTENDS RuleParser, UrlText, WellFoundedInduction, FiniteSetTheorems, TLAPS

\* A set of numbers with 0 that has with each number the next one has them all.
LEMMA Induction ==
    ASSUME NEW I, 0 \in I, \A n \in Nat : n \in I => n + 1 \in I
    PROVE  Nat \subseteq I
<1> SUFFICES ASSUME NEW m \in Nat, m \notin I PROVE FALSE
    OBVIOUS
<1> DEFINE T == {n \in Nat : n \notin I}
<1>1. T \subseteq Nat /\ T # {}
    OBVIOUS
<1>2. PICK least \in T : \A y \in T : ~(<<y, least>> \in OpToRel(<, Nat))
    BY <1>1, WFMin, NatLessThanWellFounded
<1>3. \A y \in T : ~(y < least)
    BY <1>1, <1>2 DEF OpToRel
<1>4. least # 0 /\ least - 1 \in Nat /\ least - 1 \notin T
    BY <1>1, <1>3
<1> QED BY <1>4

\* A nonempty set of numbers has a least one.
LEMMA LeastElement ==
    ASSUME NEW T, T \subseteq Nat, T # {}
    PROVE  Min(T) \in T /\ \A n \in T : Min(T) <= n
<1>1. PICK least \in T : \A y \in T : ~(<<y, least>> \in OpToRel(<, Nat))
    BY WFMin, NatLessThanWellFounded
<1>2. \A y \in T : ~(y < least)
    BY <1>1 DEF OpToRel
<1>3. \A y \in T : least <= y
    BY <1>2
<1> QED BY <1>3 DEF Min

\* f is made step by step.
Unfolds(f, L, first, step) ==
    f[0] = first /\ \A n \in 1..L : f[n] = step[<<n, f[n - 1]>>]

\* A recursion over the numbers up to L has a solution.
LEMMA RecursionExists ==
    ASSUME NEW L \in Nat, NEW V, NEW first \in V, NEW step \in [(1..L) \X V -> V]
    PROVE  \E f \in [0..L -> V] : Unfolds(f, L, first, step)
<1> DEFINE Solves(f, m) == f[0] = first /\ \A n \in 1..m : f[n] = step[<<n, f[n - 1]>>]
           I == {m \in Nat : m <= L => \E f \in [0..m -> V] : Solves(f, m)}
<1>1. 0 \in I
  <2>1. [n \in 0..0 |-> first] \in [0..0 -> V] /\ Solves([n \in 0..0 |-> first], 0)
    OBVIOUS
  <2> QED BY <2>1
<1>2. ASSUME NEW m \in Nat, m \in I PROVE m + 1 \in I
  <2> SUFFICES ASSUME m + 1 <= L PROVE \E f \in [0..(m + 1) -> V] : Solves(f, m + 1)
    OBVIOUS
  <2>1. PICK f \in [0..m -> V] : Solves(f, m)
    BY <1>2
  <2> DEFINE next == step[<<m + 1, f[m]>>]
             g == [n \in 0..(m + 1) |-> IF n = m + 1 THEN next ELSE f[n]]
  <2>2. next \in V
    OBVIOUS
  <2>3. /\ g \in [0..(m + 1) -> V] /\ \A n \in 0..m : g[n] = f[n]
        /\ g[m + 1] = next
    BY <2>2
  <2> HIDE DEF g
  <2>4. g[m + 1] = step[<<m + 1, g[m]>>]
    BY <2>3
  <2>5. ASSUME NEW n \in 1..m PROVE g[n] = step[<<n, g[n - 1]>>]
    BY <2>1, <2>3
  <2>6. \A n \in 1..(m + 1) : n \in 1..m \/ n = m + 1
    OBVIOUS
  <2>7. g[0] = first
    BY <2>1, <2>3
  <2>8. (m + 1) - 1 = m
    OBVIOUS
  <2>9. Solves(g, m + 1)
    BY <2>4, <2>5, <2>6, <2>7, <2>8
  <2> QED BY <2>3, <2>9
<1> HIDE DEF I
<1>3. Nat \subseteq I
    BY <1>1, <1>2, Induction
<1> QED BY <1>3 DEF I, Unfolds

\* What is picked from the first n elements.
PickStep(P, text, positions, n) ==
    IF n \in positions THEN Append(P[n - 1], text[n]) ELSE P[n - 1]

Picks(P, text, positions) ==
    /\ P[0] = <<>> /\ Pick(text, positions) = P[Len(text)]
    /\ \A n \in 1..Len(text) : P[n] = PickStep(P, text, positions, n)

\* The recursion of Pick.
LEMMA PickRecursion ==
    ASSUME NEW S, NEW text \in Seq(S), NEW positions
    PROVE  \E P \in [0..Len(text) -> Seq(S)] : Picks(P, text, positions)
<1> DEFINE L == Len(text)
           V == Seq(S)
           Body(P, n) == IF n = 0 THEN <<>>
                         ELSE IF n \in positions THEN Append(P[n - 1], text[n])
                         ELSE P[n - 1]
           Solution(P) == P = [n \in 0..L |-> Body(P, n)]
           Picked == CHOOSE P : Solution(P)
           step == [p \in (1..L) \X V |->
                        IF p[1] \in positions THEN Append(p[2], text[p[1]]) ELSE p[2]]
<1>1. Pick(text, positions) = Picked[L]
    BY DEF Pick
<1>2. L \in Nat /\ <<>> \in V /\ step \in [(1..L) \X V -> V]
  <2>1. ASSUME NEW p \in (1..L) \X V
        PROVE  (IF p[1] \in positions THEN Append(p[2], text[p[1]]) ELSE p[2]) \in V
    OBVIOUS
  <2> QED BY <2>1
<1>3. PICK f \in [0..L -> V] : f[0] = <<>> /\ \A n \in 1..L : f[n] = step[<<n, f[n - 1]>>]
  <2>1. \E f \in [0..L -> V] : Unfolds(f, L, <<>>, step)
    <3> HIDE DEF V, L, step
    <3> QED BY <1>2, RecursionExists
  <2> QED BY <2>1 DEF Unfolds
<1>4. ASSUME NEW n \in 1..L
      PROVE  f[n] = PickStep(f, text, positions, n)
  <2>1. f[n - 1] \in V
    BY <1>2
  <2>2. <<n, f[n - 1]>> \in (1..L) \X V
    BY <2>1
  <2>3. step[<<n, f[n - 1]>>] = IF n \in positions THEN Append(f[n - 1], text[n]) ELSE f[n - 1]
    BY <2>2
  <2> QED BY <1>3, <2>3 DEF PickStep
<1>5. \A n \in 1..L : f[n] = PickStep(f, text, positions, n)
    BY <1>4
<1>6. \A n \in 0..L : f[n] = Body(f, n)
  <2>1. ASSUME NEW n \in 1..L PROVE f[n] = Body(f, n)
    BY <1>5 DEF PickStep
  <2>2. f[0] = Body(f, 0)
    BY <1>3
  <2>3. \A n \in 0..L : n = 0 \/ n \in 1..L
    BY <1>2
  <2> HIDE DEF Body
  <2> QED BY <2>1, <2>2, <2>3
<1>7. Solution(f)
    BY <1>6
<1>8. Solution(Picked)
    BY <1>7
<1>9. \A n \in 0..L : Picked[n] = Body(Picked, n)
  <2> HIDE DEF Picked
  <2> QED BY <1>8
<1>10. Picked = f
  <2> DEFINE I == {n \in Nat : n <= L => Picked[n] = f[n]}
  <2> HIDE DEF Picked
  <2>1. 0 \in I
    BY <1>2, <1>6, <1>9
  <2>2. ASSUME NEW n \in Nat, n \in I, n + 1 <= L PROVE Picked[n + 1] = f[n + 1]
    <3>1. n + 1 \in 0..L /\ n + 1 # 0 /\ (n + 1) - 1 = n
        BY <1>2, <2>2
    <3>2. Picked[n] = f[n]
        BY <1>2, <2>2
    <3>3. Picked[n + 1] = Body(Picked, n + 1) /\ f[n + 1] = Body(f, n + 1)
        BY <1>6, <1>9, <3>1
    <3> QED BY <3>1, <3>2, <3>3
  <2>4. \A n \in Nat : n \in I => n + 1 \in I
    BY <2>2
  <2> HIDE DEF I
  <2>3. Nat \subseteq I
    BY <2>1, <2>4, Induction
  <2>5. \A n \in 0..L : Picked[n] = f[n]
    BY <2>3, <1>2 DEF I
  <2> QED BY <2>5, <1>8
<1> QED BY <1>1, <1>3, <1>5, <1>10 DEF Picks

-----------------------------------------------------------------------------
(* What Pick returns *)

\* e takes the elements of s to their places in the text: to all that are chosen, in
\* their order.
Embeds(e, s, text, chosen) ==
    /\ e \in [DOMAIN s -> chosen]
    /\ \A j, k \in DOMAIN s : j < k => e[j] < e[k]
    /\ \A i \in chosen : \E k \in DOMAIN s : e[k] = i
    /\ \A k \in DOMAIN s : s[k] = text[e[k]]

\* One more place behind all others.
LEMMA EmbedsAppend ==
    ASSUME NEW S, NEW text, NEW chosen \in SUBSET Nat, NEW s \in Seq(S), NEW e,
           NEW n \in Nat, \A i \in chosen : i < n, text[n] \in S,
           Embeds(e, s, text, chosen)
    PROVE  \E f : Embeds(f, Append(s, text[n]), text, chosen \cup {n})
<1> DEFINE s2 == Append(s, text[n])
           f == [k \in DOMAIN s2 |-> IF k = Len(s) + 1 THEN n ELSE e[k]]
<1>1. /\ DOMAIN s = 1..Len(s) /\ DOMAIN s2 = 1..(Len(s) + 1)
      /\ s2[Len(s) + 1] = text[n] /\ \A k \in DOMAIN s : s2[k] = s[k]
    OBVIOUS
<1> HIDE DEF s2
<1>2. f \in [DOMAIN s2 -> chosen \cup {n}] /\ f[Len(s) + 1] = n
    BY <1>1 DEF Embeds
<1>3. \A k \in DOMAIN s : f[k] = e[k] /\ e[k] \in chosen
    BY <1>1 DEF Embeds
<1> HIDE DEF f
<1>4. \A j, k \in DOMAIN s2 : j < k => f[j] < f[k]
  <2> SUFFICES ASSUME NEW j \in DOMAIN s2, NEW k \in DOMAIN s2, j < k PROVE f[j] < f[k]
    OBVIOUS
  <2>1. j \in DOMAIN s
    BY <1>1
  <2>2. CASE k = Len(s) + 1
    BY <1>2, <1>3, <2>1, <2>2
  <2>3. CASE k \in DOMAIN s
    BY <1>3, <2>1, <2>3 DEF Embeds
  <2> QED BY <1>1, <2>2, <2>3
<1>5. \A i \in chosen \cup {n} : \E k \in DOMAIN s2 : f[k] = i
    BY <1>1, <1>2, <1>3 DEF Embeds
<1>6. \A k \in DOMAIN s2 : s2[k] = text[f[k]]
    BY <1>1, <1>2, <1>3 DEF Embeds
<1>7. Embeds(f, s2, text, chosen \cup {n})
    BY <1>2, <1>4, <1>5, <1>6 DEF Embeds
<1> QED BY <1>7 DEF s2

\* Pick takes the elements at the positions, all of them and in their order.
LEMMA PickEmbeds ==
    ASSUME NEW S, NEW text \in Seq(S), NEW positions
    PROVE  /\ Pick(text, positions) \in Seq(S)
           /\ \E e : Embeds(e, Pick(text, positions), text, positions \cap DOMAIN text)
<1>1. PICK P \in [0..Len(text) -> Seq(S)] : Picks(P, text, positions)
    BY PickRecursion
<1> DEFINE Chosen(n) == positions \cap (1..n)
           Done(n) == \E e : Embeds(e, P[n], text, Chosen(n))
           I == {n \in Nat : n <= Len(text) => Done(n)}
<1>2. 0 \in I
  <2>1. Chosen(0) = {} /\ DOMAIN P[0] = {}
    BY <1>1 DEF Picks
  <2>2. Embeds([k \in {} |-> 0], P[0], text, Chosen(0))
    BY <2>1 DEF Embeds
  <2> QED BY <2>2
<1>3. ASSUME NEW n \in Nat, n \in I PROVE n + 1 \in I
  <2> SUFFICES ASSUME n + 1 <= Len(text)
               PROVE  \E e : Embeds(e, P[n + 1], text, Chosen(n + 1))
    BY SMTT(30)
  <2>0. Done(n)
    <3> HIDE DEF Done
    <3> QED BY <1>3
  <2>1. PICK e : Embeds(e, P[n], text, Chosen(n))
    BY <2>0
  <2>2. P[n] \in Seq(S) /\ text[n + 1] \in S /\ n + 1 \in 1..Len(text) /\ (n + 1) - 1 = n
    OBVIOUS
  <2>3. P[n + 1] = IF n + 1 \in positions THEN Append(P[n], text[n + 1]) ELSE P[n]
    BY <1>1, <2>2 DEF PickStep, Picks
  <2>4. CASE n + 1 \in positions
    <3>1. Chosen(n + 1) = Chosen(n) \cup {n + 1}
        BY <2>4
    <3>2. Chosen(n) \in SUBSET Nat /\ \A i \in Chosen(n) : i < n + 1
        OBVIOUS
    <3> DEFINE m == n + 1
    <3>3. m \in Nat /\ text[m] \in S /\ \A i \in Chosen(n) : i < m
        BY <2>2, <3>2
    <3> HIDE DEF Chosen, m
    <3>4. \E f : Embeds(f, Append(P[n], text[m]), text, Chosen(n) \cup {m})
        BY <2>1, <2>2, <3>2, <3>3, EmbedsAppend
    <3> QED BY <2>3, <2>4, <3>1, <3>4 DEF m
  <2>5. CASE n + 1 \notin positions
    <3>1. Chosen(n + 1) = Chosen(n)
        BY <2>5
    <3> QED BY <2>1, <2>3, <2>5, <3>1
  <2> QED BY <2>4, <2>5
<1> HIDE DEF I
<1>4. Nat \subseteq I
    BY <1>2, <1>3, Induction
<1>5. \E e : Embeds(e, P[Len(text)], text, Chosen(Len(text)))
  <2>1. Done(Len(text))
    <3> HIDE DEF Done
    <3> QED BY <1>4 DEF I
  <2> QED BY <2>1
<1>6. Chosen(Len(text)) = positions \cap DOMAIN text
    OBVIOUS
<1> HIDE DEF Chosen
<1>7. P[Len(text)] \in Seq(S)
    OBVIOUS
<1> QED BY <1>1, <1>5, <1>6, <1>7 DEF Picks

\* The elements of Pick are those at the positions.
LEMMA PickElements ==
    ASSUME NEW S, NEW text \in Seq(S), NEW positions
    PROVE  LET picked == Pick(text, positions)
           IN  /\ \A k \in DOMAIN picked :
                    \E i \in positions \cap DOMAIN text : picked[k] = text[i]
               /\ \A i \in positions \cap DOMAIN text :
                    \E k \in DOMAIN picked : picked[k] = text[i]
<1>1. PICK e : Embeds(e, Pick(text, positions), text, positions \cap DOMAIN text)
    BY PickEmbeds
<1> QED BY <1>1 DEF Embeds

\* Of two increasing sequences of chosen places, the first is not ahead of the other.
LEMMA EmbedsLeast ==
    ASSUME NEW chosen \in SUBSET Nat, NEW a \in Nat, NEW b \in Nat,
           NEW e \in [1..a -> chosen], NEW f \in [1..b -> chosen],
           \A j, k \in 1..a : j < k => e[j] < e[k],
           \A i \in chosen : \E k \in 1..b : f[k] = i,
           \A j, k \in 1..b : j < k => f[j] < f[k],
           NEW m \in 1..a, \A k \in 1..(m - 1) : k \in 1..b => e[k] = f[k]
    PROVE  m <= b /\ f[m] <= e[m]
<1>1. PICK k \in 1..b : f[k] = e[m]
    OBVIOUS
<1>2. ~(k < m)
  <2> SUFFICES ASSUME k < m PROVE FALSE
    OBVIOUS
  <2>1. k \in 1..(m - 1) /\ k \in 1..a
    OBVIOUS
  <2>2. e[k] = e[m] /\ e[m] \in Nat
    BY <1>1, <2>1
  <2>3. e[k] < e[m]
    BY <2>1
  <2> QED BY <2>2, <2>3
<1>3. m <= b /\ m \in 1..b
    BY <1>2
<1>4. f[m] \in Nat /\ f[k] \in Nat
    BY <1>3
<1>5. m < k => f[m] < f[k]
    BY <1>3
<1>6. m = k \/ m < k
    BY <1>2
<1> QED BY <1>1, <1>3, <1>4, <1>5, <1>6

\* There is one sequence only of chosen elements in their order.
LEMMA EmbedsOnce ==
    ASSUME NEW S, NEW text, NEW chosen \in SUBSET Nat,
           NEW s \in Seq(S), NEW e, Embeds(e, s, text, chosen),
           NEW t \in Seq(S), NEW f, Embeds(f, t, text, chosen)
    PROVE  s = t
<1> DEFINE a == Len(s)
           b == Len(t)
<1>1. DOMAIN s = 1..a /\ DOMAIN t = 1..b /\ a \in Nat /\ b \in Nat
    OBVIOUS
<1>2. /\ e \in [1..a -> chosen]
      /\ \A j, k \in 1..a : j < k => e[j] < e[k]
      /\ \A i \in chosen : \E k \in 1..a : e[k] = i
      /\ \A k \in 1..a : s[k] = text[e[k]]
    BY <1>1 DEF Embeds
<1>3. /\ f \in [1..b -> chosen]
      /\ \A j, k \in 1..b : j < k => f[j] < f[k]
      /\ \A i \in chosen : \E k \in 1..b : f[k] = i
      /\ \A k \in 1..b : t[k] = text[f[k]]
    BY <1>1 DEF Embeds
<1> HIDE DEF a, b
<1> DEFINE Same(n) == /\ n \in 1..a <=> n \in 1..b
                      /\ n \in 1..a => e[n] = f[n]
           I == {n \in Nat : \A k \in 1..n : Same(k)}
<1>4. 0 \in I
    OBVIOUS
<1>5. ASSUME NEW n \in Nat, n \in I PROVE n + 1 \in I
  <2> DEFINE m == n + 1
  <2>1. m \in Nat \ {0} /\ \A k \in 1..(m - 1) : Same(k)
    BY <1>5
  <2>2. m \in 1..a => m <= b /\ f[m] <= e[m]
    <3> HIDE DEF m
    <3>1. \A k \in 1..(m - 1) : k \in 1..b => e[k] = f[k]
        BY <2>1
    <3> QED BY <1>1, <1>2, <1>3, <3>1, EmbedsLeast
  <2>3. m \in 1..b => m <= a /\ e[m] <= f[m]
    <3> HIDE DEF m
    <3>1. \A k \in 1..(m - 1) : k \in 1..a => f[k] = e[k]
        BY <2>1
    <3> QED BY <1>1, <1>2, <1>3, <3>1, EmbedsLeast
  <2> HIDE DEF m
  <2>4. m \in 1..a => e[m] \in Nat
    BY <1>2
  <2>5. m \in 1..b => f[m] \in Nat
    BY <1>3
  <2>6. Same(m)
    BY <1>1, <2>1, <2>2, <2>3, <2>4, <2>5
  <2> HIDE DEF Same
  <2>7. \A k \in 1..m : k \in 1..(m - 1) \/ k = m
    BY <2>1
  <2>8. \A k \in 1..m : Same(k)
    BY <2>1, <2>6, <2>7
  <2> QED BY <2>8 DEF m
<1> HIDE DEF I
<1>6. Nat \subseteq I
    BY <1>4, <1>5, Induction
<1>7. \A n \in Nat \ {0} : Same(n)
  <2> SUFFICES ASSUME NEW n \in Nat \ {0} PROVE Same(n)
    OBVIOUS
  <2>1. n \in I /\ n \in 1..n
    BY <1>6
  <2> HIDE DEF Same
  <2> QED BY <2>1 DEF I
<1>8. a = b
  <2>1. a # 0 => a \in 1..b
    BY <1>1, <1>7
  <2>2. b # 0 => b \in 1..a
    BY <1>1, <1>7
  <2> QED BY <1>1, <2>1, <2>2
<1>9. \A k \in 1..a : s[k] = t[k]
    BY <1>1, <1>2, <1>3, <1>7, <1>8
<1> QED BY <1>1, <1>8, <1>9 DEF a, b

-----------------------------------------------------------------------------
(* Cutting texts *)

\* Texts of one length with the same elements are the same.
LEMMA SameText ==
    ASSUME NEW S, NEW a \in Seq(S), NEW b \in Seq(S), Len(a) = Len(b),
           \A i \in 1..Len(a) : a[i] = b[i]
    PROVE  a = b
OBVIOUS

\* A text is made of its tokens.
LEMMA OfItsTokens ==
    ASSUME NEW S, NEW text \in Seq(S)
    PROVE  text \in Seq(ToSet(text))
<1>1. DOMAIN text = 1..Len(text) /\ Len(text) \in Nat
    OBVIOUS
<1>2. \A i \in DOMAIN text : text[i] \in ToSet(text)
    BY DEF ToSet
<1> QED BY <1>1, <1>2

\* Find is the first place of such a token.
LEMMA FindPlace ==
    ASSUME NEW S, NEW text \in Seq(S), NEW kinds
    PROVE  /\ Find(text, kinds) \in 1..(Len(text) + 1)
           /\ \A i \in 1..(Find(text, kinds) - 1) : text[i][1] \notin kinds
           /\ Find(text, kinds) <= Len(text) => text[Find(text, kinds)][1] \in kinds
<1> DEFINE T == {i \in DOMAIN text : text[i][1] \in kinds} \cup {Len(text) + 1}
<1>1. T \subseteq 1..(Len(text) + 1) /\ T # {} /\ Len(text) \in Nat
    OBVIOUS
<1>2. Min(T) \in T /\ \A n \in T : Min(T) <= n
  <2> HIDE DEF T
  <2>1. T \subseteq Nat
    BY <1>1
  <2> QED BY <1>1, <2>1, LeastElement
<1>3. Find(text, kinds) = Min(T)
    BY DEF Find
<1> DEFINE m == Min(T)
<1>4. m \in 1..(Len(text) + 1)
    BY <1>1, <1>2
<1>5. ASSUME NEW i \in 1..(m - 1) PROVE text[i][1] \notin kinds
  <2>1. i \in DOMAIN text /\ i < m
    BY <1>4
  <2>2. i \in Nat /\ m \in Nat /\ ~(m <= i)
    BY <1>4, <2>1
  <2>3. i \notin T
    <3> HIDE DEF T
    <3> QED BY <1>2, <2>2
  <2> HIDE DEF m
  <2> QED BY <2>1, <2>3
<1>6. ASSUME m <= Len(text) PROVE text[m][1] \in kinds
  <2>1. m \in T /\ m # Len(text) + 1
    BY <1>1, <1>2, <1>4, <1>6
  <2> HIDE DEF m
  <2> QED BY <2>1
<1> HIDE DEF m
<1>7. Find(text, kinds) = m
    BY <1>3 DEF m
<1> QED BY <1>4, <1>5, <1>6, <1>7

\* No other place is.
LEMMA FindIs ==
    ASSUME NEW S, NEW text \in Seq(S), NEW kinds, NEW n \in 1..(Len(text) + 1),
           \A i \in 1..(n - 1) : text[i][1] \notin kinds,
           n <= Len(text) => text[n][1] \in kinds
    PROVE  Find(text, kinds) = n
<1> DEFINE f == Find(text, kinds)
<1>1. /\ f \in 1..(Len(text) + 1)
      /\ \A i \in 1..(f - 1) : text[i][1] \notin kinds
      /\ f <= Len(text) => text[f][1] \in kinds
    BY FindPlace
<1> HIDE DEF f
<1>2. Len(text) \in Nat
    OBVIOUS
<1>3. ~(f < n)
  <2> SUFFICES ASSUME f < n PROVE FALSE
    OBVIOUS
  <2>1. f \in 1..(n - 1) /\ f <= Len(text)
    BY <1>1, <1>2
  <2> QED BY <1>1, <2>1
<1>4. ~(n < f)
  <2> SUFFICES ASSUME n < f PROVE FALSE
    OBVIOUS
  <2>1. n \in 1..(f - 1) /\ n <= Len(text)
    BY <1>1, <1>2
  <2> QED BY <1>1, <2>1
<1> QED BY <1>1, <1>2, <1>3, <1>4 DEF f

\* It is found if there is one.
LEMMA FindIff ==
    ASSUME NEW S, NEW text \in Seq(S), NEW kinds
    PROVE  Find(text, kinds) <= Len(text) <=> Kinds(text) \cap kinds # {}
<1>1. /\ Find(text, kinds) \in 1..(Len(text) + 1)
      /\ \A i \in 1..(Find(text, kinds) - 1) : text[i][1] \notin kinds
      /\ Find(text, kinds) <= Len(text) => text[Find(text, kinds)][1] \in kinds
    BY FindPlace
<1>2. DOMAIN text = 1..Len(text) /\ Len(text) \in Nat
    OBVIOUS
<1>3. CASE Find(text, kinds) <= Len(text)
    BY <1>1, <1>2, <1>3 DEF Kinds
<1>4. CASE ~(Find(text, kinds) <= Len(text))
  <2>1. Find(text, kinds) - 1 = Len(text)
    BY <1>1, <1>2, <1>4
  <2> QED BY <1>1, <1>2, <1>4, <2>1 DEF Kinds
<1> QED BY <1>3, <1>4

\* What Before, From and After are made of.
LEMMA Cuts ==
    ASSUME NEW S, NEW text \in Seq(S), NEW kinds
    PROVE  LET f == Find(text, kinds)
           IN  /\ Before(text, kinds) \in Seq(S) /\ Len(Before(text, kinds)) = f - 1
               /\ \A i \in 1..(f - 1) : Before(text, kinds)[i] = text[i]
               /\ From(text, kinds) \in Seq(S) /\ Len(From(text, kinds)) = Len(text) - f + 1
               /\ \A i \in 1..(Len(text) - f + 1) : From(text, kinds)[i] = text[f + i - 1]
               /\ After(text, kinds) \in Seq(S)
               /\ Len(After(text, kinds)) = IF f <= Len(text) THEN Len(text) - f ELSE 0
               /\ \A i \in 1..(Len(text) - f) : After(text, kinds)[i] = text[f + i]
<1> DEFINE f == Find(text, kinds)
<1>1. f \in 1..(Len(text) + 1) /\ Len(text) \in Nat
    BY FindPlace
<1> HIDE DEF f
<1>2. /\ SubSeq(text, 1, f - 1) \in Seq(S) /\ Len(SubSeq(text, 1, f - 1)) = f - 1
      /\ \A i \in 1..(f - 1) : SubSeq(text, 1, f - 1)[i] = text[i]
    BY <1>1
<1>3. /\ SubSeq(text, f, Len(text)) \in Seq(S)
      /\ Len(SubSeq(text, f, Len(text))) = Len(text) - f + 1
      /\ \A i \in 1..(Len(text) - f + 1) : SubSeq(text, f, Len(text))[i] = text[f + i - 1]
    BY <1>1
<1>4. /\ SubSeq(text, f + 1, Len(text)) \in Seq(S)
      /\ Len(SubSeq(text, f + 1, Len(text))) = IF f <= Len(text) THEN Len(text) - f ELSE 0
      /\ \A i \in 1..(Len(text) - f) : SubSeq(text, f + 1, Len(text))[i] = text[f + i]
    BY <1>1
<1> QED BY <1>2, <1>3, <1>4 DEF f, Before, From, After

LEMMA CutTypes ==
    ASSUME NEW S, NEW text \in Seq(S), NEW kinds
    PROVE  /\ Before(text, kinds) \in Seq(S) /\ From(text, kinds) \in Seq(S)
           /\ After(text, kinds) \in Seq(S)
BY Cuts

\* A text is what is before and what is from there on.
LEMMA CutInTwo ==
    ASSUME NEW S, NEW text \in Seq(S), NEW kinds
    PROVE  /\ text = Before(text, kinds) \o From(text, kinds)
           /\ Kinds(Before(text, kinds)) \cap kinds = {}
           /\ From(text, kinds) = <<>> <=> Kinds(text) \cap kinds = {}
           /\ From(text, kinds) # <<>> => From(text, kinds)[1][1] \in kinds
<1> DEFINE f == Find(text, kinds)
           b == Before(text, kinds)
           r == From(text, kinds)
<1>1. /\ f \in 1..(Len(text) + 1) /\ Len(text) \in Nat
      /\ \A i \in 1..(f - 1) : text[i][1] \notin kinds
      /\ f <= Len(text) => text[f][1] \in kinds
      /\ f <= Len(text) <=> Kinds(text) \cap kinds # {}
    BY FindPlace, FindIff
<1>2. /\ b \in Seq(S) /\ Len(b) = f - 1
      /\ \A i \in 1..(f - 1) : b[i] = text[i]
      /\ r \in Seq(S) /\ Len(r) = Len(text) - f + 1
      /\ \A i \in 1..(Len(text) - f + 1) : r[i] = text[f + i - 1]
    BY Cuts
<1> HIDE DEF f, b, r
<1>3. text = b \o r
  <2> DEFINE t == b \o r
  <2>1. /\ t \in Seq(S) /\ Len(t) = Len(b) + Len(r)
        /\ \A i \in 1..Len(b) : t[i] = b[i]
        /\ \A i \in 1..Len(r) : t[Len(b) + i] = r[i]
    <3>1. b \in Seq(S) /\ r \in Seq(S)
        BY <1>2
    <3> QED BY <3>1
  <2> HIDE DEF t
  <2>2. Len(t) = Len(text)
    BY <1>1, <1>2, <2>1
  <2>3. ASSUME NEW i \in 1..Len(text) PROVE t[i] = text[i]
    <3>1. CASE i < f
        BY <1>1, <1>2, <2>1, <3>1
    <3>2. CASE i >= f
        <4> DEFINE j == i - (f - 1)
        <4>1. j \in 1..Len(r) /\ Len(b) + j = i /\ f + j - 1 = i
            BY <1>1, <1>2, <3>2
        <4> HIDE DEF j
        <4>2. t[i] = r[j]
            BY <2>1, <4>1
        <4> QED BY <1>2, <4>1, <4>2
    <3> QED BY <1>1, <3>1, <3>2
  <2>4. t = text
    BY <2>1, <2>2, <2>3, SameText
  <2> QED BY <2>4 DEF t
<1>4. Kinds(b) \cap kinds = {}
  <2>1. DOMAIN b = 1..(f - 1)
    BY <1>2
  <2>2. \A i \in DOMAIN b : b[i][1] \notin kinds
    BY <1>1, <1>2, <2>1
  <2> QED BY <2>2 DEF Kinds
<1>5. r = <<>> <=> Kinds(text) \cap kinds = {}
    BY <1>1, <1>2
<1>6. r # <<>> => r[1][1] \in kinds
    BY <1>1, <1>2
<1> QED BY <1>3, <1>4, <1>5, <1>6 DEF b, r

\* The kinds of two texts one after the other.
LEMMA KindsConcat ==
    ASSUME NEW S, NEW a \in Seq(S), NEW b \in Seq(S)
    PROVE  Kinds(a \o b) = Kinds(a) \cup Kinds(b)
<1>1. /\ DOMAIN a = 1..Len(a) /\ DOMAIN b = 1..Len(b) /\ DOMAIN (a \o b) = 1..(Len(a) + Len(b))
      /\ Len(a) \in Nat /\ Len(b) \in Nat
      /\ \A i \in 1..Len(a) : (a \o b)[i] = a[i]
      /\ \A i \in 1..Len(b) : (a \o b)[Len(a) + i] = b[i]
    OBVIOUS
<1>2. \A i \in 1..(Len(a) + Len(b)) : i \in 1..Len(a) \/ \E j \in 1..Len(b) : i = Len(a) + j
  <2> SUFFICES ASSUME NEW i \in 1..(Len(a) + Len(b)), i \notin 1..Len(a)
               PROVE  \E j \in 1..Len(b) : i = Len(a) + j
    OBVIOUS
  <2>1. i - Len(a) \in 1..Len(b) /\ i = Len(a) + (i - Len(a))
    BY <1>1
  <2> QED BY <2>1
<1>3. \A j \in 1..Len(b) : Len(a) + j \in 1..(Len(a) + Len(b))
    BY <1>1
<1>4. \A i \in 1..Len(a) : i \in 1..(Len(a) + Len(b))
    BY <1>1
<1> DEFINE t == a \o b
<1>5. ASSUME NEW i \in DOMAIN t PROVE t[i][1] \in Kinds(a) \cup Kinds(b)
  <2>1. CASE i \in 1..Len(a)
    BY <1>1, <2>1 DEF Kinds
  <2>2. CASE \E j \in 1..Len(b) : i = Len(a) + j
    <3>1. PICK j \in 1..Len(b) : i = Len(a) + j
        BY <2>2
    <3>2. t[i] = b[j]
        BY <1>1, <3>1
    <3> QED BY <1>1, <3>2 DEF Kinds
  <2> QED BY <1>1, <1>2, <2>1, <2>2
<1>6. ASSUME NEW i \in DOMAIN a PROVE a[i][1] \in Kinds(t)
  <2>1. i \in DOMAIN t /\ t[i] = a[i]
    BY <1>1, <1>4
  <2> HIDE DEF t
  <2> QED BY <2>1 DEF Kinds
<1>7. ASSUME NEW j \in DOMAIN b PROVE b[j][1] \in Kinds(t)
  <2> DEFINE i == Len(a) + j
  <2>1. i \in DOMAIN t /\ t[i] = b[j]
    BY <1>1, <1>3
  <2> HIDE DEF t, i
  <2> QED BY <2>1 DEF Kinds
<1> HIDE DEF t
<1>8. Kinds(t) \subseteq Kinds(a) \cup Kinds(b)
    BY <1>5 DEF Kinds
<1>9. Kinds(a) \subseteq Kinds(t) /\ Kinds(b) \subseteq Kinds(t)
    BY <1>6, <1>7 DEF Kinds
<1> QED BY <1>8, <1>9 DEF t

\* A text cut in its first part.
LEMMA CutFirst ==
    ASSUME NEW S, NEW a \in Seq(S), NEW b \in Seq(S), NEW kinds, Kinds(a) \cap kinds # {}
    PROVE  /\ Find(a \o b, kinds) = Find(a, kinds)
           /\ Before(a \o b, kinds) = Before(a, kinds)
           /\ From(a \o b, kinds) = From(a, kinds) \o b
           /\ After(a \o b, kinds) = After(a, kinds) \o b
<1> DEFINE f == Find(a, kinds)
           t == a \o b
<1>1. /\ f \in 1..(Len(a) + 1) /\ f <= Len(a) /\ Len(a) \in Nat /\ Len(b) \in Nat
      /\ \A i \in 1..(f - 1) : a[i][1] \notin kinds
      /\ a[f][1] \in kinds
    BY FindPlace, FindIff
<1>2. /\ t \in Seq(S) /\ Len(t) = Len(a) + Len(b)
      /\ \A i \in 1..Len(a) : t[i] = a[i]
      /\ \A i \in 1..Len(b) : t[Len(a) + i] = b[i]
    OBVIOUS
<1> HIDE DEF f, t
<1>3. Find(t, kinds) = f
  <2>1. f \in 1..(Len(t) + 1) /\ \A i \in 1..(f - 1) : t[i][1] \notin kinds
    BY <1>1, <1>2
  <2>2. t[f][1] \in kinds
    BY <1>1, <1>2
  <2> QED BY <1>2, <2>1, <2>2, FindIs
<1>4. SubSeq(t, 1, f - 1) = SubSeq(a, 1, f - 1)
  <2>1. \A i \in 1..(f - 1) : SubSeq(t, 1, f - 1)[i] = SubSeq(a, 1, f - 1)[i]
    BY <1>1, <1>2
  <2> QED BY <1>1, <1>2, <2>1
<1>5. ASSUME NEW m \in 1..(Len(a) + 1) PROVE SubSeq(t, m, Len(t)) = SubSeq(a, m, Len(a)) \o b
  <2> DEFINE u == SubSeq(t, m, Len(t))
             v == SubSeq(a, m, Len(a))
  <2>0. m \in Nat /\ m >= 1 /\ m <= Len(a) + 1
    BY <1>1
  <2>1. /\ u \in Seq(S) /\ Len(u) = Len(a) + Len(b) - m + 1
        /\ \A i \in 1..Len(u) : u[i] = t[m + i - 1]
    BY <1>1, <1>2, <2>0
  <2>2. /\ v \in Seq(S) /\ Len(v) = Len(a) - m + 1
        /\ \A i \in 1..Len(v) : v[i] = a[m + i - 1]
    BY <1>1, <2>0
  <2> HIDE DEF u, v
  <2> DEFINE w == v \o b
  <2>3. /\ w \in Seq(S) /\ Len(w) = Len(v) + Len(b)
        /\ \A i \in 1..Len(v) : w[i] = v[i]
        /\ \A i \in 1..Len(b) : w[Len(v) + i] = b[i]
    <3>1. v \in Seq(S)
        BY <2>2
    <3> QED BY <3>1
  <2> HIDE DEF w
  <2>4. Len(w) = Len(u)
    BY <1>1, <2>0, <2>1, <2>2, <2>3
  <2>5. ASSUME NEW i \in 1..Len(w) PROVE w[i] = u[i]
    <3>1. CASE i <= Len(v)
        <4>1. i \in 1..Len(v) /\ m + i - 1 \in 1..Len(a)
            BY <1>1, <2>0, <2>3, <2>2, <3>1, SMTT(30)
        <4> QED BY <1>2, <2>1, <2>2, <2>3, <2>4, <4>1
    <3>2. CASE i > Len(v)
        <4> DEFINE j == i - Len(v)
        <4>1. j \in 1..Len(b) /\ Len(a) + j = m + i - 1 /\ Len(v) + j = i
            BY <1>1, <2>0, <2>2, <2>3, <3>2
        <4> HIDE DEF j
        <4>2. w[i] = b[j]
            BY <2>3, <4>1
        <4>3. t[m + i - 1] = b[j]
            BY <1>2, <4>1
        <4> QED BY <2>1, <2>4, <4>2, <4>3
    <3> QED BY <1>1, <2>2, <2>3, <3>1, <3>2
  <2>6. w = u
    BY <2>1, <2>3, <2>4, <2>5, SameText
  <2> QED BY <2>6 DEF u, v, w
<1>6. f \in 1..(Len(a) + 1) /\ f + 1 \in 1..(Len(a) + 1)
    BY <1>1
<1>7. /\ SubSeq(t, f, Len(t)) = SubSeq(a, f, Len(a)) \o b
      /\ SubSeq(t, f + 1, Len(t)) = SubSeq(a, f + 1, Len(a)) \o b
    BY <1>5, <1>6
<1> QED BY <1>3, <1>4, <1>7 DEF Before, From, After, f, t

\* A text cut behind its first part.
LEMMA CutSecond ==
    ASSUME NEW S, NEW a \in Seq(S), NEW b \in Seq(S), NEW kinds, Kinds(a) \cap kinds = {}
    PROVE  /\ Find(a \o b, kinds) = Len(a) + Find(b, kinds)
           /\ Before(a \o b, kinds) = a \o Before(b, kinds)
           /\ From(a \o b, kinds) = From(b, kinds)
           /\ After(a \o b, kinds) = After(b, kinds)
<1> DEFINE f == Find(b, kinds)
           t == a \o b
<1>1. /\ f \in 1..(Len(b) + 1) /\ Len(a) \in Nat /\ Len(b) \in Nat
      /\ \A i \in 1..(f - 1) : b[i][1] \notin kinds
      /\ f <= Len(b) => b[f][1] \in kinds
    BY FindPlace
<1>2. /\ t \in Seq(S) /\ Len(t) = Len(a) + Len(b)
      /\ \A i \in 1..Len(a) : t[i] = a[i]
      /\ \A i \in 1..Len(b) : t[Len(a) + i] = b[i]
    OBVIOUS
<1>3. \A i \in 1..Len(a) : a[i][1] \notin kinds
    BY DEF Kinds
<1> DEFINE g == Len(a) + f
<1> HIDE DEF f, t
<1>4. g \in 1..(Len(t) + 1)
    BY <1>1, <1>2
<1>5. ASSUME NEW i \in 1..(g - 1) PROVE t[i][1] \notin kinds
  <2>1. CASE i <= Len(a)
    BY <1>1, <1>2, <1>3, <2>1
  <2>2. CASE i > Len(a)
    <3> DEFINE j == i - Len(a)
    <3>1. j \in 1..(f - 1) /\ j \in 1..Len(b) /\ Len(a) + j = i
        BY <1>1, <2>2
    <3> HIDE DEF j
    <3> QED BY <1>1, <1>2, <3>1
  <2> QED BY <1>1, <2>1, <2>2
<1>6. g <= Len(t) => t[g][1] \in kinds
  <2> SUFFICES ASSUME g <= Len(t) PROVE t[g][1] \in kinds
    OBVIOUS
  <2>1. f \in 1..Len(b)
    BY <1>1, <1>2
  <2> QED BY <1>1, <1>2, <2>1
<1>7. Find(t, kinds) = g
  <2> HIDE DEF g
  <2> QED BY <1>2, <1>4, <1>5, <1>6, FindIs
<1>8. SubSeq(t, 1, g - 1) = a \o SubSeq(b, 1, f - 1)
  <2> DEFINE u == SubSeq(t, 1, g - 1)
             v == SubSeq(b, 1, f - 1)
             w == a \o v
  <2>1. /\ u \in Seq(S) /\ Len(u) = Len(a) + f - 1 /\ \A i \in 1..Len(u) : u[i] = t[i]
    BY <1>1, <1>2
  <2>2. /\ v \in Seq(S) /\ Len(v) = f - 1 /\ \A i \in 1..Len(v) : v[i] = b[i]
    BY <1>1
  <2> HIDE DEF u, v
  <2>3. /\ w \in Seq(S) /\ Len(w) = Len(a) + Len(v)
        /\ \A i \in 1..Len(a) : w[i] = a[i]
        /\ \A i \in 1..Len(v) : w[Len(a) + i] = v[i]
    <3>1. v \in Seq(S)
        BY <2>2
    <3> QED BY <3>1
  <2> HIDE DEF w
  <2>4. Len(w) = Len(u)
    BY <1>1, <2>1, <2>2, <2>3
  <2>5. ASSUME NEW i \in 1..Len(w) PROVE w[i] = u[i]
    <3>1. CASE i <= Len(a)
        <4>1. i \in 1..Len(a) /\ i \in 1..Len(u)
            BY <1>1, <2>3, <2>4, <3>1
        <4> QED BY <1>2, <2>1, <2>3, <4>1
    <3>2. CASE i > Len(a)
        <4> DEFINE j == i - Len(a)
        <4>1. j \in 1..Len(v) /\ j \in 1..Len(b) /\ Len(a) + j = i
            BY <1>1, <2>2, <2>3, <3>2
        <4> HIDE DEF j
        <4> QED BY <1>2, <2>1, <2>2, <2>3, <2>4, <4>1
    <3> QED BY <1>1, <2>3, <3>1, <3>2
  <2>6. w = u
    BY <2>1, <2>3, <2>4, <2>5, SameText
  <2> QED BY <2>6 DEF u, v, w
<1>9. ASSUME NEW m \in 1..(Len(b) + 2)
      PROVE  SubSeq(t, Len(a) + m, Len(t)) = SubSeq(b, m, Len(b))
  <2> DEFINE u == SubSeq(t, Len(a) + m, Len(t))
             v == SubSeq(b, m, Len(b))
  <2>0. m \in Nat /\ m >= 1 /\ m <= Len(b) + 2
    BY <1>1
  <2>1. /\ u \in Seq(S) /\ Len(u) = IF m <= Len(b) THEN Len(b) - m + 1 ELSE 0
        /\ \A i \in 1..Len(u) : u[i] = t[Len(a) + m + i - 1]
    BY <1>1, <1>2, <2>0
  <2>2. /\ v \in Seq(S) /\ Len(v) = IF m <= Len(b) THEN Len(b) - m + 1 ELSE 0
        /\ \A i \in 1..Len(v) : v[i] = b[m + i - 1]
    BY <1>1, <2>0
  <2> HIDE DEF u, v
  <2>3. ASSUME NEW i \in 1..Len(v) PROVE v[i] = u[i]
    <3> DEFINE j == m + i - 1
    <3>1. j \in 1..Len(b) /\ Len(a) + j = Len(a) + m + i - 1
        BY <1>1, <2>0, <2>2
    <3> HIDE DEF j
    <3>2. t[Len(a) + m + i - 1] = b[j]
        BY <1>2, <3>1
    <3> QED BY <2>1, <2>2, <3>2 DEF j
  <2>4. v = u
    BY <2>1, <2>2, <2>3, SameText
  <2> QED BY <2>4 DEF u, v
<1>10. /\ SubSeq(t, g, Len(t)) = SubSeq(b, f, Len(b))
       /\ SubSeq(t, g + 1, Len(t)) = SubSeq(b, f + 1, Len(b))
  <2>1. f \in 1..(Len(b) + 2) /\ f + 1 \in 1..(Len(b) + 2) /\ g + 1 = Len(a) + (f + 1)
    BY <1>1
  <2> QED BY <1>9, <2>1
<1> QED BY <1>7, <1>8, <1>10 DEF Before, From, After, f, t

\* A second part that is empty or begins with such a token changes nothing.
LEMMA BeforeFirst ==
    ASSUME NEW S, NEW a \in Seq(S), NEW b \in Seq(S), NEW kinds,
           b # <<>> => b[1][1] \in kinds
    PROVE  Before(a \o b, kinds) = Before(a, kinds)
<1>1. CASE Kinds(a) \cap kinds # {}
    BY <1>1, CutFirst
<1>2. CASE Kinds(a) \cap kinds = {}
  <2>1. Before(a \o b, kinds) = a \o Before(b, kinds)
    BY <1>2, CutSecond
  <2>2. Find(b, kinds) = 1
    <3>1. Len(b) \in Nat /\ (b = <<>> => Len(b) = 0)
        OBVIOUS
    <3>2. 1 \in 1..(Len(b) + 1) /\ (1 <= Len(b) => b[1][1] \in kinds)
        BY <3>1
    <3>3. \A i \in 1..(1 - 1) : b[i][1] \notin kinds
        OBVIOUS
    <3> QED BY <3>2, <3>3, FindIs
  <2>3. Before(b, kinds) = <<>>
    BY <2>2 DEF Before
  <2>4. a \o <<>> = a
    OBVIOUS
  <2>5. Find(a, kinds) = Len(a) + 1
    BY <1>2, FindIff, FindPlace
  <2>6. Before(a, kinds) = a
    BY <2>5 DEF Before
  <2> QED BY <2>1, <2>3, <2>4, <2>6
<1> QED BY <1>1, <1>2

\* Such a token at the front leaves nothing before it and all from it on.
LEMMA CutAtFront ==
    ASSUME NEW S, NEW b \in Seq(S), NEW kinds, b # <<>>, b[1][1] \in kinds
    PROVE  /\ Find(b, kinds) = 1 /\ Before(b, kinds) = <<>> /\ From(b, kinds) = b
           /\ After(b, kinds) = Tail(b)
<1>1. Len(b) \in Nat /\ 1 \in 1..(Len(b) + 1)
    OBVIOUS
<1>2. \A i \in 1..(1 - 1) : b[i][1] \notin kinds
    OBVIOUS
<1>3. Find(b, kinds) = 1
    BY <1>1, <1>2, FindIs
<1>4. SubSeq(b, 1, 1 - 1) = <<>> /\ SubSeq(b, 1, Len(b)) = b /\ SubSeq(b, 1 + 1, Len(b)) = Tail(b)
    OBVIOUS
<1> QED BY <1>3, <1>4 DEF Before, From, After

\* Nothing is cut off without such a token.
LEMMA Uncut ==
    ASSUME NEW S, NEW a \in Seq(S), NEW kinds, Kinds(a) \cap kinds = {}
    PROVE  Before(a, kinds) = a /\ From(a, kinds) = <<>> /\ After(a, kinds) = <<>>
<1>1. Find(a, kinds) = Len(a) + 1 /\ Len(a) \in Nat
    BY FindIff, FindPlace
<1>2. /\ SubSeq(a, 1, (Len(a) + 1) - 1) = a /\ SubSeq(a, Len(a) + 1, Len(a)) = <<>>
      /\ SubSeq(a, (Len(a) + 1) + 1, Len(a)) = <<>>
    OBVIOUS
<1> QED BY <1>1, <1>2 DEF Before, From, After

-----------------------------------------------------------------------------
(* Items of a text *)

\* What is joined of the first n parts.
JoinStep(J, parts, kind, n) ==
    IF n = 1 THEN parts[1] ELSE J[n - 1] \o << <<kind>> >> \o parts[n]

Joins(J, parts, kind) ==
    /\ J[0] = <<>> /\ Join(parts, kind) = J[Len(parts)]
    /\ \A n \in 1..Len(parts) : J[n] = JoinStep(J, parts, kind, n)

\* The recursion of Join.
LEMMA JoinRecursion ==
    ASSUME NEW S, NEW parts \in Seq(Seq(S)), NEW kind, <<kind>> \in S
    PROVE  \E J \in [0..Len(parts) -> Seq(S)] : Joins(J, parts, kind)
<1> DEFINE L == Len(parts)
           V == Seq(S)
           Next3(prefix, part) == prefix \o << <<kind>> >> \o part
           Body(J, n) == IF n = 0 THEN <<>> ELSE IF n = 1 THEN parts[1]
                         ELSE J[n - 1] \o << <<kind>> >> \o parts[n]
           Solution(J) == J = [n \in 0..L |-> Body(J, n)]
           Joined == CHOOSE J : Solution(J)
           step == [p \in (1..L) \X V |->
                        IF p[1] = 1 THEN parts[1] ELSE p[2] \o << <<kind>> >> \o parts[p[1]]]
<1>1. Join(parts, kind) = Joined[L]
    BY DEF Join
<1>2. L \in Nat /\ <<>> \in V /\ step \in [(1..L) \X V -> V]
  <2>1. ASSUME NEW p \in (1..L) \X V
        PROVE  (IF p[1] = 1 THEN parts[1] ELSE p[2] \o << <<kind>> >> \o parts[p[1]]) \in V
    <3>1. p[2] \in Seq(S) /\ parts[p[1]] \in Seq(S) /\ parts[1] \in Seq(S) /\ << <<kind>> >> \in Seq(S)
        OBVIOUS
    <3>2. p[2] \o << <<kind>> >> \in Seq(S)
        BY <3>1
    <3> QED BY <3>1, <3>2
  <2> QED BY <2>1
<1>3. PICK f \in [0..L -> V] : f[0] = <<>> /\ \A n \in 1..L : f[n] = step[<<n, f[n - 1]>>]
  <2>1. \E f \in [0..L -> V] : Unfolds(f, L, <<>>, step)
    <3> HIDE DEF V, L, step
    <3> QED BY <1>2, RecursionExists
  <2> QED BY <2>1 DEF Unfolds
<1>4. ASSUME NEW n \in 1..L
      PROVE  f[n] = JoinStep(f, parts, kind, n)
  <2>1. f[n - 1] \in V
    <3>1. n - 1 \in 0..L
        BY <1>2
    <3> HIDE DEF V, L
    <3> QED BY <3>1
  <2>2. <<n, f[n - 1]>> \in (1..L) \X V
    BY <2>1
  <2>3. step[<<n, f[n - 1]>>] = IF n = 1 THEN parts[1] ELSE f[n - 1] \o << <<kind>> >> \o parts[n]
    BY <2>2
  <2> HIDE DEF step, V
  <2> QED BY <1>3, <2>3 DEF JoinStep
<1>5. \A n \in 1..L : f[n] = JoinStep(f, parts, kind, n)
    BY <1>4
<1> HIDE DEF step
<1>6. \A n \in 0..L : f[n] = Body(f, n)
  <2>1. ASSUME NEW n \in 1..L PROVE f[n] = Body(f, n)
    <3>1. n # 0
        BY <1>2
    <3> HIDE DEF L
    <3> QED BY <1>5, <3>1 DEF JoinStep
  <2>2. f[0] = Body(f, 0)
    BY <1>3
  <2>3. \A n \in 0..L : n = 0 \/ n \in 1..L
    BY <1>2
  <2> HIDE DEF Body
  <2> QED BY <2>1, <2>2, <2>3
<1>7. Solution(f)
    BY <1>6
<1>8. Solution(Joined)
    BY <1>7
<1>9. \A n \in 0..L : Joined[n] = Body(Joined, n)
  <2> HIDE DEF Joined
  <2> QED BY <1>8
<1>10. Joined = f
  <2> DEFINE I == {n \in Nat : n <= L => Joined[n] = f[n]}
  <2> HIDE DEF Joined
  <2>1. 0 \in I
    <3>1. 0 \in 0..L
        BY <1>2
    <3> HIDE DEF L
    <3>2. Joined[0] = <<>> /\ f[0] = <<>>
        BY <1>6, <1>9, <3>1
    <3> QED BY <3>2
  <2>2. ASSUME NEW n \in Nat, n \in I, n + 1 <= L PROVE Joined[n + 1] = f[n + 1]
    <3>1. n + 1 \in 0..L /\ n + 1 # 0 /\ (n + 1) - 1 = n
        BY <1>2, <2>2
    <3>2. Joined[n] = f[n]
        BY <1>2, <2>2
    <3>3. Joined[n + 1] = Body(Joined, n + 1) /\ f[n + 1] = Body(f, n + 1)
        BY <1>6, <1>9, <3>1
    <3> QED BY <3>1, <3>2, <3>3
  <2>4. \A n \in Nat : n \in I => n + 1 \in I
    BY <2>2
  <2> HIDE DEF I
  <2>3. Nat \subseteq I
    BY <2>1, <2>4, Induction
  <2>5. \A n \in 0..L : Joined[n] = f[n]
    BY <2>3, <1>2 DEF I
  <2> QED BY <2>5, <1>8, SMTT(30)
<1> QED BY <1>1, <1>3, <1>5, <1>10 DEF Joins

\* What is joined is a text.
LEMMA JoinType ==
    ASSUME NEW S, NEW parts \in Seq(Seq(S)), NEW kind, <<kind>> \in S
    PROVE  Join(parts, kind) \in Seq(S)
<1>1. PICK J \in [0..Len(parts) -> Seq(S)] : Joins(J, parts, kind)
    BY JoinRecursion
<1>2. Len(parts) \in 0..Len(parts)
    OBVIOUS
<1> QED BY <1>1, <1>2 DEF Joins

\* Where the k-th part begins.
PartStarts(text, kind) == Pick([i \in DOMAIN text |-> i], Starts(text, kind))

LEMMA PartStartsEmbed ==
    ASSUME NEW S, NEW text \in Seq(S), NEW kind
    PROVE  LET starts == PartStarts(text, kind)
           IN  /\ starts \in Seq(DOMAIN text)
               /\ starts \in [1..Len(starts) -> Starts(text, kind)] /\ Len(starts) \in Nat
               /\ \A j, k \in 1..Len(starts) : j < k => starts[j] < starts[k]
               /\ \A i \in Starts(text, kind) : \E k \in 1..Len(starts) : starts[k] = i
<1> DEFINE id == [i \in DOMAIN text |-> i]
           starts == PartStarts(text, kind)
           chosen == Starts(text, kind)
           T == DOMAIN text
<1>1. id \in Seq(T) /\ DOMAIN id = T /\ chosen \cap DOMAIN id = chosen
    BY DEF Starts
<1>2. starts \in Seq(T) /\ \E e : Embeds(e, starts, id, chosen)
  <2> HIDE DEF id, T, chosen
  <2>1. Pick(id, chosen) \in Seq(T) /\ \E e : Embeds(e, Pick(id, chosen), id, chosen \cap DOMAIN id)
    BY <1>1, PickEmbeds
  <2> QED BY <1>1, <2>1 DEF PartStarts, id, chosen
<1>3. PICK e : Embeds(e, starts, id, chosen)
    BY <1>2
<1> HIDE DEF starts
<1>4. DOMAIN starts = 1..Len(starts) /\ Len(starts) \in Nat
    BY <1>2
<1>5. chosen \subseteq T
    BY DEF Starts
<1> HIDE DEF chosen
<1>6. \A k \in 1..Len(starts) : starts[k] = e[k] /\ e[k] \in chosen
    BY <1>3, <1>4, <1>5 DEF Embeds
<1>7. starts \in [1..Len(starts) -> chosen]
    BY <1>2, <1>4, <1>6
<1>8. \A j, k \in 1..Len(starts) : j < k => starts[j] < starts[k]
    BY <1>3, <1>4, <1>6 DEF Embeds
<1>9. \A i \in chosen : \E k \in 1..Len(starts) : starts[k] = i
    BY <1>3, <1>4, <1>6 DEF Embeds
<1> QED BY <1>2, <1>4, <1>7, <1>8, <1>9 DEF starts, chosen

\* The parts of a text are texts.
LEMMA PartsType ==
    ASSUME NEW S, NEW text \in Seq(S), NEW kind
    PROVE  Parts(text, kind) \in Seq(Seq(S))
<1> DEFINE starts == PartStarts(text, kind)
<1>1. starts \in Seq(DOMAIN text) /\ DOMAIN starts = 1..Len(starts) /\ Len(starts) \in Nat
    BY PartStartsEmbed
<1> DEFINE kinds == {kind}
           Rest(k) == SubSeq(text, starts[k], Len(text))
<1>2. Parts(text, kind) = [k \in DOMAIN starts |-> Before(Rest(k), kinds)]
    BY DEF Parts, PartStarts
<1> HIDE DEF starts, kinds
<1>3. ASSUME NEW k \in DOMAIN starts PROVE Before(Rest(k), kinds) \in Seq(S)
  <2>1. starts[k] \in 1..Len(text)
    BY <1>1
  <2>2. Rest(k) \in Seq(S)
    BY <2>1
  <2> HIDE DEF Rest
  <2> QED BY <2>2, CutTypes
<1> HIDE DEF Rest
<1> QED BY <1>1, <1>2, <1>3

LEMMA ItemsType ==
    ASSUME NEW S, NEW text \in Seq(S), NEW kind
    PROVE  /\ Items(text, kind) \in Seq(Seq(S))
           /\ \A k \in DOMAIN Items(text, kind) : Items(text, kind)[k] # <<>>
<1> DEFINE parts == Parts(text, kind)
           chosen == {k \in DOMAIN parts : parts[k] # <<>>}
           T == Seq(S)
<1>1. parts \in Seq(T)
    BY PartsType
<1>2. Items(text, kind) = Pick(parts, chosen)
    BY DEF Items
<1>3. /\ Pick(parts, chosen) \in Seq(T)
      /\ \A k \in DOMAIN Pick(parts, chosen) :
            \E i \in chosen \cap DOMAIN parts : Pick(parts, chosen)[k] = parts[i]
  <2> HIDE DEF parts, chosen, T
  <2>1. Pick(parts, chosen) \in Seq(T)
    BY <1>1, PickEmbeds
  <2>2. \A k \in DOMAIN Pick(parts, chosen) :
            \E i \in chosen \cap DOMAIN parts : Pick(parts, chosen)[k] = parts[i]
    BY <1>1, PickElements
  <2> QED BY <2>1, <2>2
<1> HIDE DEF parts
<1> QED BY <1>2, <1>3

\* What a text is from a place on.
Suffix(text, i) == SubSeq(text, i, Len(text))

\* The part that begins there.
PartAt(text, kind, i) == Before(Suffix(text, i), {kind})

\* A part begins where the text begins or behind a delimiter, and ends before the next.
LEMMA PartIs ==
    ASSUME NEW S, NEW text \in Seq(S), NEW kind
    PROVE  LET starts == PartStarts(text, kind)
           IN  /\ DOMAIN Parts(text, kind) = 1..Len(starts)
               /\ \A k \in 1..Len(starts) :
                    Parts(text, kind)[k] = PartAt(text, kind, starts[k])
<1>1. PartStarts(text, kind) \in Seq(DOMAIN text)
    BY PartStartsEmbed
<1> QED BY <1>1 DEF Parts, PartStarts, PartAt, Suffix

\* A part that begins with a delimiter is empty, any other begins with its token.
LEMMA PartBegins ==
    ASSUME NEW S, NEW text \in Seq(S), NEW kind, NEW i \in DOMAIN text
    PROVE  /\ PartAt(text, kind, i) \in Seq(S)
           /\ PartAt(text, kind, i) = <<>> <=> text[i][1] = kind
           /\ PartAt(text, kind, i) # <<>> => PartAt(text, kind, i)[1] = text[i]
<1> DEFINE rest == Suffix(text, i)
           kinds == {kind}
           part == Before(rest, kinds)
<1>1. rest \in Seq(S) /\ Len(rest) >= 1 /\ rest[1] = text[i] /\ Len(rest) \in Nat
    BY DEF Suffix
<1> HIDE DEF rest, kinds
<1>2. /\ Find(rest, kinds) \in 1..(Len(rest) + 1)
      /\ \A j \in 1..(Find(rest, kinds) - 1) : rest[j][1] \notin kinds
      /\ Find(rest, kinds) <= Len(rest) => rest[Find(rest, kinds)][1] \in kinds
    BY <1>1, FindPlace
<1>3. /\ part \in Seq(S) /\ Len(part) = Find(rest, kinds) - 1
      /\ \A j \in 1..(Find(rest, kinds) - 1) : part[j] = rest[j]
    BY <1>1, Cuts
<1> HIDE DEF part
<1>4. CASE Find(rest, kinds) = 1
  <2>1. part = <<>> /\ rest[1][1] \in kinds
    BY <1>1, <1>2, <1>3, <1>4
  <2> QED BY <1>1, <1>3, <2>1 DEF part, rest, kinds, PartAt
<1>5. CASE Find(rest, kinds) # 1
  <2>1. 1 \in 1..(Find(rest, kinds) - 1)
    BY <1>1, <1>2, <1>5
  <2>2. part # <<>> /\ part[1] = rest[1] /\ rest[1][1] \notin kinds
    BY <1>2, <1>3, <2>1
  <2> QED BY <1>1, <1>3, <2>2 DEF part, rest, kinds, PartAt
<1> QED BY <1>4, <1>5

\* The items begin with the tokens at the starts that are no delimiters.
LEMMA ItemsBegin ==
    ASSUME NEW S, NEW text \in Seq(S), NEW kind
    PROVE  {part[1] : part \in ToSet(Items(text, kind))}
           = {text[i] : i \in {j \in Starts(text, kind) : text[j][1] # kind}}
<1> DEFINE starts == PartStarts(text, kind)
           parts == Parts(text, kind)
           items == Items(text, kind)
           chosen == {k \in DOMAIN parts : parts[k] # <<>>}
           T == Seq(S)
           begins == Starts(text, kind)
<1>1. /\ starts \in [1..Len(starts) -> begins]
      /\ \A i \in begins : \E k \in 1..Len(starts) : starts[k] = i
    BY PartStartsEmbed
<1>2. DOMAIN parts = 1..Len(starts) /\ parts \in Seq(T)
    BY PartIs, PartsType
<1>3. begins \subseteq DOMAIN text
    BY DEF Starts
<1>4. \A k \in DOMAIN parts :
        (parts[k] = <<>> <=> text[starts[k]][1] = kind)
        /\ (parts[k] # <<>> => parts[k][1] = text[starts[k]])
  <2> SUFFICES ASSUME NEW k \in DOMAIN parts
               PROVE  /\ parts[k] = <<>> <=> text[starts[k]][1] = kind
                      /\ parts[k] # <<>> => parts[k][1] = text[starts[k]]
    OBVIOUS
  <2> DEFINE i == starts[k]
  <2>1. parts[k] = PartAt(text, kind, i)
    BY <1>2, PartIs
  <2>2. i \in DOMAIN text
    BY <1>1, <1>2, <1>3
  <2> HIDE DEF starts, parts, i
  <2>3. /\ PartAt(text, kind, i) = <<>> <=> text[i][1] = kind
        /\ PartAt(text, kind, i) # <<>> => PartAt(text, kind, i)[1] = text[i]
    BY <2>2, PartBegins
  <2> QED BY <2>1, <2>3 DEF i
<1>5. items = Pick(parts, chosen)
    BY DEF Items
<1>6. /\ \A n \in DOMAIN items : \E k \in chosen : items[n] = parts[k]
      /\ \A k \in chosen : \E n \in DOMAIN items : items[n] = parts[k]
  <2> DEFINE picked == Pick(parts, chosen)
  <2>1. chosen \cap DOMAIN parts = chosen
    OBVIOUS
  <2> HIDE DEF parts, chosen, T
  <2>2. \A n \in DOMAIN picked : \E k \in chosen \cap DOMAIN parts : picked[n] = parts[k]
    BY <1>2, PickElements
  <2>3. \A k \in chosen \cap DOMAIN parts : \E n \in DOMAIN picked : picked[n] = parts[k]
    BY <1>2, PickElements
  <2> HIDE DEF items
  <2> QED BY <1>5, <2>1, <2>2, <2>3
<1> HIDE DEF items, parts, starts, begins
<1>7. ToSet(items) = {parts[k] : k \in chosen}
  <2> HIDE DEF chosen
  <2> QED BY <1>6 DEF ToSet
<1>8. ASSUME NEW k \in chosen
      PROVE  \E j \in begins : text[j][1] # kind /\ parts[k][1] = text[j]
  <2>1. k \in DOMAIN parts /\ parts[k] # <<>>
    OBVIOUS
  <2>2. starts[k] \in begins
    BY <1>1, <1>2, <2>1
  <2> QED BY <1>4, <2>1, <2>2
<1>9. ASSUME NEW j \in begins, text[j][1] # kind
      PROVE  \E k \in chosen : parts[k][1] = text[j]
  <2>1. PICK k \in 1..Len(starts) : starts[k] = j
    BY <1>1
  <2> QED BY <1>2, <1>4, <1>9, <2>1
<1> HIDE DEF chosen
<1>10. {part[1] : part \in ToSet(items)} = {parts[k][1] : k \in chosen}
    BY <1>7
<1>11. {parts[k][1] : k \in chosen} = {text[i] : i \in {j \in begins : text[j][1] # kind}}
    BY <1>8, <1>9
<1> QED BY <1>10, <1>11 DEF items, begins

\* A suffix is the text from a place on.
LEMMA SuffixIs ==
    ASSUME NEW S, NEW d \in Seq(S), NEW h \in Seq(S), d # <<>>
    PROVE  IsSuffix(d, h) <=> \E k \in DOMAIN h : d = Suffix(h, k)
<1> DEFINE m == Len(d)
           n == Len(h)
           rd == Reverse(d)
           rh == Reverse(h)
           front == SubSeq(rh, 1, m)
           k0 == n - m + 1
<1>1. m \in Nat /\ n \in Nat /\ m >= 1 /\ DOMAIN h = 1..n /\ DOMAIN d = 1..m
    OBVIOUS
<1>2. rd \in Seq(S) /\ Len(rd) = m /\ \A i \in 1..m : rd[i] = d[m - i + 1]
    BY <1>1 DEF Reverse
<1>3. rh \in Seq(S) /\ Len(rh) = n /\ \A i \in 1..n : rh[i] = h[n - i + 1]
    BY <1>1 DEF Reverse
<1>4. IsSuffix(d, h) <=> m <= n /\ rd = front
  <2>1. IsSuffix(d, h) <=> Len(rd) <= Len(rh) /\ SubSeq(rd, 1, Len(rd)) = SubSeq(rh, 1, Len(rd))
    BY DEF IsSuffix, IsPrefix
  <2> HIDE DEF rd, rh
  <2>2. SubSeq(rd, 1, Len(rd)) = rd
    BY <1>2
  <2> QED BY <1>2, <1>3, <2>1, <2>2
<1> HIDE DEF rd, rh
<1>5. m <= n => front \in Seq(S) /\ Len(front) = m /\ \A i \in 1..m : front[i] = rh[i]
    BY <1>1, <1>3
<1> HIDE DEF front
<1>6. IsSuffix(d, h) => d = Suffix(h, k0) /\ k0 \in DOMAIN h
  <2> SUFFICES ASSUME m <= n, rd = front PROVE d = Suffix(h, k0) /\ k0 \in DOMAIN h
    BY <1>4
  <2> DEFINE u == Suffix(h, k0)
  <2> HIDE DEF m, n
  <2>1. k0 \in 1..n
    BY <1>1
  <2>2. u \in Seq(S) /\ Len(u) = m /\ \A i \in 1..m : u[i] = h[n - m + i]
    <3> DEFINE v == SubSeq(h, k0, n)
    <3>1. v \in Seq(S) /\ Len(v) = n - k0 + 1 /\ \A i \in 1..(n - k0 + 1) : v[i] = h[k0 + i - 1]
        BY <1>1, <2>1 DEF n
    <3> HIDE DEF v
    <3>2. \A i \in 1..m : k0 + i - 1 = n - m + i
        BY <1>1
    <3>3. n - k0 + 1 = m
        BY <1>1
    <3>4. v \in Seq(S) /\ Len(v) = m /\ \A i \in 1..m : v[i] = h[n - m + i]
        BY <3>1, <3>2, <3>3
    <3> QED BY <3>4 DEF v, Suffix, n
  <2> HIDE DEF u, k0
  <2>3. ASSUME NEW i \in 1..m PROVE u[i] = d[i]
    <3> DEFINE j == m - i + 1
    <3>1. j \in 1..m /\ j \in 1..n /\ m - j + 1 = i /\ n - j + 1 = n - m + i
        BY <1>1
    <3> HIDE DEF j
    <3>2. d[i] = rd[j] /\ rh[j] = h[n - m + i]
        BY <1>2, <1>3, <3>1
    <3> QED BY <1>5, <2>2, <3>1, <3>2
  <2>4. u = d
    BY <2>2, <2>3, SameText DEF m
  <2> QED BY <1>1, <2>1, <2>4 DEF u
<1>7. ASSUME NEW k \in DOMAIN h, d = Suffix(h, k) PROVE IsSuffix(d, h)
  <2> HIDE DEF m, n
  <2>1. Len(d) = n - k + 1 /\ \A i \in 1..(n - k + 1) : d[i] = h[k + i - 1]
    <3> DEFINE v == SubSeq(h, k, n)
    <3>1. Len(v) = n - k + 1 /\ \A i \in 1..(n - k + 1) : v[i] = h[k + i - 1]
        BY <1>1 DEF n
    <3> HIDE DEF v
    <3>2. d = v
        BY <1>7 DEF Suffix, n, v
    <3> QED BY <3>1, <3>2
  <2>2. m = n - k + 1 /\ k \in 1..n /\ m <= n
    BY <1>1, <2>1 DEF m
  <2>3. ASSUME NEW i \in 1..m PROVE rd[i] = front[i]
    <3> DEFINE j == m - i + 1
    <3>1. j \in 1..m /\ i \in 1..n /\ k + j - 1 = n - i + 1
        BY <1>1, <2>2
    <3> HIDE DEF j
    <3>2. d[j] = h[n - i + 1]
        BY <2>1, <2>2, <3>1
    <3> QED BY <1>2, <1>3, <1>5, <2>2, <3>1, <3>2 DEF j
  <2>4. rd = front
    BY <1>2, <1>5, <2>2, <2>3, SameText
  <2> QED BY <1>4, <2>2, <2>4
<1> QED BY <1>6, <1>7

-----------------------------------------------------------------------------
(* Lines of a filter list *)

\* What the tokens of a kind say.
Values(text, kind) == {text[i][2] : i \in {j \in DOMAIN text : text[j][1] = kind}}

LEMMA ValuesConcat ==
    ASSUME NEW S, NEW a \in Seq(S), NEW b \in Seq(S), NEW kind
    PROVE  Values(a \o b, kind) = Values(a, kind) \cup Values(b, kind)
<1> DEFINE t == a \o b
<1>1. /\ DOMAIN a = 1..Len(a) /\ DOMAIN b = 1..Len(b) /\ DOMAIN t = 1..(Len(a) + Len(b))
      /\ Len(a) \in Nat /\ Len(b) \in Nat
      /\ \A i \in 1..Len(a) : t[i] = a[i]
      /\ \A i \in 1..Len(b) : t[Len(a) + i] = b[i]
    OBVIOUS
<1> HIDE DEF t
<1>2. ASSUME NEW i \in DOMAIN t, t[i][1] = kind
      PROVE  t[i][2] \in Values(a, kind) \cup Values(b, kind)
  <2>1. CASE i \in 1..Len(a)
    BY <1>1, <1>2, <2>1 DEF Values
  <2>2. CASE i \notin 1..Len(a)
    <3> DEFINE j == i - Len(a)
    <3>1. j \in DOMAIN b /\ Len(a) + j = i
        BY <1>1, <2>2
    <3> HIDE DEF j
    <3>2. t[i] = b[j]
        BY <1>1, <3>1
    <3> QED BY <1>2, <3>1, <3>2 DEF Values
  <2> QED BY <2>1, <2>2
<1>3. ASSUME NEW i \in DOMAIN a, a[i][1] = kind PROVE a[i][2] \in Values(t, kind)
  <2>1. i \in DOMAIN t /\ t[i] = a[i]
    BY <1>1
  <2> QED BY <1>3, <2>1 DEF Values
<1>4. ASSUME NEW j \in DOMAIN b, b[j][1] = kind PROVE b[j][2] \in Values(t, kind)
  <2> DEFINE i == Len(a) + j
  <2>1. i \in DOMAIN t /\ t[i] = b[j]
    BY <1>1
  <2> HIDE DEF i
  <2> QED BY <1>4, <2>1 DEF Values
<1>5. Values(t, kind) \subseteq Values(a, kind) \cup Values(b, kind)
    BY <1>2 DEF Values
<1>6. Values(a, kind) \subseteq Values(t, kind) /\ Values(b, kind) \subseteq Values(t, kind)
    BY <1>3, <1>4 DEF Values
<1> QED BY <1>5, <1>6 DEF t

LEMMA ValuesNone ==
    ASSUME NEW text, NEW kind, kind \notin Kinds(text)
    PROVE  Values(text, kind) = {}
BY DEF Values, Kinds

\* The options are the names of the tokens that begin the items.
LEMMA OptionsAre ==
    ASSUME NEW S, NEW text \in Seq(S),
           \A i \in DOMAIN text :
                text[i][1] = "," \/ (text[i][1] = "option" /\ i \in Starts(text, ","))
    PROVE  Options(text) = Values(text, "option")
<1> DEFINE begin == {part[1] : part \in ToSet(Items(text, ","))}
           chosen == {j \in Starts(text, ",") : text[j][1] # ","}
<1>1. begin = {text[i] : i \in chosen}
    BY ItemsBegin
<1>2. Options(text) = {token[2] : token \in begin}
    BY DEF Options
<1>3. chosen = {j \in DOMAIN text : text[j][1] = "option"}
    BY DEF Starts
<1> HIDE DEF begin, chosen
<1>4. {token[2] : token \in begin} = {text[i][2] : i \in chosen}
    BY <1>1
<1> QED BY <1>2, <1>3, <1>4 DEF Values

\* A text has the length of its shape.
LEMMA ShapeIs ==
    ASSUME NEW S, NEW text \in Seq(S), NEW K, NEW s \in Seq(K)
    PROVE  Shape(text) = s <=> Len(text) = Len(s) /\ \A i \in 1..Len(s) : text[i][1] = s[i]
<1>1. /\ DOMAIN text = 1..Len(text) /\ Len(text) \in Nat /\ Len(s) \in Nat
      /\ DOMAIN s = 1..Len(s)
    OBVIOUS
<1>2. DOMAIN Shape(text) = 1..Len(text) /\ \A i \in 1..Len(text) : Shape(text)[i] = text[i][1]
    BY <1>1 DEF Shape
<1>3. \A m, n \in Nat : 1..m = 1..n => m = n
  <2> SUFFICES ASSUME NEW m \in Nat, NEW n \in Nat, 1..m = 1..n PROVE m = n
    OBVIOUS
  <2>1. m # 0 => m \in 1..n
    OBVIOUS
  <2>2. n # 0 => n \in 1..m
    OBVIOUS
  <2> QED BY <2>1, <2>2
<1>4. ASSUME Shape(text) = s PROVE Len(text) = Len(s) /\ \A i \in 1..Len(s) : text[i][1] = s[i]
  <2>1. 1..Len(text) = 1..Len(s)
    BY <1>1, <1>2, <1>4
  <2>2. Len(text) = Len(s)
    BY <1>1, <1>3, <2>1
  <2> QED BY <1>2, <1>4, <2>2
<1>5. ASSUME Len(text) = Len(s), \A i \in 1..Len(s) : text[i][1] = s[i] PROVE Shape(text) = s
    BY <1>1, <1>5 DEF Shape
<1> QED BY <1>4, <1>5

\* What WithoutPrefix takes off.
LEMMA PrefixCut ==
    ASSUME NEW S, NEW text \in Seq(S), NEW kind
    PROVE  /\ WithoutPrefix(text, kind) \in Seq(S)
           /\ \E p \in Seq(S) : text = p \o WithoutPrefix(text, kind) /\ Kinds(p) \subseteq {kind}
<1>1. CASE text # <<>> /\ text[1][1] = kind
  <2> DEFINE p == <<text[1]>>
  <2>1. Tail(text) \in Seq(S) /\ p \in Seq(S) /\ text = p \o Tail(text)
    BY <1>1
  <2>2. Kinds(p) \subseteq {kind}
    BY <1>1 DEF Kinds
  <2>3. WithoutPrefix(text, kind) = Tail(text)
    BY <1>1 DEF WithoutPrefix
  <2> QED BY <2>1, <2>2, <2>3
<1>2. CASE ~(text # <<>> /\ text[1][1] = kind)
  <2>1. <<>> \in Seq(S) /\ text = <<>> \o text /\ Kinds(<<>>) \subseteq {kind}
    BY DEF Kinds
  <2>2. WithoutPrefix(text, kind) = text
    BY <1>2 DEF WithoutPrefix
  <2> QED BY <2>1, <2>2
<1> QED BY <1>1, <1>2

\* A rule without its prefixes, its "^" and its options.
IsPattern(text) ==
    /\ Len(text) \in {1, 2} /\ text[1][1] = "domain"
    /\ Len(text) = 2 => text[2][1] = "/" /\ text[2][2] # ""

\* The domain and the path are what the tokens of these kinds say.
LEMMA PatternValues ==
    ASSUME NEW S, NEW text \in Seq(S), IsPattern(text)
    PROVE  /\ Values(text, "domain") = {DomainOf(text)} /\ Values(text, "option") = {}
           /\ Values(text, "/") = IF PathOf(text) = "" THEN {} ELSE {PathOf(text)}
<1> DEFINE kinds == {"/"}
<1>1. DOMAIN text = 1..Len(text) /\ Len(text) \in Nat
    OBVIOUS
<1>8. Len(text) = 1 \/ Len(text) = 2
    BY DEF IsPattern
<1>9. text[1][1] = "domain" /\ (Len(text) = 2 => text[2][1] = "/" /\ text[2][2] # "")
    BY DEF IsPattern
<1>2. Find(text, kinds) = 2
  <2>1. 2 <= Len(text) => text[2][1] \in kinds
    <3>1. 2 <= Len(text) => Len(text) = 2
        BY <1>1, <1>8
    <3> QED BY <1>9, <3>1
  <2>2. ASSUME NEW i \in 1..(2 - 1) PROVE text[i][1] \notin kinds
    <3>1. i = 1
        OBVIOUS
    <3> QED BY <1>9, <3>1
  <2>3. 2 \in 1..(Len(text) + 1)
    BY <1>8, SMTT(30)
  <2> HIDE DEF kinds
  <2> QED BY <2>1, <2>2, <2>3, FindIs
<1>3. /\ Before(text, {"/"}) \in Seq(S) /\ Len(Before(text, {"/"})) = 1
      /\ Before(text, {"/"})[1] = text[1]
  <2> DEFINE f == Find(text, kinds)
             part == Before(text, kinds)
  <2> HIDE DEF kinds
  <2>1. part \in Seq(S) /\ Len(part) = f - 1 /\ \A i \in 1..(f - 1) : part[i] = text[i]
    BY Cuts
  <2> HIDE DEF part
  <2>2. part \in Seq(S) /\ Len(part) = 1 /\ part[1] = text[1]
    BY <1>2, <2>1
  <2> QED BY <2>2 DEF kinds, part
<1>4. DomainOf(text) = text[1][2]
  <2>1. Before(text, {"/"}) # <<>>
    BY <1>3
  <2> QED BY <1>3, <2>1 DEF DomainOf
<1>5. /\ From(text, {"/"}) \in Seq(S) /\ Len(From(text, {"/"})) = Len(text) - 1
      /\ Len(text) = 2 => From(text, {"/"})[1] = text[2]
  <2> DEFINE f == Find(text, kinds)
             part == From(text, kinds)
  <2> HIDE DEF kinds
  <2>1. /\ part \in Seq(S) /\ Len(part) = Len(text) - f + 1
        /\ \A i \in 1..(Len(text) - f + 1) : part[i] = text[f + i - 1]
    BY Cuts
  <2> HIDE DEF part
  <2>2. part \in Seq(S) /\ Len(part) = Len(text) - 1 /\ (Len(text) = 2 => part[1] = text[2])
    BY <1>1, <1>2, <2>1
  <2> QED BY <2>2 DEF kinds, part
<1>6. CASE Len(text) = 1
  <2>1. DOMAIN text = {1}
    BY <1>1, <1>6
  <2>2. From(text, {"/"}) = <<>>
    BY <1>5, <1>6
  <2>3. PathOf(text) = ""
    BY <2>2 DEF PathOf
  <2>4. Values(text, "domain") = {text[1][2]} /\ Values(text, "option") = {} /\ Values(text, "/") = {}
    BY <2>1 DEF Values, IsPattern
  <2> QED BY <1>4, <2>3, <2>4
<1>7. CASE Len(text) = 2
  <2>1. DOMAIN text = {1, 2}
    BY <1>1, <1>7
  <2>2. From(text, {"/"}) # <<>> /\ From(text, {"/"})[1] = text[2]
    BY <1>5, <1>7
  <2>3. PathOf(text) = text[2][2] /\ PathOf(text) # ""
    BY <1>7, <2>2 DEF PathOf, IsPattern
  <2>4. /\ Values(text, "domain") = {text[1][2]} /\ Values(text, "option") = {}
        /\ Values(text, "/") = {text[2][2]}
    BY <1>7, <2>1 DEF Values, IsPattern
  <2> QED BY <1>4, <2>3, <2>4
<1> QED BY <1>6, <1>7 DEF IsPattern

\* What a line has besides its pattern and its options says nothing of them.
LEMMA OtherValues ==
    ASSUME NEW S, NEW text \in Seq(S), NEW kind \in {"domain", "/", "option"},
           Kinds(text) \subseteq {"@@", "||", "^"}
    PROVE  Values(text, kind) = {}
BY ValuesNone

RuleTokens == {"||", "domain", "/", "^"}

\* The shapes a line goes through when its prefixes and its "^" are taken off.
AreShapes(s1, s2, s3) ==
    /\ s1 \in Seq(RuleTokens) /\ s1 # <<>> /\ s1[1] # "@@"
    /\ s2 \in Seq(RuleTokens) /\ s2 # <<>> /\ s2[1] # "||"
    /\ s3 \in Seq(RuleTokens) /\ s3 # <<>> /\ s3[Len(s3)] # "^"
    /\ s3 = <<"domain">> \/ s3 = <<"domain", "/">>

LEMMA PatternShapes ==
    ASSUME NEW q \in {<<>>, <<"/">>}, NEW c \in {<<>>, <<"^">>}, NEW a \in {<<>>, <<"||">>}
    PROVE  AreShapes(a \o ((<<"domain">> \o q) \o c), (<<"domain">> \o q) \o c,
                     <<"domain">> \o q)
<1> DEFINE K == {"||", "domain", "/", "^"}
           s3 == <<"domain">> \o q
           s2 == s3 \o c
           s1 == a \o s2
<1>1. s3 = <<"domain">> \/ s3 = <<"domain", "/">>
  <2>1. CASE q = <<>>
    BY <2>1
  <2>2. CASE q = <<"/">>
    <3> DEFINE x == <<"domain">>
               y == <<"/">>
               z == x \o y
               w == <<"domain", "/">>
               T == {"domain", "/"}
    <3>2. x \in Seq(T) /\ y \in Seq(T) /\ x[1] = "domain" /\ y[1] = "/" /\ Len(x) = 1 /\ Len(y) = 1
        OBVIOUS
    <3>3. w \in Seq(T) /\ w[1] = "domain" /\ w[2] = "/" /\ Len(w) = 2
        OBVIOUS
    <3> HIDE DEF x, y, T
    <3>4. z \in Seq(T) /\ Len(z) = 2 /\ z[1] = x[1] /\ z[2] = y[1]
        <4>1. x \in Seq(T) /\ y \in Seq(T)
            BY <3>2
        <4>2. /\ z \in Seq(T) /\ Len(z) = Len(x) + Len(y)
              /\ \A i \in 1..Len(x) : z[i] = x[i]
              /\ \A i \in 1..Len(y) : z[Len(x) + i] = y[i]
            BY <4>1
        <4> HIDE DEF z
        <4>3. 1 \in 1..1
            OBVIOUS
        <4> QED BY <3>2, <4>2, <4>3
    <3> HIDE DEF z, w
    <3>5. \A i \in 1..2 : i = 1 \/ i = 2
        OBVIOUS
    <3>6. \A i \in 1..Len(z) : z[i] = w[i]
        BY <3>2, <3>3, <3>4, <3>5
    <3>7. z = w
        BY <3>3, <3>4, <3>6, SameText
    <3>1. <<"domain">> \o <<"/">> = <<"domain", "/">>
        BY <3>7 DEF x, y, z, w
    <3> QED BY <2>2, <3>1
  <2> QED BY <2>1, <2>2
<1> HIDE DEF s3
<1>2. /\ s3 \in Seq(K) /\ s3 # <<>> /\ s3[Len(s3)] # "^" /\ s3[1] = "domain"
  <2>1. CASE s3 = <<"domain">>
    BY <2>1
  <2>2. CASE s3 = <<"domain", "/">>
    BY <2>2
  <2> QED BY <1>1, <2>1, <2>2
<1>3. a \in Seq(K) /\ c \in Seq(K) /\ Len(s3) >= 1
  <2>1. <<>> \in Seq(K) /\ <<"||">> \in Seq(K) /\ <<"^">> \in Seq(K)
    OBVIOUS
  <2>2. Len(s3) >= 1
    BY <1>2
  <2> QED BY <2>1, <2>2
<1> HIDE DEF K
<1>4. s2 \in Seq(K) /\ s2 # <<>> /\ s2[1] = "domain"
  <2>1. s2 \in Seq(K) /\ Len(s2) = Len(s3) + Len(c) /\ \A i \in 1..Len(s3) : s2[i] = s3[i]
    <3>1. s3 \in Seq(K) /\ c \in Seq(K)
        BY <1>2, <1>3
    <3> QED BY <3>1
  <2> HIDE DEF s2
  <2>2. 1 \in 1..Len(s3) /\ Len(c) \in Nat /\ Len(s3) \in Nat
    BY <1>2, <1>3
  <2> QED BY <1>2, <2>1, <2>2
<1> HIDE DEF s2
<1>5. s1 \in Seq(K) /\ s1 # <<>> /\ s1[1] # "@@"
  <2>1. CASE a = <<>>
    <3>1. s1 = s2
        BY <1>4, <2>1
    <3> QED BY <1>4, <3>1
  <2>2. CASE a = <<"||">>
    <3>1. s1 \in Seq(K) /\ Len(s1) = Len(a) + Len(s2) /\ \A i \in 1..Len(a) : s1[i] = a[i]
        <4>1. a \in Seq(K) /\ s2 \in Seq(K)
            BY <1>3, <1>4
        <4> QED BY <4>1
    <3>2. Len(a) = 1 /\ a[1] = "||" /\ Len(s2) \in Nat /\ 1 \in 1..Len(a)
        BY <1>4, <2>2
    <3> HIDE DEF s1
    <3> QED BY <3>1, <3>2
  <2> QED BY <2>1, <2>2
<1> QED BY <1>1, <1>2, <1>4, <1>5 DEF K, s3, s2, AreShapes, RuleTokens

\* Three texts one after the other.
Regroups(x, y, z) == (x \o y) \o z = x \o (y \o z)

LEMMA Regroup ==
    ASSUME NEW K, NEW x \in Seq(K), NEW y \in Seq(K), NEW z \in Seq(K)
    PROVE  Regroups(x, y, z)
BY DEF Regroups

\* The parts of a shape may be put together from behind.
Regrouped(e, a, d, q, c) == e \o a \o d \o q \o c = e \o (a \o ((d \o q) \o c))

LEMMA ShapesRegroup ==
    ASSUME NEW K, NEW e \in Seq(K), NEW a \in Seq(K), NEW d \in Seq(K), NEW q \in Seq(K),
           NEW c \in Seq(K)
    PROVE  Regrouped(e, a, d, q, c)
<1> DEFINE ea == e \o a
           dq == d \o q
           dqc == dq \o c
<1>1. ea \in Seq(K) /\ dq \in Seq(K)
    OBVIOUS
<1>2. dqc \in Seq(K)
  <2> HIDE DEF dq
  <2> QED BY <1>1
<1>3. Regroups(ea, d, q) /\ Regroups(ea, dq, c) /\ Regroups(e, a, dqc)
  <2> HIDE DEF ea, dq, dqc
  <2> QED BY <1>1, <1>2, Regroup
<1> DEFINE left == e \o a \o d \o q \o c
           right == e \o (a \o ((d \o q) \o c))
           middle == ea \o d \o q
<1>4. middle = ea \o dq
    BY <1>3 DEF Regroups
<1>5. (ea \o dq) \o c = ea \o dqc
    BY <1>3 DEF Regroups
<1>6. ea \o dqc = e \o (a \o dqc)
  <2> HIDE DEF dqc
  <2> QED BY <1>3 DEF Regroups
<1>7. left = middle \o c
    OBVIOUS
<1>8. right = e \o (a \o dqc)
    OBVIOUS
<1> HIDE DEF left, right, middle, ea, dq, dqc
<1>9. left = right
    BY <1>4, <1>5, <1>6, <1>7, <1>8
<1> QED BY <1>9 DEF left, right, Regrouped

\* A delimiter that may be there.
OneOrNone(p, kind) == p \in {<<>>, <<kind>>}

HasShape(text, s) == Shape(text) = s

\* A text that is a line up to its "$".
HasRuleShape(text, e, a, q, c) ==
    /\ OneOrNone(e, "@@") /\ OneOrNone(a, "||") /\ OneOrNone(q, "/") /\ OneOrNone(c, "^")
    /\ HasShape(text, e \o (a \o ((<<"domain">> \o q) \o c)))

LEMMA OneOrNoneType ==
    ASSUME NEW T, NEW kind \in T, NEW p, OneOrNone(p, kind)
    PROVE  p \in Seq(T)
<1>1. <<>> \in Seq(T) /\ <<kind>> \in Seq(T)
    OBVIOUS
<1>2. p = <<>> \/ p = <<kind>>
    BY DEF OneOrNone
<1> QED BY <1>1, <1>2

LEMMA RuleShapes ==
    ASSUME NEW text, Shape(text) \in RuleKinds
    PROVE  \E e, a, q, c : HasRuleShape(text, e, a, q, c)
<1> DEFINE T == {"@@", "||", "domain", "/", "^"}
           d == <<"domain">>
<1>1. \E e, a, q, c :
        /\ OneOrNone(e, "@@") /\ OneOrNone(a, "||") /\ OneOrNone(q, "/") /\ OneOrNone(c, "^")
        /\ Shape(text) = e \o a \o d \o q \o c
  <2>1. \E e \in {<<>>, <<"@@">>}, a \in {<<>>, <<"||">>}, q \in {<<>>, <<"/">>},
            c \in {<<>>, <<"^">>} : Shape(text) = e \o a \o d \o q \o c
    BY DEF RuleKinds
  <2>2. PICK e \in {<<>>, <<"@@">>}, a \in {<<>>, <<"||">>}, q \in {<<>>, <<"/">>},
             c \in {<<>>, <<"^">>} : Shape(text) = e \o a \o d \o q \o c
    BY <2>1
  <2>3. OneOrNone(e, "@@") /\ OneOrNone(a, "||") /\ OneOrNone(q, "/") /\ OneOrNone(c, "^")
    BY DEF OneOrNone
  <2> HIDE DEF d
  <2> QED BY <2>2, <2>3
<1> HIDE DEF d
<1>2. PICK e, a, q, c :
        /\ OneOrNone(e, "@@") /\ OneOrNone(a, "||") /\ OneOrNone(q, "/") /\ OneOrNone(c, "^")
        /\ Shape(text) = e \o a \o d \o q \o c
    BY <1>1
<1>3. e \in Seq(T) /\ a \in Seq(T) /\ q \in Seq(T) /\ c \in Seq(T)
  <2>1. "@@" \in T /\ "||" \in T /\ "/" \in T /\ "^" \in T
    OBVIOUS
  <2> HIDE DEF T
  <2> QED BY <1>2, <2>1, OneOrNoneType
<1>7. d \in Seq(T)
    BY DEF d
<1> HIDE DEF T
<1>8. e \o a \o d \o q \o c = e \o (a \o ((d \o q) \o c))
  <2>1. Regrouped(e, a, d, q, c)
    BY <1>3, <1>7, ShapesRegroup
  <2> QED BY <2>1 DEF Regrouped
<1>9. HasShape(text, e \o (a \o ((d \o q) \o c)))
    BY <1>2, <1>8 DEF HasShape
<1> QED BY <1>2, <1>9 DEF HasRuleShape, d

\* And of which shape the rest is.
LEMMA ShapePrefix ==
    ASSUME NEW S, NEW text \in Seq(S), NEW K, NEW s \in Seq(K), NEW kind, NEW p,
           OneOrNone(p, kind), s # <<>>, s[1] # kind, HasShape(text, p \o s)
    PROVE  /\ HasShape(WithoutPrefix(text, kind), s)
           /\ WithoutPrefix(text, kind) = text <=> p = <<>>
<1>1. /\ DOMAIN text = 1..Len(text) /\ Len(text) \in Nat /\ Len(s) \in Nat /\ Len(s) >= 1
      /\ DOMAIN s = 1..Len(s)
    OBVIOUS
<1>2. Shape(text) = s <=> Len(text) = Len(s) /\ \A i \in 1..Len(s) : text[i][1] = s[i]
    BY ShapeIs
<1>3. CASE p = <<>>
  <2>1. Shape(text) = s
    BY <1>3 DEF HasShape
  <2>2. Len(text) = Len(s) /\ text[1][1] # kind
    <3>1. 1 \in 1..Len(s)
        BY <1>1
    <3> QED BY <1>2, <2>1, <3>1
  <2>3. WithoutPrefix(text, kind) = text
    BY <2>2 DEF WithoutPrefix
  <2> QED BY <1>3, <2>1, <2>3 DEF HasShape
<1>4. CASE p = <<kind>>
  <2> DEFINE w == p \o s
             u == Tail(text)
  <2>1. /\ DOMAIN w = 1..(Len(s) + 1) /\ w[1] = kind
        /\ \A i \in 1..Len(s) : w[i + 1] = s[i]
    BY <1>1, <1>4
  <2>9. w \in Seq(K \cup {kind}) /\ Len(w) = Len(s) + 1
    BY <1>1, <1>4
  <2> HIDE DEF w
  <2>2. Shape(text) = w
    BY DEF w, HasShape
  <2>3. Len(text) = Len(s) + 1 /\ text[1][1] = kind /\ \A i \in 1..Len(s) : text[i + 1][1] = s[i]
    <3>1. Len(text) = Len(w) /\ \A i \in 1..Len(w) : text[i][1] = w[i]
        BY <2>2, <2>9, ShapeIs
    <3> QED BY <1>1, <2>1, <2>9, <3>1
  <2>4. u \in Seq(S) /\ Len(u) = Len(s) /\ \A i \in 1..Len(s) : u[i] = text[i + 1]
    BY <1>1, <2>3
  <2>5. WithoutPrefix(text, kind) = u
    BY <1>1, <2>3 DEF WithoutPrefix
  <2> HIDE DEF u
  <2>6. \A i \in 1..Len(s) : u[i][1] = s[i]
    BY <2>3, <2>4
  <2>7. Shape(u) = s
    BY <2>4, <2>6, ShapeIs
  <2>8. u # text
    BY <1>1, <2>3, <2>4
  <2> QED BY <1>4, <2>5, <2>7, <2>8 DEF HasShape
<1> QED BY <1>3, <1>4 DEF OneOrNone

\* The same for the "^" at the end.
LEMMA ShapeCaret ==
    ASSUME NEW S, NEW text \in Seq(S), NEW K, NEW s \in Seq(K), NEW c,
           OneOrNone(c, "^"), s # <<>>, s[Len(s)] # "^", HasShape(text, s \o c)
    PROVE  /\ WithoutCaret(text) \in Seq(S) /\ HasShape(WithoutCaret(text), s)
           /\ \E q \in Seq(S) : text = WithoutCaret(text) \o q /\ Kinds(q) \subseteq {"^"}
<1>1. /\ DOMAIN text = 1..Len(text) /\ Len(text) \in Nat /\ Len(s) \in Nat /\ Len(s) >= 1
      /\ DOMAIN s = 1..Len(s)
    OBVIOUS
<1>2. Shape(text) = s <=> Len(text) = Len(s) /\ \A i \in 1..Len(s) : text[i][1] = s[i]
    BY ShapeIs
<1>3. CASE c = <<>>
  <2>1. Shape(text) = s
    BY <1>3 DEF HasShape
  <2>2. Len(text) = Len(s) /\ text[Len(text)][1] # "^"
    <3>1. Len(s) \in 1..Len(s)
        BY <1>1
    <3> QED BY <1>2, <2>1, <3>1
  <2>3. WithoutCaret(text) = text
    BY <2>2 DEF WithoutCaret
  <2>4. text = text \o <<>> /\ Kinds(<<>>) \subseteq {"^"} /\ <<>> \in Seq(S)
    BY DEF Kinds
  <2> QED BY <2>1, <2>3, <2>4 DEF HasShape
<1>4. CASE c = <<"^">>
  <2> DEFINE w == s \o c
             n == Len(s)
             u == SubSeq(text, 1, n)
             q == <<text[n + 1]>>
  <2>1. /\ DOMAIN w = 1..(Len(s) + 1) /\ w[Len(s) + 1] = "^"
        /\ \A i \in 1..Len(s) : w[i] = s[i]
    BY <1>1, <1>4
  <2>10. w \in Seq(K \cup {"^"}) /\ Len(w) = Len(s) + 1
    BY <1>1, <1>4
  <2> HIDE DEF w
  <2>2. Shape(text) = w
    BY DEF w, HasShape
  <2>3. Len(text) = n + 1 /\ text[n + 1][1] = "^" /\ \A i \in 1..n : text[i][1] = s[i]
    <3>1. Len(text) = Len(w) /\ \A i \in 1..Len(w) : text[i][1] = w[i]
        BY <2>2, <2>10, ShapeIs
    <3> QED BY <1>1, <2>1, <2>10, <3>1
  <2>4. u \in Seq(S) /\ Len(u) = n /\ \A i \in 1..n : u[i] = text[i]
    BY <1>1, <2>3
  <2>5. WithoutCaret(text) = u
    <3>1. text # <<>> /\ (n + 1) - 1 = n
        BY <1>1, <2>3
    <3> QED BY <2>3, <3>1 DEF WithoutCaret
  <2>6. q \in Seq(S) /\ Kinds(q) \subseteq {"^"}
    BY <1>1, <2>3 DEF Kinds
  <2>7. text = u \o q
    <3> DEFINE v == u \o q
    <3>1. q[1] = text[n + 1] /\ Len(q) = 1
        OBVIOUS
    <3> HIDE DEF u, q
    <3>5. u \in Seq(S) /\ q \in Seq(S)
        BY <2>4, <2>6
    <3>9. /\ v \in Seq(S) /\ Len(v) = Len(u) + Len(q)
          /\ \A i \in 1..Len(u) : v[i] = u[i]
          /\ \A i \in 1..Len(q) : v[Len(u) + i] = q[i]
        BY <3>5
    <3>10. 1 \in 1..Len(q)
        BY <3>1
    <3>6. /\ v \in Seq(S) /\ Len(v) = Len(u) + Len(q) /\ v[Len(u) + 1] = q[1]
          /\ \A i \in 1..Len(u) : v[i] = u[i]
        BY <3>9, <3>10
    <3> HIDE DEF v, n
    <3>2. v \in Seq(S) /\ Len(v) = n + 1 /\ v[n + 1] = q[1] /\ \A i \in 1..n : v[i] = u[i]
        BY <2>4, <3>1, <3>6
    <3>7. n \in Nat
        BY <1>1 DEF n
    <3>8. \A i \in 1..(n + 1) : i \in 1..n \/ i = n + 1
        BY <3>7
    <3>3. \A i \in 1..Len(v) : v[i] = text[i]
        BY <2>4, <3>1, <3>2, <3>8
    <3>4. v = text
        BY <2>3, <3>2, <3>3, SameText
    <3> QED BY <3>4 DEF v
  <2> HIDE DEF u, q
  <2>8. \A i \in 1..Len(s) : u[i][1] = s[i]
    BY <2>3, <2>4
  <2>9. Shape(u) = s
    BY <2>4, <2>8, ShapeIs
  <2> QED BY <2>4, <2>5, <2>6, <2>7, <2>9 DEF HasShape
<1> QED BY <1>3, <1>4 DEF OneOrNone

\* What is taken off says nothing of the rule.
LEMMA PatternOfShape ==
    ASSUME NEW S, NEW text \in Seq(S), NEW e, NEW a, NEW q, NEW c, HasRuleShape(text, e, a, q, c)
    PROVE  LET rest == WithoutPrefix(text, "@@")
               pattern == WithoutCaret(WithoutPrefix(rest, "||"))
           IN  /\ rest \in Seq(S) /\ rest # <<>> /\ pattern \in Seq(S)
               /\ HasShape(pattern, <<"domain">>) \/ HasShape(pattern, <<"domain", "/">>)
               /\ \A kind \in {"domain", "/", "option"} :
                    Values(text, kind) = Values(pattern, kind)
<1> DEFINE s3 == <<"domain">> \o q
           s2 == s3 \o c
           s1 == a \o s2
           rest == WithoutPrefix(text, "@@")
           bare == WithoutPrefix(rest, "||")
           pattern == WithoutCaret(bare)
<1>1. AreShapes(s1, s2, s3) /\ HasShape(text, e \o s1)
      /\ OneOrNone(e, "@@") /\ OneOrNone(a, "||") /\ OneOrNone(c, "^")
  <2>1. q \in {<<>>, <<"/">>} /\ c \in {<<>>, <<"^">>} /\ a \in {<<>>, <<"||">>}
    BY DEF HasRuleShape, OneOrNone
  <2> QED BY <2>1, PatternShapes DEF HasRuleShape
<1> HIDE DEF s1
<1>2. HasShape(rest, s1)
  <2>1. s1 \in Seq(RuleTokens) /\ s1 # <<>> /\ s1[1] # "@@"
    BY <1>1 DEF AreShapes
  <2> QED BY <1>1, <2>1, ShapePrefix
<1>3. rest \in Seq(S) /\ \E x \in Seq(S) : text = x \o rest /\ Kinds(x) \subseteq {"@@"}
    BY PrefixCut
<1> HIDE DEF rest, s2
<1>4. HasShape(bare, s2)
  <2>1. s2 \in Seq(RuleTokens) /\ s2 # <<>> /\ s2[1] # "||"
    BY <1>1 DEF AreShapes
  <2>2. HasShape(rest, a \o s2)
    BY <1>2 DEF s1
  <2> QED BY <1>1, <1>3, <2>1, <2>2, ShapePrefix
<1>5. bare \in Seq(S) /\ \E y \in Seq(S) : rest = y \o bare /\ Kinds(y) \subseteq {"||"}
  <2>1. rest \in Seq(S)
    BY <1>3
  <2> QED BY <2>1, PrefixCut
<1> HIDE DEF bare, s3
<1>6. /\ pattern \in Seq(S) /\ HasShape(pattern, s3)
      /\ \E z \in Seq(S) : bare = pattern \o z /\ Kinds(z) \subseteq {"^"}
  <2>1. s3 \in Seq(RuleTokens) /\ s3 # <<>> /\ s3[Len(s3)] # "^"
    BY <1>1 DEF AreShapes
  <2>2. HasShape(bare, s3 \o c)
    BY <1>4 DEF s2
  <2> QED BY <1>1, <1>5, <2>1, <2>2, ShapeCaret
<1> HIDE DEF pattern
<1>7. HasShape(pattern, <<"domain">>) \/ HasShape(pattern, <<"domain", "/">>)
    BY <1>1, <1>6 DEF AreShapes
<1>8. ASSUME NEW kind \in {"domain", "/", "option"}
      PROVE  Values(text, kind) = Values(pattern, kind)
  <2>1. PICK x \in Seq(S) : text = x \o rest /\ Kinds(x) \subseteq {"@@"}
    BY <1>3
  <2>2. PICK y \in Seq(S) : rest = y \o bare /\ Kinds(y) \subseteq {"||"}
    BY <1>5
  <2>3. PICK z \in Seq(S) : bare = pattern \o z /\ Kinds(z) \subseteq {"^"}
    BY <1>6
  <2>4. Values(x, kind) = {} /\ Values(y, kind) = {} /\ Values(z, kind) = {}
    BY <2>1, <2>2, <2>3, OtherValues
  <2>5. Values(text, kind) = Values(x, kind) \cup Values(rest, kind)
    BY <1>3, <2>1, ValuesConcat
  <2>6. Values(rest, kind) = Values(y, kind) \cup Values(bare, kind)
    BY <1>5, <2>2, ValuesConcat
  <2>7. Values(bare, kind) = Values(pattern, kind) \cup Values(z, kind)
    BY <1>6, <2>3, ValuesConcat
  <2> QED BY <2>4, <2>5, <2>6, <2>7
<1>9. rest # <<>>
  <2>1. Shape(rest) = s1 /\ s1 # <<>>
    BY <1>1, <1>2 DEF HasShape, AreShapes
  <2>2. Shape(<<>>) = <<>>
    BY DEF Shape
  <2> QED BY <2>1, <2>2
<1> QED BY <1>3, <1>6, <1>7, <1>8, <1>9 DEF pattern, bare, rest

\* What stands behind the first token stays when a prefix is taken off.
LEMMA PrefixFirst ==
    ASSUME NEW S, NEW a \in Seq(S), NEW b \in Seq(S), NEW kind, a # <<>>
    PROVE  /\ WithoutPrefix(a \o b, kind) = WithoutPrefix(a, kind) \o b
           /\ WithoutPrefix(a \o b, kind) = a \o b <=> (a \o b)[1][1] # kind
<1> DEFINE t == a \o b
           tail == Tail(a)
           w == tail \o b
           u == Tail(t)
<1>1. /\ t \in Seq(S) /\ Len(t) = Len(a) + Len(b) /\ Len(a) \in Nat /\ Len(b) \in Nat
      /\ Len(a) >= 1
      /\ \A i \in 1..Len(a) : t[i] = a[i]
      /\ \A i \in 1..Len(b) : t[Len(a) + i] = b[i]
    OBVIOUS
<1>2. tail \in Seq(S) /\ Len(tail) = Len(a) - 1 /\ \A i \in 1..(Len(a) - 1) : tail[i] = a[i + 1]
    OBVIOUS
<1> HIDE DEF t, tail
<1>3. t # <<>> /\ t[1] = a[1] /\ u # t
  <2>1. 1 \in 1..Len(a) /\ Len(t) >= 1
    BY <1>1
  <2>2. Len(Tail(t)) = Len(t) - 1
    <3>1. t \in Seq(S) /\ t # <<>>
        BY <1>1, <2>1
    <3> QED BY <3>1
  <2> QED BY <1>1, <2>1, <2>2
<1>4. u \in Seq(S) /\ Len(u) = Len(t) - 1 /\ \A i \in 1..(Len(t) - 1) : u[i] = t[i + 1]
    BY <1>1, <1>3
<1> HIDE DEF u
<1>5. /\ w \in Seq(S) /\ Len(w) = Len(tail) + Len(b)
      /\ \A i \in 1..Len(tail) : w[i] = tail[i]
      /\ \A i \in 1..Len(b) : w[Len(tail) + i] = b[i]
  <2>1. tail \in Seq(S)
    BY <1>2
  <2> QED BY <2>1
<1> HIDE DEF w
<1>6. Len(w) = Len(u)
    BY <1>1, <1>2, <1>4, <1>5
<1>7. ASSUME NEW i \in 1..Len(w) PROVE w[i] = u[i]
  <2>1. CASE i < Len(a)
    <3>1. i \in 1..Len(tail) /\ i \in 1..(Len(a) - 1) /\ i \in 1..(Len(t) - 1) /\ i + 1 \in 1..Len(a)
        BY <1>1, <1>2, <2>1
    <3> QED BY <1>1, <1>2, <1>4, <1>5, <3>1
  <2>2. CASE i >= Len(a)
    <3> DEFINE j == i - (Len(a) - 1)
    <3>1. j \in 1..Len(b) /\ Len(tail) + j = i /\ Len(a) + j = i + 1 /\ i \in 1..(Len(t) - 1)
        BY <1>1, <1>2, <1>5, <2>2
    <3> HIDE DEF j
    <3>2. w[i] = b[j]
        BY <1>5, <3>1
    <3>3. t[i + 1] = b[j]
        BY <1>1, <3>1
    <3> QED BY <1>4, <3>1, <3>2, <3>3
  <2> QED BY <1>1, <2>1, <2>2
<1>8. w = u
    BY <1>4, <1>5, <1>6, <1>7, SameText
<1>9. CASE a[1][1] = kind
  <2>1. WithoutPrefix(t, kind) = u /\ WithoutPrefix(a, kind) = tail
    BY <1>3, <1>9 DEF WithoutPrefix, u, tail
  <2> QED BY <1>3, <1>8, <1>9, <2>1 DEF w, t
<1>10. CASE a[1][1] # kind
  <2>1. WithoutPrefix(t, kind) = t /\ WithoutPrefix(a, kind) = a
    BY <1>3, <1>10 DEF WithoutPrefix
  <2> QED BY <1>3, <1>10, <2>1 DEF t
<1> QED BY <1>9, <1>10

\* The options follow the "$".
LEMMA OptionsBehind ==
    ASSUME NEW S, NEW f \in Seq(S), f # <<>> => f[1][1] = "$"
    PROVE  /\ Before(f, {"$"}) = <<>>
           /\ \A kind \in {"domain", "/", "option"} : Values(f, kind) = Values(After(f, {"$"}), kind)
<1> DEFINE kinds == {"$"}
           o == After(f, kinds)
<1>1. CASE f = <<>>
  <2>1. Kinds(f) \cap kinds = {}
    BY <1>1 DEF Kinds
  <2> HIDE DEF kinds
  <2>2. Before(f, kinds) = f /\ o = <<>>
    BY <2>1, Uncut
  <2> QED BY <1>1, <2>2 DEF kinds
<1>2. CASE f # <<>>
  <2>1. f[1][1] \in kinds
    BY <1>2
  <2> HIDE DEF kinds
  <2>2. Before(f, kinds) = <<>> /\ o = Tail(f)
    BY <1>2, <2>1, CutAtFront
  <2> HIDE DEF o
  <2> DEFINE d == <<f[1]>>
  <2>3. d \in Seq(S) /\ Tail(f) \in Seq(S) /\ f = d \o Tail(f)
    BY <1>2
  <2>4. ASSUME NEW kind \in {"domain", "/", "option"} PROVE Values(f, kind) = Values(o, kind)
    <3>1. Values(d, kind) = {}
        <4>1. Kinds(d) \subseteq {"$"}
            BY <1>2 DEF Kinds
        <4> QED BY <4>1, ValuesNone
    <3> HIDE DEF d
    <3>2. Values(f, kind) = Values(d, kind) \cup Values(Tail(f), kind)
        <4> DEFINE t == Tail(f)
        <4>1. t \in Seq(S) /\ f = d \o t /\ d \in Seq(S)
            BY <2>3
        <4> HIDE DEF t
        <4>2. Values(d \o t, kind) = Values(d, kind) \cup Values(t, kind)
            BY <4>1, ValuesConcat
        <4> QED BY <4>1, <4>2 DEF t
    <3> QED BY <2>2, <3>1, <3>2
  <2> QED BY <2>2, <2>4 DEF o, kinds
<1> QED BY <1>1, <1>2

\* What a rule has of its line.
LEMMA RuleOfLine ==
    ASSUME NEW S, NEW line \in Seq(S), IsRuleLine(line)
    PROVE  LET rule == ParsedRule(line)
               options == Options(After(WithoutPrefix(line, "@@"), {"$"}))
           IN  /\ rule.rule_type = IF line[1][1] = "@@" THEN "kAllow" ELSE "kBlock"
               /\ Values(line, "domain") = {rule.domain_pattern}
               /\ Values(line, "/") = IF rule.path_pattern = "" THEN {} ELSE {rule.path_pattern}
               /\ Values(line, "option") = options
<1> DEFINE kinds == {"$"}
           b == Before(line, kinds)
           f == From(line, kinds)
           o == After(line, kinds)
           body == WithoutPrefix(line, "@@")
           rest == WithoutPrefix(b, "@@")
           pattern == WithoutCaret(WithoutPrefix(rest, "||"))
<1>1. /\ b \in Seq(S) /\ f \in Seq(S) /\ o \in Seq(S) /\ line = b \o f
      /\ Kinds(b) \cap kinds = {} /\ (f # <<>> => f[1][1] \in kinds)
    BY CutTypes, CutInTwo
<1>2. PICK e, a, q, c : HasRuleShape(b, e, a, q, c)
  <2>1. Shape(b) \in RuleKinds
    BY DEF IsRuleLine
  <2> HIDE DEF b
  <2> QED BY <2>1, RuleShapes
<1>3. Options(o) = Values(o, "option") /\ Kinds(o) \subseteq {",", "option"}
  <2>1. \A i \in DOMAIN o : o[i][1] = "," \/ (o[i][1] = "option" /\ i \in Starts(o, ","))
    BY DEF IsRuleLine
  <2> HIDE DEF o
  <2>2. Options(o) = Values(o, "option")
    BY <1>1, <2>1, OptionsAre
  <2> QED BY <2>1, <2>2 DEF Kinds
<1>4. \A i \in DOMAIN line : line[i][1] = "/" => line[i][2] # ""
    BY DEF IsRuleLine
<1> HIDE DEF b, f, o
<1>5. /\ rest \in Seq(S) /\ rest # <<>> /\ pattern \in Seq(S)
      /\ HasShape(pattern, <<"domain">>) \/ HasShape(pattern, <<"domain", "/">>)
      /\ \A kind \in {"domain", "/", "option"} : Values(b, kind) = Values(pattern, kind)
    BY <1>1, <1>2, PatternOfShape
<1>6. b # <<>> /\ rest \in Seq(S) /\ \E x \in Seq(S) : b = x \o rest
  <2>1. b \in Seq(S)
    BY <1>1
  <2>2. rest \in Seq(S) /\ \E x \in Seq(S) : b = x \o rest /\ Kinds(x) \subseteq {"@@"}
    BY <2>1, PrefixCut
  <2>3. b # <<>>
    <3>1. WithoutPrefix(<<>>, "@@") = <<>>
        BY DEF WithoutPrefix
    <3> QED BY <1>5, <3>1
  <2> QED BY <2>2, <2>3
<1>7. body = rest \o f /\ (body = line <=> line[1][1] # "@@")
  <2>1. b \in Seq(S) /\ f \in Seq(S) /\ b # <<>>
    BY <1>1, <1>6
  <2>2. /\ WithoutPrefix(b \o f, "@@") = rest \o f
        /\ WithoutPrefix(b \o f, "@@") = b \o f <=> (b \o f)[1][1] # "@@"
    BY <2>1, PrefixFirst
  <2>3. line = b \o f
    BY <1>1
  <2> HIDE DEF rest
  <2> QED BY <2>2, <2>3
<1> HIDE DEF body, rest
<1>8. Kinds(rest) \cap kinds = {}
  <2>1. PICK x \in Seq(S) : b = x \o rest
    BY <1>6
  <2>2. rest \in Seq(S)
    BY <1>6
  <2>3. Kinds(x \o rest) = Kinds(x) \cup Kinds(rest)
    BY <2>2, KindsConcat
  <2>4. Kinds(b) \cap kinds = {} 
    BY <1>1
  <2> QED BY <2>1, <2>3, <2>4
<1>9. /\ Before(f, {"$"}) = <<>>
      /\ \A kind \in {"domain", "/", "option"} : Values(f, kind) = Values(After(f, {"$"}), kind)
  <2>1. f \in Seq(S) /\ (f # <<>> => f[1][1] = "$")
    BY <1>1
  <2> QED BY <2>1, OptionsBehind
<1>10. After(f, kinds) = o
  <2> HIDE DEF kinds
  <2>1. After(b \o f, kinds) = After(f, kinds)
    <3>1. b \in Seq(S) /\ f \in Seq(S) /\ Kinds(b) \cap kinds = {}
        BY <1>1
    <3> QED BY <3>1, CutSecond
  <2> QED BY <1>1, <2>1 DEF o
<1>11. Before(body, kinds) = rest /\ After(body, kinds) = o
  <2> HIDE DEF kinds
  <2>1. Before(rest \o f, kinds) = rest \o Before(f, kinds) /\ After(rest \o f, kinds) = After(f, kinds)
    <3>1. rest \in Seq(S) /\ f \in Seq(S) /\ Kinds(rest) \cap kinds = {}
        BY <1>1, <1>5, <1>8
    <3> QED BY <3>1, CutSecond
  <2>2. Before(f, kinds) = <<>>
    BY <1>9 DEF kinds
  <2>3. rest \o <<>> = rest
    <3>1. rest \in Seq(S)
        BY <1>5
    <3> QED BY <3>1
  <2> QED BY <1>7, <1>10, <2>1, <2>2, <2>3
<1>12. \A kind \in {"domain", "/", "option"} :
        Values(line, kind) = Values(pattern, kind) \cup Values(o, kind)
  <2>1. \A kind : Values(b \o f, kind) = Values(b, kind) \cup Values(f, kind)
    <3>1. b \in Seq(S) /\ f \in Seq(S)
        BY <1>1
    <3> QED BY <3>1, ValuesConcat
  <2>2. \A kind \in {"domain", "/", "option"} : Values(f, kind) = Values(o, kind)
    BY <1>9, <1>10
  <2> HIDE DEF pattern
  <2> QED BY <1>1, <1>5, <2>1, <2>2
<1>13. Values(o, "domain") = {} /\ Values(o, "/") = {}
    BY <1>3, ValuesNone
<1>14. IsPattern(pattern)
  <2> HIDE DEF pattern
  <2>1. CASE HasShape(pattern, <<"domain">>)
    <3> DEFINE s == <<"domain">>
    <3>1. s \in Seq({"domain", "/"}) /\ Len(s) = 1 /\ s[1] = "domain"
        OBVIOUS
    <3>2. Shape(pattern) = s /\ pattern \in Seq(S)
        BY <1>5, <2>1 DEF HasShape
    <3> HIDE DEF s
    <3>3. Len(pattern) = 1 /\ pattern[1][1] = "domain"
        BY <3>1, <3>2, ShapeIs
    <3> QED BY <3>3 DEF IsPattern
  <2>2. CASE HasShape(pattern, <<"domain", "/">>)
    <3> DEFINE s == <<"domain", "/">>
    <3>1. s \in Seq({"domain", "/"}) /\ Len(s) = 2 /\ s[1] = "domain" /\ s[2] = "/"
        OBVIOUS
    <3>2. Shape(pattern) = s /\ pattern \in Seq(S)
        BY <1>5, <2>2 DEF HasShape
    <3> HIDE DEF s
    <3>3. Len(pattern) = 2 /\ pattern[1][1] = "domain" /\ pattern[2][1] = "/"
        BY <3>1, <3>2, ShapeIs
    <3>4. pattern[2][2] \in Values(pattern, "/")
        <4>1. 2 \in DOMAIN pattern
            BY <3>2, <3>3
        <4> QED BY <3>3, <4>1 DEF Values
    <3>5. pattern[2][2] \in Values(line, "/")
        BY <1>12, <3>4
    <3>6. pattern[2][2] # ""
        BY <1>4, <3>5 DEF Values
    <3> QED BY <3>3, <3>6 DEF IsPattern
  <2> QED BY <1>5, <2>1, <2>2
<1>15. /\ Values(pattern, "domain") = {DomainOf(pattern)} /\ Values(pattern, "option") = {}
       /\ Values(pattern, "/") = IF PathOf(pattern) = "" THEN {} ELSE {PathOf(pattern)}
  <2>1. pattern \in Seq(S)
    BY <1>5
  <2> HIDE DEF pattern
  <2> QED BY <1>14, <2>1, PatternValues
<1>16. /\ ParsedRule(line).domain_pattern = DomainOf(pattern)
       /\ ParsedRule(line).path_pattern = PathOf(pattern)
       /\ ParsedRule(line).rule_type = IF body # line THEN "kAllow" ELSE "kBlock"
    BY <1>11 DEF ParsedRule, body, pattern, kinds
<1>17. Options(After(WithoutPrefix(line, "@@"), {"$"})) = Values(line, "option")
  <2>1. Options(After(body, kinds)) = Values(o, "option")
    BY <1>3, <1>11
  <2> HIDE DEF pattern
  <2> QED BY <1>12, <1>15, <2>1 DEF body, kinds
<1> HIDE DEF pattern
<1> QED BY <1>7, <1>12, <1>13, <1>15, <1>16, <1>17

-----------------------------------------------------------------------------
(* Hosts and paths *)

\* The host of a URL is a sequence of labels.
LEMMA HostType ==
    ASSUME NEW url, IsUrl(url)
    PROVE  \E labels : ExtractHostname(url) \in Seq(labels)
<1> DEFINE S == ToSet(url)
           kinds == {"/", "?", "#", ":"}
           text == Before(url, kinds)
           end == text[Len(text)]
<1>1. url \in Seq(S)
    BY DEF IsUrl
<1> HIDE DEF S, kinds
<1>2. /\ Find(url, kinds) \in 1..(Len(url) + 1) /\ Len(url) \in Nat
      /\ text \in Seq(S) /\ Len(text) = Find(url, kinds) - 1
      /\ \A i \in 1..(Find(url, kinds) - 1) : text[i] = url[i]
    BY <1>1, FindPlace, Cuts
<1>3. ExtractHostname(url)
      = CASE text = <<>> -> <<>>
          [] text # <<>> /\ end[1] # "host" -> NotAHost
          [] text # <<>> /\ end[1] = "host" ->
                IF Len(text) = 1 THEN end[2] ELSE [end[2] EXCEPT ![1] = "user@"]
    BY DEF ExtractHostname, kinds
<1> HIDE DEF text
<1>4. CASE text = <<>>
  <2>1. ExtractHostname(url) = <<>>
    BY <1>3, <1>4
  <2>2. ExtractHostname(url) \in Seq({})
    BY <2>1
  <2> QED BY <2>2
<1>5. CASE text # <<>> /\ end[1] # "host"
  <2>1. ExtractHostname(url) = NotAHost
    BY <1>3, <1>5
  <2>2. NotAHost \in Seq({"userinfo"})
    BY DEF NotAHost
  <2> QED BY <2>1, <2>2
<1>6. CASE text # <<>> /\ end[1] = "host"
  <2>1. Len(text) \in DOMAIN url /\ end = url[Len(text)]
    BY <1>1, <1>2, <1>6
  <2>2. end[2] \in Seq(ToSet(end[2]))
    BY <1>6, <2>1 DEF IsUrl
  <2> DEFINE h == end[2]
             labels == ToSet(h) \cup {"user@"}
  <2>3. h \in Seq(ToSet(h))
    BY <2>2
  <2>4. ExtractHostname(url) = IF Len(text) = 1 THEN h ELSE [h EXCEPT ![1] = "user@"]
    BY <1>3, <1>6
  <2> HIDE DEF h
  <2>5. h \in Seq(labels)
    BY <2>3
  <2>6. "user@" \in labels
    OBVIOUS
  <2> HIDE DEF labels
  <2>7. [h EXCEPT ![1] = "user@"] \in Seq(labels)
    <3>1. h \in [1..Len(h) -> labels] /\ Len(h) \in Nat
        BY <2>5
    <3>2. [h EXCEPT ![1] = "user@"] \in [1..Len(h) -> labels]
        BY <2>6, <3>1
    <3> QED BY <3>1, <3>2
  <2> QED BY <2>4, <2>5, <2>7
<1> QED BY <1>4, <1>5, <1>6

\* A larger set of delimiters cuts the same text shorter.
LEMMA BeforeMore ==
    ASSUME NEW S, NEW text \in Seq(S), NEW few, NEW many, few \subseteq many
    PROVE  Before(text, many) = Before(Before(text, few), many)
<1> DEFINE a == Before(text, few)
           b == From(text, few)
<1>1. a \in Seq(S) /\ b \in Seq(S) /\ text = a \o b /\ (b # <<>> => b[1][1] \in many)
    BY CutTypes, CutInTwo
<1> HIDE DEF a, b
<1>2. Before(a \o b, many) = Before(a, many)
    BY <1>1, BeforeFirst
<1> QED BY <1>1, <1>2 DEF a

\* The authority of a URL, up to its first "/".
Authority(url) == Before(url, {"/"})
Rest(url) == From(url, {"/"})

LEMMA UrlParts ==
    ASSUME NEW url, IsUrl(url), NEW S, url \in Seq(S)
    PROVE  /\ Authority(url) \in Seq(S) /\ Rest(url) \in Seq(S) /\ url = Authority(url) \o Rest(url)
           /\ Rest(url) # <<>> /\ Rest(url)[1][1] = "/"
           /\ Kinds(Authority(url)) \cap {"/", "?", "#"} = {}
           /\ Kinds(Rest(url)) \cap {"user", "pass", "host"} = {}
<1> DEFINE a == Authority(url)
<1>1. a \in Seq(S) /\ Rest(url) \in Seq(S)
    BY CutTypes DEF Authority, Rest
<1>2. /\ url = a \o Rest(url) /\ Rest(url) # <<>> /\ Rest(url)[1][1] = "/"
    BY CutInTwo DEF IsUrl, Authority, Rest
<1>3. Shape(a) \in AuthorityKinds
    BY DEF IsUrl, Authority
<1> HIDE DEF a
<1>4. DOMAIN Shape(a) = DOMAIN a /\ \A i \in DOMAIN a : Shape(a)[i] = a[i][1]
    BY DEF Shape
<1>5. \A shape \in AuthorityKinds : \A i \in DOMAIN shape : shape[i] \notin {"/", "?", "#"}
    BY DEF AuthorityKinds
<1>6. \A i \in DOMAIN a : a[i][1] \notin {"/", "?", "#"}
    BY <1>3, <1>4, <1>5
<1>7. Kinds(a) \cap {"/", "?", "#"} = {}
    BY <1>6 DEF Kinds
<1> QED BY <1>1, <1>2, <1>7 DEF a, IsUrl, Rest

-----------------------------------------------------------------------------
(* Cleaning a URL *)

\* The tokens of no kind in a set.
Without(S, kinds) == {token \in S : token[1] \notin kinds}

LEMMA WithoutKinds ==
    ASSUME NEW S, NEW text \in Seq(S), NEW kinds
    PROVE  Kinds(text) \cap kinds = {} <=> text \in Seq(Without(S, kinds))
<1>1. DOMAIN text = 1..Len(text) /\ Len(text) \in Nat /\ \A i \in DOMAIN text : text[i] \in S
    OBVIOUS
<1>2. ASSUME Kinds(text) \cap kinds = {} PROVE text \in Seq(Without(S, kinds))
  <2>1. \A i \in DOMAIN text : text[i] \in Without(S, kinds)
    BY <1>1, <1>2 DEF Kinds, Without
  <2> QED BY <1>1, <2>1
<1>3. ASSUME text \in Seq(Without(S, kinds)) PROVE Kinds(text) \cap kinds = {}
  <2>1. \A i \in DOMAIN text : text[i] \in Without(S, kinds)
    BY <1>3
  <2> QED BY <2>1 DEF Kinds, Without
<1> QED BY <1>2, <1>3

\* Nothing joined is nothing.
LEMMA JoinNothing ==
    ASSUME NEW kind
    PROVE  Join(<<>>, kind) = <<>>
<1> DEFINE S == {<<kind>>}
           parts == <<>>
<1>1. parts \in Seq(Seq(S)) /\ <<kind>> \in S /\ Len(parts) = 0
    OBVIOUS
<1> HIDE DEF parts, S
<1>2. PICK J \in [0..Len(parts) -> Seq(S)] : Joins(J, parts, kind)
    BY <1>1, JoinRecursion
<1>3. Join(parts, kind) = <<>>
    BY <1>1, <1>2 DEF Joins
<1> QED BY <1>3 DEF parts

Userinfo == {"user", "pass", "host"}

\* What is put behind the path of a URL: a query or a fragment or nothing, without a
\* token that belongs to the authority.
IsTail(tail, S) ==
    /\ tail \in Seq(Without(S, Userinfo))
    /\ tail # <<>> => tail[1][1] \in {"?", "#"}

\* The tokens a rebuilt URL may have.
Tokens(url) == ToSet(url) \cup {<<"?">>, <<"&">>}

\* The query of a URL has no token of the authority.
LEMMA QueryType ==
    ASSUME NEW url, IsUrl(url)
    PROVE  /\ After(url, {"?"}) = After(Rest(url), {"?"})
           /\ After(url, {"?"}) \in Seq(Without(Tokens(url), Userinfo))
           /\ QueryText(url) \in Seq(Without(Tokens(url), Userinfo))
           /\ FragmentText(url) \in Seq(Without(Tokens(url), Userinfo))
           /\ FragmentText(url) # <<>> => FragmentText(url)[1][1] = "#"
<1> DEFINE S == Tokens(url)
           T == Without(S, Userinfo)
           a == Authority(url)
           r == Rest(url)
           after == After(url, {"?"})
<1>1. url \in Seq(S)
    BY DEF IsUrl, Tokens
<1> HIDE DEF S
<1>2. a \in Seq(S) /\ r \in Seq(S) /\ url = a \o r /\ Kinds(a) \cap {"?"} = {} /\ r \in Seq(T)
  <2>1. Kinds(r) \cap Userinfo = {}
    BY <1>1, UrlParts DEF Userinfo
  <2>2. r \in Seq(S)
    BY <1>1, UrlParts
  <2>3. r \in Seq(T)
    BY <2>1, <2>2, WithoutKinds
  <2> QED BY <1>1, <2>3, UrlParts
<1> HIDE DEF T, a, r
<1>3. after = After(r, {"?"})
  <2> DEFINE kinds == {"?"}
  <2>1. Kinds(a) \cap kinds = {}
    BY <1>2
  <2> HIDE DEF kinds
  <2>2. After(a \o r, kinds) = After(r, kinds)
    BY <1>2, <2>1, CutSecond
  <2> QED BY <1>2, <2>2 DEF kinds
<1>4. after \in Seq(T)
    BY <1>2, <1>3, CutTypes
<1>5. QueryText(url) = Before(after, {"#"}) /\ FragmentText(url) = From(after, {"#"})
    BY DEF FragmentText, QueryText
<1> HIDE DEF after
<1>6. QueryText(url) \in Seq(T) /\ FragmentText(url) \in Seq(T)
    BY <1>4, <1>5, CutTypes
<1>7. FragmentText(url) # <<>> => FragmentText(url)[1][1] = "#"
    BY <1>4, <1>5, CutInTwo
<1> QED BY <1>3, <1>4, <1>6, <1>7 DEF after, r, S, T

\* A rebuilt URL has another tail.
LEMMA RebuiltTail ==
    ASSUME NEW url, IsUrl(url),
           NEW items \in Seq(Seq(Without(Tokens(url), Userinfo)))
    PROVE  \E tail : IsTail(tail, Tokens(url)) /\ Rebuilt(url, items) = Before(url, {"?"}) \o tail
<1> DEFINE S == Tokens(url)
           T == Without(S, Userinfo)
           fragment == FragmentText(url)
           mark == IF items = <<>> THEN <<>> ELSE << <<"?">> >>
           joined == Join(items, "&")
           tail == mark \o joined \o fragment
<1>1. url \in Seq(S) /\ <<"?">> \in T /\ <<"&">> \in T
    BY DEF IsUrl, Tokens, Without, Userinfo
<1>5. fragment \in Seq(T) /\ (fragment # <<>> => fragment[1][1] = "#")
    BY QueryType
<1> HIDE DEF S, T
<1>6. joined \in Seq(T) /\ (items = <<>> => joined = <<>>)
  <2>1. items \in Seq(Seq(T))
    BY DEF T, S
  <2>2. joined \in Seq(T)
    BY <1>1, <2>1, JoinType
  <2> QED BY <2>2, JoinNothing
<1> HIDE DEF fragment, joined
<1>7. tail \in Seq(T)
    BY <1>1, <1>5, <1>6
<1>8. tail # <<>> => tail[1][1] \in {"?", "#"}
  <2>1. CASE items = <<>>
    <3>1. tail = fragment
        BY <1>5, <1>6, <2>1
    <3> HIDE DEF tail
    <3> QED BY <1>5, <3>1
  <2>2. CASE items # <<>>
    <3>1. tail[1] = <<"?">>
        BY <1>5, <1>6, <2>2
    <3> HIDE DEF tail
    <3> QED BY <3>1
  <2> QED BY <2>1, <2>2
<1>9. Rebuilt(url, items) = Before(url, {"?"}) \o tail
  <2>1. Before(url, {"?"}) \in Seq(S) /\ T \subseteq S
    BY <1>1, CutTypes DEF T, Without
  <2> DEFINE b == Before(url, {"?"})
  <2>2. b \in Seq(S) /\ mark \in Seq(S) /\ joined \in Seq(S) /\ fragment \in Seq(S)
    <3>1. b \in Seq(S)
        BY <2>1
    <3> HIDE DEF b
    <3> QED BY <1>1, <1>5, <1>6, <2>1, <3>1
  <2>3. Rebuilt(url, items) = b \o mark \o joined \o fragment
    BY DEF Rebuilt, joined, fragment
  <2> HIDE DEF b, mark
  <2>4. b \o mark \o joined \o fragment = b \o (mark \o joined \o fragment)
    BY <2>2, SMTT(30)
  <2> QED BY <2>3, <2>4 DEF b, mark
<1>10. IsTail(tail, S)
  <2> HIDE DEF tail
  <2> QED BY <1>7, <1>8 DEF IsTail, T
<1> HIDE DEF tail
<1> QED BY <1>9, <1>10 DEF S

\* A URL with another query and fragment has the same host and path.
LEMMA SameHostAndPath ==
    ASSUME NEW url, IsUrl(url), NEW tail, IsTail(tail, Tokens(url))
    PROVE  LET changed == Before(url, {"?"}) \o tail
           IN  /\ IsUrl(changed) /\ ExtractHostname(changed) = ExtractHostname(url)
               /\ ExtractPath(changed) = ExtractPath(url)
<1> DEFINE S == Tokens(url)
           a == Authority(url)
           r == Rest(url)
           path == Before(r, {"?"})
           end == path \o tail
           changed == Before(url, {"?"}) \o tail
<1>1. url \in Seq(S)
    BY DEF IsUrl, Tokens
<1>2. tail \in Seq(S) /\ tail \in Seq(Without(S, Userinfo)) /\ (tail # <<>> => tail[1][1] \in {"?", "#"})
    BY DEF IsTail, Without
<1> HIDE DEF S
<1>3. /\ a \in Seq(S) /\ r \in Seq(S) /\ url = a \o r
      /\ r # <<>> /\ r[1][1] = "/" /\ Kinds(a) \cap {"/", "?", "#"} = {}
      /\ Kinds(r) \cap Userinfo = {}
    BY <1>1, UrlParts DEF Userinfo
<1> HIDE DEF a, r
<1>4. path \in Seq(S) /\ path # <<>> /\ path[1] = r[1]
  <2>1. r = path \o From(r, {"?"}) /\ path \in Seq(S) /\ From(r, {"?"}) \in Seq(S)
    BY <1>3, CutTypes, CutInTwo
  <2>2. path # <<>>
    <3>1. Find(r, {"?"}) # 1
        BY <1>3, FindPlace
    <3>2. Len(path) = Find(r, {"?"}) - 1 /\ Find(r, {"?"}) \in Nat
        BY <1>3, Cuts, FindPlace
    <3> HIDE DEF path
    <3> QED BY <2>1, <3>1, <3>2
  <2> DEFINE u == From(r, {"?"})
  <2>4. r = path \o u /\ u \in Seq(S)
    BY <2>1
  <2> HIDE DEF path, u
  <2>3. path[1] = r[1]
    BY <2>1, <2>2, <2>4
  <2> QED BY <2>1, <2>2, <2>3
<1>5. changed = a \o end
  <2> DEFINE kinds == {"?"}
  <2>1. Kinds(a) \cap kinds = {}
    BY <1>3
  <2> HIDE DEF kinds
  <2>2. Before(a \o r, kinds) = a \o Before(r, kinds)
    BY <1>3, <2>1, CutSecond
  <2>3. Before(url, {"?"}) = a \o path
    BY <1>3, <2>2 DEF kinds
  <2>4. path \in Seq(S)
    BY <1>4
  <2> HIDE DEF path
  <2>5. (a \o path) \o tail = a \o (path \o tail)
    BY <1>2, <1>3, <2>4
  <2> QED BY <2>3, <2>5
<1>6. end \in Seq(S) /\ end # <<>> /\ end[1][1] = "/"
  <2> HIDE DEF path
  <2>1. end \in Seq(S) /\ end # <<>> /\ end[1] = path[1]
    BY <1>2, <1>4
  <2> HIDE DEF end
  <2> QED BY <1>3, <1>4, <2>1
<1>7. Kinds(end) \cap Userinfo = {}
  <2>1. Kinds(path) \cap Userinfo = {}
    <3>1. r \in Seq(Without(S, Userinfo))
        BY <1>3, WithoutKinds
    <3>2. path \in Seq(Without(S, Userinfo))
        BY <3>1, CutTypes
    <3> HIDE DEF path
    <3> QED BY <1>4, <3>2, WithoutKinds
  <2>2. Kinds(tail) \cap Userinfo = {}
    BY <1>2, WithoutKinds
  <2> HIDE DEF path
  <2> QED BY <1>2, <1>4, <2>1, <2>2, KindsConcat
<1>8. Before(end, {"?", "#"}) = Before(r, {"?", "#"})
  <2> DEFINE few == {"?"}
             many == {"?", "#"}
             p == Before(r, few)
  <2>1. few \subseteq many /\ (tail # <<>> => tail[1][1] \in many) /\ p \in Seq(S)
    BY <1>2, <1>4
  <2> HIDE DEF few, many
  <2>2. Before(r, many) = Before(p, many)
    BY <1>3, <2>1, BeforeMore
  <2> HIDE DEF p
  <2>3. Before(p \o tail, many) = Before(p, many)
    BY <1>2, <2>1, BeforeFirst
  <2> QED BY <2>2, <2>3 DEF p, few, many
<1> HIDE DEF path, end, changed
<1>9. Before(changed, {"/"}) = a /\ From(changed, {"/"}) = end /\ changed \in Seq(S)
  <2> DEFINE kinds == {"/"}
  <2>1. Kinds(a) \cap kinds = {} /\ end[1][1] \in kinds
    <3>1. Kinds(a) \cap kinds = {}
        BY <1>3
    <3> QED BY <1>6, <3>1
  <2> HIDE DEF kinds
  <2>2. Before(end, kinds) = <<>> /\ From(end, kinds) = end
    BY <1>6, <2>1, CutAtFront
  <2>3. a \in Seq(S) /\ end \in Seq(S)
    BY <1>3, <1>6
  <2>4. /\ Before(a \o end, kinds) = a \o Before(end, kinds)
        /\ From(a \o end, kinds) = From(end, kinds)
    BY <2>1, <2>3, CutSecond
  <2>5. a \o <<>> = a /\ a \o end \in Seq(S)
    BY <2>3
  <2> QED BY <1>5, <2>2, <2>4, <2>5 DEF kinds
<1>10. Before(url, {"/"}) = a /\ From(url, {"/"}) = r
    BY DEF a, r, Authority, Rest
<1>11. IsUrl(changed)
  <2>1. changed \in Seq(ToSet(changed)) /\ "/" \in Kinds(changed)
    <3>1. changed \in Seq(ToSet(changed))
        BY <1>9, OfItsTokens
    <3>2. Kinds(changed) = Kinds(a) \cup Kinds(end)
        BY <1>3, <1>5, <1>6, KindsConcat
    <3>3. "/" \in Kinds(end)
        BY <1>6 DEF Kinds
    <3> QED BY <3>1, <3>2, <3>3
  <2>2. ASSUME NEW i \in DOMAIN changed, changed[i][1] = "host"
        PROVE  changed[i][2] \in Seq(ToSet(changed[i][2])) \ {<<>>}
    <3>1. i \in DOMAIN url /\ changed[i] = url[i]
        <4>1. /\ DOMAIN changed = 1..(Len(a) + Len(end)) /\ Len(a) \in Nat /\ Len(end) \in Nat
              /\ DOMAIN end = 1..Len(end) /\ DOMAIN url = 1..(Len(a) + Len(r)) /\ Len(r) \in Nat
              /\ \A j \in 1..Len(a) : changed[j] = a[j] /\ url[j] = a[j]
              /\ \A j \in 1..Len(end) : changed[Len(a) + j] = end[j]
            BY <1>3, <1>5, <1>6
        <4>2. i \in 1..Len(a)
            <5> SUFFICES ASSUME i \notin 1..Len(a) PROVE FALSE
                OBVIOUS
            <5> DEFINE j == i - Len(a)
            <5>1. j \in DOMAIN end /\ Len(a) + j = i
                BY <4>1
            <5> HIDE DEF j
            <5>2. end[j][1] = "host"
                BY <2>2, <4>1, <5>1
            <5> QED BY <1>7, <5>1, <5>2 DEF Kinds, Userinfo
        <4> QED BY <4>1, <4>2
    <3>2. url[i][1] = "host"
        BY <2>2, <3>1
    <3> QED BY <3>1, <3>2 DEF IsUrl
  <2>3. Shape(Before(changed, {"/"})) \in AuthorityKinds
    BY <1>9, <1>10 DEF IsUrl
  <2>4. {"user", "pass", "host"} \cap Kinds(From(changed, {"/"})) = {}
    BY <1>7, <1>9 DEF Userinfo
  <2> QED BY <2>1, <2>2, <2>3, <2>4 DEF IsUrl
<1>12. ExtractHostname(changed) = ExtractHostname(url)
  <2> DEFINE few == {"/"}
             many == {"/", "?", "#", ":"}
  <2>1. few \subseteq many
    OBVIOUS
  <2>2. Before(changed, few) = a /\ Before(url, few) = a
    BY <1>9, <1>10
  <2> HIDE DEF few, many
  <2>3. Before(changed, many) = Before(a, many) /\ Before(url, many) = Before(a, many)
    BY <1>1, <1>9, <2>1, <2>2, BeforeMore
  <2>4. Before(changed, {"/", "?", "#", ":"}) = Before(url, {"/", "?", "#", ":"})
    BY <2>3 DEF many
  <2> QED BY <2>4 DEF ExtractHostname
<1>13. ExtractPath(changed) = ExtractPath(url)
    BY <1>8, <1>9, <1>10 DEF ExtractPath
<1> QED BY <1>11, <1>12, <1>13 DEF changed

\* Stripping a URL leaves its host and its path.
LEMMA StripKeepsHostAndPath ==
    ASSUME NEW url, IsUrl(url), NEW params
    PROVE  LET target == StripTrackingParameters(params, url).cleaned_url
           IN  /\ IsUrl(target) /\ ExtractHostname(target) = ExtractHostname(url)
               /\ ExtractPath(target) = ExtractPath(url)
<1> DEFINE items == Items(QueryText(url), "&")
           removed == {k \in DOMAIN items : IsTrackingParameter(params, Key(items[k]))}
           kept == Pick(items, DOMAIN items \ removed)
           target == StripTrackingParameters(params, url).cleaned_url
           T == Without(Tokens(url), Userinfo)
<1>1. target = IF removed = {} THEN url ELSE Rebuilt(url, kept)
    BY DEF StripTrackingParameters
<1>2. QueryText(url) \in Seq(T)
    BY QueryType
<1>3. items \in Seq(Seq(T))
    BY <1>2, ItemsType
<1>4. kept \in Seq(Seq(T))
  <2> DEFINE V == Seq(T)
             positions == DOMAIN items \ removed
  <2>1. items \in Seq(V)
    BY <1>3
  <2> HIDE DEF items, V, positions
  <2>2. Pick(items, positions) \in Seq(V)
    BY <2>1, PickEmbeds
  <2> QED BY <2>2 DEF positions, V
<1> HIDE DEF kept, removed, target
<1>5. CASE removed = {}
    BY <1>1, <1>5 DEF target
<1>6. CASE removed # {}
  <2>1. PICK tail : IsTail(tail, Tokens(url)) /\ Rebuilt(url, kept) = Before(url, {"?"}) \o tail
    BY <1>4, RebuiltTail
  <2>2. target = Before(url, {"?"}) \o tail
    BY <1>1, <1>6, <2>1
  <2> QED BY <2>1, <2>2, SameHostAndPath DEF target
<1> QED BY <1>5, <1>6

-----------------------------------------------------------------------------
(* Items of a joined text, and what stripping leaves of a query *)

\* A place in a text is the same in a longer one.
LEMMA EmbedsLonger ==
    ASSUME NEW s, NEW e, NEW text, NEW longer, NEW chosen, Embeds(e, s, text, chosen),
           \A i \in chosen : longer[i] = text[i]
    PROVE  Embeds(e, s, longer, chosen)
BY DEF Embeds

\* Where an item begins: a part that is not empty.
ItemStarts(text, kind) == {i \in Starts(text, kind) : text[i][1] # kind}

\* The parts that begin at each place of a text.
PartsAt(text, kind) == [i \in DOMAIN text |-> PartAt(text, kind, i)]

\* The items are the parts at their starts, each once and in their order.
LEMMA ItemsEmbed ==
    ASSUME NEW S, NEW text \in Seq(S), NEW kind
    PROVE  \E e : Embeds(e, Items(text, kind), PartsAt(text, kind), ItemStarts(text, kind))
<1> DEFINE starts == PartStarts(text, kind)
           parts == Parts(text, kind)
           items == Items(text, kind)
           chosen == {k \in DOMAIN parts : parts[k] # <<>>}
           T == Seq(S)
           begins == Starts(text, kind)
<1>1. /\ starts \in [1..Len(starts) -> begins] /\ Len(starts) \in Nat
      /\ \A j, k \in 1..Len(starts) : j < k => starts[j] < starts[k]
      /\ \A i \in begins : \E k \in 1..Len(starts) : starts[k] = i
    BY PartStartsEmbed
<1>2. DOMAIN parts = 1..Len(starts) /\ parts \in Seq(T)
    BY PartIs, PartsType
<1>3. begins \subseteq DOMAIN text
    BY DEF Starts
<1>4. \A k \in DOMAIN parts :
        /\ starts[k] \in begins /\ parts[k] = PartAt(text, kind, starts[k])
        /\ parts[k] = <<>> <=> text[starts[k]][1] = kind
  <2> SUFFICES ASSUME NEW k \in DOMAIN parts
               PROVE  /\ starts[k] \in begins /\ parts[k] = PartAt(text, kind, starts[k])
                      /\ parts[k] = <<>> <=> text[starts[k]][1] = kind
    OBVIOUS
  <2> DEFINE i == starts[k]
  <2>1. parts[k] = PartAt(text, kind, i)
    BY <1>2, PartIs
  <2>2. i \in begins /\ i \in DOMAIN text
    BY <1>1, <1>2, <1>3
  <2> HIDE DEF starts, parts, i, begins
  <2>3. PartAt(text, kind, i) = <<>> <=> text[i][1] = kind
    BY <2>2, PartBegins
  <2> QED BY <2>1, <2>2, <2>3 DEF i
<1>5. items = Pick(parts, chosen) /\ chosen \cap DOMAIN parts = chosen
    BY DEF Items
<1>6. PICK d : Embeds(d, items, parts, chosen)
  <2> HIDE DEF parts, chosen, T, items
  <2>1. \E d : Embeds(d, Pick(parts, chosen), parts, chosen \cap DOMAIN parts)
    BY <1>2, PickEmbeds
  <2> QED BY <1>5, <2>1
<1> HIDE DEF items, parts, starts, begins
<1> DEFINE e == [n \in DOMAIN items |-> starts[d[n]]]
           here == ItemStarts(text, kind)
<1>7. \A k \in chosen : k \in 1..Len(starts) /\ k \in Nat /\ starts[k] \in here
    BY <1>2, <1>4 DEF ItemStarts, begins
<1>8. \A i \in here : \E k \in chosen : starts[k] = i
  <2> SUFFICES ASSUME NEW i \in here PROVE \E k \in chosen : starts[k] = i
    OBVIOUS
  <2>1. i \in begins /\ text[i][1] # kind
    BY DEF ItemStarts, begins
  <2>2. PICK k \in 1..Len(starts) : starts[k] = i
    BY <1>1, <2>1
  <2> QED BY <1>2, <1>4, <2>1, <2>2
<1>9. /\ d \in [DOMAIN items -> chosen]
      /\ \A j, k \in DOMAIN items : j < k => d[j] < d[k]
      /\ \A i \in chosen : \E k \in DOMAIN items : d[k] = i
      /\ \A k \in DOMAIN items : items[k] = parts[d[k]]
    BY <1>6 DEF Embeds
<1> HIDE DEF chosen
<1>10. e \in [DOMAIN items -> here]
    BY <1>7, <1>9
<1>11. ASSUME NEW j \in DOMAIN items, NEW k \in DOMAIN items, j < k PROVE e[j] < e[k]
  <2>1. d[j] < d[k] /\ d[j] \in 1..Len(starts) /\ d[k] \in 1..Len(starts)
    BY <1>7, <1>9, <1>11
  <2> QED BY <1>1, <2>1
<1>12. \A i \in here : \E k \in DOMAIN items : e[k] = i
    BY <1>8, <1>9
<1>13. ASSUME NEW k \in DOMAIN items PROVE items[k] = PartsAt(text, kind)[e[k]]
  <2>1. d[k] \in chosen /\ d[k] \in DOMAIN parts
    BY <1>2, <1>7, <1>9
  <2>2. starts[d[k]] \in DOMAIN text
    BY <1>3, <1>4, <2>1
  <2> QED BY <1>4, <1>9, <2>1, <2>2 DEF PartsAt
<1>14. Embeds(e, items, PartsAt(text, kind), here)
  <2> HIDE DEF e, here
  <2> QED BY <1>10, <1>11, <1>12, <1>13 DEF Embeds
<1> HIDE DEF e
<1> QED BY <1>14 DEF items

\* A text without the delimiter is one item.
LEMMA OneItem ==
    ASSUME NEW S, NEW y \in Seq(S), NEW kind, y # <<>>, kind \notin Kinds(y)
    PROVE  Items(y, kind) = <<y>>
<1> DEFINE T == Seq(S)
           here == ItemStarts(y, kind)
           at == PartsAt(y, kind)
           kinds == {kind}
<1>1. DOMAIN y = 1..Len(y) /\ Len(y) \in Nat /\ 1 \in DOMAIN y
    OBVIOUS
<1>2. \A i \in DOMAIN y : y[i][1] # kind
    BY DEF Kinds
<1>3. here = {1}
  <2>1. ASSUME NEW i \in here PROVE i = 1
    <3>1. i \in DOMAIN y /\ (i = 1 \/ y[i - 1][1] = kind)
        BY DEF ItemStarts, Starts
    <3> QED BY <1>1, <1>2, <3>1
  <2>2. 1 \in here
    BY <1>1, <1>2 DEF ItemStarts, Starts
  <2> HIDE DEF here
  <2> QED BY <2>1, <2>2
<1>4. at[1] = y
  <2>1. Suffix(y, 1) = y
    BY DEF Suffix
  <2>2. Kinds(y) \cap kinds = {}
    OBVIOUS
  <2> HIDE DEF kinds
  <2>3. Before(y, kinds) = y
    BY <2>2, Uncut
  <2> QED BY <1>1, <2>1, <2>3 DEF PartsAt, PartAt, kinds
<1> DEFINE one == <<y>>
           f == [k \in {1} |-> 1]
<1>5. one \in Seq(T) /\ DOMAIN one = {1} /\ one[1] = y
    OBVIOUS
<1>6. Items(y, kind) \in Seq(T)
    BY ItemsType
<1>7. PICK e : Embeds(e, Items(y, kind), at, here)
    BY ItemsEmbed
<1> HIDE DEF one, at, here, T
<1>8. Embeds(f, one, at, here)
    BY <1>3, <1>4, <1>5 DEF Embeds
<1>9. here \in SUBSET Nat
    BY <1>3
<1> HIDE DEF f
<1>10. Items(y, kind) = one
    BY <1>5, <1>6, <1>7, <1>8, <1>9, EmbedsOnce
<1> QED BY <1>10 DEF one

\* A text put together, from a place in its first part on.
LEMMA SuffixConcat ==
    ASSUME NEW S, NEW a \in Seq(S), NEW b \in Seq(S), NEW i \in 1..Len(a)
    PROVE  Suffix(a \o b, i) = Suffix(a, i) \o b /\ Suffix(a, i) \in Seq(S)
<1> DEFINE t == a \o b
           u == Suffix(t, i)
           v == Suffix(a, i)
           w == v \o b
<1>1. /\ t \in Seq(S) /\ Len(t) = Len(a) + Len(b)
      /\ \A j \in 1..Len(a) : t[j] = a[j]
      /\ \A j \in 1..Len(b) : t[Len(a) + j] = b[j]
    OBVIOUS
<1>2. Len(a) \in Nat /\ Len(b) \in Nat
    OBVIOUS
<1>3. /\ v \in Seq(S) /\ Len(v) = Len(a) - i + 1
      /\ \A j \in 1..(Len(a) - i + 1) : v[j] = a[i + j - 1]
    BY <1>2 DEF Suffix
<1> HIDE DEF t, v
<1>4. /\ u \in Seq(S) /\ Len(u) = Len(t) - i + 1
      /\ \A j \in 1..(Len(t) - i + 1) : u[j] = t[i + j - 1]
    BY <1>1, <1>2 DEF Suffix
<1> HIDE DEF u
<1>5. /\ w \in Seq(S) /\ Len(w) = Len(v) + Len(b)
      /\ \A j \in 1..Len(v) : w[j] = v[j]
      /\ \A j \in 1..Len(b) : w[Len(v) + j] = b[j]
  <2>1. v \in Seq(S)
    BY <1>3
  <2> QED BY <2>1
<1> HIDE DEF w
<1>6. Len(u) = Len(w)
    BY <1>1, <1>2, <1>3, <1>4, <1>5
<1>7. ASSUME NEW j \in 1..Len(u) PROVE u[j] = w[j]
  <2>1. CASE j <= Len(v)
    <3>1. j \in 1..Len(v) /\ i + j - 1 \in 1..Len(a)
        BY <1>2, <1>3, <1>4, <2>1
    <3>2. w[j] = a[i + j - 1] /\ u[j] = t[i + j - 1] /\ t[i + j - 1] = a[i + j - 1]
        BY <1>1, <1>3, <1>4, <1>5, <3>1
    <3> QED BY <3>2
  <2>2. CASE ~(j <= Len(v))
    <3>1. j - Len(v) \in 1..Len(b) /\ j = Len(v) + (j - Len(v))
        BY <1>1, <1>2, <1>3, <1>4, <2>2
    <3>2. i + j - 1 = Len(a) + (j - Len(v))
        BY <1>1, <1>2, <1>3, <1>4, <2>2
    <3>3. w[j] = b[j - Len(v)] /\ t[i + j - 1] = b[j - Len(v)]
        BY <1>1, <1>5, <3>1, <3>2
    <3>4. u[j] = t[i + j - 1]
        BY <1>4
    <3> QED BY <3>3, <3>4
  <2> QED BY <2>1, <2>2
<1>8. u = w
    BY <1>4, <1>5, <1>6, <1>7, SameText
<1> QED BY <1>3, <1>8 DEF t, u, v, w

\* What is in a text behind a delimiter.
LEMMA Delimited ==
    ASSUME NEW S, NEW x \in Seq(S), NEW y \in Seq(S), NEW kind, <<kind>> \in S
    PROVE  LET text == x \o << <<kind>> >> \o y
           IN  /\ text \in Seq(S) /\ Len(text) = Len(x) + 1 + Len(y)
               /\ \A i \in 1..Len(x) : text[i] = x[i]
               /\ text[Len(x) + 1] = <<kind>>
               /\ \A i \in 1..Len(y) : text[Len(x) + 1 + i] = y[i]
<1> DEFINE mark == << <<kind>> >>
           token == <<kind>>
           front == x \o mark
           text == front \o y
<1>1. mark \in Seq(S) /\ Len(mark) = 1 /\ mark[1] = token /\ Len(x) \in Nat
    OBVIOUS
<1> HIDE DEF mark, token
<1>2. /\ front \in Seq(S) /\ Len(front) = Len(x) + Len(mark)
      /\ \A i \in 1..Len(x) : front[i] = x[i]
      /\ \A i \in 1..Len(mark) : front[Len(x) + i] = mark[i]
  <2>1. mark \in Seq(S)
    BY <1>1
  <2> QED BY <2>1
<1> HIDE DEF front
<1>3. /\ text \in Seq(S) /\ Len(text) = Len(front) + Len(y)
      /\ \A i \in 1..Len(front) : text[i] = front[i]
      /\ \A i \in 1..Len(y) : text[Len(front) + i] = y[i]
  <2>1. front \in Seq(S)
    BY <1>2
  <2> QED BY <2>1
<1> HIDE DEF text
<1>4. Len(front) = Len(x) + 1 /\ front[Len(x) + 1] = token
    BY <1>1, <1>2
<1>5. \A i \in 1..Len(x) : text[i] = x[i]
    BY <1>1, <1>2, <1>3, <1>4
<1>6. text[Len(x) + 1] = token
    BY <1>1, <1>3, <1>4
<1> QED BY <1>3, <1>4, <1>5, <1>6 DEF text, front, mark, token

\* An item behind a delimiter is one item more.
LEMMA ItemsAppend ==
    ASSUME NEW S, NEW x \in Seq(S), NEW y \in Seq(S), NEW kind, <<kind>> \in S,
           y # <<>>, kind \notin Kinds(y)
    PROVE  Items(x \o << <<kind>> >> \o y, kind) = Append(Items(x, kind), y)
<1> DEFINE text == x \o << <<kind>> >> \o y
           rest == << <<kind>> >> \o y
           kinds == {kind}
           T == Seq(S)
           n == Len(x) + 2
           before == ItemStarts(x, kind)
           here == ItemStarts(text, kind)
           at == PartsAt(text, kind)
<1>1. /\ text \in Seq(S) /\ Len(text) = Len(x) + 1 + Len(y)
      /\ \A i \in 1..Len(x) : text[i] = x[i]
      /\ text[Len(x) + 1] = <<kind>>
      /\ \A i \in 1..Len(y) : text[Len(x) + 1 + i] = y[i]
    BY Delimited
<1>2. /\ DOMAIN x = 1..Len(x) /\ Len(x) \in Nat /\ DOMAIN y = 1..Len(y) /\ Len(y) \in Nat
      /\ Len(y) >= 1
    OBVIOUS
<1>3. \A i \in 1..Len(y) : y[i][1] # kind
    BY <1>2 DEF Kinds
<1>4. rest \in Seq(S) /\ rest # <<>> /\ rest[1] = <<kind>> /\ text = x \o rest
    OBVIOUS
<1>5. DOMAIN text = 1..Len(text)
    BY <1>1
<1> HIDE DEF text, rest, kinds
<1>6. n \in DOMAIN text /\ text[n] = y[1] /\ n \in Nat
    BY <1>1, <1>2, <1>5
<1>7. here = before \cup {n}
  <2>1. ASSUME NEW i \in here PROVE i \in before \cup {n}
    <3>1. i \in 1..Len(text) /\ (i = 1 \/ text[i - 1][1] = kind) /\ text[i][1] # kind
        BY <1>5 DEF ItemStarts, Starts
    <3>2. CASE i <= Len(x)
      <4>1. i \in 1..Len(x) /\ (i = 1 \/ i - 1 \in 1..Len(x))
        BY <1>2, <3>1, <3>2
      <4> QED BY <1>1, <1>2, <3>1, <4>1 DEF ItemStarts, Starts
    <3>3. CASE i = Len(x) + 1
        BY <1>1, <3>1, <3>3
    <3>4. CASE i > n
      <4>1. i - 1 - (Len(x) + 1) \in 1..Len(y) /\ i - 1 = Len(x) + 1 + (i - 1 - (Len(x) + 1))
        BY <1>1, <1>2, <3>1, <3>4
      <4>2. text[i - 1] = y[i - 1 - (Len(x) + 1)]
        BY <1>1, <4>1
      <4>3. text[i - 1][1] # kind /\ i # 1
        BY <1>2, <1>3, <3>4, <4>1, <4>2
      <4> QED BY <3>1, <4>3
    <3> QED BY <1>2, <3>1, <3>2, <3>3, <3>4, SMTT(30)
  <2>2. ASSUME NEW i \in before PROVE i \in here
    <3>1. i \in 1..Len(x) /\ (i = 1 \/ x[i - 1][1] = kind) /\ x[i][1] # kind
        BY <1>2 DEF ItemStarts, Starts
    <3>2. i \in 1..Len(text) /\ (i = 1 \/ i - 1 \in 1..Len(x))
        BY <1>1, <1>2, <3>1
    <3> QED BY <1>1, <1>5, <3>1, <3>2 DEF ItemStarts, Starts
  <2>3. n \in here
    <3>1. n - 1 = Len(x) + 1 /\ text[n - 1] = <<kind>>
        BY <1>1, <1>2
    <3>2. text[n][1] # kind /\ text[n - 1][1] = kind
        BY <1>2, <1>3, <1>6, <3>1
    <3> QED BY <1>6, <3>2 DEF ItemStarts, Starts
  <2> HIDE DEF here, before, n
  <2> QED BY <2>1, <2>2, <2>3
<1>8. ASSUME NEW i \in before PROVE i < n /\ i \in DOMAIN text /\ at[i] = PartsAt(x, kind)[i]
  <2>1. i \in 1..Len(x)
    BY <1>2 DEF ItemStarts, Starts
  <2>2. i \in DOMAIN text /\ i < n
    BY <1>1, <1>2, <1>5, <2>1
  <2>3. Suffix(text, i) = Suffix(x, i) \o rest /\ Suffix(x, i) \in Seq(S)
    BY <1>4, <2>1, SuffixConcat
  <2>4. Before(Suffix(x, i) \o rest, kinds) = Before(Suffix(x, i), kinds)
    <3>1. rest[1][1] \in kinds
        BY <1>4 DEF kinds
    <3> QED BY <1>4, <2>3, <3>1, BeforeFirst
  <2> QED BY <1>2, <2>1, <2>2, <2>3, <2>4 DEF PartsAt, PartAt, kinds
<1>9. at[n] = y
  <2>1. Suffix(text, n) = y
    <3>1. Suffix(text, n) \in Seq(S) /\ Len(Suffix(text, n)) = Len(y)
        BY <1>1, <1>2 DEF Suffix
    <3>2. ASSUME NEW i \in 1..Len(y) PROVE Suffix(text, n)[i] = y[i]
      <4>1. Suffix(text, n)[i] = text[Len(x) + 1 + i]
        BY <1>1, <1>2 DEF Suffix
      <4> QED BY <1>1, <4>1
    <3> HIDE DEF n
    <3> QED BY <3>1, <3>2, SameText
  <2>2. Kinds(y) \cap kinds = {}
    BY DEF kinds
  <2>3. Before(y, kinds) = y
    BY <2>2, Uncut
  <2> QED BY <1>6, <2>1, <2>3 DEF PartsAt, PartAt, kinds
<1> HIDE DEF at, here, before, n
<1>10. PICK e : Embeds(e, Items(x, kind), PartsAt(x, kind), before)
    BY ItemsEmbed DEF before
<1>11. Items(x, kind) \in Seq(T) /\ Items(text, kind) \in Seq(T)
    BY <1>1, ItemsType
<1>12. before \in SUBSET Nat
    BY <1>2 DEF before, ItemStarts, Starts
<1>13. Embeds(e, Items(x, kind), at, before)
    BY <1>8, <1>10, EmbedsLonger
<1>14. y \in T
    OBVIOUS
<1> HIDE DEF T
<1>15. PICK f : Embeds(f, Append(Items(x, kind), at[n]), at, before \cup {n})
    BY <1>6, <1>8, <1>9, <1>11, <1>12, <1>13, <1>14, EmbedsAppend
<1>16. PICK g : Embeds(g, Items(text, kind), at, here)
    BY <1>1, ItemsEmbed DEF at, here
<1>17. here \in SUBSET Nat /\ Append(Items(x, kind), y) \in Seq(T)
  <2>1. here \in SUBSET Nat
    BY <1>6, <1>7, <1>12
  <2>2. Append(Items(x, kind), y) \in Seq(T)
    BY <1>11, <1>14
  <2> QED BY <2>1, <2>2
<1> DEFINE more == Append(Items(x, kind), y)
           all == Items(text, kind)
<1>19. /\ Embeds(f, more, at, here) /\ more \in Seq(T)
       /\ Embeds(g, all, at, here) /\ all \in Seq(T)
    BY <1>7, <1>9, <1>11, <1>15, <1>16, <1>17
<1> HIDE DEF more, all
<1>18. all = more
    BY <1>17, <1>19, EmbedsOnce
<1>20. Items(text, kind) = Append(Items(x, kind), y)
    BY <1>18 DEF all, more
<1> QED BY <1>20 DEF text

\* No text has no items.
LEMMA NoItems ==
    ASSUME NEW kind
    PROVE  Items(<<>>, kind) = <<>>
<1> DEFINE none == <<>>
           S == {}
           T == Seq(S)
<1>1. none \in Seq(S)
    OBVIOUS
<1>2. ItemStarts(none, kind) = {}
    BY DEF ItemStarts, Starts
<1> HIDE DEF none, S
<1>3. PICK e : Embeds(e, Items(none, kind), PartsAt(none, kind), ItemStarts(none, kind))
    BY <1>1, ItemsEmbed
<1>4. Items(none, kind) \in Seq(T)
    BY <1>1, ItemsType
<1>5. DOMAIN Items(none, kind) = {}
    BY <1>2, <1>3 DEF Embeds
<1> HIDE DEF T
<1>6. Items(none, kind) = <<>>
    BY <1>4, <1>5
<1> QED BY <1>6 DEF none

\* A nonempty text without the delimiter.
IsPart(part, kind) == part # <<>> /\ kind \notin Kinds(part)

\* Cutting a joined text into items returns what was joined.
LEMMA ItemsOfJoin ==
    ASSUME NEW S, NEW parts \in Seq(Seq(S)), NEW kind, <<kind>> \in S,
           \A k \in DOMAIN parts : IsPart(parts[k], kind)
    PROVE  Items(Join(parts, kind), kind) = parts
<1> DEFINE T == Seq(S)
           L == Len(parts)
           First(n) == SubSeq(parts, 1, n)
<1>1. PICK J \in [0..L -> T] : Joins(J, parts, kind)
    BY JoinRecursion
<1> DEFINE I == {n \in Nat : n \in 1..L => Items(J[n], kind) = First(n)}
<1>2. L \in Nat /\ DOMAIN parts = 1..L /\ parts \in Seq(T)
    OBVIOUS
<1>3. 0 \in I
    BY <1>2
<1>4. ASSUME NEW n \in 1..L PROVE parts[n] \in T /\ parts[n] # <<>> /\ kind \notin Kinds(parts[n])
  <2>1. n \in DOMAIN parts /\ IsPart(parts[n], kind)
    BY <1>2
  <2>2. parts[n] \in T
    BY <1>2
  <2> QED BY <2>1, <2>2 DEF IsPart
<1>5. 1 \in 1..L => Items(J[1], kind) = First(1)
  <2> SUFFICES ASSUME 1 \in 1..L PROVE Items(J[1], kind) = First(1)
    OBVIOUS
  <2>1. J[1] = parts[1]
    BY <1>1 DEF Joins, JoinStep
  <2> DEFINE one == parts[1]
  <2>2. one \in Seq(S) /\ one # <<>> /\ kind \notin Kinds(one)
    BY <1>4
  <2>3. First(1) = <<one>>
    <3> DEFINE first == First(1)
               only == <<one>>
    <3>1. first \in Seq(T) /\ Len(first) = 1 /\ first[1] = one
        BY <1>2
    <3>2. only \in Seq(T) /\ Len(only) = 1 /\ only[1] = one
        BY <2>2
    <3> HIDE DEF first, only
    <3>3. \A i \in 1..Len(first) : first[i] = only[i]
        BY <3>1, <3>2
    <3>4. first = only
      <4> HIDE DEF T
      <4> QED BY <3>1, <3>2, <3>3, SameText
    <3> QED BY <3>4 DEF first, only
  <2> HIDE DEF one
  <2>4. Items(one, kind) = <<one>>
    BY <2>2, OneItem
  <2> HIDE DEF First
  <2> QED BY <2>1, <2>3, <2>4 DEF one
<1>6. ASSUME NEW n \in Nat, n \in I PROVE n + 1 \in I
  <2> SUFFICES ASSUME n + 1 \in 1..L PROVE Items(J[n + 1], kind) = First(n + 1)
    OBVIOUS
  <2>0. CASE n = 0
    <3>1. n + 1 = 1
        BY <2>0
    <3> HIDE DEF First
    <3> QED BY <1>5, <3>1
  <2> SUFFICES ASSUME n # 0 PROVE Items(J[n + 1], kind) = First(n + 1)
    BY <2>0
  <2> DEFINE x == J[n]
             y == parts[n + 1]
  <2>1. n \in 1..L /\ n \in 0..L /\ n + 1 # 1 /\ (n + 1) - 1 = n
    BY <1>2
  <2>2. J[n + 1] = x \o << <<kind>> >> \o y
    BY <1>1, <2>1 DEF Joins, JoinStep
  <2>3. Items(x, kind) = First(n)
    BY <1>6, <2>1
  <2>4. x \in Seq(S) /\ y \in Seq(S) /\ y # <<>> /\ kind \notin Kinds(y)
    BY <1>1, <1>4, <2>1
  <2>5. Append(First(n), y) = First(n + 1)
    <3>1. First(n) \in Seq(T) /\ Len(First(n)) = n /\ \A i \in 1..n : First(n)[i] = parts[i]
        BY <1>2, <2>1
    <3>2. /\ First(n + 1) \in Seq(T) /\ Len(First(n + 1)) = n + 1
          /\ \A i \in 1..(n + 1) : First(n + 1)[i] = parts[i]
        BY <1>2, <2>1
    <3>3. y \in T
        BY <2>4
    <3> HIDE DEF First, T
    <3> DEFINE more == Append(First(n), y)
    <3>4. /\ more \in Seq(T) /\ Len(more) = n + 1 /\ more[n + 1] = y
          /\ \A i \in 1..n : more[i] = parts[i]
        BY <3>1, <3>3
    <3> HIDE DEF more
    <3>5. \A i \in 1..(n + 1) : more[i] = First(n + 1)[i]
        BY <3>2, <3>4
    <3>6. more = First(n + 1)
        BY <3>2, <3>4, <3>5, SameText
    <3> QED BY <3>6 DEF more
  <2> HIDE DEF x, y, First
  <2>6. Items(x \o << <<kind>> >> \o y, kind) = Append(Items(x, kind), y)
    BY <2>4, ItemsAppend
  <2> QED BY <2>2, <2>3, <2>5, <2>6
<1> HIDE DEF I
<1>7. Nat \subseteq I
    BY <1>3, <1>6, Induction
<1>8. CASE L = 0
  <2>1. parts = <<>> /\ J[L] = <<>>
    BY <1>1, <1>8 DEF Joins
  <2>2. Items(<<>>, kind) = <<>>
    BY NoItems
  <2> QED BY <1>1, <2>1, <2>2 DEF Joins
<1>9. CASE L # 0
  <2>1. L \in 1..L /\ L \in I
    BY <1>2, <1>7, <1>9
  <2>2. Items(J[L], kind) = First(L)
    BY <2>1 DEF I
  <2>3. First(L) = parts
    BY <1>2
  <2> QED BY <1>1, <2>2, <2>3 DEF Joins
<1> QED BY <1>8, <1>9

\* All elements are picked.
LEMMA PickAll ==
    ASSUME NEW S, NEW text \in Seq(S)
    PROVE  Pick(text, DOMAIN text) = text
<1> DEFINE all == Pick(text, DOMAIN text)
           here == DOMAIN text
           id == [i \in here |-> i]
<1>1. all \in Seq(S) /\ here \cap here = here /\ here \in SUBSET Nat
  <2>1. all \in Seq(S)
    BY PickEmbeds
  <2>2. here \in SUBSET Nat
    OBVIOUS
  <2> QED BY <2>1, <2>2
<1>2. PICK e : Embeds(e, all, text, here)
  <2> HIDE DEF here
  <2>1. \E e : Embeds(e, Pick(text, here), text, here \cap here)
    BY PickEmbeds DEF here
  <2> QED BY <1>1, <2>1 DEF all, here
<1>3. Embeds(id, text, text, here)
    BY <1>1 DEF Embeds
<1> HIDE DEF all, here, id
<1>4. all = text
    BY <1>1, <1>2, <1>3, EmbedsOnce
<1> QED BY <1>4 DEF all, here

\* What is before the query and what is behind it.
Encloses(p, g) == Kinds(p) \cap {"?", "#"} = {} /\ (g # <<>> => g[1][1] = "#")

\* A URL with a query: what is before the "?", the "?" with the query, the fragment.
IsCut(p, r, g) == Encloses(p, g) /\ r # <<>> /\ r[1][1] = "?" /\ "#" \notin Kinds(r)

\* What the scanners find in it.
AreParts(url, p, q, g) ==
    /\ Before(url, {"?"}) = p /\ Before(url, {"?", "#"}) = p
    /\ From(url, {"#"}) = g /\ FragmentText(url) = g
    /\ QueryText(url) = q /\ QueryText(Before(url, {"#"})) = q

\* A text that begins with the delimiter, if it is not empty, is all from it on.
LEMMA FromFront ==
    ASSUME NEW S, NEW g \in Seq(S), NEW kinds, g # <<>> => g[1][1] \in kinds
    PROVE  From(g, kinds) = g
<1>1. CASE g = <<>>
  <2>1. Kinds(g) \cap kinds = {}
    BY <1>1 DEF Kinds
  <2> QED BY <1>1, <2>1, Uncut
<1>2. CASE g # <<>>
    BY <1>2, CutAtFront
<1> QED BY <1>1, <1>2

\* The rest of a text has no other kinds.
LEMMA TailKinds ==
    ASSUME NEW S, NEW r \in Seq(S), r # <<>>
    PROVE  Tail(r) \in Seq(S) /\ Kinds(Tail(r)) \subseteq Kinds(r)
<1>1. /\ Tail(r) \in Seq(S) /\ DOMAIN Tail(r) = 1..(Len(r) - 1) /\ DOMAIN r = 1..Len(r)
      /\ \A i \in 1..(Len(r) - 1) : Tail(r)[i] = r[i + 1] /\ i + 1 \in 1..Len(r)
    OBVIOUS
<1> QED BY <1>1 DEF Kinds

LEMMA UrlOfParts ==
    ASSUME NEW S, NEW p \in Seq(S), NEW r \in Seq(S), NEW g \in Seq(S), IsCut(p, r, g)
    PROVE  AreParts(p \o r \o g, p, Tail(r), g) /\ p \o r \o g \in Seq(S)
<1> DEFINE mark == {"?"}
           hash == {"#"}
           both == {"?", "#"}
           b == p \o r
           url == b \o g
           q == Tail(r)
<1>1. /\ Kinds(p) \cap mark = {} /\ Kinds(p) \cap hash = {} /\ Kinds(p) \cap both = {}
      /\ r # <<>> /\ r[1][1] \in mark /\ r[1][1] \in both /\ Kinds(r) \cap hash = {}
      /\ (g # <<>> => g[1][1] \in hash) /\ (g # <<>> => g[1][1] \in both)
    BY DEF IsCut, Encloses
<1>2. b \in Seq(S) /\ Kinds(b) = Kinds(p) \cup Kinds(r)
  <2>1. b \in Seq(S)
    OBVIOUS
  <2> QED BY <2>1, KindsConcat
<1>3. q \in Seq(S) /\ Kinds(q) \cap hash = {}
    BY <1>1, TailKinds
<1>4. Kinds(r) \cap mark # {}
  <2>1. 1 \in DOMAIN r
    BY <1>1
  <2> HIDE DEF mark
  <2> QED BY <1>1, <2>1 DEF Kinds
<1>5. url \in Seq(S)
    BY <1>2
<1> HIDE DEF mark, hash, both, b, url, q
<1>6. Before(b, mark) = p /\ Before(b, both) = p
  <2>1. Before(b, mark) = Before(p, mark) /\ Before(b, both) = Before(p, both)
    BY <1>1, BeforeFirst DEF b
  <2> QED BY <1>1, <2>1, Uncut
<1>7. After(b, mark) = q
  <2>1. After(b, mark) = After(r, mark)
    BY <1>1, CutSecond DEF b
  <2>2. After(r, mark) = q
    BY <1>1, CutAtFront DEF q
  <2> QED BY <2>1, <2>2
<1>8. Before(url, mark) = p /\ After(url, mark) = q \o g
  <2>1. Kinds(b) \cap mark # {}
    BY <1>2, <1>4
  <2> QED BY <1>2, <1>6, <1>7, <2>1, CutFirst DEF url
<1>9. Before(url, both) = p
    BY <1>1, <1>2, <1>6, BeforeFirst DEF url
<1>10. Kinds(b) \cap hash = {}
    BY <1>1, <1>2
<1>11. Before(url, hash) = b
  <2>1. Before(url, hash) = Before(b, hash)
    BY <1>1, <1>2, BeforeFirst DEF url
  <2> QED BY <1>2, <1>10, <2>1, Uncut
<1>12. From(g, hash) = g
    BY <1>1, FromFront
<1>13. From(url, hash) = g
    BY <1>2, <1>10, <1>12, CutSecond DEF url
<1>14. Before(q, hash) = q
    BY <1>3, Uncut
<1>15. Before(q \o g, hash) = q /\ From(q \o g, hash) = g
  <2>1. Before(q \o g, hash) = Before(q, hash)
    BY <1>1, <1>3, BeforeFirst
  <2>2. From(q \o g, hash) = From(g, hash)
    BY <1>3, CutSecond
  <2> QED BY <1>12, <1>14, <2>1, <2>2
<1> DEFINE end == q \o g
<1>16. QueryText(url) = q /\ FragmentText(url) = g
  <2>1. Before(end, hash) = q /\ From(end, hash) = g /\ After(url, mark) = end
    BY <1>8, <1>15
  <2> HIDE DEF end
  <2> QED BY <2>1 DEF QueryText, FragmentText, mark, hash
<1>17. QueryText(b) = q
    BY <1>7, <1>14 DEF QueryText, mark, hash
<1>18. QueryText(Before(url, hash)) = q
    BY <1>11, <1>17
<1> QED BY <1>5, <1>8, <1>9, <1>13, <1>16, <1>18 DEF AreParts, url, b, q, mark, hash, both

\* The first "?" is before the fragment.
Queried(url) == "?" \in Kinds(Before(url, {"#"}))

CutUrl(url, p, r, g) == IsCut(p, r, g) /\ url = p \o r \o g

\* Such a URL is of these parts.
LEMMA QueryCuts ==
    ASSUME NEW S, NEW url \in Seq(S), Queried(url)
    PROVE  \E p, r, g \in Seq(S) : CutUrl(url, p, r, g)
<1> DEFINE mark == {"?"}
           hash == {"#"}
           b == Before(url, hash)
           g == From(url, hash)
           p == Before(b, mark)
           r == From(b, mark)
<1>1. b \in Seq(S) /\ g \in Seq(S)
    BY CutTypes
<1>2. /\ url = b \o g /\ Kinds(b) \cap hash = {} /\ (g # <<>> => g[1][1] \in hash)
    BY CutInTwo
<1>3. Kinds(b) \cap mark # {}
    BY DEF Queried
<1> HIDE DEF mark, hash, b, g
<1>4. p \in Seq(S) /\ r \in Seq(S)
    BY <1>1, CutTypes
<1>5. /\ b = p \o r /\ Kinds(p) \cap mark = {} /\ r # <<>> /\ r[1][1] \in mark
    BY <1>1, <1>3, CutInTwo
<1> HIDE DEF p, r
<1>6. Kinds(b) = Kinds(p) \cup Kinds(r)
  <2>1. Kinds(p \o r) = Kinds(p) \cup Kinds(r)
    BY <1>4, KindsConcat
  <2> QED BY <1>5, <2>1
<1>7. IsCut(p, r, g)
    BY <1>2, <1>5, <1>6 DEF IsCut, Encloses, mark, hash
<1>8. url = p \o r \o g
    BY <1>2, <1>5
<1>9. CutUrl(url, p, r, g)
    BY <1>7, <1>8 DEF CutUrl
<1> QED BY <1>1, <1>4, <1>9

\* Items are nonempty and without the delimiter.
LEMMA ItemsAreParts ==
    ASSUME NEW S, NEW text \in Seq(S), NEW kind
    PROVE  \A k \in DOMAIN Items(text, kind) : IsPart(Items(text, kind)[k], kind)
<1> DEFINE items == Items(text, kind)
           kinds == {kind}
<1>1. PICK e : Embeds(e, items, PartsAt(text, kind), ItemStarts(text, kind))
    BY ItemsEmbed
<1>2. \A k \in DOMAIN items : items[k] # <<>>
    BY ItemsType
<1> HIDE DEF items
<1>3. ASSUME NEW k \in DOMAIN items PROVE kind \notin Kinds(items[k])
  <2> DEFINE i == e[k]
             rest == Suffix(text, i)
  <2>1. i \in DOMAIN text /\ items[k] = PartAt(text, kind, i)
    BY <1>1 DEF Embeds, ItemStarts, Starts, PartsAt
  <2>2. rest \in Seq(S)
    BY <2>1 DEF Suffix
  <2> HIDE DEF i, rest, kinds
  <2>3. Kinds(Before(rest, kinds)) \cap kinds = {}
    BY <2>2, CutInTwo
  <2> QED BY <2>1, <2>3 DEF PartAt, rest, kinds
<1> QED BY <1>2, <1>3 DEF items, IsPart

\* A joined query is cut out whole, and its items are those that were joined.
LEMMA JoinedQuery ==
    ASSUME NEW S, <<"?">> \in S, <<"&">> \in S, NEW p \in Seq(S), NEW g \in Seq(S), Encloses(p, g),
           NEW items \in Seq(Seq(Without(S, {"#"}))), \A k \in DOMAIN items : IsPart(items[k], "&")
    PROVE  LET url == p \o << <<"?">> >> \o Join(items, "&") \o g
           IN  /\ AreParts(url, p, Join(items, "&"), g)
               /\ Items(Join(items, "&"), "&") = items
<1> DEFINE hash == {"#"}
           T == Without(S, hash)
           j == Join(items, "&")
           token == <<"?">>
           front == <<token>>
           r == front \o j
<1>1. <<"&">> \in T /\ items \in Seq(Seq(T))
    BY DEF Without
<1>2. j \in Seq(T)
  <2> HIDE DEF T
  <2> QED BY <1>1, JoinType
<1>3. j \in Seq(S) /\ Kinds(j) \cap hash = {}
  <2> HIDE DEF j
  <2>1. T \subseteq S
    BY DEF Without
  <2>2. j \in Seq(S)
    BY <1>2, <2>1
  <2> HIDE DEF hash
  <2>3. Kinds(j) \cap hash = {}
    BY <1>2, <2>2, WithoutKinds
  <2> QED BY <2>2, <2>3
<1>4. Items(j, "&") = items
  <2> HIDE DEF T
  <2> QED BY <1>1, ItemsOfJoin
<1> HIDE DEF j
<1>5. front \in Seq(S) /\ Kinds(front) = {"?"} /\ front # <<>> /\ front[1] = token
    BY DEF Kinds
<1>6. r \in Seq(S) /\ r # <<>> /\ r[1] = token /\ Tail(r) = j
    BY <1>3
<1>7. Kinds(r) = Kinds(front) \cup Kinds(j)
  <2>1. front \in Seq(S) /\ j \in Seq(S)
    BY <1>3, <1>5
  <2> HIDE DEF front
  <2> QED BY <2>1, KindsConcat
<1>8. token[1] = "?"
    OBVIOUS
<1>9. p \o front \o j = p \o r
  <2>1. front \in Seq(S)
    BY <1>5
  <2> HIDE DEF front
  <2> QED BY <1>3, <2>1
<1> HIDE DEF r, token, front
<1>10. IsCut(p, r, g)
    BY <1>3, <1>5, <1>6, <1>7, <1>8 DEF IsCut
<1>11. AreParts(p \o r \o g, p, Tail(r), g)
    BY <1>6, <1>10, UrlOfParts
<1>12. AreParts(p \o front \o j \o g, p, j, g)
    BY <1>6, <1>9, <1>11
<1> QED BY <1>4, <1>12 DEF j, front, token

\* A URL that is rebuilt with other items has these in its query, and else what it had.
LEMMA RebuiltQuery ==
    ASSUME NEW S, <<"?">> \in S, <<"&">> \in S, NEW url \in Seq(S), Queried(url),
           NEW items \in Seq(Seq(Without(S, {"#"}))), \A k \in DOMAIN items : IsPart(items[k], "&")
    PROVE  LET rebuilt == Rebuilt(url, items)
           IN  /\ Before(rebuilt, {"?", "#"}) = Before(url, {"?", "#"})
               /\ From(rebuilt, {"#"}) = From(url, {"#"})
               /\ Items(QueryText(Before(rebuilt, {"#"})), "&") = items
<1> DEFINE mark == {"?"}
           hash == {"#"}
           both == {"?", "#"}
           T == Without(S, hash)
           j == Join(items, "&")
           rebuilt == Rebuilt(url, items)
<1>0. PICK p, r, g \in Seq(S) : CutUrl(url, p, r, g)
    BY QueryCuts
<1>1. IsCut(p, r, g) /\ url = p \o r \o g
    BY <1>0 DEF CutUrl
<1>2. AreParts(url, p, Tail(r), g)
    BY <1>1, UrlOfParts
<1>3. /\ Before(url, mark) = p /\ Before(url, both) = p /\ From(url, hash) = g
      /\ FragmentText(url) = g
    BY <1>2 DEF AreParts
<1>4. <<"&">> \in T /\ items \in Seq(Seq(T))
    BY DEF Without
<1>5. j \in Seq(T)
  <2> HIDE DEF T
  <2> QED BY <1>4, JoinType
<1>6. j \in Seq(S) /\ Kinds(j) \cap hash = {}
  <2> HIDE DEF j
  <2>1. T \subseteq S
    BY DEF Without
  <2>2. j \in Seq(S)
    BY <1>5, <2>1
  <2> HIDE DEF hash
  <2>3. Kinds(j) \cap hash = {}
    BY <1>5, <2>2, WithoutKinds
  <2> QED BY <2>2, <2>3
<1>7. Items(j, "&") = items
  <2> HIDE DEF T
  <2> QED BY <1>4, ItemsOfJoin
<1>8. rebuilt = p \o (IF items = <<>> THEN <<>> ELSE << <<"?">> >>) \o j \o g
    BY <1>3 DEF Rebuilt
<1> HIDE DEF j, rebuilt
<1>9. CASE items # <<>>
  <2>1. Encloses(p, g)
    BY <1>1 DEF IsCut
  <2>2. AreParts(p \o << <<"?">> >> \o j \o g, p, j, g)
    BY <2>1, JoinedQuery DEF j
  <2>3. AreParts(rebuilt, p, j, g)
    BY <1>8, <1>9, <2>2
  <2> QED BY <1>3, <1>7, <2>3 DEF AreParts, rebuilt
<1>10. CASE items = <<>>
  <2>1. j = <<>>
    BY <1>10, JoinNothing DEF j
  <2>2. rebuilt = p \o g
    BY <1>8, <1>10, <2>1
  <2>3. /\ Kinds(p) \cap both = {} /\ Kinds(p) \cap hash = {} /\ Kinds(p) \cap mark = {}
        /\ (g # <<>> => g[1][1] \in hash) /\ (g # <<>> => g[1][1] \in both)
    BY <1>1 DEF IsCut, Encloses
  <2> HIDE DEF mark, hash, both
  <2>4. Before(p \o g, both) = p
    <3>1. Before(p \o g, both) = Before(p, both)
        BY <2>3, BeforeFirst
    <3> QED BY <2>3, <3>1, Uncut
  <2>5. Before(p \o g, hash) = p
    <3>1. Before(p \o g, hash) = Before(p, hash)
        BY <2>3, BeforeFirst
    <3> QED BY <2>3, <3>1, Uncut
  <2>6. From(p \o g, hash) = g
    <3>1. From(p \o g, hash) = From(g, hash)
        BY <2>3, CutSecond
    <3>2. From(g, hash) = g
        BY <2>3, FromFront
    <3> QED BY <3>1, <3>2
  <2>7. QueryText(p) = j
    <3>1. After(p, mark) = <<>>
        BY <2>3, Uncut
    <3>2. Before(j, hash) = j
        BY <1>6, Uncut
    <3> QED BY <2>1, <3>1, <3>2 DEF QueryText, mark, hash
  <2> QED BY <1>3, <1>7, <2>2, <2>4, <2>5, <2>6, <2>7 DEF rebuilt, mark, hash, both
<1> QED BY <1>9, <1>10

\* The items of a query that both ways to cut it out have.
LEMMA QueryItems ==
    ASSUME NEW S, NEW url \in Seq(S), Queried(url)
    PROVE  /\ QueryText(url) = QueryText(Before(url, {"#"}))
           /\ QueryText(url) \in Seq(Without(S, {"#"}))
<1>1. PICK p, r, g \in Seq(S) : CutUrl(url, p, r, g)
    BY QueryCuts
<1>2. IsCut(p, r, g) /\ url = p \o r \o g
    BY <1>1 DEF CutUrl
<1> DEFINE q == Tail(r)
           hash == {"#"}
<1>3. AreParts(url, p, q, g)
    BY <1>2, UrlOfParts
<1>4. q \in Seq(S) /\ Kinds(q) \cap hash = {}
    BY <1>2, TailKinds DEF IsCut, Encloses
<1> HIDE DEF q, hash
<1>5. q \in Seq(Without(S, hash))
    BY <1>4, WithoutKinds
<1> QED BY <1>3, <1>5 DEF AreParts, hash

\* Stripping takes the tracking parameters out of the query and nothing else.
LEMMA StripRemoves ==
    ASSUME NEW url, IsUrl(url), NEW params
    PROVE  LET target == StripTrackingParameters(params, url).cleaned_url
               items == Items(QueryText(Before(url, {"#"})), "&")
               functional == {k \in DOMAIN items : ~IsTrackingParameter(params, Key(items[k]))}
           IN  /\ Queried(url) =>
                    /\ Before(target, {"?", "#"}) = Before(url, {"?", "#"})
                    /\ From(target, {"#"}) = From(url, {"#"})
                    /\ Items(QueryText(Before(target, {"#"})), "&") = Pick(items, functional)
               /\ "?" \notin Kinds(url) => target = url
<1> DEFINE items == Items(QueryText(url), "&")
           removed == {k \in DOMAIN items : IsTrackingParameter(params, Key(items[k]))}
           functional == {k \in DOMAIN items : ~IsTrackingParameter(params, Key(items[k]))}
           kept == Pick(items, functional)
           target == StripTrackingParameters(params, url).cleaned_url
           S == Tokens(url)
           T == Without(S, {"#"})
           V == Seq(T)
<1>1. target = IF removed = {} THEN url ELSE Rebuilt(url, Pick(items, DOMAIN items \ removed))
    BY DEF StripTrackingParameters
<1>2. functional = DOMAIN items \ removed
    OBVIOUS
<1>3. removed = {} => functional = DOMAIN items
    BY <1>2
<1>4. url \in Seq(S) /\ <<"?">> \in S /\ <<"&">> \in S
    BY DEF IsUrl, Tokens
<1>5. functional \subseteq DOMAIN items
    OBVIOUS
<1> HIDE DEF removed, functional, target, S
<1>6. target = IF removed = {} THEN url ELSE Rebuilt(url, kept)
    BY <1>1, <1>2
<1>7. ASSUME Queried(url)
      PROVE  /\ Before(target, {"?", "#"}) = Before(url, {"?", "#"})
             /\ From(target, {"#"}) = From(url, {"#"})
             /\ Items(QueryText(Before(target, {"#"})), "&") = kept
             /\ items = Items(QueryText(Before(url, {"#"})), "&")
  <2>1. QueryText(url) = QueryText(Before(url, {"#"})) /\ QueryText(url) \in V
    BY <1>4, <1>7, QueryItems
  <2>2. items = Items(QueryText(Before(url, {"#"})), "&")
    BY <2>1
  <2> DEFINE query == QueryText(url)
  <2>3. items \in Seq(V) /\ \A k \in DOMAIN items : IsPart(items[k], "&")
    <3>1. query \in Seq(T)
        BY <2>1
    <3> HIDE DEF query, T
    <3>2. Items(query, "&") \in Seq(V)
        BY <3>1, ItemsType
    <3>3. \A k \in DOMAIN Items(query, "&") : IsPart(Items(query, "&")[k], "&")
        BY <3>1, ItemsAreParts
    <3> QED BY <3>2, <3>3 DEF query
  <2> HIDE DEF items
  <2>4. CASE removed = {}
    <3> HIDE DEF V
    <3>1. kept = items
        BY <1>3, <2>3, <2>4, PickAll
    <3>2. target = url
        BY <1>6, <2>4
    <3> QED BY <2>2, <3>1, <3>2
  <2>5. CASE removed # {}
    <3>1. kept \in Seq(V) /\ \A k \in DOMAIN kept : IsPart(kept[k], "&")
      <4> HIDE DEF V
      <4>1. kept \in Seq(V)
        BY <2>3, PickEmbeds
      <4>2. \A k \in DOMAIN kept : \E i \in functional \cap DOMAIN items : kept[k] = items[i]
        BY <2>3, PickElements
      <4> QED BY <2>3, <4>1, <4>2
    <3> HIDE DEF kept
    <3>2. /\ Before(Rebuilt(url, kept), {"?", "#"}) = Before(url, {"?", "#"})
          /\ From(Rebuilt(url, kept), {"#"}) = From(url, {"#"})
          /\ Items(QueryText(Before(Rebuilt(url, kept), {"#"})), "&") = kept
        BY <1>4, <1>7, <3>1, RebuiltQuery
    <3>3. target = Rebuilt(url, kept)
        BY <1>6, <2>5
    <3> QED BY <2>2, <3>2, <3>3
  <2> QED BY <2>4, <2>5
<1>8. ASSUME "?" \notin Kinds(url) PROVE target = url
  <2> DEFINE mark == {"?"}
             hash == {"#"}
             none == <<>>
  <2>1. Kinds(url) \cap mark = {} /\ Kinds(none) \cap hash = {} /\ none \in Seq(S)
    BY <1>8 DEF Kinds
  <2> HIDE DEF mark, hash, none
  <2>2. After(url, mark) = none
    BY <1>4, <2>1, Uncut DEF none
  <2>3. Before(none, hash) = none
    BY <2>1, Uncut
  <2>4. QueryText(url) = none
    BY <2>2, <2>3 DEF QueryText, mark, hash
  <2>5. items = <<>>
    BY <2>4, NoItems DEF none
  <2>6. removed = {}
    BY <2>5 DEF removed
  <2> QED BY <1>6, <2>6
<1> QED BY <1>7, <1>8 DEF target, functional

-----------------------------------------------------------------------------
(* URLs without their userinfo *)

\* The three forms of what is before the path.
HostForm(a) == Len(a) = 1 /\ a[1][1] = "host"
UserForm(a) == Len(a) = 3 /\ a[1][1] = "user" /\ a[2][1] = "@" /\ a[3][1] = "host"
PasswordForm(a) ==
    /\ Len(a) = 5 /\ a[1][1] = "user" /\ a[2][1] = ":" /\ a[3][1] = "pass" /\ a[4][1] = "@"
    /\ a[5][1] = "host"
HasForm(a) == HostForm(a) \/ UserForm(a) \/ PasswordForm(a)

LEMMA AuthorityForm ==
    ASSUME NEW url, IsUrl(url)
    PROVE  HasForm(Authority(url))
<1> DEFINE a == Authority(url)
           S == ToSet(url)
           K == {"host", "user", "@", ":", "pass"}
           one == <<"host">>
           three == <<"user", "@", "host">>
           five == <<"user", ":", "pass", "@", "host">>
<1>1. url \in Seq(S) /\ Shape(a) \in {one, three, five}
    BY DEF IsUrl, Authority, AuthorityKinds
<1>2. a \in Seq(S)
    BY <1>1, UrlParts
<1>3. one \in Seq(K) /\ three \in Seq(K) /\ five \in Seq(K)
    OBVIOUS
<1>4. Len(one) = 1 /\ one[1] = "host" /\ 1 \in 1..1
    OBVIOUS
<1>5. /\ Len(three) = 3 /\ three[1] = "user" /\ three[2] = "@" /\ three[3] = "host"
      /\ 1 \in 1..3 /\ 2 \in 1..3 /\ 3 \in 1..3
    OBVIOUS
<1>6. /\ Len(five) = 5 /\ five[1] = "user" /\ five[2] = ":" /\ five[3] = "pass" /\ five[4] = "@"
      /\ five[5] = "host" /\ 1 \in 1..5 /\ 2 \in 1..5 /\ 3 \in 1..5 /\ 4 \in 1..5 /\ 5 \in 1..5
    OBVIOUS
<1> HIDE DEF a, S, K, one, three, five
<1>7. CASE Shape(a) = one
  <2>1. Len(a) = Len(one) /\ \A i \in 1..Len(one) : a[i][1] = one[i]
    BY <1>2, <1>3, <1>7, ShapeIs
  <2> QED BY <1>4, <2>1 DEF HasForm, HostForm, a
<1>8. CASE Shape(a) = three
  <2>1. Len(a) = Len(three) /\ \A i \in 1..Len(three) : a[i][1] = three[i]
    BY <1>2, <1>3, <1>8, ShapeIs
  <2> QED BY <1>5, <2>1 DEF HasForm, UserForm, a
<1>9. CASE Shape(a) = five
  <2>1. Len(a) = Len(five) /\ \A i \in 1..Len(five) : a[i][1] = five[i]
    BY <1>2, <1>3, <1>9, ShapeIs
  <2> QED BY <1>6, <2>1 DEF HasForm, PasswordForm, a
<1> QED BY <1>1, <1>7, <1>8, <1>9

\* A host and its path come first.
Addressed(url) == Len(url) >= 2 /\ url[1][1] = "host" /\ url[2][1] = "/"

Private == {"user", "pass"}

Concatenated(t, a, b, S) ==
    /\ t \in Seq(S) /\ Len(t) = Len(a) + Len(b)
    /\ \A i \in 1..Len(a) : t[i] = a[i]
    /\ \A i \in 1..Len(b) : t[Len(a) + i] = b[i]

LEMMA Concatenation ==
    ASSUME NEW S, NEW a \in Seq(S), NEW b \in Seq(S)
    PROVE  Concatenated(a \o b, a, b, S)
BY DEF Concatenated

\* One token and a text behind it.
LEMMA Behind ==
    ASSUME NEW S, NEW a \in Seq(S), NEW r \in Seq(S), Len(a) = 1, r # <<>>
    PROVE  Len(a \o r) >= 2 /\ (a \o r)[1] = a[1] /\ (a \o r)[2] = r[1] /\ a \o r \in Seq(S)
<1> DEFINE t == a \o r
<1>1. Concatenated(t, a, r, S)
    BY Concatenation
<1>2. Len(r) \in Nat /\ Len(r) >= 1
    OBVIOUS
<1> HIDE DEF t
<1>3. 1 \in 1..Len(a) /\ 1 \in 1..Len(r) /\ Len(a) + 1 = 2
    BY <1>2
<1> QED BY <1>1, <1>2, <1>3 DEF t, Concatenated

\* Without its userinfo a URL begins with its host.
LEMMA BareUrl ==
    ASSUME NEW url, IsUrl(url)
    PROVE  LET bare == WithoutUserinfo(url)
           IN  bare \in Seq(Without(ToSet(url), Private)) /\ Addressed(bare)
<1> DEFINE S == ToSet(url)
           a == Authority(url)
           r == Rest(url)
           N == Without(S, Private)
           at == {"@"}
           bare == WithoutUserinfo(url)
<1>1. url \in Seq(S)
    BY DEF IsUrl
<1>2. HasForm(a)
    BY AuthorityForm
<1> HIDE DEF S
<1>3. /\ a \in Seq(S) /\ r \in Seq(S) /\ url = a \o r /\ r # <<>> /\ r[1][1] = "/"
      /\ Kinds(r) \cap {"user", "pass", "host"} = {}
    BY <1>1, UrlParts
<1>4. r \in Seq(N)
  <2>1. Kinds(r) \cap Private = {}
    BY <1>3 DEF Private
  <2> HIDE DEF r
  <2> QED BY <1>3, <2>1, WithoutKinds
<1>5. bare = IF "@" \in Kinds(a) THEN After(url, at) ELSE url
    BY DEF WithoutUserinfo, Authority
<1> HIDE DEF a, r, N, at, bare
<1>6. DOMAIN a = 1..Len(a) /\ Len(a) \in Nat
    BY <1>3
<1>7. ASSUME NEW b \in Seq(S), Len(b) = 1, b[1][1] = "host", bare = b \o r
      PROVE  bare \in Seq(N) /\ Addressed(bare)
  <2>1. /\ Len(b \o r) >= 2 /\ (b \o r)[1] = b[1] /\ (b \o r)[2] = r[1]
    BY <1>3, <1>7, Behind
  <2>2. b \in Seq(N)
    <3>1. DOMAIN b = {1} /\ Kinds(b) = {"host"}
        BY <1>7 DEF Kinds
    <3>2. Kinds(b) \cap Private = {}
        BY <3>1 DEF Private
    <3> QED BY <3>2, WithoutKinds DEF N
  <2>3. b \o r \in Seq(N)
    BY <1>4, <2>2
  <2> QED BY <1>3, <1>7, <2>1, <2>3 DEF Addressed
<1>8. ASSUME NEW n \in 1..Len(a), Len(a) = n + 1, a[n][1] = "@", a[n + 1][1] = "host",
             \A i \in 1..(n - 1) : a[i][1] # "@"
      PROVE  bare \in Seq(N) /\ Addressed(bare)
  <2>1. Kinds(a) \cap at # {} /\ "@" \in Kinds(a)
    BY <1>6, <1>8 DEF Kinds, at
  <2>2. After(a \o r, at) = After(a, at) \o r
    BY <1>3, <2>1, CutFirst
  <2>3. Find(a, at) = n
    <3>1. n \in 1..(Len(a) + 1) /\ a[n][1] \in at /\ \A i \in 1..(n - 1) : a[i][1] \notin at
        BY <1>6, <1>8 DEF at
    <3> QED BY <1>3, <3>1, FindIs
  <2> DEFINE b == After(a, at)
  <2>4. /\ b \in Seq(S) /\ Len(b) = IF n <= Len(a) THEN Len(a) - n ELSE 0
        /\ \A i \in 1..(Len(a) - n) : b[i] = a[n + i]
  <3>1. /\ After(a, at) \in Seq(S)
        /\ LET f == Find(a, at)
           IN  /\ Len(After(a, at)) = IF f <= Len(a) THEN Len(a) - f ELSE 0
               /\ \A i \in 1..(Len(a) - f) : After(a, at)[i] = a[f + i]
    BY <1>3, Cuts
  <3> QED BY <2>3, <3>1
  <2>5. Len(b) = 1 /\ b[1] = a[n + 1]
    BY <1>6, <1>8, <2>4
  <2>6. bare = b \o r
    BY <1>3, <1>5, <2>1, <2>2
  <2> HIDE DEF b
  <2> QED BY <1>7, <1>8, <2>4, <2>5, <2>6
<1>9. ASSUME HostForm(a) PROVE bare \in Seq(N) /\ Addressed(bare)
  <2>1. Len(a) = 1 /\ a[1][1] = "host" /\ \A i \in DOMAIN a : i = 1
    BY <1>6, <1>9 DEF HostForm
  <2>2. "@" \notin Kinds(a)
    BY <2>1 DEF Kinds
  <2> QED BY <1>3, <1>5, <1>7, <2>1, <2>2
<1>10. ASSUME UserForm(a) PROVE bare \in Seq(N) /\ Addressed(bare)
  <2>1. /\ 2 \in 1..Len(a) /\ Len(a) = 2 + 1 /\ a[2][1] = "@" /\ a[2 + 1][1] = "host"
        /\ \A i \in 1..(2 - 1) : a[i][1] # "@"
    BY <1>10 DEF UserForm
  <2> QED BY <1>8, <2>1
<1>11. ASSUME PasswordForm(a) PROVE bare \in Seq(N) /\ Addressed(bare)
  <2>1. /\ 4 \in 1..Len(a) /\ Len(a) = 4 + 1 /\ a[4][1] = "@" /\ a[4 + 1][1] = "host"
        /\ \A i \in 1..(4 - 1) : i = 1 \/ i = 2 \/ i = 3
    BY <1>11 DEF PasswordForm
  <2>2. \A i \in 1..(4 - 1) : a[i][1] # "@"
    BY <1>11, <2>1 DEF PasswordForm
  <2> QED BY <1>8, <2>1, <2>2
<1>12. bare \in Seq(N) /\ Addressed(bare)
    BY <1>2, <1>9, <1>10, <1>11 DEF HasForm
<1> QED BY <1>12 DEF bare, N, S

\* It has no userinfo, and no password is found in it.
LEMMA NoPassword ==
    ASSUME NEW S, NEW url \in Seq(Without(S, Private)), Addressed(url)
    PROVE  "user" \notin Kinds(url) /\ "pass" \notin Kinds(url) /\ ~LeaksPassword(url)
<1> DEFINE N == Without(S, Private)
           ends == {"/", "?", "#"}
<1>1. "user" \notin Kinds(url) /\ "pass" \notin Kinds(url)
    BY DEF Kinds, Without, Private
<1>2. url \in Seq(N) /\ url[1][1] = "host" /\ url[2][1] = "/" /\ Len(url) >= 2 /\ Len(url) \in Nat
    BY DEF Addressed
<1> HIDE DEF N
<1>3. Find(url, ends) = 2
  <2>1. /\ 2 \in 1..(Len(url) + 1) /\ url[2][1] \in ends /\ url[1][1] \notin ends
        /\ \A i \in 1..(2 - 1) : i = 1
    BY <1>2
  <2> HIDE DEF ends
  <2> QED BY <1>2, <2>1, FindIs
<1> HIDE DEF ends
<1>4. /\ Before(url, ends) \in Seq(N) /\ Len(Before(url, ends)) = 2 - 1
      /\ \A i \in 1..(2 - 1) : Before(url, ends)[i] = url[i]
  <2>1. LET f == Find(url, ends)
        IN  /\ Before(url, ends) \in Seq(N) /\ Len(Before(url, ends)) = f - 1
            /\ \A i \in 1..(f - 1) : Before(url, ends)[i] = url[i]
    BY <1>2, Cuts
  <2> QED BY <1>3, <2>1
<1> DEFINE netloc == Before(url, ends)
<1>5. DOMAIN netloc = {1} /\ netloc[1] = url[1]
    BY <1>4
<1> HIDE DEF netloc
<1>6. "@" \notin Kinds(netloc)
    BY <1>2, <1>5 DEF Kinds
<1>7. ~LeaksPassword(url)
    BY <1>6 DEF LeaksPassword, Netloc, netloc, ends
<1> QED BY <1>1, <1>7

\* What is put behind or cut off further back changes nothing of it.
LEMMA StaysAddressed ==
    ASSUME NEW S, NEW url \in Seq(S), NEW kinds, "host" \notin kinds, "/" \notin kinds,
           NEW tail \in Seq(S), Addressed(url)
    PROVE  Addressed(Before(url, kinds) \o tail) /\ Addressed(Before(url, kinds))
<1> DEFINE b == Before(url, kinds)
           f == Find(url, kinds)
           t == b \o tail
<1>1. /\ f \in 1..(Len(url) + 1) /\ (f <= Len(url) => url[f][1] \in kinds)
      /\ b \in Seq(S) /\ Len(b) = f - 1 /\ \A i \in 1..(f - 1) : b[i] = url[i]
  <2>1. f \in 1..(Len(url) + 1) /\ (f <= Len(url) => url[f][1] \in kinds)
    BY FindPlace
  <2>2. LET n == Find(url, kinds)
        IN  /\ Before(url, kinds) \in Seq(S) /\ Len(Before(url, kinds)) = n - 1
            /\ \A i \in 1..(n - 1) : Before(url, kinds)[i] = url[i]
    BY Cuts
  <2> QED BY <2>1, <2>2
<1> HIDE DEF b, f
<1>2. url[1][1] = "host" /\ url[2][1] = "/" /\ Len(url) >= 2 /\ Len(url) \in Nat
    BY DEF Addressed
<1>3. f # 1 /\ f # 2
    BY <1>1, <1>2
<1>4. Len(b) >= 2 /\ 1 \in 1..(f - 1) /\ 2 \in 1..(f - 1)
    BY <1>1, <1>2, <1>3
<1>5. b[1] = url[1] /\ b[2] = url[2]
    BY <1>1, <1>4
<1>6. /\ t \in Seq(S) /\ Len(t) = Len(b) + Len(tail)
      /\ \A i \in 1..Len(b) : t[i] = b[i]
  <2>1. b \in Seq(S)
    BY <1>1
  <2> QED BY <2>1
<1> HIDE DEF t
<1>7. Len(t) >= 2 /\ t[1] = b[1] /\ t[2] = b[2]
    BY <1>1, <1>4, <1>6
<1> QED BY <1>2, <1>4, <1>5, <1>7 DEF Addressed, b, t
===============================================================================
