------------------------- MODULE LogFormatterProofs -------------------------
(***************************************************************************)
(* LogFormatter::init() reads every pattern the way its grammar says.      *)
(*                                                                         *)
(* The scanner goes forward with a mode, Parse defines the items of a      *)
(* pattern from those of its later parts.  After n characters the items    *)
(* of the whole pattern are the ones the scanner has put down, followed by *)
(* what Parse makes of the rest; which rest that is depends on the mode.   *)
(***************************************************************************)
EXTENDS LogFormatter, SequenceTheorems, WellFoundedInduction, TLAPS

-----------------------------------------------------------------------------
(* Numbers.                                                                *)

\* A nonempty set of numbers has a first one.
LEMMA FirstExists ==
  ASSUME NEW T, T # {}, T \subseteq Nat
  PROVE  \E i \in T : \A j \in T : i <= j
<1>1. PICK x \in T : \A y \in T : <<y, x>> \notin OpToRel(<, Nat)
  BY NatLessThanWellFounded, WFMin, Zenon
<1>2. ASSUME NEW y \in T PROVE x <= y
  <2>1. x \in Nat /\ y \in Nat OBVIOUS
  <2>2. ~(y < x) BY <1>1, <2>1 DEF OpToRel
  <2> QED BY <2>1, <2>2
<1> QED BY <1>2

\* Induction for a set of numbers.
LEMMA SetInduction ==
  ASSUME NEW T, 0 \in T, \A n \in Nat : n \in T => n + 1 \in T
  PROVE  Nat \subseteq T
<1> SUFFICES ASSUME Nat \ T # {} PROVE FALSE OBVIOUS
<1> DEFINE Rest == Nat \ T
<1>1. Rest \subseteq Nat /\ Rest # {} OBVIOUS
<1>2. PICK x \in Rest : \A y \in Rest : x <= y
  <2> HIDE DEF Rest
  <2> QED BY <1>1, FirstExists
<1>3. x \in Nat /\ x - 1 \in Nat BY DEF Rest
<1>4. x - 1 \in Rest BY <1>3 DEF Rest
<1> QED BY <1>2, <1>3, <1>4

\* The largest number of a set that a number bounds.
LEMMA LastExists ==
  ASSUME NEW T, T # {}, NEW n \in Nat, T \subseteq 1..n
  PROVE  \E i \in T : \A j \in T : j <= i
<1> DEFINE Rest == {n - i : i \in T}
<1>0. \A i \in T : n - i \in Nat OBVIOUS
<1>1. Rest \subseteq Nat /\ Rest # {} BY <1>0
<1>2. PICK x \in Rest : \A y \in Rest : x <= y
  <2> HIDE DEF Rest
  <2> QED BY <1>1, FirstExists
<1>3. PICK i \in T : x = n - i BY DEF Rest
<1>4. ASSUME NEW j \in T PROVE j <= i
  <2>1. n - j \in Rest /\ n - j \in Nat /\ x \in Nat BY <1>1 DEF Rest
  <2> QED BY <1>2, <1>3, <2>1
<1> QED BY <1>4

-----------------------------------------------------------------------------
(* The grammar.                                                            *)

\* What a place parses to: items, and braces that are not closed.
Parts == [kind : Characters \cup {"text", "open"}, text : Seq(Characters) \cup {DefaultDate}]

\* j is the first place from i on that has c, or the place behind the pattern.
IsNext(p, c, i, j) ==
  j \in i..(Len(p) + 1) /\ (j = Len(p) + 1 \/ p[j] = c) /\ \A k \in i..(j - 1) : p[k] # c

LEMMA NextPlaceIs ==
  ASSUME NEW p \in Seq(Characters), NEW c, NEW i \in 1..(Len(p) + 1)
  PROVE  /\ IsNext(p, c, i, NextPlace(p, c, i))
         /\ \A j : IsNext(p, c, i, j) => j = NextPlace(p, c, i)
<1>1. Len(p) \in Nat OBVIOUS
<1> DEFINE T == {j \in i..(Len(p) + 1) : j = Len(p) + 1 \/ p[j] = c}
<1>2. Len(p) + 1 \in T /\ T \subseteq Nat BY <1>1
<1>3. PICK j \in T : \A k \in T : j <= k
  <2> HIDE DEF T
  <2> QED BY <1>2, FirstExists
<1>4. \A k \in i..(j - 1) : p[k] # c BY <1>1, <1>3
<1>5. IsNext(p, c, i, j) BY <1>3, <1>4 DEF IsNext
<1>6. IsNext(p, c, i, NextPlace(p, c, i)) BY <1>5 DEF IsNext, NextPlace
<1>7. ASSUME NEW m, IsNext(p, c, i, m) PROVE m = NextPlace(p, c, i)
  <2>1. PICK n : n = NextPlace(p, c, i) OBVIOUS
  <2>2. /\ m \in i..(Len(p) + 1) /\ n \in i..(Len(p) + 1)
        /\ m = Len(p) + 1 \/ p[m] = c
        /\ n = Len(p) + 1 \/ p[n] = c
        /\ \A k \in i..(m - 1) : p[k] # c
        /\ \A k \in i..(n - 1) : p[k] # c
    BY <1>6, <1>7, <2>1 DEF IsNext
  <2>3. ~(m < n) BY <1>1, <2>2
  <2>4. ~(n < m) BY <1>1, <2>2
  <2> QED BY <1>1, <2>1, <2>2, <2>3, <2>4
<1> QED BY <1>6, <1>7

\* The braces of a date, and ParseFrom in their terms.
Open == "{"
Close == "}"

Dated(text) == [kind |-> "d", text |-> IF text = <<>> THEN DefaultDate ELSE text]

LEMMA ParseIs ==
  ASSUME NEW p, NEW items, NEW i
  PROVE  ParseFrom(p, items, i) =
           IF i > Len(p) \/ (i = Len(p) /\ p[i] = "%") THEN <<>>
           ELSE IF p[i] # "%"
           THEN <<[kind |-> "text", text |-> SubSeq(p, i, NextPlace(p, "%", i) - 1)]>> \o items[NextPlace(p, "%", i)]
           ELSE IF i + 2 <= Len(p) /\ p[i + 1] = "d" /\ p[i + 2] = Open
           THEN IF NextPlace(p, Close, i + 3) > Len(p) THEN <<[kind |-> "open", text |-> <<>>]>>
                ELSE <<[kind |-> "d",
                        text |-> IF NextPlace(p, Close, i + 3) = i + 3 THEN DefaultDate
                                 ELSE SubSeq(p, i + 3, NextPlace(p, Close, i + 3) - 1)]>>
                       \o items[NextPlace(p, Close, i + 3) + 1]
           ELSE <<[kind |-> p[i + 1], text |-> IF p[i + 1] = "d" THEN DefaultDate ELSE <<>>]>> \o items[i + 2]
BY Zenon DEF ParseFrom, Open, Close

\* What a place needs of later ones.
LEMMA ParseLocal ==
  ASSUME NEW p \in Seq(Characters), NEW i \in 1..(Len(p) + 1), NEW f, NEW g,
         \A j \in (i + 1)..(Len(p) + 1) : f[j] = g[j]
  PROVE  ParseFrom(p, f, i) = ParseFrom(p, g, i)
<1>1. Len(p) \in Nat OBVIOUS
<1>2. CASE i > Len(p) \/ (i = Len(p) /\ p[i] = "%") BY <1>2, ParseIs
<1>3. CASE i <= Len(p) /\ p[i] # "%"
  <2>1. PICK j : j = NextPlace(p, "%", i) OBVIOUS
  <2>2. j \in i..(Len(p) + 1) /\ (j = Len(p) + 1 \/ p[j] = "%") BY <2>1, NextPlaceIs DEF IsNext
  <2>3. j \in (i + 1)..(Len(p) + 1) BY <1>1, <1>3, <2>2
  <2>4. f[j] = g[j] BY <2>3
  <2> QED BY <1>1, <1>3, <2>1, <2>4, ParseIs
<1>4. CASE i < Len(p) /\ p[i] = "%"
  <2>1. CASE i + 2 <= Len(p) /\ p[i + 1] = "d" /\ p[i + 2] = Open
    <3>1. PICK j : j = NextPlace(p, Close, i + 3) OBVIOUS
    <3>2. j \in (i + 3)..(Len(p) + 1)
      <4>1. i + 3 \in 1..(Len(p) + 1) BY <1>1, <2>1
      <4> QED BY <3>1, <4>1, NextPlaceIs DEF IsNext
    <3>3. j <= Len(p) => f[j + 1] = g[j + 1] BY <1>1, <3>2
    <3>4. ~(j > Len(p)) => j <= Len(p) BY <1>1, <3>2
    <3> QED BY <1>1, <1>4, <2>1, <3>1, <3>3, <3>4, ParseIs
  <2>2. CASE ~(i + 2 <= Len(p) /\ p[i + 1] = "d" /\ p[i + 2] = Open)
    <3>1. f[i + 2] = g[i + 2] BY <1>1, <1>4
    <3> QED BY <1>1, <1>4, <2>2, <3>1, ParseIs
  <2> QED BY <2>1, <2>2
<1> QED BY <1>1, <1>2, <1>3, <1>4

\* The recursion is well defined.
IsParse(p, g) == \A i \in 1..(Len(p) + 1) : g[i] = ParseFrom(p, g, i)

LEMMA ParseDefined ==
  ASSUME NEW p \in Seq(Characters)
  PROVE  \E g : Parse(p) = g[1] /\ IsParse(p, g)
<1>1. Len(p) \in Nat OBVIOUS
<1>2. PICK end : end = Len(p) + 1 OBVIOUS
<1> DEFINE Fits(g, m) == g = [i \in (end - m)..end |-> ParseFrom(p, g, i)]
           Parsed == CHOOSE g : g = [i \in 1..(Len(p) + 1) |-> ParseFrom(p, g, i)]
           Runs == {m \in Nat : m < end => \E g : Fits(g, m)}
<1>3. Len(p) \in Runs
  <2>1. 0 \in Runs
    <3>1. PICK any : any = ParseFrom(p, <<>>, end) OBVIOUS
    <3>2. PICK g : g = [i \in (end - 0)..end |-> any] OBVIOUS
    <3>3. ParseFrom(p, g, end) = any
      <4>1. end \in 1..(Len(p) + 1) /\ (end + 1)..(Len(p) + 1) = {} BY <1>1, <1>2
      <4> QED BY <3>1, <4>1, ParseLocal
    <3>4. \A i \in (end - 0)..end : i = end BY <1>1, <1>2
    <3>5. Fits(g, 0) BY <3>2, <3>3, <3>4
    <3> QED BY <3>5
  <2>2. ASSUME NEW m \in Nat, m \in Runs PROVE m + 1 \in Runs
    <3> SUFFICES ASSUME m + 1 < end PROVE \E g : Fits(g, m + 1) BY DEF Runs
    <3>1. PICK g : Fits(g, m) BY <1>1, <1>2, <2>2
    <3>2. PICK at : at = end - (m + 1) OBVIOUS
    <3>3. at \in 1..(Len(p) + 1) /\ end - m = at + 1 /\ end \in Nat BY <1>1, <1>2, <3>2
    <3>4. PICK f : f = [i \in at..end |-> IF i = at THEN ParseFrom(p, g, at) ELSE g[i]] OBVIOUS
    <3>5. \A i \in (at + 1)..end : f[i] = g[i] BY <3>3, <3>4
    <3>6. \A i \in (at + 1)..end : g[i] = ParseFrom(p, g, i) BY <3>1, <3>3
    <3>7. ASSUME NEW i \in at..end PROVE f[i] = ParseFrom(p, f, i)
      <4>1. i \in 1..(Len(p) + 1) BY <1>1, <1>2, <3>3
      <4>2. \A j \in (i + 1)..(Len(p) + 1) : f[j] = g[j] BY <1>1, <1>2, <3>3, <3>5
      <4>3. ParseFrom(p, f, i) = ParseFrom(p, g, i) BY <4>1, <4>2, ParseLocal
      <4>4. CASE i = at BY <3>4, <4>3, <4>4
      <4>5. CASE i \in (at + 1)..end BY <3>5, <3>6, <4>3, <4>5
      <4> QED BY <3>3, <4>4, <4>5
    <3>8. f = [i \in at..end |-> ParseFrom(p, f, i)]
      <4>1. f = [i \in at..end |-> f[i]] BY <3>4
      <4> QED BY <3>7, <4>1
    <3>9. Fits(f, m + 1) BY <3>2, <3>8
    <3> QED BY <3>9
  <2> HIDE DEF Runs
  <2>3. Nat \subseteq Runs BY <2>1, <2>2, SetInduction
  <2> QED BY <1>1, <2>3
<1>4. PICK g : Fits(g, Len(p)) BY <1>1, <1>2, <1>3
<1>5. end - Len(p) = 1 BY <1>1, <1>2
<1>6. g = [i \in 1..(Len(p) + 1) |-> ParseFrom(p, g, i)] BY <1>2, <1>4, <1>5
<1>7. Parsed = [i \in 1..(Len(p) + 1) |-> ParseFrom(p, Parsed, i)] BY <1>6, Zenon
<1>8. Parse(p) = Parsed[1] BY DEF Parse
<1> HIDE DEF Parsed
<1>9. IsParse(p, Parsed) BY <1>7 DEF IsParse
<1> QED BY <1>8, <1>9

-----------------------------------------------------------------------------
(* The rules of the grammar.                                               *)

LEMMA AtEnd == ASSUME NEW p \in Seq(Characters), NEW g, IsParse(p, g) PROVE g[Len(p) + 1] = <<>>
<1>1. Len(p) + 1 \in 1..(Len(p) + 1) /\ Len(p) + 1 > Len(p)
  <2>1. Len(p) \in Nat OBVIOUS
  <2> QED BY <2>1
<1> QED BY <1>1, ParseIs DEF IsParse

LEMMA AtLastPercent ==
  ASSUME NEW p \in Seq(Characters), NEW g, IsParse(p, g), Len(p) > 0, p[Len(p)] = "%"
  PROVE  g[Len(p)] = <<>>
<1>1. Len(p) \in 1..(Len(p) + 1)
  <2>1. Len(p) \in Nat OBVIOUS
  <2> QED BY <2>1
<1> QED BY <1>1, ParseIs DEF IsParse

LEMMA AtText ==
  ASSUME NEW p \in Seq(Characters), NEW g, IsParse(p, g), NEW k \in 1..Len(p), p[k] # "%",
         NEW j, IsNext(p, "%", k, j)
  PROVE  g[k] = <<[kind |-> "text", text |-> SubSeq(p, k, j - 1)]>> \o g[j]
<1>1. Len(p) \in Nat OBVIOUS
<1>2. k \in 1..(Len(p) + 1) /\ ~(k > Len(p)) BY <1>1
<1>3. j = NextPlace(p, "%", k) BY <1>2, NextPlaceIs
<1>4. g[k] = ParseFrom(p, g, k) BY <1>2 DEF IsParse
<1> QED BY <1>2, <1>3, <1>4, ParseIs

\* Place i has character c.
At(p, i, c) == i \in 1..Len(p) /\ p[i] = c

\* The character behind a percent sign.
LEMMA AtItem ==
  ASSUME NEW p \in Seq(Characters), NEW g, IsParse(p, g), NEW i \in Nat, At(p, i, "%"), i < Len(p),
         ~(At(p, i + 1, "d") /\ At(p, i + 2, Open))
  PROVE  g[i] = <<[kind |-> p[i + 1], text |-> IF p[i + 1] = "d" THEN DefaultDate ELSE <<>>]>> \o g[i + 2]
<1>1. Len(p) \in Nat OBVIOUS
<1>2. i \in 1..Len(p) /\ p[i] = "%" BY DEF At
<1>3. i \in 1..(Len(p) + 1) /\ ~(i > Len(p)) /\ i # Len(p) BY <1>1, <1>2
<1>4. g[i] = ParseFrom(p, g, i) BY <1>3 DEF IsParse
<1>5. ~(i + 2 <= Len(p) /\ p[i + 1] = "d" /\ p[i + 2] = Open)
  <2>1. i + 2 <= Len(p) => i + 1 \in 1..Len(p) /\ i + 2 \in 1..Len(p) BY <1>1
  <2> QED BY <2>1 DEF At
<1> QED BY <1>2, <1>3, <1>4, <1>5, ParseIs

\* A date with a format, and one whose brace is not closed.
LEMMA AtBraces ==
  ASSUME NEW p \in Seq(Characters), NEW g, IsParse(p, g), NEW i \in Nat,
         At(p, i, "%"), At(p, i + 1, "d"), At(p, i + 2, Open), NEW j, IsNext(p, Close, i + 3, j)
  PROVE  /\ j = Len(p) + 1 => g[i] = <<[kind |-> "open", text |-> <<>>]>>
         /\ j <= Len(p) => g[i] = <<Dated(SubSeq(p, i + 3, j - 1))>> \o g[j + 1]
<1>1. Len(p) \in Nat OBVIOUS
<1>2. i \in 1..Len(p) /\ i + 2 \in 1..Len(p) BY DEF At
<1>3. /\ i \in 1..(Len(p) + 1) /\ ~(i > Len(p)) /\ i # Len(p)
      /\ i + 3 \in 1..(Len(p) + 1) /\ i + 2 <= Len(p)
  BY <1>1, <1>2
<1>4. j = NextPlace(p, Close, i + 3) BY <1>3, NextPlaceIs
<1>5. g[i] = ParseFrom(p, g, i) BY <1>3 DEF IsParse
<1>6. j \in (i + 3)..(Len(p) + 1) BY DEF IsNext
<1>7. g[i] = IF j > Len(p) THEN <<[kind |-> "open", text |-> <<>>]>>
             ELSE <<[kind |-> "d", text |-> IF j = i + 3 THEN DefaultDate ELSE SubSeq(p, i + 3, j - 1)]>> \o g[j + 1]
  <2>1. p[i] = "%" /\ p[i + 1] = "d" /\ p[i + 2] = Open BY DEF At
  <2> QED BY <1>3, <1>4, <1>5, <2>1, ParseIs
<1>8. CASE j = Len(p) + 1
  <2>1. j > Len(p) /\ ~(j <= Len(p)) BY <1>1, <1>8
  <2> QED BY <1>7, <2>1
<1>9. CASE j <= Len(p)
  <2>1. ~(j > Len(p)) /\ j # Len(p) + 1 BY <1>1, <1>6, <1>9
  <2>2. j = i + 3 <=> SubSeq(p, i + 3, j - 1) = <<>>
    <3>1. i + 3 \in Int /\ j - 1 \in Int /\ \A k \in (i + 3)..(j - 1) : p[k] \in Characters BY <1>1, <1>6, <1>9
    <3>2. Len(SubSeq(p, i + 3, j - 1)) = IF i + 3 <= j - 1 THEN (j - 1) - (i + 3) + 1 ELSE 0
      BY <3>1, SubSeqProperties
    <3>3. CASE j = i + 3
      <4>1. j - 1 < i + 3 BY <1>1, <1>6, <3>3
      <4> QED BY <3>1, <3>3, <4>1, SubSeqEmpty
    <3>4. CASE j # i + 3
      <4>1. Len(SubSeq(p, i + 3, j - 1)) # 0 BY <1>1, <1>6, <3>2, <3>4
      <4>2. Len(<<>>) = 0 OBVIOUS
      <4> QED BY <3>4, <4>1, <4>2
    <3> QED BY <3>3, <3>4
  <2> QED BY <1>7, <2>1, <2>2 DEF Dated
<1> QED BY <1>1, <1>6, <1>8, <1>9

LEMMA Texts ==
  ASSUME NEW p \in Seq(Characters), NEW k \in 1..(Len(p) + 1), NEW n \in 1..(Len(p) + 1)
  PROVE  SubSeq(p, k, n - 1) \in Seq(Characters)
<1>1. Len(p) \in Nat /\ p \in [1..Len(p) -> Characters] OBVIOUS
<1>2. k \in Int /\ n - 1 \in Int /\ \A i \in k..(n - 1) : i \in 1..Len(p) BY <1>1
<1>3. \A i \in k..(n - 1) : p[i] \in Characters BY <1>1, <1>2
<1> QED BY <1>2, <1>3, SubSeqProperties

LEMMA Characteristic ==
  "%" \in Characters /\ "d" \in Characters /\ "text" \notin Characters /\ "open" \notin Characters
BY CharactersAssumption, Zenon

LEMMA IsPart ==
  ASSUME NEW kind \in Characters \cup {"text", "open"}, NEW text \in Seq(Characters) \cup {DefaultDate}
  PROVE  [kind |-> kind, text |-> text] \in Parts
BY DEF Parts

LEMMA IsDate == ASSUME NEW text \in Seq(Characters) PROVE Dated(text) \in Parts
<1>1. PICK t : t = IF text = <<>> THEN DefaultDate ELSE text OBVIOUS
<1>2. t \in Seq(Characters) \cup {DefaultDate} BY <1>1
<1> QED BY <1>1, <1>2, IsPart, Characteristic DEF Dated

\* Every place parses to items.
LEMMA ParseTyped ==
  ASSUME NEW p \in Seq(Characters), NEW g, IsParse(p, g)
  PROVE  \A i \in 1..(Len(p) + 1) : g[i] \in Seq(Parts)
<1>1. Len(p) \in Nat OBVIOUS
<1>2. PICK end : end = Len(p) + 1 OBVIOUS
<1>3. <<>> \in Seq(Parts) OBVIOUS
<1> DEFINE T == {m \in Nat : \A i \in 1..end : end <= i + m => g[i] \in Seq(Parts)}
<1>4. 0 \in T
  <2>1. \A i \in 1..end : end <= i + 0 => i = end BY <1>1, <1>2
  <2>2. g[end] \in Seq(Parts) BY <1>2, <1>3, AtEnd
  <2> QED BY <2>1, <2>2
<1>5. ASSUME NEW m \in Nat, m \in T PROVE m + 1 \in T
  <2> SUFFICES ASSUME NEW i \in 1..end, end <= i + (m + 1) PROVE g[i] \in Seq(Parts) OBVIOUS
  <2>1. \A j \in (i + 1)..end : g[j] \in Seq(Parts)
    <3>1. \A j \in (i + 1)..end : j \in 1..end /\ end <= j + m BY <1>1, <1>2
    <3> QED BY <1>5, <3>1
  <2>2. \A x \in Parts : \A j \in (i + 1)..end : <<x>> \o g[j] \in Seq(Parts)
    <3>1. \A x \in Parts : <<x>> \in Seq(Parts) OBVIOUS
    <3> QED BY <2>1, <3>1, ConcatProperties
  <2> HIDE DEF Parts
  <2>3. i \in 1..(Len(p) + 1) /\ (i = end \/ i \in 1..Len(p)) /\ i \in Nat BY <1>1, <1>2
  <2>4. CASE i = end BY <1>2, <1>3, <2>4, AtEnd
  <2>5. CASE i \in 1..Len(p) /\ p[i] # "%"
    <3>1. PICK j : IsNext(p, "%", i, j) BY <2>3, NextPlaceIs
    <3>2. j \in i..end /\ j # i BY <1>1, <1>2, <2>5, <3>1 DEF IsNext
    <3>3. j \in (i + 1)..end /\ j \in 1..(Len(p) + 1) BY <1>1, <1>2, <3>2
    <3>4. [kind |-> "text", text |-> SubSeq(p, i, j - 1)] \in Parts BY <2>3, <3>3, Texts, IsPart
    <3> QED BY <2>2, <2>5, <3>1, <3>3, <3>4, AtText
  <2>6. CASE At(p, i, "%")
    <3>1. CASE i = Len(p)
      <4>1. Len(p) > 0 /\ p[Len(p)] = "%" BY <1>1, <2>6, <3>1 DEF At
      <4> QED BY <1>3, <3>1, <4>1, AtLastPercent
    <3>2. CASE i < Len(p) /\ ~(At(p, i + 1, "d") /\ At(p, i + 2, Open))
      <4>1. i + 1 \in 1..Len(p) /\ i + 2 \in (i + 1)..end BY <1>1, <1>2, <2>3, <3>2
      <4>2. p[i + 1] \in Characters BY <4>1
      <4>3. <<>> \in Seq(Characters) OBVIOUS
      <4>4. PICK text : text = IF p[i + 1] = "d" THEN DefaultDate ELSE <<>> OBVIOUS
      <4>5. [kind |-> p[i + 1], text |-> text] \in Parts BY <4>2, <4>3, <4>4, IsPart
      <4>6. g[i] = <<[kind |-> p[i + 1], text |-> text]>> \o g[i + 2] BY <2>3, <2>6, <3>2, <4>4, AtItem
      <4> QED BY <2>2, <4>1, <4>5, <4>6
    <3>3. CASE At(p, i + 1, "d") /\ At(p, i + 2, Open)
      <4>0. i + 2 <= Len(p) BY <1>1, <3>3 DEF At
      <4>1. i + 3 \in 1..(Len(p) + 1) BY <1>1, <2>3, <4>0
      <4>2. PICK j : IsNext(p, Close, i + 3, j) BY <4>1, NextPlaceIs
      <4>3. j \in (i + 3)..(Len(p) + 1) BY <4>2 DEF IsNext
      <4>4. CASE j = Len(p) + 1
        <5>1. [kind |-> "open", text |-> <<>>] \in Parts
          <6>1. <<>> \in Seq(Characters) OBVIOUS
          <6> QED BY <6>1, IsPart
        <5>2. g[i] = <<[kind |-> "open", text |-> <<>>]>> BY <2>3, <2>6, <3>3, <4>2, <4>4, AtBraces
        <5> QED BY <5>1, <5>2
      <4>5. CASE j <= Len(p)
        <5>1. j + 1 \in (i + 1)..end /\ j \in 1..(Len(p) + 1) BY <1>1, <1>2, <2>3, <4>3, <4>5
        <5>2. Dated(SubSeq(p, i + 3, j - 1)) \in Parts BY <4>1, <5>1, Texts, IsDate
        <5>3. g[i] = <<Dated(SubSeq(p, i + 3, j - 1))>> \o g[j + 1] BY <2>3, <2>6, <3>3, <4>2, <4>5, AtBraces
        <5> QED BY <2>2, <5>1, <5>2, <5>3
      <4> QED BY <1>1, <4>3, <4>4, <4>5
    <3>4. i = Len(p) \/ i < Len(p) BY <1>1, <2>6 DEF At
    <3> QED BY <3>1, <3>2, <3>3, <3>4
  <2> QED BY <2>3, <2>4, <2>5, <2>6 DEF At
<1> HIDE DEF T
<1>6. Nat \subseteq T BY <1>4, <1>5, SetInduction
<1>7. \A i \in 1..end : end <= i + Len(p) BY <1>1, <1>2
<1>8. Len(p) \in T BY <1>1, <1>6
<1> QED BY <1>2, <1>7, <1>8 DEF T

-----------------------------------------------------------------------------
(* The scanner.                                                            *)

\* What init() puts down for an item, before dates have a format.
Pieces == [kind : Characters \cup {"text"}, text : Seq(Characters)]

States == [mode : {"text", "item", "dated", "braces"}, tmp : Seq(Characters),
           patterns : Seq(Pieces), dateFormat : Seq(Characters)]

Date == [kind |-> "d", text |-> <<>>]

LEMMA ScanIs ==
  ASSUME NEW s \in States, NEW c
  PROVE  /\ s.mode = "text" => Scan(s, c) = ScanText(s, c)
         /\ s.mode = "item" => Scan(s, c) =
              [s EXCEPT !.patterns = Append(s.patterns, [kind |-> c, text |-> <<>>]),
                        !.mode = IF c = "d" THEN "dated" ELSE "text"]
         /\ s.mode = "dated" => Scan(s, c) = IF c = Open THEN [s EXCEPT !.mode = "braces"] ELSE ScanText(s, c)
         /\ s.mode = "braces" => Scan(s, c) =
              IF c = Close THEN [s EXCEPT !.mode = "text"]
              ELSE [s EXCEPT !.dateFormat = Append(s.dateFormat, c)]
<1>1. Scan(s, c) =
        CASE s.mode = "text" -> ScanText(s, c)
          [] s.mode = "item" ->
               [s EXCEPT !.patterns = Append(s.patterns, [kind |-> c, text |-> <<>>]),
                         !.mode = IF c = "d" THEN "dated" ELSE "text"]
          [] s.mode = "dated" -> IF c = Open THEN [s EXCEPT !.mode = "braces"] ELSE ScanText(s, c)
          [] s.mode = "braces" ->
               IF c = Close THEN [s EXCEPT !.mode = "text"]
               ELSE [s EXCEPT !.dateFormat = Append(s.dateFormat, c)]
  BY Zenon DEF Scan, Open, Close
<1> QED BY <1>1

LEMMA FlushIs ==
  ASSUME NEW s \in States
  PROVE  /\ Flush(s) \in States
         /\ Flush(s) = [s EXCEPT !.patterns = Flush(s).patterns, !.tmp = <<>>]
         /\ Flush(s).patterns =
              IF s.tmp = <<>> THEN s.patterns ELSE Append(s.patterns, [kind |-> "text", text |-> s.tmp])
<1>1. PICK patterns : patterns = IF s.tmp = <<>> THEN s.patterns
                                 ELSE Append(s.patterns, [kind |-> "text", text |-> s.tmp])
  OBVIOUS
<1>2. [kind |-> "text", text |-> s.tmp] \in Pieces BY DEF States, Pieces
<1>3. patterns \in Seq(Pieces)
  <2>1. s.patterns \in Seq(Pieces) BY DEF States
  <2> QED BY <1>1, <1>2, <2>1, AppendProperties
<1>4. Flush(s) = [s EXCEPT !.patterns = patterns, !.tmp = <<>>] BY <1>1 DEF Flush, States
<1>5. <<>> \in Seq(Characters) OBVIOUS
<1> QED BY <1>1, <1>3, <1>4, <1>5 DEF States

LEMMA ScanTextTyped ==
  ASSUME NEW s \in States, NEW c \in Characters
  PROVE  ScanText(s, c) \in States
<1>1. Append(s.tmp, c) \in Seq(Characters) BY DEF States
<1>2. [Flush(s) EXCEPT !.mode = "item"] \in States BY FlushIs DEF States
<1>3. [s EXCEPT !.tmp = Append(@, c), !.mode = "text"] \in States BY <1>1 DEF States
<1> QED BY <1>2, <1>3 DEF ScanText

LEMMA ScanTyped ==
  ASSUME NEW s \in States, NEW c \in Characters
  PROVE  Scan(s, c) \in States
<1>1. s.mode \in {"text", "item", "dated", "braces"} BY DEF States
<1>2. CASE s.mode = "text"
  <2>1. Scan(s, c) = ScanText(s, c) BY <1>2, ScanIs
  <2> QED BY <2>1, ScanTextTyped
<1>3. CASE s.mode = "item"
  <2>1. [kind |-> c, text |-> <<>>] \in Pieces
    <3>1. <<>> \in Seq(Characters) OBVIOUS
    <3> QED BY <3>1 DEF Pieces
  <2>2. s.patterns \in Seq(Pieces) BY DEF States
  <2>3. PICK new : new = Append(s.patterns, [kind |-> c, text |-> <<>>]) OBVIOUS
  <2>4. new \in Seq(Pieces) BY <2>1, <2>2, <2>3, AppendProperties
  <2>5. Scan(s, c) = [s EXCEPT !.patterns = new, !.mode = IF c = "d" THEN "dated" ELSE "text"]
    BY <1>3, <2>3, ScanIs
  <2> QED BY <2>4, <2>5 DEF States
<1>4. CASE s.mode = "dated"
  <2>1. [s EXCEPT !.mode = "braces"] \in States BY DEF States
  <2>2. Scan(s, c) = IF c = Open THEN [s EXCEPT !.mode = "braces"] ELSE ScanText(s, c) BY <1>4, ScanIs
  <2> QED BY <2>1, <2>2, ScanTextTyped
<1>5. CASE s.mode = "braces"
  <2>1. Append(s.dateFormat, c) \in Seq(Characters) BY DEF States
  <2>2. [s EXCEPT !.mode = "text"] \in States BY DEF States
  <2>3. [s EXCEPT !.dateFormat = Append(s.dateFormat, c)] \in States BY <2>1 DEF States
  <2>4. Scan(s, c) = IF c = Close THEN [s EXCEPT !.mode = "text"]
                     ELSE [s EXCEPT !.dateFormat = Append(s.dateFormat, c)]
    BY <1>5, ScanIs
  <2> QED BY <2>2, <2>3, <2>4
<1> QED BY <1>1, <1>2, <1>3, <1>4, <1>5

-----------------------------------------------------------------------------
(* What the scanner has put down, against what the grammar says.           *)

NoDate(patterns) == \A i \in 1..Len(patterns) : patterns[i].kind # "d"

\* done is patterns, once dates have the format.
Done(done, patterns, dateFormat) ==
  /\ done \in Seq(Parts) /\ Len(done) = Len(patterns)
  /\ \A i \in 1..Len(done) : done[i] = Item(patterns[i], dateFormat)
  /\ NoDate(patterns) => dateFormat = <<>>

LEMMA DonePiece ==
  ASSUME NEW done, NEW patterns \in Seq(Pieces), NEW dateFormat, Done(done, patterns, dateFormat),
         NEW x \in Pieces, x.kind # "d"
  PROVE  /\ x \in Parts
         /\ Done(Append(done, x), Append(patterns, x), dateFormat)
<1>1. x \in Parts BY DEF Pieces, Parts
<1>2. Item(x, dateFormat) = x BY DEF Item
<1>3. PICK len : len = Len(done) OBVIOUS
<1>4. PICK d, q : d = Append(done, x) /\ q = Append(patterns, x) OBVIOUS
<1>5. /\ len \in Nat /\ d \in Seq(Parts) /\ Len(d) = len + 1 /\ d[len + 1] = x
      /\ \A i \in 1..len : d[i] = done[i]
  BY <1>1, <1>3, <1>4, AppendProperties, LenProperties DEF Done
<1>6. /\ Len(q) = len + 1 /\ q[len + 1] = x
      /\ \A i \in 1..len : q[i] = patterns[i]
  BY <1>3, <1>4, AppendProperties DEF Done
<1>7. \A i \in 1..(len + 1) : i \in 1..len \/ i = len + 1 BY <1>5
<1>8. \A i \in 1..len : done[i] = Item(patterns[i], dateFormat) BY <1>3 DEF Done
<1>9. \A i \in 1..(len + 1) : d[i] = Item(q[i], dateFormat) BY <1>2, <1>5, <1>6, <1>7, <1>8
<1>10. NoDate(q) => NoDate(patterns)
  <2>1. Len(patterns) = len /\ 1..len \subseteq 1..(len + 1) BY <1>3, <1>5 DEF Done
  <2> QED BY <1>6, <2>1 DEF NoDate
<1>11. Done(d, q, dateFormat) BY <1>5, <1>6, <1>9, <1>10 DEF Done
<1> QED BY <1>1, <1>4, <1>11

LEMMA DoneDate ==
  ASSUME NEW done, NEW patterns \in Seq(Pieces), Done(done, patterns, <<>>), NoDate(patterns),
         NEW text \in Seq(Characters)
  PROVE  Done(Append(done, Dated(text)), Append(patterns, Date), text)
<1>1. Dated(text) \in Parts BY IsDate
<1>2. Item(Date, text) = Dated(text) BY DEF Item, Date, Dated
<1>3. PICK len : len = Len(done) OBVIOUS
<1>4. PICK d, q : d = Append(done, Dated(text)) /\ q = Append(patterns, Date) OBVIOUS
<1>5. /\ len \in Nat /\ d \in Seq(Parts) /\ Len(d) = len + 1 /\ d[len + 1] = Dated(text)
      /\ \A i \in 1..len : d[i] = done[i]
  BY <1>1, <1>3, <1>4, AppendProperties, LenProperties DEF Done
<1>6. /\ Len(q) = len + 1 /\ q[len + 1] = Date
      /\ \A i \in 1..len : q[i] = patterns[i]
  <2>1. Date \in Pieces
    <3>1. <<>> \in Seq(Characters) OBVIOUS
    <3> QED BY <3>1, Characteristic DEF Pieces, Date
  <2> QED BY <1>3, <1>4, <2>1, AppendProperties DEF Done
<1>7. \A i \in 1..(len + 1) : i \in 1..len \/ i = len + 1 BY <1>5
<1>8. \A i \in 1..len : done[i] = Item(patterns[i], <<>>) /\ patterns[i].kind # "d"
  BY <1>3 DEF Done, NoDate
<1>9. \A i \in 1..len : d[i] = Item(q[i], text) BY <1>5, <1>6, <1>8 DEF Item
<1>10. \A i \in 1..(len + 1) : d[i] = Item(q[i], text) BY <1>2, <1>5, <1>6, <1>7, <1>9
<1>11. ~NoDate(q)
  <2>1. len + 1 \in 1..Len(q) BY <1>5, <1>6
  <2> QED BY <1>6, <2>1 DEF NoDate, Date
<1>12. Done(d, q, text) BY <1>5, <1>6, <1>10, <1>11 DEF Done
<1> QED BY <1>4, <1>12

LEMMA Regroup ==
  ASSUME NEW done \in Seq(Parts), NEW x \in Parts, NEW rest \in Seq(Parts)
  PROVE  Append(done, x) \o rest = done \o (<<x>> \o rest)
<1>1. Append(done, x) = done \o <<x>> OBVIOUS
<1>2. <<x>> \in Seq(Parts) OBVIOUS
<1> QED BY <1>1, <1>2, ConcatAssociative

\* One date, or braces that are not closed.
OneDate(items) ==
  \A i, j \in DOMAIN items : items[i].kind \in {"d", "open"} /\ items[j].kind \in {"d", "open"} => i = j

\* When a date comes there has been none.
LEMMA NoneBefore ==
  ASSUME NEW done, NEW patterns \in Seq(Pieces), NEW dateFormat, Done(done, patterns, dateFormat),
         NEW x \in Parts, x.kind \in {"d", "open"}, NEW rest \in Seq(Parts), OneDate(done \o (<<x>> \o rest))
  PROVE  NoDate(patterns)
<1> SUFFICES ASSUME NEW i \in 1..Len(patterns), patterns[i].kind = "d" PROVE FALSE BY DEF NoDate
<1>1. PICK all, len : all = done \o (<<x>> \o rest) /\ len = Len(done) OBVIOUS
<1>2. done \in Seq(Parts) /\ len \in Nat /\ len = Len(patterns) BY <1>1 DEF Done
<1>3. PICK tail : tail = <<x>> \o rest OBVIOUS
<1>4. <<x>> \in Seq(Parts) /\ Len(<<x>>) = 1 /\ <<x>>[1] = x OBVIOUS
<1>5. tail \in Seq(Parts) /\ Len(tail) \in Nat \ {0} /\ tail[1] = x
  <2>1. Len(rest) \in Nat OBVIOUS
  <2>2. tail \in Seq(Parts) /\ Len(tail) = 1 + Len(rest) /\ \A k \in 1..(1 + Len(rest)) : tail[k] = IF k <= 1 THEN <<x>>[k] ELSE rest[k - 1]
    BY <1>3, <1>4, ConcatProperties
  <2>3. 1 \in 1..(1 + Len(rest)) /\ 1 <= 1 BY <2>1
  <2> QED BY <1>4, <2>1, <2>2, <2>3
<1>6. /\ all \in Seq(Parts) /\ Len(all) = len + Len(tail)
      /\ \A k \in 1..(len + Len(tail)) : all[k] = IF k <= len THEN done[k] ELSE tail[k - len]
  <2>1. all = done \o tail BY <1>1, <1>3
  <2>2. /\ done \o tail \in Seq(Parts) /\ Len(done \o tail) = Len(done) + Len(tail)
        /\ \A k \in 1..(Len(done) + Len(tail)) : (done \o tail)[k] = IF k <= Len(done) THEN done[k] ELSE tail[k - Len(done)]
    BY <1>2, <1>5, ConcatProperties
  <2> QED BY <1>1, <2>1, <2>2
<1>7. /\ i \in 1..(len + Len(tail)) /\ i <= len
      /\ len + 1 \in 1..(len + Len(tail)) /\ ~(len + 1 <= len) /\ (len + 1) - len = 1
  BY <1>2, <1>5
<1>8. all[i] = done[i] /\ all[len + 1] = x
  BY <1>5, <1>6, <1>7
<1>9. done[i].kind = "d"
  <2>1. done[i] = Item(patterns[i], dateFormat) BY <1>1, <1>2 DEF Done
  <2> QED BY <2>1 DEF Item
<1>10. i \in DOMAIN all /\ len + 1 \in DOMAIN all BY <1>6, <1>7
<1>11. i = len + 1 BY <1>1, <1>8, <1>9, <1>10 DEF OneDate
<1> QED BY <1>2, <1>7, <1>11

-----------------------------------------------------------------------------
(* After n characters the grammar's items are the ones that are done and   *)
(* those of the rest.                                                      *)

Setting(p, g) == p \in Seq(Characters) /\ IsParse(p, g) /\ OneDate(g[1])

\* A text has begun at k, or begins behind n.
TextInv(p, g, s, n) ==
  \E k \in 1..(n + 1) : \E done :
    /\ s.tmp = SubSeq(p, k, n) /\ (\A i \in k..n : p[i] # "%")
    /\ Done(done, s.patterns, s.dateFormat) /\ g[1] = done \o g[k]

ItemInv(p, g, s, n) ==
  /\ At(p, n, "%") /\ s.tmp = <<>>
  /\ \E done : Done(done, s.patterns, s.dateFormat) /\ g[1] = done \o g[n]

\* The pattern's one date begins at k, and has been put down.
DateInv(p, g, s, k) ==
  /\ At(p, k, "%") /\ At(p, k + 1, "d") /\ s.tmp = <<>>
  /\ \E done : \E q \in Seq(Pieces) :
       /\ s.patterns = Append(q, Date) /\ NoDate(q)
       /\ Done(done, q, <<>>) /\ g[1] = done \o g[k]

DatedInv(p, g, s, n) == n - 1 \in Nat /\ DateInv(p, g, s, n - 1) /\ s.dateFormat = <<>>

BracesInv(p, g, s, n) ==
  \E k \in Nat :
    /\ k + 2 <= n /\ At(p, k + 2, Open) /\ (\A i \in (k + 3)..n : p[i] # Close)
    /\ DateInv(p, g, s, k) /\ s.dateFormat = SubSeq(p, k + 3, n)

ScanInv(p, g, s, n) ==
  /\ s.mode = "text" => TextInv(p, g, s, n)
  /\ s.mode = "item" => ItemInv(p, g, s, n)
  /\ s.mode = "dated" => DatedInv(p, g, s, n)
  /\ s.mode = "braces" => BracesInv(p, g, s, n)

LEMMA Longer ==
  ASSUME NEW p \in Seq(Characters), NEW n \in Nat, n + 1 <= Len(p), NEW k \in 1..(n + 1)
  PROVE  SubSeq(p, k, n + 1) = Append(SubSeq(p, k, n), p[n + 1])
<1>1. Len(p) \in Nat OBVIOUS
<1>2. k \in 1..Len(p) /\ n + 1 \in k..Len(p) /\ (n + 1) - 1 = n BY <1>1
<1>3. SubSeq(p, k, n + 1) = SubSeq(p, k, (n + 1) - 1) \o <<p[n + 1]>> BY <1>2, SubSeqRecursiveSecond
<1>4. SubSeq(p, k, n) \in Seq(Characters)
  <2>1. k \in 1..(Len(p) + 1) /\ n + 1 \in 1..(Len(p) + 1) BY <1>1
  <2> QED BY <1>2, <2>1, Texts
<1>5. SubSeq(p, k, n) \o <<p[n + 1]>> = Append(SubSeq(p, k, n), p[n + 1]) BY <1>4
<1> QED BY <1>2, <1>3, <1>5

LEMMA TextStarts ==
  ASSUME NEW p \in Seq(Characters), NEW n \in Nat
  PROVE  SubSeq(p, n + 1, n) = <<>>
<1>1. n + 1 \in Int /\ n \in Int /\ n < n + 1 OBVIOUS
<1> QED BY <1>1, SubSeqEmpty

\* A text ends before n + 1.
LEMMA TextEnds ==
  ASSUME NEW p, NEW g, Setting(p, g), NEW s \in States, NEW n \in Nat, n <= Len(p), TextInv(p, g, s, n),
         n = Len(p) \/ p[n + 1] = "%"
  PROVE  \E done : Done(done, Flush(s).patterns, s.dateFormat) /\ g[1] = done \o g[n + 1]
<1>1. p \in Seq(Characters) /\ IsParse(p, g) /\ Len(p) \in Nat BY DEF Setting
<1>2. PICK k, done :
        /\ k \in 1..(n + 1)
        /\ s.tmp = SubSeq(p, k, n) /\ (\A i \in k..n : p[i] # "%")
        /\ Done(done, s.patterns, s.dateFormat) /\ g[1] = done \o g[k]
  BY DEF TextInv
<1>3. CASE k = n + 1
  <2>1. s.tmp = <<>> BY <1>1, <1>2, <1>3, TextStarts
  <2>2. Flush(s).patterns = s.patterns BY <2>1, FlushIs
  <2> QED BY <1>2, <1>3, <2>2
<1>4. CASE k # n + 1
  <2>1. k \in 1..Len(p) /\ k <= n /\ p[k] # "%" BY <1>1, <1>2, <1>4
  <2>2. IsNext(p, "%", k, n + 1)
    <3>1. n + 1 \in k..(Len(p) + 1) /\ (n + 1) - 1 = n /\ (n = Len(p) => n + 1 = Len(p) + 1) BY <1>1, <2>1
    <3> QED BY <1>2, <3>1 DEF IsNext
  <2>3. PICK x : x = [kind |-> "text", text |-> SubSeq(p, k, n)] OBVIOUS
  <2>4. g[k] = <<x>> \o g[n + 1]
    <3>1. (n + 1) - 1 = n OBVIOUS
    <3>2. g[k] = <<[kind |-> "text", text |-> SubSeq(p, k, (n + 1) - 1)]>> \o g[n + 1]
      BY <1>1, <2>1, <2>2, AtText
    <3> QED BY <2>3, <3>1, <3>2
  <2>5. k \in 1..(Len(p) + 1) /\ n + 1 \in 1..(Len(p) + 1) /\ (n + 1) - 1 = n BY <1>1, <2>1
  <2>6. SubSeq(p, k, n) \in Seq(Characters) BY <1>1, <2>5, Texts
  <2>7. SubSeq(p, k, n) # <<>>
    <3>1. k \in Int /\ n \in Int /\ k <= n /\ \A i \in k..n : p[i] \in Characters BY <1>1, <2>1
    <3>2. Len(SubSeq(p, k, n)) = n - k + 1 BY <3>1, SubSeqProperties
    <3>3. Len(SubSeq(p, k, n)) # 0 /\ Len(<<>>) = 0 BY <3>1, <3>2
    <3> QED BY <3>3
  <2>8. Flush(s).patterns = Append(s.patterns, x) BY <1>2, <2>3, <2>7, FlushIs
  <2>9. x \in Pieces /\ x.kind # "d" BY <2>3, <2>6 DEF Pieces
  <2>10. s.patterns \in Seq(Pieces) BY DEF States
  <2>11. x \in Parts /\ Done(Append(done, x), Append(s.patterns, x), s.dateFormat) BY <1>2, <2>9, <2>10, DonePiece
  <2>12. g[1] = Append(done, x) \o g[n + 1]
    <3>1. g[n + 1] \in Seq(Parts) BY <1>1, <2>5, ParseTyped
    <3>2. done \in Seq(Parts) BY <1>2 DEF Done
    <3> QED BY <1>2, <2>4, <2>11, <3>1, <3>2, Regroup
  <2> QED BY <2>8, <2>11, <2>12
<1> QED BY <1>3, <1>4

LEMMA TextStep ==
  ASSUME NEW p, NEW g, Setting(p, g), NEW s \in States, NEW n \in Nat, n + 1 <= Len(p), TextInv(p, g, s, n)
  PROVE  ScanInv(p, g, ScanText(s, p[n + 1]), n + 1)
<1>1. p \in Seq(Characters) /\ Len(p) \in Nat BY DEF Setting
<1>2. n + 1 \in 1..Len(p) /\ n <= Len(p) BY <1>1
<1>3. PICK t : t = ScanText(s, p[n + 1]) OBVIOUS
<1>4. CASE p[n + 1] = "%"
  <2>1. t = [Flush(s) EXCEPT !.mode = "item"] BY <1>3, <1>4 DEF ScanText
  <2>2. /\ t.mode = "item" /\ t.tmp = <<>> /\ t.patterns = Flush(s).patterns /\ t.dateFormat = s.dateFormat
    <3>1. PICK f : f = Flush(s) OBVIOUS
    <3>2. f \in States /\ f.tmp = <<>> /\ f.dateFormat = s.dateFormat
      <4>1. f \in States /\ f = [s EXCEPT !.patterns = f.patterns, !.tmp = <<>>] BY <3>1, FlushIs
      <4> QED BY <4>1 DEF States
    <3> QED BY <2>1, <3>1, <3>2 DEF States
  <2>3. PICK done : Done(done, t.patterns, t.dateFormat) /\ g[1] = done \o g[n + 1]
    BY <1>2, <1>4, <2>2, TextEnds
  <2>4. ItemInv(p, g, t, n + 1) BY <1>2, <1>4, <2>2, <2>3 DEF ItemInv, At
  <2> QED BY <1>3, <2>2, <2>4 DEF ScanInv
<1>5. CASE p[n + 1] # "%"
  <2>1. t = [s EXCEPT !.tmp = Append(s.tmp, p[n + 1]), !.mode = "text"] BY <1>3, <1>5 DEF ScanText
  <2>2. t.mode = "text" /\ t.tmp = Append(s.tmp, p[n + 1]) /\ t.patterns = s.patterns /\ t.dateFormat = s.dateFormat
    BY <2>1 DEF States
  <2>3. PICK k, done :
          /\ k \in 1..(n + 1)
          /\ s.tmp = SubSeq(p, k, n) /\ (\A i \in k..n : p[i] # "%")
          /\ Done(done, s.patterns, s.dateFormat) /\ g[1] = done \o g[k]
    BY DEF TextInv
  <2>4. t.tmp = SubSeq(p, k, n + 1) BY <1>1, <2>2, <2>3, Longer
  <2>5. k \in 1..((n + 1) + 1) /\ \A i \in k..(n + 1) : i \in k..n \/ i = n + 1 BY <2>3
  <2>6. \A i \in k..(n + 1) : p[i] # "%" BY <1>5, <2>3, <2>5
  <2>7. TextInv(p, g, t, n + 1) BY <2>2, <2>3, <2>4, <2>5, <2>6 DEF TextInv
  <2> QED BY <1>3, <2>2, <2>7 DEF ScanInv
<1> QED BY <1>4, <1>5

LEMMA ItemStep ==
  ASSUME NEW p, NEW g, Setting(p, g), NEW s \in States, NEW n \in Nat, n + 1 <= Len(p), s.mode = "item",
         ItemInv(p, g, s, n)
  PROVE  ScanInv(p, g, Scan(s, p[n + 1]), n + 1)
<1>1. p \in Seq(Characters) /\ Len(p) \in Nat /\ IsParse(p, g) BY DEF Setting
<1>2. n + 1 \in 1..Len(p) /\ n < Len(p) /\ n + 2 \in 1..(Len(p) + 1) BY <1>1
<1>3. PICK t, c : t = Scan(s, c) /\ c = p[n + 1] OBVIOUS
<1>4. c \in Characters BY <1>1, <1>2, <1>3
<1>5. PICK x : x = [kind |-> c, text |-> <<>>] OBVIOUS
<1>6. /\ t.mode = (IF c = "d" THEN "dated" ELSE "text")
      /\ t.patterns = Append(s.patterns, x) /\ t.tmp = <<>> /\ t.dateFormat = s.dateFormat
  <2>1. t = [s EXCEPT !.patterns = Append(s.patterns, x), !.mode = IF c = "d" THEN "dated" ELSE "text"]
    <3>1. Scan(s, c) = [s EXCEPT !.patterns = Append(s.patterns, [kind |-> c, text |-> <<>>]),
                                !.mode = IF c = "d" THEN "dated" ELSE "text"]
      BY ScanIs
    <3> QED BY <1>3, <1>5, <3>1
  <2>2. s.tmp = <<>> BY DEF ItemInv
  <2> QED BY <2>1, <2>2 DEF States
<1>7. At(p, n, "%") BY DEF ItemInv
<1>8. PICK done : Done(done, s.patterns, s.dateFormat) /\ g[1] = done \o g[n] BY DEF ItemInv
<1>9. s.patterns \in Seq(Pieces) /\ done \in Seq(Parts) BY <1>8 DEF States, Done
<1>10. g[n + 2] \in Seq(Parts) BY <1>1, <1>2, ParseTyped
<1>11. x \in Pieces
  <2>1. <<>> \in Seq(Characters) OBVIOUS
  <2> QED BY <1>4, <1>5, <2>1 DEF Pieces
<1>12. CASE c # "d"
  <2>1. ~(At(p, n + 1, "d") /\ At(p, n + 2, Open)) BY <1>3, <1>12 DEF At
  <2>2. g[n] = <<[kind |-> p[n + 1], text |-> IF p[n + 1] = "d" THEN DefaultDate ELSE <<>>]>> \o g[n + 2]
    BY <1>1, <1>2, <1>7, <2>1, AtItem
  <2>3. g[n] = <<x>> \o g[n + 2] BY <1>3, <1>5, <1>12, <2>2
  <2>4. x \in Parts /\ Done(Append(done, x), Append(s.patterns, x), s.dateFormat)
    BY <1>5, <1>8, <1>9, <1>11, <1>12, DonePiece
  <2>5. g[1] = Append(done, x) \o g[n + 2] BY <1>8, <1>9, <1>10, <2>3, <2>4, Regroup
  <2>6. n + 2 \in 1..((n + 1) + 1) /\ (n + 2)..(n + 1) = {} /\ (n + 1) + 1 = n + 2 OBVIOUS
  <2>7. SubSeq(p, n + 2, n + 1) = <<>> BY <1>1, <2>6, TextStarts
  <2>8. TextInv(p, g, t, n + 1) BY <1>6, <2>4, <2>5, <2>6, <2>7 DEF TextInv
  <2> QED BY <1>3, <1>6, <1>12, <2>8 DEF ScanInv
<1>13. CASE c = "d"
  <2>1. x = Date BY <1>5, <1>13 DEF Date
  <2>2. PICK y, rest : y \in Parts /\ rest \in Seq(Parts) /\ y.kind \in {"d", "open"} /\ g[n] = <<y>> \o rest
    <3>1. CASE At(p, n + 2, Open)
      <4>1. At(p, n + 1, "d") BY <1>2, <1>3, <1>13 DEF At
      <4>2. n + 2 <= Len(p) BY <1>1, <3>1 DEF At
      <4>3. n + 3 \in 1..(Len(p) + 1) BY <1>1, <4>2
      <4>4. PICK j : IsNext(p, Close, n + 3, j) BY <1>1, <4>3, NextPlaceIs
      <4>5. j \in (n + 3)..(Len(p) + 1) BY <4>4 DEF IsNext
      <4>6. CASE j = Len(p) + 1
        <5>1. g[n] = <<[kind |-> "open", text |-> <<>>]>> BY <1>1, <1>7, <3>1, <4>1, <4>4, <4>6, AtBraces
        <5>2. PICK y : y = [kind |-> "open", text |-> <<>>] OBVIOUS
        <5>3. y \in Parts
          <6>1. <<>> \in Seq(Characters) OBVIOUS
          <6> QED BY <5>2, <6>1, IsPart
        <5>4. <<>> \in Seq(Parts) /\ <<y>> \o <<>> = <<y>> BY <5>3
        <5>5. y.kind \in {"d", "open"} BY <5>2
        <5> QED BY <5>1, <5>2, <5>3, <5>4, <5>5
      <4>7. CASE j <= Len(p)
        <5>1. g[n] = <<Dated(SubSeq(p, n + 3, j - 1))>> \o g[j + 1] BY <1>1, <1>7, <3>1, <4>1, <4>4, <4>7, AtBraces
        <5>2. j \in 1..(Len(p) + 1) /\ j + 1 \in 1..(Len(p) + 1) BY <1>1, <4>5, <4>7
        <5>3. Dated(SubSeq(p, n + 3, j - 1)) \in Parts BY <1>1, <4>3, <5>2, Texts, IsDate
        <5>4. g[j + 1] \in Seq(Parts) BY <1>1, <5>2, ParseTyped
        <5>5. Dated(SubSeq(p, n + 3, j - 1)).kind \in {"d", "open"} BY DEF Dated
        <5> QED BY <5>1, <5>3, <5>4, <5>5
      <4>8. j = Len(p) + 1 \/ j <= Len(p) BY <1>1, <4>5
      <4> QED BY <4>6, <4>7, <4>8
    <3>2. CASE ~At(p, n + 2, Open)
      <4>1. g[n] = <<[kind |-> p[n + 1], text |-> IF p[n + 1] = "d" THEN DefaultDate ELSE <<>>]>> \o g[n + 2]
        BY <1>1, <1>2, <1>7, <3>2, AtItem
      <4>2. PICK y : y = [kind |-> "d", text |-> DefaultDate] OBVIOUS
      <4>3. g[n] = <<y>> \o g[n + 2] BY <1>3, <1>13, <4>1, <4>2
      <4>4. y \in Parts BY <4>2, IsPart, Characteristic
      <4>5. y.kind \in {"d", "open"} BY <4>2
      <4> QED BY <1>10, <4>3, <4>4, <4>5
    <3> QED BY <3>1, <3>2
  <2>3. OneDate(done \o (<<y>> \o rest)) BY <1>8, <2>2 DEF Setting
  <2>4. NoDate(s.patterns) BY <1>8, <1>9, <2>2, <2>3, NoneBefore
  <2>5. s.dateFormat = <<>> BY <1>8, <2>4 DEF Done
  <2>6. At(p, n + 1, "d") BY <1>2, <1>3, <1>13 DEF At
  <2>7. (n + 1) - 1 = n OBVIOUS
  <2>8. DateInv(p, g, t, n) BY <1>6, <1>7, <1>8, <1>9, <2>1, <2>4, <2>5, <2>6 DEF DateInv
  <2>9. DatedInv(p, g, t, n + 1) BY <1>6, <2>5, <2>7, <2>8 DEF DatedInv
  <2> QED BY <1>3, <1>6, <1>13, <2>9 DEF ScanInv
<1> QED BY <1>12, <1>13

\* The date ends before m, and has the format that stands between its braces.
LEMMA DateEnds ==
  ASSUME NEW p, NEW g, Setting(p, g), NEW s \in States, NEW k \in Nat, DateInv(p, g, s, k),
         NEW m \in 1..(Len(p) + 1), g[k] = <<Dated(s.dateFormat)>> \o g[m]
  PROVE  \E done : Done(done, s.patterns, s.dateFormat) /\ g[1] = done \o g[m]
<1>1. p \in Seq(Characters) /\ IsParse(p, g) BY DEF Setting
<1>2. PICK done, q : /\ q \in Seq(Pieces) /\ s.patterns = Append(q, Date) /\ NoDate(q)
                     /\ Done(done, q, <<>>) /\ g[1] = done \o g[k]
  BY DEF DateInv
<1>3. s.dateFormat \in Seq(Characters) BY DEF States
<1>4. Done(Append(done, Dated(s.dateFormat)), s.patterns, s.dateFormat) BY <1>2, <1>3, DoneDate
<1>5. g[m] \in Seq(Parts) /\ done \in Seq(Parts) /\ Dated(s.dateFormat) \in Parts
  BY <1>1, <1>2, <1>3, ParseTyped, IsDate DEF Done
<1>6. g[1] = Append(done, Dated(s.dateFormat)) \o g[m] BY <1>2, <1>5, Regroup
<1> QED BY <1>4, <1>6

LEMMA DatedStep ==
  ASSUME NEW p, NEW g, Setting(p, g), NEW s \in States, NEW n \in Nat, n + 1 <= Len(p), s.mode = "dated",
         DatedInv(p, g, s, n)
  PROVE  ScanInv(p, g, Scan(s, p[n + 1]), n + 1)
<1>1. p \in Seq(Characters) /\ Len(p) \in Nat /\ IsParse(p, g) BY DEF Setting
<1>2. PICK k \in Nat : k = n - 1 BY DEF DatedInv
<1>3. /\ n + 1 \in 1..Len(p) /\ n = k + 1 /\ k + 2 = n + 1
      /\ n + 1 \in 1..(Len(p) + 1) /\ k < Len(p)
  BY <1>1, <1>2
<1>4. DateInv(p, g, s, k) /\ s.dateFormat = <<>> BY <1>2 DEF DatedInv
<1>5. At(p, k, "%") /\ At(p, k + 1, "d") /\ s.tmp = <<>> BY <1>4 DEF DateInv
<1>6. PICK t : t = Scan(s, p[n + 1]) OBVIOUS
<1>7. CASE p[n + 1] = Open
  <2>1. t = [s EXCEPT !.mode = "braces"] BY <1>6, <1>7, ScanIs
  <2>2. t.mode = "braces" /\ t.tmp = s.tmp /\ t.patterns = s.patterns /\ t.dateFormat = s.dateFormat
    BY <2>1 DEF States
  <2>3. DateInv(p, g, t, k) BY <1>4, <2>2 DEF DateInv
  <2>4. At(p, k + 2, Open) BY <1>3, <1>7 DEF At
  <2>5. k + 2 <= n + 1 /\ (k + 3)..(n + 1) = {} /\ k + 3 = (n + 1) + 1 BY <1>3
  <2>6. SubSeq(p, k + 3, n + 1) = <<>> BY <1>1, <2>5, TextStarts
  <2>7. BracesInv(p, g, t, n + 1) BY <1>4, <2>2, <2>3, <2>4, <2>5, <2>6 DEF BracesInv
  <2> QED BY <1>6, <2>2, <2>7 DEF ScanInv
<1>8. CASE p[n + 1] # Open
  <2>1. t = ScanText(s, p[n + 1]) BY <1>6, <1>8, ScanIs
  <2>2. ~At(p, k + 2, Open) BY <1>3, <1>8 DEF At
  <2>3. g[k] = <<[kind |-> p[k + 1], text |-> IF p[k + 1] = "d" THEN DefaultDate ELSE <<>>]>> \o g[k + 2]
    BY <1>1, <1>3, <1>5, <2>2, AtItem
  <2>4. g[k] = <<Dated(s.dateFormat)>> \o g[n + 1]
    <3>1. p[k + 1] = "d" BY <1>5 DEF At
    <3>2. Dated(s.dateFormat) = [kind |-> "d", text |-> DefaultDate] BY <1>4 DEF Dated
    <3> QED BY <1>3, <2>3, <3>1, <3>2
  <2>5. PICK done : Done(done, s.patterns, s.dateFormat) /\ g[1] = done \o g[n + 1]
    BY <1>3, <1>4, <2>4, DateEnds
  <2>6. n + 1 \in 1..(n + 1) /\ (n + 1)..n = {} OBVIOUS
  <2>7. SubSeq(p, n + 1, n) = <<>> BY <1>1, TextStarts
  <2>8. TextInv(p, g, s, n) BY <1>5, <2>5, <2>6, <2>7 DEF TextInv
  <2> QED BY <1>6, <2>1, <2>8, TextStep
<1> QED BY <1>7, <1>8

LEMMA BracesStep ==
  ASSUME NEW p, NEW g, Setting(p, g), NEW s \in States, NEW n \in Nat, n + 1 <= Len(p), s.mode = "braces",
         BracesInv(p, g, s, n)
  PROVE  ScanInv(p, g, Scan(s, p[n + 1]), n + 1)
<1>1. p \in Seq(Characters) /\ Len(p) \in Nat /\ IsParse(p, g) BY DEF Setting
<1>2. PICK k \in Nat :
        /\ k + 2 <= n /\ At(p, k + 2, Open) /\ (\A i \in (k + 3)..n : p[i] # Close)
        /\ DateInv(p, g, s, k) /\ s.dateFormat = SubSeq(p, k + 3, n)
  BY DEF BracesInv
<1>3. At(p, k, "%") /\ At(p, k + 1, "d") /\ s.tmp = <<>> BY <1>2 DEF DateInv
<1>4. PICK t : t = Scan(s, p[n + 1]) OBVIOUS
<1>5. CASE p[n + 1] = Close
  <2>1. t = [s EXCEPT !.mode = "text"] BY <1>4, <1>5, ScanIs
  <2>2. t.mode = "text" /\ t.tmp = s.tmp /\ t.patterns = s.patterns /\ t.dateFormat = s.dateFormat
    BY <2>1 DEF States
  <2>3. n + 1 \in (k + 3)..(Len(p) + 1) /\ n + 1 <= Len(p) /\ (n + 1) - 1 = n /\ (n + 1) + 1 = n + 2 BY <1>1, <1>2
  <2>4. IsNext(p, Close, k + 3, n + 1) BY <1>2, <1>5, <2>3 DEF IsNext
  <2>5. g[k] = <<Dated(SubSeq(p, k + 3, (n + 1) - 1))>> \o g[(n + 1) + 1]
    BY <1>1, <1>2, <1>3, <2>3, <2>4, AtBraces
  <2>6. g[k] = <<Dated(s.dateFormat)>> \o g[n + 2] BY <1>2, <2>3, <2>5
  <2>7. n + 2 \in 1..(Len(p) + 1) BY <1>1
  <2>8. PICK done : Done(done, s.patterns, s.dateFormat) /\ g[1] = done \o g[n + 2]
    BY <1>2, <2>6, <2>7, DateEnds
  <2>9. n + 2 \in 1..((n + 1) + 1) /\ (n + 2)..(n + 1) = {} OBVIOUS
  <2>10. SubSeq(p, n + 2, n + 1) = <<>> BY <1>1, <2>3, TextStarts
  <2>11. TextInv(p, g, t, n + 1) BY <1>3, <2>2, <2>8, <2>9, <2>10 DEF TextInv
  <2> QED BY <1>4, <2>2, <2>11 DEF ScanInv
<1>6. CASE p[n + 1] # Close
  <2>1. t = [s EXCEPT !.dateFormat = Append(s.dateFormat, p[n + 1])] BY <1>4, <1>6, ScanIs
  <2>2. /\ t.mode = "braces" /\ t.tmp = s.tmp /\ t.patterns = s.patterns
        /\ t.dateFormat = Append(s.dateFormat, p[n + 1])
    BY <2>1 DEF States
  <2>3. k + 3 \in 1..(n + 1) /\ k + 2 <= n + 1 /\ \A i \in (k + 3)..(n + 1) : i \in (k + 3)..n \/ i = n + 1 BY <1>2
  <2>4. t.dateFormat = SubSeq(p, k + 3, n + 1) BY <1>1, <1>2, <2>2, <2>3, Longer
  <2>5. \A i \in (k + 3)..(n + 1) : p[i] # Close BY <1>2, <1>6, <2>3
  <2>6. DateInv(p, g, t, k) BY <1>2, <2>2 DEF DateInv
  <2>7. BracesInv(p, g, t, n + 1) BY <1>2, <2>3, <2>4, <2>5, <2>6 DEF BracesInv
  <2> QED BY <1>4, <2>2, <2>7 DEF ScanInv
<1> QED BY <1>5, <1>6

LEMMA ScanStep ==
  ASSUME NEW p, NEW g, Setting(p, g), NEW s \in States, NEW n \in Nat, n + 1 <= Len(p), ScanInv(p, g, s, n)
  PROVE  ScanInv(p, g, Scan(s, p[n + 1]), n + 1)
<1>1. s.mode \in {"text", "item", "dated", "braces"} BY DEF States
<1>2. CASE s.mode = "text"
  <2>1. Scan(s, p[n + 1]) = ScanText(s, p[n + 1]) BY <1>2, ScanIs
  <2>2. TextInv(p, g, s, n) BY <1>2 DEF ScanInv
  <2> QED BY <2>1, <2>2, TextStep
<1>3. CASE s.mode = "item" BY <1>3, ItemStep DEF ScanInv
<1>4. CASE s.mode = "dated" BY <1>4, DatedStep DEF ScanInv
<1>5. CASE s.mode = "braces" BY <1>5, BracesStep DEF ScanInv
<1> QED BY <1>1, <1>2, <1>3, <1>4, <1>5

-----------------------------------------------------------------------------
(* init() as a whole.                                                      *)

\* What init() does with the state its loop ends in.
Outcome(s, beyond) ==
  LET patterns == Flush(s).patterns
      bad == SelectInSeq(patterns, LAMBDA x : x.kind \notin Known \cup {"text"})
      good == IF bad = 0 THEN patterns ELSE SubSeq(patterns, 1, bad - 1)
  IN IF NotClosed(s, beyond) THEN [items |-> <<>>, error |-> TRUE]
     ELSE [items |-> [i \in DOMAIN good |-> Item(good[i], s.dateFormat)], error |-> bad # 0]

\* The states the loop goes through.
IsLoop(p, f) == f[0] = Start /\ \A n \in Nat : n + 1 <= Len(p) => f[n + 1] = Scan(f[n], p[n + 1])

LEMMA LoopDefined ==
  ASSUME NEW p \in Seq(Characters), NEW beyond \in BOOLEAN
  PROVE  \E f : IsLoop(p, f) /\ Formatter(p, beyond) = Outcome(f[Len(p)], beyond)
<1> DEFINE Step(g, i) == IF i = 0 THEN Start ELSE Scan(g[i - 1], p[i])
           Fits(g, m) == g = [i \in 0..m |-> Step(g, i)]
           Loop == CHOOSE g : Fits(g, Len(p))
           Runs == {m \in Nat : \E g : Fits(g, m)}
<1>0. Len(p) \in Nat OBVIOUS
<1>1. Len(p) \in Runs
  <2>1. 0 \in Runs
    <3>1. Fits([i \in 0..0 |-> Start], 0) OBVIOUS
    <3> QED BY <3>1
  <2>2. ASSUME NEW m \in Nat, m \in Runs PROVE m + 1 \in Runs
    <3>1. PICK g : Fits(g, m) BY <2>2
    <3> DEFINE f == [i \in 0..(m + 1) |-> IF i = m + 1 THEN Step(g, m + 1) ELSE g[i]]
    <3>2. \A i \in 0..m : f[i] = g[i] OBVIOUS
    <3>3. \A i \in 0..m : g[i] = Step(g, i) BY <3>1
    <3>4. \A i \in 0..(m + 1) : Step(f, i) = Step(g, i)
      <4> SUFFICES ASSUME NEW i \in 0..(m + 1) PROVE Step(f, i) = Step(g, i) OBVIOUS
      <4>1. i = 0 \/ i - 1 \in 0..m OBVIOUS
      <4> HIDE DEF f
      <4> QED BY <3>2, <4>1
    <3>5. \A i \in 0..(m + 1) : f[i] = Step(g, i)
      <4> HIDE DEF Step
      <4> QED BY <3>3
    <3>6. Fits(f, m + 1)
      <4>1. f = [i \in 0..(m + 1) |-> f[i]] OBVIOUS
      <4> HIDE DEF f, Step
      <4> QED BY <3>4, <3>5, <4>1
    <3> HIDE DEF f, Fits
    <3> QED BY <3>6
  <2> HIDE DEF Runs
  <2>3. Nat \subseteq Runs BY <2>1, <2>2, SetInduction
  <2> QED BY <1>0, <2>3
<1>2. Fits(Loop, Len(p)) BY <1>1, Zenon
<1>3. Formatter(p, beyond) = Outcome(Loop[Len(p)], beyond) BY Zenon DEF Formatter, Outcome
<1> HIDE DEF Loop
<1>4. \A i \in 0..Len(p) : Loop[i] = Step(Loop, i) BY <1>2
<1>5. Loop[0] = Start
  <2>1. 0 \in 0..Len(p) BY <1>0
  <2>2. Loop[0] = Step(Loop, 0) BY <1>4, <2>1
  <2> QED BY <2>2
<1>6. ASSUME NEW n \in Nat, n + 1 <= Len(p) PROVE Loop[n + 1] = Scan(Loop[n], p[n + 1])
  <2>1. n + 1 \in 0..Len(p) /\ n + 1 # 0 /\ (n + 1) - 1 = n BY <1>0, <1>6
  <2>2. Loop[n + 1] = Step(Loop, n + 1) BY <1>4, <2>1
  <2> QED BY <2>1, <2>2
<1>7. IsLoop(p, Loop) BY <1>5, <1>6 DEF IsLoop
<1> QED BY <1>3, <1>7

LEMMA StartTyped == Start \in States
<1>1. <<>> \in Seq(Characters) /\ <<>> \in Seq(Pieces) OBVIOUS
<1> QED BY <1>1 DEF Start, States

LEMMA LoopTyped ==
  ASSUME NEW p \in Seq(Characters), NEW f, IsLoop(p, f)
  PROVE  \A n \in Nat : n <= Len(p) => f[n] \in States
<1>0. Len(p) \in Nat OBVIOUS
<1> DEFINE T == {n \in Nat : n <= Len(p) => f[n] \in States}
<1>1. 0 \in T BY StartTyped DEF IsLoop
<1>2. ASSUME NEW n \in Nat, n \in T PROVE n + 1 \in T
  <2> SUFFICES ASSUME n + 1 <= Len(p) PROVE f[n + 1] \in States OBVIOUS
  <2>1. n <= Len(p) /\ n + 1 \in 1..Len(p) BY <1>0
  <2>2. f[n] \in States /\ p[n + 1] \in Characters BY <1>2, <2>1
  <2>3. f[n + 1] = Scan(f[n], p[n + 1]) BY DEF IsLoop
  <2> QED BY <2>2, <2>3, ScanTyped
<1> HIDE DEF T
<1>3. Nat \subseteq T BY <1>1, <1>2, SetInduction
<1> QED BY <1>3 DEF T

\* The first place of a sequence with a property, given as a set of places.
LEMMA FirstPlace ==
  ASSUME NEW n \in Nat, NEW T, T \subseteq 1..n
  PROVE  (IF T # {} THEN Min(T) ELSE 0) \in 0..n
<1>1. CASE T = {} BY <1>1
<1>2. CASE T # {}
  <2>1. T \subseteq Nat OBVIOUS
  <2>2. \E x \in T : \A y \in T : x <= y BY <1>2, <2>1, FirstExists
  <2>3. PICK m : m = Min(T) OBVIOUS
  <2>4. m \in T BY <2>2, <2>3 DEF Min
  <2>5. m \in 0..n BY <2>4
  <2> QED BY <1>2, <2>3, <2>5
<1> QED BY <1>1, <1>2

\* What the formatter of any pattern is made of.
LEMMA FormatterTyped ==
  ASSUME NEW p \in Seq(Characters), NEW beyond \in BOOLEAN
  PROVE  Formatter(p, beyond) \in [items : Seq(Items), error : BOOLEAN]
<1>1. PICK f : IsLoop(p, f) /\ Formatter(p, beyond) = Outcome(f[Len(p)], beyond)
  BY LoopDefined
<1>2. Len(p) \in Nat /\ Len(p) <= Len(p) OBVIOUS
<1>3. PICK s : s = f[Len(p)] OBVIOUS
<1>4. s \in States BY <1>1, <1>2, <1>3, LoopTyped
<1>5. PICK patterns : patterns = Flush(s).patterns OBVIOUS
<1>6. patterns \in Seq(Pieces) /\ Len(patterns) \in Nat
  <2>1. Flush(s) \in States BY <1>4, FlushIs
  <2>2. patterns \in Seq(Pieces) BY <1>5, <2>1 DEF States
  <2> QED BY <2>2, LenProperties
<1>7. PICK bad : bad = SelectInSeq(patterns, LAMBDA x : x.kind \notin Known \cup {"text"}) OBVIOUS
<1>8. bad \in 0..Len(patterns)
  <2>1. PICK T : T = {i \in 1..Len(patterns) : patterns[i].kind \notin Known \cup {"text"}} OBVIOUS
  <2>2. bad = IF T # {} THEN Min(T) ELSE 0 BY <1>7, <2>1 DEF SelectInSeq
  <2>3. T \subseteq 1..Len(patterns) BY <2>1
  <2> QED BY <1>6, <2>2, <2>3, FirstPlace
<1>9. PICK good : good = IF bad = 0 THEN patterns ELSE SubSeq(patterns, 1, bad - 1) OBVIOUS
<1>10. good \in Seq(Pieces)
  <2>1. CASE bad = 0 BY <1>6, <1>9, <2>1
  <2>2. CASE bad # 0
    <3>1. 1 \in Int /\ bad - 1 \in Int /\ \A i \in 1..(bad - 1) : patterns[i] \in Pieces BY <1>6, <1>8
    <3> QED BY <1>9, <2>2, <3>1, SubSeqProperties
  <2> QED BY <2>1, <2>2
<1>11. PICK items : items = [i \in DOMAIN good |-> Item(good[i], s.dateFormat)] OBVIOUS
<1>12. items \in Seq(Items)
  <2>1. ASSUME NEW x \in Pieces PROVE Item(x, s.dateFormat) \in Items
    <3>1. x.kind \in Characters \cup {"text"} /\ x.text \in Seq(Characters) BY DEF Pieces
    <3>2. x \in Items BY DEF Pieces, Items
    <3>3. PICK text : text = IF s.dateFormat = <<>> THEN DefaultDate ELSE s.dateFormat OBVIOUS
    <3>4. text \in Seq(Characters) \cup {DefaultDate} BY <1>4, <3>3 DEF States
    <3>5. [kind |-> "d", text |-> text] \in Items BY <3>4, Characteristic DEF Items
    <3> QED BY <3>2, <3>3, <3>5 DEF Item
  <2>2. DOMAIN good = 1..Len(good) /\ Len(good) \in Nat BY <1>10
  <2>3. \A i \in 1..Len(good) : good[i] \in Pieces BY <1>10, <2>2
  <2>4. items \in [1..Len(good) -> Items] BY <1>11, <2>1, <2>2, <2>3
  <2> QED BY <2>2, <2>4
<1>13. <<>> \in Seq(Items) OBVIOUS
<1>14. Formatter(p, beyond) = IF NotClosed(s, beyond) THEN [items |-> <<>>, error |-> TRUE]
                              ELSE [items |-> items, error |-> bad # 0]
  BY <1>1, <1>3, <1>5, <1>7, <1>9, <1>11 DEF Outcome
<1> QED BY <1>12, <1>13, <1>14

\* What the loop leaves for a pattern with one date at most.
LEMMA LoopReads ==
  ASSUME NEW p, NEW g, Setting(p, g), NEW f, IsLoop(p, f)
  PROVE  f[Len(p)] \in States /\ ScanInv(p, g, f[Len(p)], Len(p))
<1>0. p \in Seq(Characters) /\ Len(p) \in Nat /\ Len(p) <= Len(p) /\ IsParse(p, g) BY DEF Setting
<1>1. \A n \in Nat : n <= Len(p) => f[n] \in States BY <1>0, LoopTyped
<1> DEFINE T == {n \in Nat : n <= Len(p) => ScanInv(p, g, f[n], n)}
<1>2. 0 \in T
  <2>1. PICK s : s = Start OBVIOUS
  <2>2. s.mode = "text" /\ s.tmp = <<>> /\ s.patterns = <<>> /\ s.dateFormat = <<>> BY <2>1 DEF Start
  <2>3. <<>> \in Seq(Parts) /\ Len(<<>>) = 0 OBVIOUS
  <2>4. Done(<<>>, <<>>, <<>>) BY <2>3 DEF Done
  <2>5. 0 + 1 = 1 /\ 1 \in 1..(0 + 1) /\ 1..0 = {} OBVIOUS
  <2>6. SubSeq(p, 1, 0) = <<>> BY <1>0, <2>5, TextStarts
  <2>7. g[1] = <<>> \o g[1]
    <3>1. 1 \in 1..(Len(p) + 1) BY <1>0
    <3>2. g[1] \in Seq(Parts) BY <1>0, <3>1, ParseTyped
    <3> QED BY <3>2, ConcatEmptySeq
  <2>8. TextInv(p, g, s, 0) BY <2>2, <2>4, <2>5, <2>6, <2>7 DEF TextInv
  <2>9. ScanInv(p, g, s, 0) BY <2>2, <2>8 DEF ScanInv
  <2> QED BY <2>1, <2>9 DEF IsLoop
<1>3. ASSUME NEW n \in Nat, n \in T PROVE n + 1 \in T
  <2> SUFFICES ASSUME n + 1 <= Len(p) PROVE ScanInv(p, g, f[n + 1], n + 1) OBVIOUS
  <2>1. n <= Len(p) BY <1>0
  <2>2. f[n] \in States /\ ScanInv(p, g, f[n], n) BY <1>1, <1>3, <2>1
  <2>3. f[n + 1] = Scan(f[n], p[n + 1]) BY DEF IsLoop
  <2> QED BY <2>2, <2>3, ScanStep
<1> HIDE DEF T
<1>4. Nat \subseteq T BY <1>2, <1>3, SetInduction
<1>5. ScanInv(p, g, f[Len(p)], Len(p)) BY <1>0, <1>4 DEF T
<1> QED BY <1>0, <1>1, <1>5

\* The end of the pattern: a closed one is done, an open one is "open".
LEMMA LoopEnds ==
  ASSUME NEW p, NEW g, Setting(p, g), NEW s \in States, ScanInv(p, g, s, Len(p)), s.mode # "dated"
  PROVE  /\ s.mode # "braces" => Done(g[1], Flush(s).patterns, s.dateFormat)
         /\ s.mode = "braces" => \E i \in DOMAIN g[1] : g[1][i].kind = "open"
<1>0. p \in Seq(Characters) /\ Len(p) \in Nat /\ Len(p) <= Len(p) /\ IsParse(p, g) BY DEF Setting
<1>1. s.mode \in {"text", "item", "braces"} BY DEF States
<1>2. ASSUME NEW done, NEW patterns, NEW dateFormat, Done(done, patterns, dateFormat), g[1] = done \o <<>>
      PROVE  Done(g[1], patterns, dateFormat)
  <2>1. done \in Seq(Parts) BY <1>2 DEF Done
  <2>2. g[1] = done BY <1>2, <2>1, ConcatEmptySeq
  <2> QED BY <1>2, <2>2
<1>3. CASE s.mode = "text"
  <2>1. TextInv(p, g, s, Len(p)) BY <1>3 DEF ScanInv
  <2>2. PICK done : Done(done, Flush(s).patterns, s.dateFormat) /\ g[1] = done \o g[Len(p) + 1]
    BY <1>0, <2>1, TextEnds
  <2>3. g[Len(p) + 1] = <<>> BY <1>0, AtEnd
  <2> QED BY <1>2, <1>3, <2>2, <2>3
<1>4. CASE s.mode = "item"
  <2>1. ItemInv(p, g, s, Len(p)) BY <1>4 DEF ScanInv
  <2>2. At(p, Len(p), "%") /\ s.tmp = <<>> BY <2>1 DEF ItemInv
  <2>3. PICK done : Done(done, s.patterns, s.dateFormat) /\ g[1] = done \o g[Len(p)] BY <2>1 DEF ItemInv
  <2>4. Len(p) > 0 /\ p[Len(p)] = "%" BY <1>0, <2>2 DEF At
  <2>5. g[Len(p)] = <<>> BY <1>0, <2>4, AtLastPercent
  <2>6. Flush(s).patterns = s.patterns BY <2>2, FlushIs
  <2> QED BY <1>2, <1>4, <2>3, <2>5, <2>6
<1>5. CASE s.mode = "braces"
  <2>1. BracesInv(p, g, s, Len(p)) BY <1>5 DEF ScanInv
  <2>2. PICK k \in Nat : /\ k + 2 <= Len(p) /\ At(p, k + 2, Open) /\ (\A i \in (k + 3)..Len(p) : p[i] # Close)
                         /\ DateInv(p, g, s, k)
    BY <2>1 DEF BracesInv
  <2>3. At(p, k, "%") /\ At(p, k + 1, "d") BY <2>2 DEF DateInv
  <2>4. PICK done : done \in Seq(Parts) /\ g[1] = done \o g[k] BY <2>2 DEF DateInv, Done
  <2>5. Len(p) + 1 \in (k + 3)..(Len(p) + 1) /\ (Len(p) + 1) - 1 = Len(p) BY <1>0, <2>2
  <2>6. IsNext(p, Close, k + 3, Len(p) + 1) BY <2>2, <2>5 DEF IsNext
  <2>7. PICK x : x = [kind |-> "open", text |-> <<>>] OBVIOUS
  <2>8. g[k] = <<x>> BY <1>0, <2>2, <2>3, <2>6, <2>7, AtBraces
  <2>9. x \in Parts
    <3>1. <<>> \in Seq(Characters) OBVIOUS
    <3> QED BY <2>7, <3>1, IsPart
  <2>10. g[1] = Append(done, x) BY <2>4, <2>8, <2>9
  <2>11. Len(done) \in Nat /\ Append(done, x) \in Seq(Parts) /\ Len(Append(done, x)) = Len(done) + 1
         /\ Append(done, x)[Len(done) + 1] = x
    BY <2>4, <2>9, AppendProperties, LenProperties
  <2>12. Len(done) + 1 \in DOMAIN g[1] BY <2>10, <2>11
  <2> QED BY <1>5, <2>7, <2>10, <2>11, <2>12
<1> QED BY <1>1, <1>3, <1>4, <1>5

\* A pattern that ends in %d, whose brace is looked for past its end.
LEMMA EndsInDate ==
  ASSUME NEW p, NEW g, Setting(p, g), NEW s \in States, DatedInv(p, g, s, Len(p))
  PROVE  g[1] # <<>> /\ Last(p) = "d" /\ Last(g[1]).kind = "d"
<1>0. p \in Seq(Characters) /\ Len(p) \in Nat /\ IsParse(p, g) BY DEF Setting
<1>1. PICK k \in Nat : k = Len(p) - 1 BY DEF DatedInv
<1>2. k + 1 = Len(p) /\ k < Len(p) /\ k + 2 = Len(p) + 1 BY <1>0, <1>1
<1>3. At(p, k, "%") /\ At(p, k + 1, "d") BY <1>1 DEF DatedInv, DateInv
<1>4. PICK done : done \in Seq(Parts) /\ g[1] = done \o g[k] BY <1>1 DEF DatedInv, DateInv, Done
<1>5. ~At(p, k + 2, Open)
  <2>1. k + 2 \notin 1..Len(p) BY <1>0, <1>2
  <2> QED BY <2>1 DEF At
<1>6. p[k + 1] = "d" BY <1>3 DEF At
<1>7. PICK x : x = [kind |-> "d", text |-> DefaultDate] OBVIOUS
<1>8. g[k] = <<x>>
  <2>1. g[k] = <<[kind |-> p[k + 1], text |-> IF p[k + 1] = "d" THEN DefaultDate ELSE <<>>]>> \o g[k + 2]
    BY <1>0, <1>2, <1>3, <1>5, AtItem
  <2>2. g[k + 2] = <<>> BY <1>0, <1>2, AtEnd
  <2>3. g[k] = <<x>> \o <<>> BY <1>6, <1>7, <2>1, <2>2
  <2> QED BY <2>3
<1>9. x \in Parts BY <1>7, IsPart, Characteristic
<1>10. g[1] = Append(done, x) BY <1>4, <1>8, <1>9
<1>11. Len(done) \in Nat /\ Append(done, x) \in Seq(Parts) /\ Len(Append(done, x)) = Len(done) + 1
       /\ Append(done, x)[Len(done) + 1] = x
  BY <1>4, <1>9, AppendProperties, LenProperties
<1>12. Last(g[1]) = x BY <1>10, <1>11 DEF Last
<1>13. g[1] # <<>>
  <2>1. Len(g[1]) # 0 /\ Len(<<>>) = 0 BY <1>10, <1>11
  <2> QED BY <2>1
<1> QED BY <1>2, <1>6, <1>7, <1>12, <1>13 DEF Last

\* LogFormatter::init() cuts every pattern with at most one date, and whose end is
\* no %d, into the items its grammar gives, however long it is and whatever it is
\* made of: the text, the escaped percent signs, the format of the date, what
\* comes before an unknown item, and nothing for a brace that is not closed.
THEOREM FormatterMeant ==
  ASSUME NEW p \in Seq(Characters), NEW beyond \in BOOLEAN, Plain(p)
  PROVE  Formatter(p, beyond) = Meant(p)
<1>1. PICK g : Parse(p) = g[1] /\ IsParse(p, g) BY ParseDefined
<1>2. OneDate(g[1]) BY <1>1 DEF Plain, OneDate
<1>3. Setting(p, g) BY <1>1, <1>2 DEF Setting
<1>4. PICK f : IsLoop(p, f) /\ Formatter(p, beyond) = Outcome(f[Len(p)], beyond)
  BY LoopDefined
<1>5. PICK s : s = f[Len(p)] OBVIOUS
<1>6. s \in States /\ ScanInv(p, g, s, Len(p)) BY <1>3, <1>4, <1>5, LoopReads
<1>7. s.mode # "dated"
  <2> SUFFICES ASSUME s.mode = "dated" PROVE FALSE OBVIOUS
  <2>1. DatedInv(p, g, s, Len(p)) BY <1>6 DEF ScanInv
  <2>2. g[1] # <<>> /\ Last(p) = "d" /\ Last(g[1]).kind = "d" BY <1>3, <1>6, <2>1, EndsInDate
  <2> QED BY <1>1, <2>2 DEF Plain
<1>8. CASE s.mode = "braces"
  <2>1. \E i \in DOMAIN g[1] : g[1][i].kind = "open" BY <1>3, <1>6, <1>7, <1>8, LoopEnds
  <2>2. Meant(p) = [items |-> <<>>, error |-> TRUE] BY <1>1, <2>1 DEF Meant
  <2>3. NotClosed(s, beyond) BY <1>8 DEF NotClosed
  <2>4. Outcome(s, beyond) = [items |-> <<>>, error |-> TRUE] BY <2>3 DEF Outcome
  <2> QED BY <1>4, <1>5, <2>2, <2>4
<1>9. CASE s.mode # "braces"
  <2>1. PICK items, patterns, format : items = g[1] /\ patterns = Flush(s).patterns /\ format = s.dateFormat OBVIOUS
  <2>2. Done(items, patterns, format) BY <1>3, <1>6, <1>7, <1>9, <2>1, LoopEnds
  <2>3. patterns \in Seq(Pieces)
    <3>1. Flush(s) \in States BY <1>6, FlushIs
    <3> QED BY <2>1, <3>1 DEF States
  <2>4. PICK len : len = Len(items) OBVIOUS
  <2>5. /\ len \in Nat /\ DOMAIN items = 1..len /\ DOMAIN patterns = 1..len /\ Len(patterns) = len
        /\ items \in Seq(Parts)
        /\ \A i \in 1..len : items[i] = Item(patterns[i], format) /\ patterns[i] \in Pieces
    BY <2>2, <2>3, <2>4 DEF Done
  <2>6. \A i \in 1..len : items[i].kind = patterns[i].kind /\ items[i].kind # "open"
    <3> SUFFICES ASSUME NEW i \in 1..len PROVE items[i].kind = patterns[i].kind /\ items[i].kind # "open" OBVIOUS
    <3>1. items[i].kind = patterns[i].kind BY <2>5 DEF Item
    <3>2. patterns[i].kind \in Characters \cup {"text"} BY <2>5 DEF Pieces
    <3> QED BY <3>1, <3>2, Characteristic
  <2>7. PICK T : T = {i \in 1..len : patterns[i].kind \notin Known \cup {"text"}} OBVIOUS
  <2>8. PICK bad : bad = IF T # {} THEN Min(T) ELSE 0 OBVIOUS
  <2>9. bad = SelectInSeq(patterns, LAMBDA x : x.kind \notin Known \cup {"text"})
    BY <2>5, <2>7, <2>8 DEF SelectInSeq
  <2>10. bad = SelectInSeq(items, LAMBDA x : x.kind \notin Known \cup {"text", "open"})
    <3>1. T = {i \in 1..len : items[i].kind \notin Known \cup {"text", "open"}} BY <2>6, <2>7
    <3> QED BY <2>4, <2>8, <3>1 DEF SelectInSeq
  <2>11. bad \in 0..len
    <3>1. T \subseteq 1..len BY <2>7
    <3> QED BY <2>5, <2>8, <3>1, FirstPlace
  <2>12. ~NotClosed(s, beyond) BY <1>7, <1>9 DEF NotClosed
  <2>13. PICK good : good = IF bad = 0 THEN patterns ELSE SubSeq(patterns, 1, bad - 1) OBVIOUS
  <2>14. Outcome(s, beyond) = [items |-> [i \in DOMAIN good |-> Item(good[i], format)], error |-> bad # 0]
    BY <2>1, <2>9, <2>12, <2>13 DEF Outcome
  <2>15. ~\E i \in DOMAIN items : items[i].kind = "open" BY <2>5, <2>6
  <2>16. Meant(p) = IF bad = 0 THEN [items |-> items, error |-> FALSE]
                    ELSE [items |-> SubSeq(items, 1, bad - 1), error |-> TRUE]
    BY <1>1, <2>1, <2>10, <2>15 DEF Meant
  <2>17. CASE bad = 0
    <3>1. good = patterns BY <2>13, <2>17
    <3>2. [i \in DOMAIN good |-> Item(good[i], format)] = items
      <4>1. items = [i \in 1..len |-> items[i]] BY <2>5
      <4> QED BY <2>5, <3>1, <4>1
    <3> QED BY <1>4, <1>5, <2>14, <2>16, <2>17, <3>2
  <2>18. CASE bad # 0
    <3>1. PICK m : m = bad - 1 OBVIOUS
    <3>2. m \in 0..len BY <2>5, <2>11, <2>18, <3>1
    <3>3. good = SubSeq(patterns, 1, m) BY <2>13, <2>18, <3>1
    <3>4. /\ good \in Seq(Pieces) /\ Len(good) = m /\ \A i \in 1..m : good[i] = patterns[i]
      <4>1. 1 \in Int /\ m \in Int /\ \A i \in 1..m : patterns[i] \in Pieces BY <2>5, <3>2
      <4>2. /\ SubSeq(patterns, 1, m) \in Seq(Pieces)
            /\ Len(SubSeq(patterns, 1, m)) = IF 1 <= m THEN m - 1 + 1 ELSE 0
            /\ \A i \in 1..(m - 1 + 1) : SubSeq(patterns, 1, m)[i] = patterns[1 + i - 1]
        BY <4>1, SubSeqProperties
      <4>3. m - 1 + 1 = m /\ (~(1 <= m) => m = 0) /\ \A i \in 1..m : 1 + i - 1 = i BY <2>5, <3>2
      <4> QED BY <3>3, <4>2, <4>3
    <3>5. PICK cut : cut = SubSeq(items, 1, m) OBVIOUS
    <3>6. /\ cut \in Seq(Parts) /\ Len(cut) = m /\ \A i \in 1..m : cut[i] = items[i]
      <4>1. 1 \in Int /\ m \in Int /\ \A i \in 1..m : items[i] \in Parts BY <2>5, <3>2
      <4>2. /\ SubSeq(items, 1, m) \in Seq(Parts)
            /\ Len(SubSeq(items, 1, m)) = IF 1 <= m THEN m - 1 + 1 ELSE 0
            /\ \A i \in 1..(m - 1 + 1) : SubSeq(items, 1, m)[i] = items[1 + i - 1]
        BY <4>1, SubSeqProperties
      <4>3. m - 1 + 1 = m /\ (~(1 <= m) => m = 0) /\ \A i \in 1..m : 1 + i - 1 = i BY <2>5, <3>2
      <4> QED BY <3>5, <4>2, <4>3
    <3>7. [i \in DOMAIN good |-> Item(good[i], format)] = cut
      <4>1. DOMAIN good = 1..m /\ cut = [i \in 1..m |-> cut[i]] BY <3>4, <3>6
      <4>2. \A i \in 1..m : i \in 1..len BY <2>5, <3>2
      <4>3. \A i \in 1..m : Item(good[i], format) = cut[i] BY <2>5, <3>4, <3>6, <4>2
      <4> QED BY <4>1, <4>3
    <3> QED BY <1>4, <1>5, <2>14, <2>16, <2>18, <3>1, <3>5, <3>7
  <2> QED BY <2>17, <2>18
<1> QED BY <1>8, <1>9
=============================================================================
