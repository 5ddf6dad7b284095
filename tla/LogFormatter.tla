---------------------------- MODULE LogFormatter ----------------------------
(***************************************************************************)
(* sylar::LogFormatter (log.h, log.cpp): a pattern such as "%d{%H} [%p] %m" *)
(* is cut into items once, and every event is printed item by item.        *)
(*                                                                         *)
(* A pattern is a sequence of characters.  The loop of init(), whose inner *)
(* loop reads what stands in braces after %d, is a scanner with one mode   *)
(* per place in the code:                                                  *)
(*   "text"    parsing_string                                              *)
(*   "item"    after a %                                                   *)
(*   "dated"   after %d: is there a brace?                                 *)
(*   "braces"  the inner loop                                              *)
(***************************************************************************)
EXTENDS Naturals, Sequences, SequencesExt

CONSTANT Characters    \* what patterns are made of

\* "text" and "open" are kinds of items and no characters.
ASSUME CharactersAssumption ==
  {"%", "d", "{", "}"} \subseteq Characters /\ "text" \notin Characters /\ "open" \notin Characters

\* The keys of s_format_items.
Known == {"m", "p", "c", "d", "r", "f", "l", "t", "F", "N", "%", "T", "n"}

\* DateTimeFormatItem's format when none is given.
DefaultDate == <<"default">>

\* A text, or what a character behind a % stands for.
Items == [kind : Characters \cup {"text"}, text : Seq(Characters) \cup {DefaultDate}]

Start == [mode |-> "text", tmp |-> <<>>, patterns |-> <<>>, dateFormat |-> <<>>]

\* patterns.push_back({0, tmp}), unless there is no text.
Flush(s) ==
  [s EXCEPT !.patterns = IF s.tmp = <<>> THEN @ ELSE Append(@, [kind |-> "text", text |-> s.tmp]),
            !.tmp = <<>>]

\* Mutant: the text is not cleared when an item begins.
MutScanText(s, c) ==
  IF c = "%" THEN [Flush(s) EXCEPT !.mode = "item", !.tmp = s.tmp]
  ELSE [s EXCEPT !.tmp = Append(@, c), !.mode = "text"]

ScanText(s, c) ==
  IF c = "%" THEN [Flush(s) EXCEPT !.mode = "item"]
  ELSE [s EXCEPT !.tmp = Append(@, c), !.mode = "text"]

Scan(s, c) ==
  CASE s.mode = "text" -> ScanText(s, c)
    [] s.mode = "item" ->
         [s EXCEPT !.patterns = Append(@, [kind |-> c, text |-> <<>>]),
                   !.mode = IF c = "d" THEN "dated" ELSE "text"]
    [] s.mode = "dated" -> IF c = "{" THEN [s EXCEPT !.mode = "braces"] ELSE ScanText(s, c)
    [] s.mode = "braces" ->
         IF c = "}" THEN [s EXCEPT !.mode = "text"] ELSE [s EXCEPT !.dateFormat = Append(@, c)]

\* Is the brace "not closed"?  For a pattern that ends in %d the test looks one
\* place beyond the terminating zero, where anything may be: beyond says whether
\* it is a closing brace.
NotClosed(s, beyond) == s.mode = "braces" \/ (s.mode = "dated" /\ ~beyond)

\* A date item; all of a pattern's share one format.
Item(p, dateFormat) ==
  IF p.kind # "d" THEN p
  ELSE [kind |-> "d", text |-> IF dateFormat = <<>> THEN DefaultDate ELSE dateFormat]

\* LogFormatter::init(): the items, and m_error.  An unknown item ends the list.
Formatter(pattern, beyond) ==
  LET scan[n \in 0..Len(pattern)] == IF n = 0 THEN Start ELSE Scan(scan[n - 1], pattern[n])
      s == scan[Len(pattern)]
      patterns == Flush(s).patterns
      Unknown(p) == p.kind \notin Known \cup {"text"}
      bad == SelectInSeq(patterns, Unknown)
      good == IF bad = 0 THEN patterns ELSE SubSeq(patterns, 1, bad - 1)
  IN IF NotClosed(s, beyond) THEN [items |-> <<>>, error |-> TRUE]
     ELSE [items |-> [i \in DOMAIN good |-> Item(good[i], s.dateFormat)], error |-> bad # 0]

-----------------------------------------------------------------------------
(* What a pattern means, read from its front like a grammar.               *)

\* Where the next c is from place i on, or the place behind the pattern.
NextPlace(p, c, i) ==
  CHOOSE j \in i..(Len(p) + 1) : (j = Len(p) + 1 \/ p[j] = c) /\ \A k \in i..(j - 1) : p[k] # c

\* The items from place i on, given those from later places; the last one is
\* "open" if a brace is not closed.
ParseFrom(p, items, i) ==
  IF i > Len(p) \/ (i = Len(p) /\ p[i] = "%") THEN <<>>
  ELSE IF p[i] # "%"
  THEN LET j == NextPlace(p, "%", i)
       IN <<[kind |-> "text", text |-> SubSeq(p, i, j - 1)]>> \o items[j]
  ELSE IF i + 2 <= Len(p) /\ p[i + 1] = "d" /\ p[i + 2] = "{"
  THEN LET j == NextPlace(p, "}", i + 3)
       IN IF j > Len(p) THEN <<[kind |-> "open", text |-> <<>>]>>
          ELSE <<[kind |-> "d", text |-> IF j = i + 3 THEN DefaultDate ELSE SubSeq(p, i + 3, j - 1)]>>
                 \o items[j + 1]
  ELSE <<[kind |-> p[i + 1], text |-> IF p[i + 1] = "d" THEN DefaultDate ELSE <<>>]>> \o items[i + 2]

Parse(p) ==
  LET items[i \in 1..(Len(p) + 1)] == ParseFrom(p, items, i)
  IN items[1]

\* Two dates would share their format, and a final %d is read past the end.
Plain(p) ==
  LET items == Parse(p)
  IN /\ \A i, j \in DOMAIN items : items[i].kind \in {"d", "open"} /\ items[j].kind \in {"d", "open"} => i = j
     /\ items # <<>> /\ Last(p) = "d" => Last(items).kind # "d"

Meant(p) ==
  LET items == Parse(p)
      first == SelectInSeq(items, LAMBDA item : item.kind \notin Known \cup {"text", "open"})
  IN IF \E i \in DOMAIN items : items[i].kind = "open" THEN [items |-> <<>>, error |-> TRUE]
     ELSE IF first = 0 THEN [items |-> items, error |-> FALSE]
     ELSE [items |-> SubSeq(items, 1, first - 1), error |-> TRUE]
=============================================================================
