---------------------------- MODULE TextPatterns ----------------------------
(***************************************************************************)
(* Regular expressions, by what the crate makes of them: a pattern is a    *)
(* set of alternatives, each a sequence of runs, and its match is the      *)
(* longest.  The crate takes the first alternative that matches: patterns  *)
(* in which that is not the longest, such as a|ab, are left out.  A run is *)
(* so many symbols of a class, which may have a single mark between two of *)
(* them, or be a number in a range; a match may have to start and to end   *)
(* at the boundary of a word.  A text is a sequence of symbols, and a      *)
(* place in it a number of symbols before it.                              *)
(***************************************************************************)
EXTENDS Integers, SequencesExt, FiniteSetsExt

CONSTANTS
  WordChars,     \* the symbols that words are made of
  DigitValue     \* the number of each digit symbol

Digits == DOMAIN DigitValue
Amount(digits) == FoldLeft(LAMBDA n, d : 10 * n + DigitValue[d], 0, digits)

Spread(chars, gaps, from, to) ==
  [chars |-> chars, gaps |-> gaps, from |-> from, to |-> to, values |-> {}]
Some(chars, from, to) == Spread(chars, {}, from, to)
One(chars) == Some(chars, 1, 1)
Maybe(chars) == Some(chars, 0, 1)
Many(chars, from) == Some(chars, from, 99)
Pattern(words, alternatives) ==
  [starts |-> words, ends |-> words, alternatives |-> alternatives]
Numeral(from, to, values) == [Some(Digits, from, to) EXCEPT !.values = values]

(* Where a run from a place may end: no further than its symbols go.       *)
Stretch(text, start, run) ==
  LET others == {i \in start + 1..Len(text) : text[i] \notin run.chars \cup run.gaps}
  IN IF others = {} THEN Len(text) ELSE Min(others) - 1
Fits(part, run) ==
  LET marks == {i \in DOMAIN part : part[i] \in run.gaps}
  IN /\ Len(part) - Cardinality(marks) <= run.to
     /\ run.gaps # {} =>
          /\ Len(part) - Cardinality(marks) >= run.from
          /\ \A i \in marks : i \notin {1, Len(part)} /\ i + 1 \notin marks
     /\ run.values # {} => Amount(part) \in run.values
RunEnds(text, start, run) ==
  {e \in start + run.from..Stretch(text, start, run) : Fits(SubSeq(text, start + 1, e), run)}

WordBoundary(text, at) ==
  (at > 0 /\ text[at] \in WordChars) # (at < Len(text) /\ text[at + 1] \in WordChars)

(* Where one of several sequences of runs may end.                         *)
Reached(text, start, alternatives) ==
  LET after(starts, run) == UNION {RunEnds(text, s, run) : s \in starts}
  IN UNION {FoldLeft(after, {start}, runs) : runs \in alternatives}

Ends(text, start, pattern) ==
  IF pattern.starts /\ ~WordBoundary(text, start) THEN {}
  ELSE {e \in Reached(text, start, pattern.alternatives) :
          e > start /\ (pattern.ends => WordBoundary(text, e))}

(* The matches of a pattern, the leftmost first and none over another.     *)
AddMatch(found, at, ends) ==
  IF at < found.end \/ ends = {} THEN found
  ELSE [matches |-> found.matches \cup {<<at, Max(ends)>>}, end |-> Max(ends)]
Captures(text, pattern) ==
  LET next(found, i) == AddMatch(found, i - 1, Ends(text, i - 1, pattern))
  IN FoldLeftDomain(next, [matches |-> {}, end |-> 0], text).matches
=============================================================================
