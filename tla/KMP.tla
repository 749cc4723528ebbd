--------------------------------- MODULE KMP ---------------------------------
(***************************************************************************)
(* The Knuth-Morris-Pratt matcher of kmp/kmp.h: the table its constructor  *)
(* fills, and Match, one byte of the text per step.  Indices count from 0. *)
(***************************************************************************)
EXTENDS Integers, Sequences, SequencesExt, Utf8

CONSTANTS Patterns, Texts   \* what Match is called with

\* No pattern is empty: Match would read the byte behind it.
ASSUME InputsAssumption ==
  /\ \A p \in Patterns : p \in Seq(Byte) /\ p # << >>
  /\ \A t \in Texts : t \in Seq(Byte)

INVALID_POS == -1
Running     == -2           \* Match has not returned

VARIABLES
  pattern, text,
  lps_table,
  idx,          \* the next byte of the text
  match_pos,    \* how much of the pattern ends just before it
  returned      \* what Match has returned

vars == <<pattern, text, lps_table, idx, match_pos, returned>>

\* Mistake: one step back and no more.
FallbackOnce(p, table, k, byte) == IF k = 0 \/ p[k + 1] = byte THEN k ELSE table[k - 1]

\* Down the table from k until byte continues the pattern, or nothing is left.
Fallback(p, table, k, byte) ==
  LET down[j \in 0..k] == IF j = 0 \/ p[j + 1] = byte THEN j ELSE down[table[j - 1]]
  IN  down[k]

\* And one further if it does continue it.
Extend(p, k, byte) == IF p[k + 1] = byte THEN k + 1 ELSE k

\* The constructor: the longest proper border of every prefix.
LpsTable(p) ==
  LET table[i \in 0..(Len(p) - 1)] ==
        IF i = 0 THEN 0
        ELSE Extend(p, Fallback(p, table, table[i - 1], p[i + 1]), p[i + 1])
  IN  table

Init ==
  /\ pattern \in Patterns
  /\ text \in Texts
  /\ lps_table = LpsTable(pattern)
  /\ idx = 0
  /\ match_pos = 0
  /\ returned = Running

\* One turn of the loop of Match.
ReadByte ==
  LET byte == text[idx + 1]
      k    == Fallback(pattern, lps_table, match_pos, byte)
  IN
  /\ returned = Running
  /\ idx < Len(text)
  /\ match_pos' = Extend(pattern, k, byte)
  /\ idx' = idx + 1
  /\ returned' = IF match_pos' = Len(pattern) THEN match_pos' ELSE Running
  /\ UNCHANGED <<pattern, text, lps_table>>

\* The end of the text.
GiveUp ==
  /\ returned = Running
  /\ idx = Len(text)
  /\ returned' = INVALID_POS
  /\ UNCHANGED <<pattern, text, lps_table, idx, match_pos>>

Next == ReadByte \/ GiveUp \/ (returned # Running /\ UNCHANGED vars)

Spec == Init /\ [][Next]_vars

-----------------------------------------------------------------------------
Prefix(s, n) == SubSeq(s, 1, n)
Occurs(at)   == /\ at + Len(pattern) <= Len(text)
                /\ SubSeq(text, at + 1, at + Len(pattern)) = pattern
Occurrences  == {at \in 0..Len(text) : Occurs(at)}

\* match_pos is the length of the longest prefix of the pattern that ends where
\* Match has read to: after a mismatch it falls back far enough, and not too far.
MatchPosIsLongest ==
  \A n \in 0..Len(pattern) :
    n <= idx /\ IsSuffix(Prefix(pattern, n), Prefix(text, idx)) =>
      n <= match_pos /\ IsSuffix(Prefix(pattern, match_pos), Prefix(text, idx))

\* Match finds the pattern exactly if it is there, and stops behind its first
\* occurrence.
FoundIffOccurs ==
  returned # Running =>
    /\ returned = INVALID_POS <=> Occurrences = {}
    /\ returned # INVALID_POS =>
         Occurs(idx - Len(pattern)) /\ \A at \in Occurrences : idx - Len(pattern) <= at

\* "Return the first matching position instead of all possible positions" (the
\* comment on Match).
ReturnsFirstPosition ==
  returned \notin {Running, INVALID_POS} =>
    returned \in Occurrences /\ \A at \in Occurrences : returned <= at
=============================================================================
