-------------------------------- MODULE Like --------------------------------
(***************************************************************************)
(* What LIKE means: the recursive matcher of benchmark/reference.h, which  *)
(* the tests and the fuzzer of the repository hold the automaton against.  *)
(***************************************************************************)
EXTENDS Tokenizer, Utf8

\* The code points at offset i of p and at offset j of s are the same.
SameCodePoint(p, i, s, j) ==
  SubSeq(p, i + 1, NextOffset(p, i)) = SubSeq(s, j + 1, NextOffset(s, j))

\* NljRecursiveMatch: does the text s match the pattern p.  matches[<<i, j>>] asks
\* it of what follows offset i of p and offset j of s.
Matches(p, s, esc) ==
  LET matches[at \in (0..Len(p)) \X (0..Len(s))] ==
        LET i == at[1]
            j == at[2]
        IN  IF i = Len(p) THEN j = Len(s)
            ELSE IF esc # NoEscape /\ p[i + 1] = esc
                 THEN /\ i + 1 < Len(p) /\ j < Len(s)
                      /\ SameCodePoint(p, i + 1, s, j)
                      /\ matches[<<NextOffset(p, i + 1), NextOffset(s, j)>>]
            ELSE IF p[i + 1] = PERCENTAGE
                 THEN \/ matches[<<i + 1, j>>]
                      \/ j < Len(s) /\ matches[<<i, NextOffset(s, j)>>]
            ELSE /\ j < Len(s)
                 /\ p[i + 1] = UNDERSCORE \/ SameCodePoint(p, i, s, j)
                 /\ matches[<<NextOffset(p, i), NextOffset(s, j)>>]
  IN  matches[<<0, 0>>]
=============================================================================
