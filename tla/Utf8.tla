-------------------------------- MODULE Utf8 --------------------------------
(***************************************************************************)
(* Code point boundaries, as common/utf8.h computes them.                  *)
(*                                                                         *)
(* A text, a keyword or a pattern is a sequence of bytes; an offset into   *)
(* it counts from 0, as a pointer difference does in the code, so the byte *)
(* at offset o is s[o + 1].  The value a code point decodes to is not      *)
(* needed here: what the trie and the matcher depend on is only where one  *)
(* code point ends and the next one starts.                                *)
(***************************************************************************)
EXTENDS Integers, Sequences, FiniteSets

Byte == 0..255

\* How many of the leading bits of b are set: clz(~b) in the code.  255 has
\* no header form (the code asserts), so it does not start a sequence.
LeadingOnes(b) == Cardinality({k \in 1..8 : b \div 2^(8 - k) = 2^k - 1})

\* The length of a sequence from its header byte; a stray continuation byte
\* (one leading bit) counts as one byte long.
multiByteSequenceLength(b) == IF LeadingOnes(b) = 0 THEN 1 ELSE LeadingOnes(b)

\* readCodePoint(s + from, s + Len(s)).next: a sequence that runs past the
\* limit is cut there.
NextOffset(s, from) ==
  LET byte == s[from + 1]
      next == from + multiByteSequenceLength(byte)
  IN  IF byte < 128 THEN from + 1 ELSE IF next > Len(s) THEN Len(s) ELSE next

CodePointLength(b) == IF b < 128 THEN 1 ELSE multiByteSequenceLength(b)

\* The offsets a reader that starts at 0 and repeats readCodePoint stops at,
\* both ends of s included.
CodePointStarts(s) ==
  LET ptr[n \in 0..Len(s)] ==
        IF n = 0 THEN 0
        ELSE LET last == ptr[n - 1]
             IN  IF last = Len(s) THEN last ELSE NextOffset(s, last)
  IN  {ptr[n] : n \in 0..Len(s)}

\* No code point is cut off by the end, as in every valid text.
WholeCodePoints(s) ==
  \A o \in CodePointStarts(s) \ {Len(s)} : o + CodePointLength(s[o + 1]) <= Len(s)

\* A valid text: code points that are whole, whose first bytes are no continuation
\* bytes and whose other bytes are.
ValidText(s) ==
  /\ s \in Seq(Byte) /\ WholeCodePoints(s)
  /\ \A o \in 0..(Len(s) - 1) : o \in CodePointStarts(s) <=> s[o + 1] \notin 128..191
=============================================================================
