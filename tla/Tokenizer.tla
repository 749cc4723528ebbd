------------------------------ MODULE Tokenizer ------------------------------
(***************************************************************************)
(* How a LIKE pattern is cut up (aho_corasick/tokenizer.h, tokenizer.cc):  *)
(* into segments at every % that is not escaped, and a segment into        *)
(* literals at every _ that is not escaped.  A pattern p is a sequence of  *)
(* bytes, offsets into it count from 0, and esc is the escape byte, or     *)
(* NoEscape.                                                               *)
(***************************************************************************)
EXTENDS Integers, Sequences, FiniteSets, SequencesExt, Order

PERCENTAGE == 37
UNDERSCORE == 95
NoEscape   == -1

\* The byte before offset i is the escape byte, whatever that byte itself is.
IsEscaped(p, esc, i) == esc # NoEscape /\ i > 0 /\ p[i] = esc

IsSegmentDelim(p, esc, i) == p[i + 1] = PERCENTAGE /\ ~IsEscaped(p, esc, i)
IsLiteralDelim(p, esc, i) == p[i + 1] = UNDERSCORE /\ ~IsEscaped(p, esc, i)
IsEscapable(p, esc, i)    == p[i + 1] \in {PERCENTAGE, UNDERSCORE, esc}

End(span) == span.start + span.len

\* The maximal runs without a delimiter between the offsets lo and hi, in order.
Spans(lo, hi, delims) ==
  LET Starts == {i \in lo..(hi - 1) : i \notin delims /\ (i = lo \/ i - 1 \in delims)}
      StopOf(i) == CHOOSE e \in i..hi : /\ i..(e - 1) \cap delims = {}
                                        /\ e = hi \/ e \in delims
      sorted == InOrder(Starts, <)
  IN  [n \in 1..Len(sorted) |-> [start |-> sorted[n], len |-> StopOf(sorted[n]) - sorted[n]]]

\* What the calls of NextSegment return until there is no other one.
Segments(p, esc) ==
  Spans(0, Len(p), {i \in 0..(Len(p) - 1) : IsSegmentDelim(p, esc, i)})

\* What the calls of NextLiteral return for one segment.
Literals(p, esc, seg) ==
  Spans(seg.start, End(seg), {i \in seg.start..(End(seg) - 1) : IsLiteralDelim(p, esc, i)})

\* Mistake: the escape byte is counted, and the byte behind it too.
EscapesBeforePairs(p, esc, seg, lit) ==
  Cardinality({i \in seg.start..(lit.start - 1) :
                 \/ p[i + 1] = esc
                 \/ IsEscaped(p, esc, i)})

\* accum_esc_len_ when NextLiteral reaches lit: one for each escaped escapable
\* byte of the segment's earlier literals, an escape byte that follows an
\* escape byte included.
EscapesBefore(p, esc, seg, lit) ==
  Cardinality({i \in seg.start..(lit.start - 1) :
                 /\ ~IsLiteralDelim(p, esc, i)
                 /\ IsEscaped(p, esc, i)
                 /\ IsEscapable(p, esc, i)})

\* StripEscapes: every escape byte that does not itself follow one that was
\* dropped is dropped, and the byte behind it is taken as it is.
StripEscapes(p, esc, lit) ==
  LET take[n \in 0..lit.len] ==
        IF n = 0 THEN [out |-> << >>, verbatim |-> FALSE]
        ELSE LET before == take[n - 1]
                 byte   == p[lit.start + n]
             IN  IF byte = esc /\ ~before.verbatim
                 THEN [out |-> before.out, verbatim |-> TRUE]
                 ELSE [out |-> Append(before.out, byte), verbatim |-> FALSE]
  IN  take[lit.len].out

\* Pos() after the last segment.
Pos(p, esc) ==
  LET segs == Segments(p, esc) IN IF segs = << >> THEN 0 ELSE End(Last(segs))
=============================================================================
