------------------------------ MODULE Skeleton ------------------------------
(***************************************************************************)
(* The compiled form of a pattern (aho_corasick/skeleton.h, skeleton.cc):  *)
(* its segments, and for each of them where its literals start in the      *)
(* pattern, how many underscores surround them, and whether a % is on      *)
(* either side.                                                            *)
(***************************************************************************)
EXTENDS Tokenizer, Utf8

CONSTANT U16Size   \* 2^16 in the code: how many offsets a u16 tells apart

ASSUME U16SizeAssumption == U16Size \in Nat \ {0}

\* Bound: stands for 2^32, which is more than TLC can count.  What matters is
\* that it exceeds every number of code points in a text.
U32Size == 2^24
ToU16(n) == n % U16Size

Largest(S) == CHOOSE x \in S : \A y \in S : y <= x

HasLiteral(seg) == seg.literal_offset # << >>

\* One segment as the constructor first makes it; idx counts from 1.
RawSegment(p, esc, idx) ==
  LET segs == Segments(p, esc)
      seg  == segs[idx]
      lits == Literals(p, esc, seg)
      gap(n) == lits[n].start - (IF n = 1 THEN seg.start ELSE End(lits[n - 1]))
      suffix == End(seg) - (IF lits = << >> THEN seg.start ELSE End(Last(lits)))
  IN  [literal_offset |->
         [n \in 1..Len(lits) |->
            ToU16(lits[n].start - EscapesBefore(p, esc, seg, lits[n]))],
       prefix_underscore_cnt |-> IF lits = << >> THEN 0 ELSE gap(1),
       suffix_underscore_cnt |-> suffix,
       max_underscore_cnt    |-> Largest({gap(n) : n \in 1..Len(lits)} \cup {suffix}),
       has_prefix_percent    |-> idx > 1 \/ seg.start > 0,
       has_suffix_percent    |-> idx < Len(segs) \/ Pos(p, esc) # Len(p)]

Underscores(seg) == seg.prefix_underscore_cnt + seg.suffix_underscore_cnt

\* Mistake: the prefix count of a segment that was folded into is forgotten.
FoldSegmentSuffixOnly(folded, seg) ==
  IF folded = << >> THEN << seg >>
  ELSE IF ~HasLiteral(Last(folded))
       THEN << [seg EXCEPT !.prefix_underscore_cnt = @ + Last(folded).suffix_underscore_cnt,
                           !.has_prefix_percent = TRUE] >>
  ELSE IF ~HasLiteral(seg)
       THEN [folded EXCEPT ![Len(folded)].suffix_underscore_cnt = @ + Underscores(seg)]
  ELSE Append(folded, seg)

\* FoldLiteralFreeSegments, one segment at a time: one without a literal gives
\* its underscores to the segment after it if it comes first, to the segment
\* before it otherwise.
FoldSegment(folded, seg) ==
  IF folded = << >> THEN << seg >>
  ELSE IF ~HasLiteral(Last(folded))
       THEN << [seg EXCEPT !.prefix_underscore_cnt = @ + Underscores(Last(folded)),
                           !.has_prefix_percent = TRUE] >>
  ELSE IF ~HasLiteral(seg)
       THEN [folded EXCEPT ![Len(folded)].suffix_underscore_cnt = @ + Underscores(seg)]
  ELSE Append(folded, seg)

FoldLiteralFreeSegments(segs) ==
  LET fold[n \in 0..Len(segs)] ==
        IF n = 0 THEN << >> ELSE FoldSegment(fold[n - 1], segs[n])
      folded == fold[Len(segs)]
  IN  [n \in 1..Len(folded) |->
         [folded[n] EXCEPT !.max_underscore_cnt =
            Largest({@, folded[n].prefix_underscore_cnt, folded[n].suffix_underscore_cnt})]]

\* The skeleton of a pattern: Skeleton's constructor.
SkeletonOf(p, esc) ==
  FoldLiteralFreeSegments([idx \in 1..Len(Segments(p, esc)) |-> RawSegment(p, esc, idx)])

\* What the constructor hands to literal_fn: the bytes of each literal, escapes
\* stripped, and its start position.
PatternLiterals(p, esc) ==
  LET OfSegment(seg) ==
        {[keyword   |-> StripEscapes(p, esc, lit),
          start_pos |-> lit.start - EscapesBefore(p, esc, seg, lit)] :
           lit \in ToSet(Literals(p, esc, seg))}
  IN  UNION {OfSegment(seg) : seg \in ToSet(Segments(p, esc))}

OnlyWildcard(p, esc) == PatternLiterals(p, esc) = {}

-----------------------------------------------------------------------------
(* Questions the matcher asks of a segment.  An offset it knows with 32    *)
(* bits is asked for with 16, and the first literal with an offset counts. *)

OffsetsOf(seg)      == {seg.literal_offset[n] : n \in 1..Len(seg.literal_offset)}
HasOffset(seg, pos) == ToU16(pos) \in OffsetsOf(seg)
IndexOf(seg, pos)   ==
  CHOOSE n \in 1..Len(seg.literal_offset) :
    /\ seg.literal_offset[n] = ToU16(pos)
    /\ \A earlier \in 1..n - 1 : seg.literal_offset[earlier] # ToU16(pos)

IsFirstLiteral(seg, pos) == IndexOf(seg, pos) = 1
IsLastLiteral(seg, pos)  == IndexOf(seg, pos) = Len(seg.literal_offset)
IsPreviousLiteral(seg, prev, pos) ==
  IndexOf(seg, pos) > 1 /\ seg.literal_offset[IndexOf(seg, pos) - 1] = ToU16(prev)
GetNextLiteralOffset(seg, pos) == seg.literal_offset[IndexOf(seg, pos) + 1]

\* Mistake: a segment's underscores alone.
LruCapByUnderscores(seg) == seg.max_underscore_cnt + 1

\* How many alignments a matcher keeps while it is in this segment.
LruCapForSegment(seg) ==
  Largest({seg.max_underscore_cnt + 1}
            \cup {seg.literal_offset[n] + 1 : n \in {Len(seg.literal_offset)} \ {0}})

-----------------------------------------------------------------------------
(* The text. *)

NoOffset == -1

\* Mistake: one byte per underscore.
Utf8AdvanceBytes(text, from, count) ==
  IF from + count > Len(text) THEN NoOffset ELSE from + count

\* Utf8Advance: the offset count code points after from, or NoOffset.
Utf8Advance(text, from, count) ==
  LET cur[n \in 0..count] ==
        IF n = 0 THEN from
        ELSE IF cur[n - 1] = NoOffset \/ cur[n - 1] >= Len(text) THEN NoOffset
        ELSE NextOffset(text, cur[n - 1])
  IN  cur[count]

\* SpecialMatchEmptyPattern: a pattern without a literal asks for a number of
\* code points, or for at least that many if it has a %.
SpecialMatchEmptyPattern(p, esc, text) ==
  LET underscores == {i \in 0..(Len(p) - 1) : IsLiteralDelim(p, esc, i)}
      percents    == {i \in 0..(Len(p) - 1) : IsSegmentDelim(p, esc, i)}
      code_points == CodePointStarts(text) \ {Len(text)}
  IN  \/ Cardinality(code_points) = Cardinality(underscores)
      \/ Cardinality(code_points) > Cardinality(underscores) /\ percents # {}
=============================================================================
