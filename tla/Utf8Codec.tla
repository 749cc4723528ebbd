----------------------------- MODULE Utf8Codec -----------------------------
(***************************************************************************)
(* The writers and readers of common/utf8.h and NextUtf8Char of            *)
(* common/util.cc: a buffer is filled with code points as long as they     *)
(* fit, cut somewhere, and read again from its begin.                      *)
(***************************************************************************)
EXTENDS Utf8

CONSTANTS
  CodePoints,       \* what is written, each below 2^31
  WriterLimits,     \* the sizes of a buffer
  MaxCodePoints     \* how many are written

\* What six bytes hold.
CodePoint == {c \in Nat : c <= 2147483647}

ASSUME CodePointsAssumption == CodePoints \subseteq CodePoint
ASSUME WriterLimitsAssumption == WriterLimits \subseteq Nat

VARIABLES
  limit,         \* writerLimit, as an offset
  bytes,         \* what is written: the writer is at Len(bytes)
  accepted,      \* the code points that fitted
  reading,       \* whether the buffer is being read
  readerLimit,   \* where it was cut
  reader,        \* the offset read next
  decoded        \* the code points read so far

codecVars == <<limit, bytes, accepted, reading, readerLimit, reader, decoded>>

-----------------------------------------------------------------------------

getCodePointLen(c) ==
  IF c <= 127 THEN 1 ELSE IF c <= 2047 THEN 2 ELSE IF c <= 65535 THEN 3
  ELSE IF c <= 2097151 THEN 4 ELSE IF c <= 67108863 THEN 5 ELSE 6

\* n ones and a zero, then the value's highest bits; six bits in each byte
\* that follows.
Header(n) == 256 - 2^(8 - n)
HeaderRoom(n) == 2^(7 - n)
writeCodePointUnchecked(c) ==
  LET n == getCodePointLen(c)
      Bits(i) == c \div 2^(6 * (n - i))
  IN  IF n = 1 THEN <<c>>
      ELSE [i \in 1..n |-> IF i = 1 THEN Header(n) + Bits(1) ELSE 128 + (Bits(i) % 64)]

\* Mistake: the limit is taken for the last byte that may be written.
FitsWithin(written, writerLimit, c) == Len(written) + getCodePointLen(c) <= writerLimit + 1

Fits(written, writerLimit, c) == Len(written) + getCodePointLen(c) <= writerLimit

\* A code point that does not fit is not written at all.
writeCodePoint(written, writerLimit, c) ==
  IF Fits(written, writerLimit, c) THEN written \o writeCodePointUnchecked(c) ELSE written

\* The n bytes behind an offset, as one number; the header keeps 7 - n bits.
ReadSequence(s, from, n) ==
  LET value[i \in 1..n] ==
        IF i = 1 THEN s[from + 1] % HeaderRoom(n) ELSE (value[i - 1] * 64) + (s[from + i] % 64)
  IN  value[n]

\* readMultiByteCase has no case for other lengths and returns 0.
readMultiByteCase(s, from, n) == IF n \in 2..6 THEN ReadSequence(s, from, n) ELSE 0

Question == 63   \* '?'

readCodePoint(s, from, end) ==
  LET byte == s[from + 1]
      n    == multiByteSequenceLength(byte)
  IN  IF byte < 128 THEN [next |-> from + 1, codePoint |-> byte]
      ELSE IF from + n > end THEN [next |-> end, codePoint |-> Question]
      ELSE [next |-> from + n, codePoint |-> readMultiByteCase(s, from, n)]

\* Mistake: one step back and no more.
moveBackwardsOnce(s, from) == IF s[from + 1] \div 64 = 2 THEN from - 1 ELSE from

\* Back over continuation bytes, whose two highest bits are 10.
moveBackwardsToCodePointBegin(s, from) ==
  CHOOSE begin \in 0..from : /\ s[begin + 1] \div 64 # 2
                             /\ \A o \in begin + 1..from : s[o + 1] \div 64 = 2

\* Mistake: the header of three bytes is taken for one of two.
NextLengthMasked(byte) ==
  IF byte < 128 THEN 1
  ELSE IF byte \div 64 = 3 /\ byte \div 16 # 15 THEN 2
  ELSE IF byte \div 8 = 30 THEN 4 ELSE 0

\* What NextUtf8Char tells from the header byte; 0 if it throws.
NextLength(byte) ==
  IF byte < 128 THEN 1
  ELSE IF byte \div 32 = 6 THEN 2
  ELSE IF byte \div 16 = 14 THEN 3
  ELSE IF byte \div 8 = 30 THEN 4
  ELSE 0

NextUtf8Char(s, i) ==
  LET n == NextLength(s[i + 1])
  IN  [next |-> i + n, codePoint |-> IF n = 1 THEN s[i + 1] ELSE ReadSequence(s, i, n)]

-----------------------------------------------------------------------------

CodecInit ==
  /\ limit \in WriterLimits
  /\ bytes = << >> /\ accepted = << >> /\ decoded = << >>
  /\ reading = FALSE /\ readerLimit = 0 /\ reader = 0

Write(c) ==
  /\ ~reading /\ Len(accepted) < MaxCodePoints
  /\ bytes' = writeCodePoint(bytes, limit, c)
  /\ accepted' = IF bytes' = bytes THEN accepted ELSE Append(accepted, c)
  /\ UNCHANGED <<limit, reading, readerLimit, reader, decoded>>

\* The reader's limit need not be between two code points.
CutOff ==
  /\ ~reading /\ reading' = TRUE
  /\ readerLimit' \in 0..Len(bytes)
  /\ UNCHANGED <<limit, bytes, accepted, reader, decoded>>

Read ==
  /\ reading /\ reader < readerLimit
  /\ LET result == readCodePoint(bytes, reader, readerLimit)
     IN  reader' = result.next /\ decoded' = Append(decoded, result.codePoint)
  /\ UNCHANGED <<limit, bytes, accepted, reading, readerLimit>>

CodecNext == CutOff \/ Read \/ \E c \in CodePoints : Write(c)

CodecSpec == CodecInit /\ [][CodecNext]_codecVars

-----------------------------------------------------------------------------

\* The offset behind the first n code points accepted.
EndsOf(s) ==
  LET end[n \in 0..Len(s)] == IF n = 0 THEN 0 ELSE end[n - 1] + getCodePointLen(s[n])
  IN  end
EndOf(n) == EndsOf(accepted)[n]
Starts == {EndOf(n) : n \in 0..Len(accepted) - 1}

\* Reading gives back what was written, code point by code point; the one the
\* limit cuts through is read as one '?', and the reader never goes past the
\* limit.  Nothing is written past the writer's limit.
RoundTrip ==
  /\ Len(bytes) = EndOf(Len(accepted)) /\ Len(bytes) <= limit
  /\ LET n == Len(decoded)
     IN  \/ reader = EndOf(n) /\ decoded = SubSeq(accepted, 1, n)
         \/ /\ reader = readerLimit /\ readerLimit < EndOf(n)
            /\ decoded = Append(SubSeq(accepted, 1, n - 1), Question)
  /\ reader <= readerLimit

\* From any byte, moving backwards ends at the begin of the code point the byte
\* belongs to, without leaving the buffer.
BackIsBegin ==
  \A o \in 0..Len(bytes) - 1 :
     LET begin == moveBackwardsToCodePointBegin(bytes, o)
     IN  begin \in Starts /\ \A start \in Starts : start <= o => start <= begin

\* The two decoders of the repository agree on every code point of up to four
\* bytes, in value and length, and NextUtf8Char throws for the longer ones that
\* the other one reads.
DecodersAgree ==
  \A o \in Starts :
     IF getCodePointLen(readCodePoint(bytes, o, Len(bytes)).codePoint) <= 4
     THEN NextUtf8Char(bytes, o) = readCodePoint(bytes, o, Len(bytes))
     ELSE NextLength(bytes[o + 1]) = 0
=============================================================================
