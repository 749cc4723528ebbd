----------------------------- MODULE UtilProofs -----------------------------
(***************************************************************************)
(* What util.cc and utf8.h promise.                                        *)
(*                                                                         *)
(* UpdateMax loses no update and never lowers the value, for any number of *)
(* threads and any values.  The inductive invariant is that a thread has   *)
(* seen no more than what is there, so that an exchange that finds what it *)
(* has seen writes something larger.                                       *)
(*                                                                         *)
(* The codec gives back what was written, for all code points below 2^31   *)
(* and any limits: by arithmetic, one code point is read as it was         *)
(* written; the invariant says where each one stands in the buffer.        *)
(***************************************************************************)
EXTENDS Utf8Codec, AtomicMax, CommonLemmas

-----------------------------------------------------------------------------
(* UpdateMax. *)

IInv == TypeOK /\ SeenIsOld /\ ReturnedIsCounted

\* A step never lowers the value, if what its thread has seen is old.
LEMMA StepRaises ==
  ASSUME IInv, NEW t \in Threads, Step(t)
  PROVE  atomic_val' \in Int /\ atomic_val' >= atomic_val
BY ValuesAssumption DEF IInv, TypeOK, SeenIsOld, Step, Load, Return, Exchange, Retry, Seen

\* The invariant is kept by every step of every thread.
LEMMA StepKeepsIInv ==
  ASSUME IInv, NEW t \in Threads, Step(t)
  PROVE  IInv'
<1> USE DEF IInv
<1>1. atomic_val' \in Int /\ atomic_val' >= atomic_val
  BY StepRaises
<1>2. TypeOK'
  BY <1>1 DEF TypeOK, Step, Load, Return, Exchange, Retry
<1>3. SeenIsOld'
  <2> SUFFICES ASSUME NEW u \in Threads, pc'[u] # "load"
               PROVE  prev_value'[u] <= atomic_val'
    BY DEF SeenIsOld
  <2>1. CASE u = t
    BY <1>1, <2>1, ValuesAssumption
       DEF TypeOK, SeenIsOld, Step, Load, Return, Exchange, Retry
  <2>2. CASE u # t
    <3>1. pc'[u] = pc[u] /\ prev_value'[u] = prev_value[u]
      BY <2>2 DEF TypeOK, Step, Load, Return, Exchange, Retry
    <3> QED
      BY <1>1, <3>1 DEF TypeOK, SeenIsOld
  <2> QED
    BY <2>1, <2>2
<1>4. ReturnedIsCounted'
  <2> SUFFICES ASSUME NEW u \in Threads, pc'[u] = "done"
               PROVE  atomic_val' >= Value[u]
    BY DEF ReturnedIsCounted
  <2>1. CASE u = t
    BY <1>1, <2>1, ValuesAssumption
       DEF TypeOK, SeenIsOld, Step, Load, Return, Exchange, Retry
  <2>2. CASE u # t
    <3>1. pc[u] = "done"
      BY <2>2 DEF TypeOK, Step, Load, Return, Exchange, Retry
    <3> QED
      BY <1>1, <3>1, ValuesAssumption DEF TypeOK, ReturnedIsCounted
  <2> QED
    BY <2>1, <2>2
<1> QED
  BY <1>2, <1>3, <1>4

\* The inductive invariant holds throughout.
THEOREM Invariance == Spec => []IInv
<1>1. Init => IInv
  BY ValuesAssumption DEF Init, IInv, TypeOK, SeenIsOld, ReturnedIsCounted
<1>2. IInv /\ [Next]_vars => IInv'
  <2> SUFFICES ASSUME IInv, [Next]_vars PROVE IInv'
    OBVIOUS
  <2>1. ASSUME NEW t \in Threads, Step(t) PROVE IInv'
    BY <2>1, StepKeepsIInv
  <2>2. CASE UNCHANGED vars
    BY <2>2 DEF vars, IInv, TypeOK, SeenIsOld, ReturnedIsCounted
  <2> QED
    BY <2>1, <2>2 DEF Next
<1> QED
  BY <1>1, <1>2, PTL DEF Spec

\* No update is lost (UpdateMax): what a thread has asked for is counted when
\* it returns, and ever after.
THEOREM NoUpdateLost == Spec => []ReturnedIsCounted
<1>1. IInv => ReturnedIsCounted
  BY DEF IInv
<1> QED
  BY <1>1, Invariance, PTL

\* The maximum never goes down (UpdateMax), whatever the interleaving.
THEOREM MaximumNeverLowered == Spec => NeverLowered
<1>1. IInv /\ [Next]_vars => [atomic_val' >= atomic_val]_vars
  <2> SUFFICES ASSUME IInv, Next PROVE atomic_val' >= atomic_val \/ UNCHANGED vars
    OBVIOUS
  <2>1. ASSUME NEW t \in Threads, Step(t) PROVE atomic_val' >= atomic_val
    BY <2>1, StepRaises
  <2> QED
    BY <2>1 DEF Next
<1> QED
  BY <1>1, Invariance, PTL DEF Spec, NeverLowered

\* What is there is what the atomic held before or what some thread has asked
\* for, and never less than the first.
LEMMA ValueIsCandidate == Spec => [](OnlyCandidates /\ AtLeastInitial)
<1>1. Init => OnlyCandidates /\ AtLeastInitial
  BY ValuesAssumption DEF Init, OnlyCandidates, AtLeastInitial, Candidates
<1>2. IInv /\ OnlyCandidates /\ AtLeastInitial /\ [Next]_vars => (OnlyCandidates /\ AtLeastInitial)'
  <2> SUFFICES ASSUME IInv, OnlyCandidates, AtLeastInitial, [Next]_vars
               PROVE  (OnlyCandidates /\ AtLeastInitial)'
    OBVIOUS
  <2>1. ASSUME NEW t \in Threads, Step(t) PROVE (OnlyCandidates /\ AtLeastInitial)'
    <3>1. atomic_val \in Int /\ atomic_val' \in Int /\ atomic_val' >= atomic_val
      BY <2>1, StepRaises DEF IInv, TypeOK
    <3>2. atomic_val' = atomic_val \/ atomic_val' = Value[t]
      BY <2>1 DEF Step, Load, Return, Exchange, Retry
    <3> QED
      BY <3>1, <3>2, ValuesAssumption DEF OnlyCandidates, AtLeastInitial, Candidates
  <2>2. CASE UNCHANGED vars
    BY <2>2 DEF vars, OnlyCandidates, AtLeastInitial
  <2> QED
    BY <2>1, <2>2 DEF Next
<1> QED
  BY <1>1, <1>2, Invariance, PTL DEF Spec

\* When all have returned, the value is the largest of the values given to
\* UpdateMax and of the one that was there, for any number of threads.
THEOREM MaximumRemains == Spec => []LargestRemains
<1>1. IInv /\ OnlyCandidates /\ AtLeastInitial => LargestRemains
  BY ValuesAssumption
     DEF IInv, ReturnedIsCounted, OnlyCandidates, AtLeastInitial, Candidates, LargestRemains, AllDone
<1> QED
  BY <1>1, Invariance, ValueIsCandidate, PTL

-----------------------------------------------------------------------------
(* One code point. *)

\* The length of a code point, and its limits.
LEMMA LengthIs ==
  ASSUME NEW c \in CodePoint
  PROVE  /\ c \in Nat /\ getCodePointLen(c) \in 1..6
         /\ getCodePointLen(c) = 1 => c < 128
         /\ getCodePointLen(c) = 2 => c < 2048 /\ c >= 128
         /\ getCodePointLen(c) = 3 => c < 65536
         /\ getCodePointLen(c) = 4 => c < 2097152
         /\ getCodePointLen(c) = 5 => c < 67108864
         /\ getCodePointLen(c) = 6 => c < 2147483648
<1>1. c \in Nat /\ c <= 2147483647
  BY SMT DEF CodePoint
<1>2. getCodePointLen(c) = IF c <= 127 THEN 1 ELSE IF c <= 2047 THEN 2 ELSE IF c <= 65535 THEN 3
                        ELSE IF c <= 2097151 THEN 4 ELSE IF c <= 67108863 THEN 5 ELSE 6
  BY SMT DEF getCodePointLen
<1> QED
  BY <1>1, <1>2, SMT

\* A number's six lowest bits and the others.
LEMMA SixBits ==
  ASSUME NEW c \in Nat
  PROVE  /\ c \div 64 \in Nat /\ c % 64 \in 0..63 /\ ((c \div 64) * 64) + (c % 64) = c
         /\ (128 + (c % 64)) % 64 = c % 64
         /\ (128 + (c % 64)) \in 128..191
BY SMT

\* They are taken away one after the other.
LEMMA SixBitsEach ==
  ASSUME NEW c \in Nat
  PROVE  /\ c \div 1 = c
         /\ c \div 4096 = (c \div 64) \div 64
         /\ c \div 262144 = (c \div 4096) \div 64
         /\ c \div 16777216 = (c \div 262144) \div 64
         /\ c \div 1073741824 = (c \div 16777216) \div 64
BY SMT

\* The powers of two that occur.
LEMMA Powers ==
  /\ 2^(8 - 2) = 64 /\ 2^(8 - 3) = 32 /\ 2^(8 - 4) = 16 /\ 2^(8 - 5) = 8 /\ 2^(8 - 6) = 4
  /\ 2^(7 - 2) = 32 /\ 2^(7 - 3) = 16 /\ 2^(7 - 4) = 8 /\ 2^(7 - 5) = 4 /\ 2^(7 - 6) = 2
BY SMT

\* So are those of six bits at a time.
LEMMA PowersOf64 ==
  /\ 2^(6 * 0) = 1 /\ 2^(6 * 1) = 64 /\ 2^(6 * 2) = 4096 /\ 2^(6 * 3) = 262144
  /\ 2^(6 * 4) = 16777216 /\ 2^(6 * 5) = 1073741824
BY SMT

\* What is left of a code point without its lowest bits, six at a time.
High(c, j) == c \div 2^(6 * j)

\* Shifting by six more bits is to divide by 64 once more.
LEMMA HighIs ==
  ASSUME NEW c \in Nat
  PROVE  /\ High(c, 0) = c
         /\ \A j \in 0..5 : High(c, j) \in Nat
         /\ \A j \in 1..5 : High(c, j) = High(c, j - 1) \div 64
<1>1. /\ High(c, 0) = c /\ High(c, 1) = c \div 64 /\ High(c, 2) = c \div 4096
      /\ High(c, 3) = c \div 262144 /\ High(c, 4) = c \div 16777216
      /\ High(c, 5) = c \div 1073741824
  BY PowersOf64, SixBitsEach, SMT DEF High
<1>2. \A j \in 1..5 : High(c, j) = High(c, j - 1) \div 64
  <2>1. \A j \in 1..5 : j = 1 \/ j = 2 \/ j = 3 \/ j = 4 \/ j = 5
    OBVIOUS
  <2>2. /\ High(c, 1) = High(c, 1 - 1) \div 64 /\ High(c, 2) = High(c, 2 - 1) \div 64
        /\ High(c, 3) = High(c, 3 - 1) \div 64 /\ High(c, 4) = High(c, 4 - 1) \div 64
        /\ High(c, 5) = High(c, 5 - 1) \div 64
    BY <1>1, SixBitsEach, SMT
  <2> QED
    BY <2>1, <2>2
<1>3. \A j \in 0..5 : High(c, j) \in Nat
  <2> DEFINE T == {j \in 0..5 : High(c, j) \in Nat}
  <2>1. 0 \in T
    BY <1>1, SMT
  <2>2. ASSUME NEW j \in 0..(5 - 1), j \in T PROVE j + 1 \in T
    <3>1. High(c, j + 1) = High(c, j) \div 64 /\ High(c, j) \in Nat
      BY <1>2, <2>2
    <3> QED
      BY <3>1, SixBits
  <2> HIDE DEF T
  <2>3. \A j \in 0..5 : j \in T
    BY <2>1, <2>2, InductionUpTo
  <2> QED
    BY <2>3 DEF T
<1>4. High(c, 0) = c
  BY <1>1, SMT
<1> QED
  BY <1>2, <1>3, <1>4

\* The highest bits fit into the header byte.
LEMMA HeaderHasRoom ==
  ASSUME NEW c \in CodePoint, getCodePointLen(c) > 1
  PROVE  High(c, getCodePointLen(c) - 1) \in 0..(HeaderRoom(getCodePointLen(c)) - 1)
<1> DEFINE n == getCodePointLen(c)
<1>1. c \in Nat /\ n \in 2..6
  BY LengthIs
<1>2. High(c, n - 1) \in Nat
  BY <1>1, HighIs
<1>3. n = 2 \/ n = 3 \/ n = 4 \/ n = 5 \/ n = 6
  BY <1>1
<1>4. CASE n = 2
  <2>1. c < 2048 /\ c \div 64 < 32
    BY <1>1, <1>4, LengthIs, SMT
  <2>2. High(c, n - 1) = c \div 64 /\ HeaderRoom(n) = 32
    BY <1>4, Powers, PowersOf64, SMT DEF High, HeaderRoom
  <2> QED
    BY <1>2, <2>1, <2>2, SMT
<1>5. CASE n = 3
  <2>1. c < 65536 /\ c \div 4096 < 16
    BY <1>1, <1>5, LengthIs, SMT
  <2>2. High(c, n - 1) = c \div 4096 /\ HeaderRoom(n) = 16
    BY <1>5, Powers, PowersOf64, SMT DEF High, HeaderRoom
  <2> QED
    BY <1>2, <2>1, <2>2, SMT
<1>6. CASE n = 4
  <2>1. c < 2097152 /\ c \div 262144 < 8
    BY <1>1, <1>6, LengthIs, SMT
  <2>2. High(c, n - 1) = c \div 262144 /\ HeaderRoom(n) = 8
    BY <1>6, Powers, PowersOf64, SMT DEF High, HeaderRoom
  <2> QED
    BY <1>2, <2>1, <2>2, SMT
<1>7. CASE n = 5
  <2>1. c < 67108864 /\ c \div 16777216 < 4
    BY <1>1, <1>7, LengthIs, SMT
  <2>2. High(c, n - 1) = c \div 16777216 /\ HeaderRoom(n) = 4
    BY <1>7, Powers, PowersOf64, SMT DEF High, HeaderRoom
  <2> QED
    BY <1>2, <2>1, <2>2, SMT
<1>8. CASE n = 6
  <2>1. c < 2147483648 /\ c \div 1073741824 < 2
    BY <1>1, <1>8, LengthIs, SMT
  <2>2. High(c, n - 1) = c \div 1073741824 /\ HeaderRoom(n) = 2
    BY <1>8, Powers, PowersOf64, SMT DEF High, HeaderRoom
  <2> QED
    BY <1>2, <2>1, <2>2, SMT
<1> QED
  BY <1>3, <1>4, <1>5, <1>6, <1>7, <1>8

\* The leading bits of a byte, told one by one.
LEMMA LeadingOnesAre ==
  ASSUME NEW b, NEW n \in 1..8,
         \A k \in 1..n : b \div 2^(8 - k) = 2^k - 1,
         \A k \in (n + 1)..8 : b \div 2^(8 - k) # 2^k - 1
  PROVE  LeadingOnes(b) = n
<1>1. {k \in 1..8 : b \div 2^(8 - k) = 2^k - 1} = 1..n
  <2>1. \A k \in 1..8 : k \in 1..n \/ k \in (n + 1)..8
    OBVIOUS
  <2>2. \A k \in 1..n : k \in 1..8
    OBVIOUS
  <2> QED
    BY <2>1, <2>2
<1>2. Cardinality(1..n) = n
  <2>1. 1 \in Int /\ n \in Int /\ n >= 1
    OBVIOUS
  <2>2. Cardinality(1..n) = n - 1 + 1
    BY <2>1, FS_Interval
  <2> QED
    BY <2>1, <2>2
<1> QED
  BY <1>1, <1>2 DEF LeadingOnes

\* A header byte tells the length and gives back the bits put into it.
LEMMA HeaderIs ==
  ASSUME NEW n \in 2..6, NEW q \in 0..(HeaderRoom(n) - 1), NEW b, b = Header(n) + q
  PROVE  /\ b \in Byte /\ b >= 128 /\ b \div 64 = 3 /\ b % HeaderRoom(n) = q
         /\ multiByteSequenceLength(b) = n
         /\ NextLength(b) = IF n <= 4 THEN n ELSE 0
<1> DEFINE Told(length) == /\ b \in Byte /\ b >= 128 /\ b \div 64 = 3 /\ b % HeaderRoom(n) = q
                           /\ LeadingOnes(b) = n
                           /\ NextLength(b) = length
<1>1. n = 2 \/ n = 3 \/ n = 4 \/ n = 5 \/ n = 6
  OBVIOUS
<1>2. CASE n = 2
  <2>1. q \in 0..31 /\ b = 192 + q /\ HeaderRoom(n) = 32
    BY <1>2, Powers, SMT DEF Header, HeaderRoom
  <2>2. /\ b \div 2^(8 - 1) = 2^1 - 1
        /\ b \div 2^(8 - 2) = 2^2 - 1
        /\ b \div 2^(8 - 3) # 2^3 - 1
        /\ b \div 2^(8 - 4) # 2^4 - 1
        /\ b \div 2^(8 - 5) # 2^5 - 1
        /\ b \div 2^(8 - 6) # 2^6 - 1
        /\ b \div 2^(8 - 7) # 2^7 - 1
        /\ b \div 2^(8 - 8) # 2^8 - 1
    BY <2>1, SMT
  <2>3. LeadingOnes(b) = 2
    <3>1. \A k \in 1..2 : k = 1 \/ k = 2
      OBVIOUS
    <3>2. \A k \in (2 + 1)..8 : k = 3 \/ k = 4 \/ k = 5 \/ k = 6 \/ k = 7 \/ k = 8
      OBVIOUS
    <3>3. /\ \A k \in 1..2 : b \div 2^(8 - k) = 2^k - 1
          /\ \A k \in (2 + 1)..8 : b \div 2^(8 - k) # 2^k - 1
      BY <2>2, <3>1, <3>2
    <3> QED
      BY <3>3, LeadingOnesAre
  <2>4. Told(2)
    BY <1>2, <2>1, <2>3, SMT DEF Byte, NextLength
  <2> QED
    BY <1>2, <2>4 DEF multiByteSequenceLength
<1>3. CASE n = 3
  <2>1. q \in 0..15 /\ b = 224 + q /\ HeaderRoom(n) = 16
    BY <1>3, Powers, SMT DEF Header, HeaderRoom
  <2>2. /\ b \div 2^(8 - 1) = 2^1 - 1
        /\ b \div 2^(8 - 2) = 2^2 - 1
        /\ b \div 2^(8 - 3) = 2^3 - 1
        /\ b \div 2^(8 - 4) # 2^4 - 1
        /\ b \div 2^(8 - 5) # 2^5 - 1
        /\ b \div 2^(8 - 6) # 2^6 - 1
        /\ b \div 2^(8 - 7) # 2^7 - 1
        /\ b \div 2^(8 - 8) # 2^8 - 1
    BY <2>1, SMT
  <2>3. LeadingOnes(b) = 3
    <3>1. \A k \in 1..3 : k = 1 \/ k = 2 \/ k = 3
      OBVIOUS
    <3>2. \A k \in (3 + 1)..8 : k = 4 \/ k = 5 \/ k = 6 \/ k = 7 \/ k = 8
      OBVIOUS
    <3>3. /\ \A k \in 1..3 : b \div 2^(8 - k) = 2^k - 1
          /\ \A k \in (3 + 1)..8 : b \div 2^(8 - k) # 2^k - 1
      BY <2>2, <3>1, <3>2
    <3> QED
      BY <3>3, LeadingOnesAre
  <2>4. Told(3)
    BY <1>3, <2>1, <2>3, SMT DEF Byte, NextLength
  <2> QED
    BY <1>3, <2>4 DEF multiByteSequenceLength
<1>4. CASE n = 4
  <2>1. q \in 0..7 /\ b = 240 + q /\ HeaderRoom(n) = 8
    BY <1>4, Powers, SMT DEF Header, HeaderRoom
  <2>2. /\ b \div 2^(8 - 1) = 2^1 - 1
        /\ b \div 2^(8 - 2) = 2^2 - 1
        /\ b \div 2^(8 - 3) = 2^3 - 1
        /\ b \div 2^(8 - 4) = 2^4 - 1
        /\ b \div 2^(8 - 5) # 2^5 - 1
        /\ b \div 2^(8 - 6) # 2^6 - 1
        /\ b \div 2^(8 - 7) # 2^7 - 1
        /\ b \div 2^(8 - 8) # 2^8 - 1
    BY <2>1, SMT
  <2>3. LeadingOnes(b) = 4
    <3>1. \A k \in 1..4 : k = 1 \/ k = 2 \/ k = 3 \/ k = 4
      OBVIOUS
    <3>2. \A k \in (4 + 1)..8 : k = 5 \/ k = 6 \/ k = 7 \/ k = 8
      OBVIOUS
    <3>3. /\ \A k \in 1..4 : b \div 2^(8 - k) = 2^k - 1
          /\ \A k \in (4 + 1)..8 : b \div 2^(8 - k) # 2^k - 1
      BY <2>2, <3>1, <3>2
    <3> QED
      BY <3>3, LeadingOnesAre
  <2>4. Told(4)
    BY <1>4, <2>1, <2>3, SMT DEF Byte, NextLength
  <2> QED
    BY <1>4, <2>4 DEF multiByteSequenceLength
<1>5. CASE n = 5
  <2>1. q \in 0..3 /\ b = 248 + q /\ HeaderRoom(n) = 4
    BY <1>5, Powers, SMT DEF Header, HeaderRoom
  <2>2. /\ b \div 2^(8 - 1) = 2^1 - 1
        /\ b \div 2^(8 - 2) = 2^2 - 1
        /\ b \div 2^(8 - 3) = 2^3 - 1
        /\ b \div 2^(8 - 4) = 2^4 - 1
        /\ b \div 2^(8 - 5) = 2^5 - 1
        /\ b \div 2^(8 - 6) # 2^6 - 1
        /\ b \div 2^(8 - 7) # 2^7 - 1
        /\ b \div 2^(8 - 8) # 2^8 - 1
    BY <2>1, SMT
  <2>3. LeadingOnes(b) = 5
    <3>1. \A k \in 1..5 : k = 1 \/ k = 2 \/ k = 3 \/ k = 4 \/ k = 5
      OBVIOUS
    <3>2. \A k \in (5 + 1)..8 : k = 6 \/ k = 7 \/ k = 8
      OBVIOUS
    <3>3. /\ \A k \in 1..5 : b \div 2^(8 - k) = 2^k - 1
          /\ \A k \in (5 + 1)..8 : b \div 2^(8 - k) # 2^k - 1
      BY <2>2, <3>1, <3>2
    <3> QED
      BY <3>3, LeadingOnesAre
  <2>4. Told(0)
    BY <1>5, <2>1, <2>3, SMT DEF Byte, NextLength
  <2> QED
    BY <1>5, <2>4 DEF multiByteSequenceLength
<1>6. CASE n = 6
  <2>1. q \in 0..1 /\ b = 252 + q /\ HeaderRoom(n) = 2
    BY <1>6, Powers, SMT DEF Header, HeaderRoom
  <2>2. /\ b \div 2^(8 - 1) = 2^1 - 1
        /\ b \div 2^(8 - 2) = 2^2 - 1
        /\ b \div 2^(8 - 3) = 2^3 - 1
        /\ b \div 2^(8 - 4) = 2^4 - 1
        /\ b \div 2^(8 - 5) = 2^5 - 1
        /\ b \div 2^(8 - 6) = 2^6 - 1
        /\ b \div 2^(8 - 7) # 2^7 - 1
        /\ b \div 2^(8 - 8) # 2^8 - 1
    BY <2>1, SMT
  <2>3. LeadingOnes(b) = 6
    <3>1. \A k \in 1..6 : k = 1 \/ k = 2 \/ k = 3 \/ k = 4 \/ k = 5 \/ k = 6
      OBVIOUS
    <3>2. \A k \in (6 + 1)..8 : k = 7 \/ k = 8
      OBVIOUS
    <3>3. /\ \A k \in 1..6 : b \div 2^(8 - k) = 2^k - 1
          /\ \A k \in (6 + 1)..8 : b \div 2^(8 - k) # 2^k - 1
      BY <2>2, <3>1, <3>2
    <3> QED
      BY <3>3, LeadingOnesAre
  <2>4. Told(0)
    BY <1>6, <2>1, <2>3, SMT DEF Byte, NextLength
  <2> QED
    BY <1>6, <2>4 DEF multiByteSequenceLength
<1> QED
  BY <1>1, <1>2, <1>3, <1>4, <1>5, <1>6

\* The bytes of a code point: a header with the highest bits, six bits in each other.
LEMMA EncodingIs ==
  ASSUME NEW c \in CodePoint, NEW n, n = getCodePointLen(c), NEW e, e = writeCodePointUnchecked(c)
  PROVE  /\ n \in 1..6 /\ e \in Seq(Byte) /\ Len(e) = n
         /\ n = 1 => e[1] = c
         /\ n > 1 => e[1] = Header(n) + High(c, n - 1)
         /\ \A i \in 2..n : e[i] = 128 + (High(c, n - i) % 64)
<1>1. n \in 1..6 /\ c \in Nat /\ (n = 1 => c < 128)
  BY LengthIs
<1>2. CASE n = 1
  <2>1. e = <<c>>
    BY <1>2 DEF writeCodePointUnchecked
  <2>2. c \in Byte
    BY <1>1, <1>2 DEF Byte
  <2> QED
    BY <1>1, <1>2, <2>1, <2>2
<1>3. CASE n > 1
  <2>1. /\ e = [i \in 1..n |-> IF i = 1 THEN Header(n) + High(c, n - 1)
                                        ELSE 128 + (High(c, n - i) % 64)]
    BY <1>1, <1>3 DEF writeCodePointUnchecked, High
  <2>2. Header(n) + High(c, n - 1) \in Byte
    <3>1. n \in 2..6 /\ High(c, n - 1) \in 0..(HeaderRoom(n) - 1)
      BY <1>1, <1>3, HeaderHasRoom
    <3> QED
      BY <3>1, HeaderIs
  <2>3. ASSUME NEW i \in 2..n PROVE 128 + (High(c, n - i) % 64) \in Byte
    <3>1. n - i \in 0..5
      BY <1>1
    <3>2. High(c, n - i) \in Nat
      BY <1>1, <3>1, HighIs
    <3>3. 128 + (High(c, n - i) % 64) \in 128..191
      BY <3>2, SixBits
    <3> QED
      BY <3>3 DEF Byte
  <2>4. \A i \in 1..n : e[i] \in Byte /\ (i = 1 \/ i \in 2..n)
    BY <1>1, <2>1, <2>2, <2>3
  <2>5. e \in [1..n -> Byte] /\ n \in Nat
    BY <1>1, <2>1, <2>4
  <2>6. e \in Seq(Byte) /\ Len(e) = n
    BY <2>5
  <2>7. e[1] = Header(n) + High(c, n - 1) /\ \A i \in 2..n : e[i] = 128 + (High(c, n - i) % 64)
    BY <1>1, <1>3, <2>1
  <2> QED
    BY <1>1, <1>3, <2>6, <2>7
<1> QED
  BY <1>1, <1>2, <1>3

\* The first byte tells the length, and that it is the first.
LEMMA FirstByteIs ==
  ASSUME NEW c \in CodePoint, NEW n, n = getCodePointLen(c), NEW e, e = writeCodePointUnchecked(c)
  PROVE  /\ n \in 1..6 /\ Len(e) = n
         /\ e[1] \in Byte /\ e[1] \div 64 # 2
         /\ e[1] < 128 <=> n = 1
         /\ n = 1 => e[1] = c
         /\ n > 1 => multiByteSequenceLength(e[1]) = n /\ e[1] % HeaderRoom(n) = High(c, n - 1)
         /\ NextLength(e[1]) = IF n <= 4 THEN n ELSE 0
         /\ \A i \in 2..n : e[i] \in Byte /\ e[i] \div 64 = 2 /\ e[i] % 64 = High(c, n - i) % 64
<1>1. /\ n \in 1..6 /\ e \in Seq(Byte) /\ Len(e) = n /\ c \in Nat
      /\ n = 1 => e[1] = c /\ c < 128
      /\ n > 1 => e[1] = Header(n) + High(c, n - 1)
      /\ \A i \in 2..n : e[i] = 128 + (High(c, n - i) % 64)
  BY EncodingIs, LengthIs
<1>2. e[1] \in Byte
  BY <1>1
<1>3. ASSUME NEW i \in 2..n
      PROVE  e[i] \in Byte /\ e[i] \div 64 = 2 /\ e[i] % 64 = High(c, n - i) % 64
  <2>1. n - i \in 0..5
    BY <1>1
  <2>2. High(c, n - i) \in Nat /\ e[i] = 128 + (High(c, n - i) % 64)
    BY <1>1, <2>1, HighIs
  <2>3. e[i] \in 128..191 /\ e[i] % 64 = High(c, n - i) % 64
    BY <2>2, SixBits
  <2>4. e[i] \div 64 = 2
    BY <2>3, SMT
  <2> QED
    BY <2>3, <2>4 DEF Byte
<1>4. CASE n = 1
  <2>0. e[1] = c /\ c < 128 /\ c \in Nat
    BY <1>1, <1>4
  <2>1. e[1] \in 0..127
    BY <2>0
  <2>2. e[1] \div 64 # 2 /\ e[1] < 128
    BY <2>1, SMT
  <2>3. NextLength(e[1]) = 1
    BY <2>2 DEF NextLength
  <2> QED
    BY <1>1, <1>2, <1>3, <1>4, <2>2, <2>3
<1>5. CASE n > 1
  <2>1. n \in 2..6 /\ High(c, n - 1) \in 0..(HeaderRoom(n) - 1)
    BY <1>1, <1>5, HeaderHasRoom
  <2>2. e[1] = Header(n) + High(c, n - 1)
    BY <1>1, <1>5
  <2> DEFINE b == e[1]
             q == High(c, n - 1)
  <2>3. /\ b >= 128 /\ b \div 64 = 3 /\ b % HeaderRoom(n) = q
        /\ multiByteSequenceLength(b) = n
        /\ NextLength(b) = IF n <= 4 THEN n ELSE 0
    <3>1. n \in 2..6 /\ q \in 0..(HeaderRoom(n) - 1) /\ b = Header(n) + q
      BY <2>1, <2>2
    <3> HIDE DEF b, q
    <3> QED
      BY <3>1, HeaderIs
  <2>4. e[1] \div 64 # 2 /\ ~(e[1] < 128) /\ n # 1
    BY <1>2, <1>5, <2>3 DEF Byte
  <2> QED
    BY <1>1, <1>2, <1>3, <1>5, <2>3, <2>4
<1> QED
  BY <1>1, <1>4, <1>5

\* The equations of ReadSequence, for a function g on 1..n.
ReadsAs(s, from, n, g) ==
  /\ g = [i \in 1..n |-> g[i]]
  /\ g[1] = s[from + 1] % HeaderRoom(n)
  /\ \A i \in 2..n : g[i] = (g[i - 1] * 64) + (s[from + i] % 64)

\* It is what such a function has at n.
LEMMA ReadSequenceIs ==
  ASSUME NEW s, NEW from, NEW n \in 2..6, NEW g, ReadsAs(s, from, n, g)
  PROVE  ReadSequence(s, from, n) = g[n]
<1>0. /\ g = [i \in 1..n |-> g[i]]
      /\ g[1] = s[from + 1] % HeaderRoom(n)
      /\ \A i \in 2..n : g[i] = (g[i - 1] * 64) + (s[from + i] % 64)
  BY DEF ReadsAs
<1> DEFINE Def(value) == [i \in 1..n |-> IF i = 1 THEN s[from + 1] % HeaderRoom(n)
                                         ELSE (value[i - 1] * 64) + (s[from + i] % 64)]
           value == CHOOSE h : h = Def(h)
<1>1. \A i \in 1..n : i = 1 \/ (i # 1 /\ i \in 2..n)
  OBVIOUS
<1>2. g = Def(g)
  <2>1. ASSUME NEW i \in 1..n PROVE g[i] = Def(g)[i]
    BY <1>0, <1>1
  <2>2. Def(g) = [i \in 1..n |-> Def(g)[i]]
    OBVIOUS
  <2> HIDE DEF Def
  <2> QED
    BY <1>0, <2>1, <2>2
<1>3. value = Def(value)
  <2> HIDE DEF Def
  <2> QED
    BY <1>2
<1>4. ReadSequence(s, from, n) = value[n]
  BY DEF ReadSequence
<1> HIDE DEF value
<1>5. /\ value[1] = s[from + 1] % HeaderRoom(n)
      /\ \A i \in 2..n : value[i] = (value[i - 1] * 64) + (s[from + i] % 64)
  BY <1>3
<1> DEFINE T == {i \in 1..n : value[i] = g[i]}
<1>6. 1 \in T
  BY <1>0, <1>5
<1>7. ASSUME NEW i \in 1..(n - 1), i \in T PROVE i + 1 \in T
  <2>1. i + 1 \in 2..n /\ (i + 1) - 1 = i /\ i + 1 \in 1..n
    OBVIOUS
  <2>2. value[i + 1] = (value[i] * 64) + (s[from + (i + 1)] % 64)
    BY <1>5, <2>1
  <2>3. g[i + 1] = (g[i] * 64) + (s[from + (i + 1)] % 64)
    BY <1>0, <2>1
  <2> QED
    BY <1>7, <2>1, <2>2, <2>3
<1>8. \A i \in 1..n : i \in T
  <2>1. 1 \in Nat /\ n \in Nat
    OBVIOUS
  <2> HIDE DEF T
  <2> QED
    BY <1>6, <1>7, <2>1, InductionUpTo
<1>9. value[n] = g[n]
  BY <1>8
<1> QED
  BY <1>4, <1>9

\* What is read from the bytes of a code point is the code point.
LEMMA ReadsBack ==
  ASSUME NEW c \in CodePoint, NEW n, n = getCodePointLen(c), n > 1, NEW s, NEW from \in Nat,
         \A i \in 1..n : s[from + i] = writeCodePointUnchecked(c)[i]
  PROVE  ReadSequence(s, from, n) = c
<1> DEFINE e == writeCodePointUnchecked(c)
           g == [i \in 1..n |-> High(c, n - i)]
<1>1. /\ n \in 2..6 /\ c \in Nat /\ e[1] % HeaderRoom(n) = High(c, n - 1)
      /\ \A i \in 2..n : e[i] % 64 = High(c, n - i) % 64
  <2>1. /\ n \in 1..6 /\ c \in Nat /\ e[1] % HeaderRoom(n) = High(c, n - 1)
        /\ \A i \in 2..n : e[i] % 64 = High(c, n - i) % 64
    BY FirstByteIs, LengthIs
  <2> HIDE DEF e
  <2> QED
    BY <2>1
<1>2. g[1] = s[from + 1] % HeaderRoom(n)
  <2>1. 1 \in 1..n
    BY <1>1
  <2>2. s[from + 1] = e[1]
    BY <2>1
  <2> HIDE DEF e
  <2> QED
    BY <1>1, <2>1, <2>2
<1>3. ASSUME NEW i \in 2..n PROVE g[i] = (g[i - 1] * 64) + (s[from + i] % 64)
  <2> DEFINE j == n - (i - 1)
  <2>0. n \in 2..6
    BY <1>1
  <2>1. i \in 1..n /\ i - 1 \in 1..n /\ j \in 1..5 /\ n - i = j - 1 /\ j - 1 \in 0..5
    BY <2>0
  <2>2. s[from + i] % 64 = High(c, n - i) % 64
    <3>1. s[from + i] = e[i]
      BY <2>1
    <3> HIDE DEF e
    <3> QED
      BY <1>1, <3>1
  <2>3. g[i] = High(c, j - 1) /\ g[i - 1] = High(c, j)
    BY <2>1
  <2>4. High(c, j) = High(c, j - 1) \div 64 /\ High(c, j - 1) \in Nat
    <3> HIDE DEF j
    <3> QED
      BY <1>1, <2>1, HighIs
  <2>5. (High(c, j) * 64) + (High(c, j - 1) % 64) = High(c, j - 1)
    BY <2>4, SixBits
  <2> HIDE DEF j, g
  <2> QED
    BY <2>1, <2>2, <2>3, <2>5
<1>4. g = [i \in 1..n |-> g[i]] /\ g[n] = c
  <2>1. n \in 1..n /\ n - n = 0
    BY <1>1
  <2> QED
    BY <1>1, <2>1, HighIs
<1>5. n \in 2..6
  BY <1>1
<1> HIDE DEF g, e
<1>6. ReadsAs(s, from, n, g)
  BY <1>2, <1>3, <1>4 DEF ReadsAs
<1>7. ReadSequence(s, from, n) = g[n]
  BY <1>5, <1>6, ReadSequenceIs
<1> QED
  BY <1>4, <1>7

-----------------------------------------------------------------------------
(* A buffer of code points. *)

\* Where the code points of a end.
LEMMA EndsOfIs ==
  ASSUME NEW a \in Seq(CodePoint)
  PROVE  /\ EndsOf(a) \in [0..Len(a) -> Nat] /\ EndsOf(a)[0] = 0
         /\ \A k \in 1..Len(a) : EndsOf(a)[k] = EndsOf(a)[k - 1] + getCodePointLen(a[k])
<1> DEFINE S == Nat
           N == Len(a)
           first == 0
           step == [k \in 1..N |-> [v \in S |-> v + getCodePointLen(a[k])]]
           Def(end) == [n \in 0..Len(a) |-> IF n = 0 THEN 0
                                            ELSE end[n - 1] + getCodePointLen(a[n])]
<1>1. \A k \in 1..N : getCodePointLen(a[k]) \in Nat
  <2> TAKE k \in 1..N
  <2>1. a[k] \in CodePoint
    OBVIOUS
  <2>2. getCodePointLen(a[k]) \in 1..6
    BY <2>1, LengthIs
  <2> QED
    BY <2>2
<1>2. N \in Nat /\ first \in S /\ step \in [1..N -> [S -> S]]
  BY <1>1
<1>3. PICK f \in [0..N -> S] : f[0] = first /\ \A n \in 1..N : f[n] = step[n][f[n - 1]]
  <2> HIDE DEF step, N, S, first
  <2> QED
    BY <1>2, Iteration
<1>4. f = Def(f)
  <2>1. ASSUME NEW n \in 0..N PROVE f[n] = Def(f)[n]
    <3>1. n = 0 \/ (n # 0 /\ n \in 1..N /\ n - 1 \in 0..N)
      BY <1>2
    <3>2. ASSUME n # 0 PROVE f[n] = f[n - 1] + getCodePointLen(a[n])
      BY <1>3, <3>1, <3>2
    <3> QED
      BY <1>3, <3>1, <3>2
  <2>2. f = [n \in 0..N |-> f[n]] /\ Def(f) = [n \in 0..N |-> Def(f)[n]]
    BY <1>3
  <2> HIDE DEF Def, N
  <2> QED
    BY <2>1, <2>2
<1> DEFINE end == CHOOSE h : h = Def(h)
<1>5. end = Def(end)
  <2> HIDE DEF Def
  <2> QED
    BY <1>4
<1>6. EndsOf(a) = end
  BY DEF EndsOf
<1> HIDE DEF end, step
<1>7. end = [n \in 0..N |-> end[n]] /\ end[0] = 0
      /\ \A k \in 1..N : end[k] = end[k - 1] + getCodePointLen(a[k])
  <2>1. DOMAIN end = 0..N /\ end = [n \in 0..N |-> end[n]]
    BY <1>5
  <2>2. end[0] = 0
    BY <1>2, <1>5
  <2>3. ASSUME NEW k \in 1..N PROVE end[k] = end[k - 1] + getCodePointLen(a[k])
    <3>1. k \in 0..N /\ k # 0
      OBVIOUS
    <3> QED
      BY <1>5, <3>1
  <2> QED
    BY <2>1, <2>2, <2>3
<1> DEFINE T == {n \in 0..N : end[n] \in Nat}
<1>8. 0 \in T
  BY <1>2, <1>7
<1>9. ASSUME NEW n \in 0..(N - 1), n \in T PROVE n + 1 \in T
  <2>1. n + 1 \in 1..N /\ n + 1 \in 0..N /\ (n + 1) - 1 = n
    BY <1>2
  <2>2. end[n + 1] = end[n] + getCodePointLen(a[n + 1])
    BY <1>7, <2>1
  <2>3. getCodePointLen(a[n + 1]) \in Nat /\ end[n] \in Nat
    BY <1>1, <1>9, <2>1
  <2>4. end[n + 1] \in Nat
    BY <2>2, <2>3
  <2> QED
    BY <2>1, <2>4
<1>10. \A n \in 0..N : n \in T
  <2> HIDE DEF T, N
  <2> QED
    BY <1>2, <1>8, <1>9, InductionUpTo
<1>11. end \in [0..N -> Nat]
  BY <1>7, <1>10
<1> QED
  BY <1>6, <1>7, <1>11

\* Each ends behind those before it.
LEMMA EndsGrow ==
  ASSUME NEW a \in Seq(CodePoint), NEW j \in 0..Len(a), NEW k \in 0..Len(a), j < k
  PROVE  EndsOf(a)[j] < EndsOf(a)[k]
<1> DEFINE end == EndsOf(a)
           T == {n \in (j + 1)..Len(a) : end[j] < end[n]}
<1>1. /\ \A n \in 0..Len(a) : end[n] \in Nat
      /\ \A n \in 1..Len(a) : end[n] = end[n - 1] + getCodePointLen(a[n])
  BY EndsOfIs
<1>2. \A n \in 1..Len(a) : getCodePointLen(a[n]) \in 1..6
  <2> TAKE n \in 1..Len(a)
  <2>1. a[n] \in CodePoint
    OBVIOUS
  <2> QED
    BY <2>1, LengthIs
<1> HIDE DEF end
<1>3. ASSUME NEW n \in 0..(Len(a) - 1) PROVE end[n] < end[n + 1] /\ end[n] \in Nat /\ end[n + 1] \in Nat
  <2>1. n + 1 \in 1..Len(a) /\ (n + 1) - 1 = n /\ n \in 0..Len(a) /\ n + 1 \in 0..Len(a)
    OBVIOUS
  <2>2. end[n + 1] = end[n] + getCodePointLen(a[n + 1]) /\ end[n] \in Nat /\ end[n + 1] \in Nat
    BY <1>1, <2>1
  <2>3. getCodePointLen(a[n + 1]) \in 1..6
    BY <1>2, <2>1
  <2> QED
    BY <2>2, <2>3
<1>4. j + 1 \in T
  <2>1. j \in 0..(Len(a) - 1)
    OBVIOUS
  <2> QED
    BY <1>3, <2>1
<1>5. ASSUME NEW n \in (j + 1)..(Len(a) - 1), n \in T PROVE n + 1 \in T
  <2>1. n \in 0..(Len(a) - 1) /\ n + 1 \in (j + 1)..Len(a)
    OBVIOUS
  <2>2. end[j] \in Nat
    BY <1>1
  <2> QED
    BY <1>3, <1>5, <2>1, <2>2
<1>6. \A n \in (j + 1)..Len(a) : n \in T
  <2>1. j + 1 \in Nat /\ Len(a) \in Nat
    OBVIOUS
  <2> HIDE DEF T
  <2> QED
    BY <1>4, <1>5, <2>1, InductionUpTo
<1>7. k \in T
  BY <1>6
<1> QED
  BY <1>7 DEF end

\* One more code point leaves the ends there are.
LEMMA EndsOfMore ==
  ASSUME NEW a \in Seq(CodePoint), NEW c \in CodePoint
  PROVE  /\ \A k \in 0..Len(a) : EndsOf(Append(a, c))[k] = EndsOf(a)[k]
         /\ EndsOf(Append(a, c))[Len(a) + 1] = EndsOf(a)[Len(a)] + getCodePointLen(c)
<1> DEFINE b == Append(a, c)
           T == {k \in 0..Len(a) : EndsOf(b)[k] = EndsOf(a)[k]}
<1>1. b \in Seq(CodePoint) /\ Len(b) = Len(a) + 1 /\ Len(a) \in Nat
      /\ (\A k \in 1..Len(a) : b[k] = a[k]) /\ b[Len(a) + 1] = c
  OBVIOUS
<1> HIDE DEF b
<1>2. /\ EndsOf(b)[0] = 0
      /\ \A k \in 1..Len(b) : EndsOf(b)[k] = EndsOf(b)[k - 1] + getCodePointLen(b[k])
  BY <1>1, EndsOfIs
<1>3. /\ EndsOf(a)[0] = 0
      /\ \A k \in 1..Len(a) : EndsOf(a)[k] = EndsOf(a)[k - 1] + getCodePointLen(a[k])
  BY EndsOfIs
<1>4. 0 \in T
  BY <1>1, <1>2, <1>3
<1>5. ASSUME NEW k \in 0..(Len(a) - 1), k \in T PROVE k + 1 \in T
  <2>1. k + 1 \in 1..Len(a) /\ k + 1 \in 1..Len(b) /\ (k + 1) - 1 = k /\ k + 1 \in 0..Len(a)
    BY <1>1
  <2>2. EndsOf(b)[k + 1] = EndsOf(b)[k] + getCodePointLen(b[k + 1])
    BY <1>2, <2>1
  <2>3. EndsOf(a)[k + 1] = EndsOf(a)[k] + getCodePointLen(a[k + 1])
    BY <1>3, <2>1
  <2> QED
    BY <1>1, <1>5, <2>1, <2>2, <2>3
<1>6. \A k \in 0..Len(a) : k \in T
  <2> HIDE DEF T
  <2> QED
    BY <1>1, <1>4, <1>5, InductionUpTo
<1>7. EndsOf(b)[Len(a) + 1] = EndsOf(a)[Len(a)] + getCodePointLen(c)
  <2>1. Len(a) + 1 \in 1..Len(b) /\ (Len(a) + 1) - 1 = Len(a) /\ Len(a) \in 0..Len(a)
    BY <1>1
  <2>2. EndsOf(b)[Len(a) + 1] = EndsOf(b)[Len(a)] + getCodePointLen(c)
    BY <1>1, <1>2, <2>1
  <2> QED
    BY <1>6, <2>1, <2>2
<1> QED
  BY <1>6, <1>7 DEF b

\* s is what the code points of a are written as, one after the other.
Stored(s, a) ==
  /\ s \in Seq(Byte) /\ a \in Seq(CodePoint)
  /\ Len(s) = EndsOf(a)[Len(a)]
  /\ \A k \in 1..Len(a) : \A i \in 1..getCodePointLen(a[k]) :
        s[EndsOf(a)[k - 1] + i] = writeCodePointUnchecked(a[k])[i]

\* One more is written behind the others.
LEMMA StoredMore ==
  ASSUME NEW s, NEW a, Stored(s, a), NEW c \in CodePoint
  PROVE  /\ Stored(s \o writeCodePointUnchecked(c), Append(a, c))
         /\ Len(s \o writeCodePointUnchecked(c)) = Len(s) + getCodePointLen(c)
<1> DEFINE e == writeCodePointUnchecked(c)
           n == getCodePointLen(c)
           b == Append(a, c)
           end == EndsOf(a)
<1>1. s \in Seq(Byte) /\ a \in Seq(CodePoint) /\ Len(s) = end[Len(a)] /\ Len(s) \in Nat
      /\ Len(a) \in Nat
  BY DEF Stored
<1>2. n \in 1..6 /\ e \in Seq(Byte) /\ Len(e) = n
  BY EncodingIs
<1>3. b \in Seq(CodePoint) /\ Len(b) = Len(a) + 1
      /\ (\A k \in 1..Len(a) : b[k] = a[k]) /\ b[Len(a) + 1] = c
  BY <1>1
<1>4. /\ \A k \in 0..Len(a) : EndsOf(b)[k] = end[k] /\ end[k] \in Nat
      /\ EndsOf(b)[Len(a) + 1] = end[Len(a)] + n
  BY <1>1, EndsOfMore, EndsOfIs
<1> HIDE DEF e, n, b, end
<1>5. s \o e \in Seq(Byte) /\ Len(s \o e) = Len(s) + n
      /\ (\A i \in 1..Len(s) : (s \o e)[i] = s[i]) /\ \A i \in 1..n : (s \o e)[Len(s) + i] = e[i]
  <2>1. s \in Seq(Byte) /\ e \in Seq(Byte) /\ Len(e) = n /\ Len(s) \in Nat
    BY <1>1, <1>2
  <2>2. /\ s \o e \in Seq(Byte) /\ Len(s \o e) = Len(s) + Len(e)
        /\ \A i \in 1..(Len(s) + Len(e)) : (s \o e)[i] = IF i <= Len(s) THEN s[i] ELSE e[i - Len(s)]
    BY <2>1, ConcatProperties
  <2>3. \A i \in 1..Len(s) : (s \o e)[i] = s[i]
    BY <1>2, <2>1, <2>2
  <2>4. ASSUME NEW i \in 1..n PROVE (s \o e)[Len(s) + i] = e[i]
    <3>1. /\ i \in Nat /\ Len(s) + i \in 1..(Len(s) + Len(e)) /\ ~(Len(s) + i <= Len(s))
          /\ (Len(s) + i) - Len(s) = i
      BY <1>2, <2>1
    <3> QED
      BY <2>2, <3>1
  <2> QED
    BY <2>1, <2>2, <2>3, <2>4
<1>6. ASSUME NEW k \in 1..Len(b), NEW i \in 1..getCodePointLen(b[k])
      PROVE  (s \o e)[EndsOf(b)[k - 1] + i] = writeCodePointUnchecked(b[k])[i]
  <2>1. CASE k = Len(a) + 1
    <3>1. EndsOf(b)[k - 1] = Len(s)
      <4>1. k - 1 = Len(a) /\ Len(a) \in 0..Len(a)
        BY <1>1, <2>1
      <4> QED
        BY <1>1, <1>4, <4>1
    <3>2. b[k] = c /\ i \in 1..n /\ writeCodePointUnchecked(b[k]) = e
      BY <1>3, <2>1 DEF n, e
    <3> QED
      BY <1>5, <3>1, <3>2
  <2>2. CASE k # Len(a) + 1
    <3>1. k \in 1..Len(a) /\ k - 1 \in 0..Len(a) /\ k \in 0..Len(a) /\ b[k] = a[k] /\ k \in Nat
      BY <1>1, <1>3, <2>2
    <3>2. s[end[k - 1] + i] = writeCodePointUnchecked(a[k])[i]
      BY <3>1 DEF Stored, end
    <3>3. end[k - 1] + i \in 1..Len(s)
      <4>1. end[k] = end[k - 1] + getCodePointLen(a[k]) /\ getCodePointLen(a[k]) \in 1..6
        <5>1. a[k] \in CodePoint
          BY <1>1, <3>1
        <5> QED
          BY <1>1, <3>1, <5>1, EndsOfIs, LengthIs DEF end
      <4>2. end[k] <= end[Len(a)]
        <5>1. CASE k = Len(a)
          BY <1>4, <3>1, <5>1
        <5>2. CASE k < Len(a)
          <6>1. Len(a) \in 0..Len(a)
            BY <1>1
          <6>2. end[k] < end[Len(a)]
            BY <1>1, <3>1, <5>2, <6>1, EndsGrow DEF end
          <6> QED
            BY <1>4, <3>1, <6>1, <6>2
        <5> QED
          BY <1>1, <3>1, <5>1, <5>2
      <4>3. end[k - 1] \in Nat /\ end[k] \in Nat /\ i \in 1..getCodePointLen(a[k])
        BY <1>4, <3>1
      <4>4. Len(s) \in Nat /\ end[k] <= Len(s)
        BY <1>1, <4>2
      <4> HIDE DEF end
      <4> QED
        BY <4>1, <4>3, <4>4
    <3>4. EndsOf(b)[k - 1] = end[k - 1]
      BY <1>4, <3>1
    <3> QED
      BY <1>5, <3>1, <3>2, <3>3, <3>4
  <2> QED
    BY <2>1, <2>2
<1>7. Len(s \o e) = EndsOf(b)[Len(b)]
  BY <1>1, <1>3, <1>4, <1>5
<1>8. Stored(s \o e, b)
  BY <1>3, <1>5, <1>6, <1>7 DEF Stored
<1> QED
  BY <1>5, <1>8 DEF e, n, b

\* Every offset in the buffer is in one code point.
LEMMA WhichCodePoint ==
  ASSUME NEW s, NEW a, Stored(s, a), NEW o \in 0..(Len(s) - 1)
  PROVE  \E k \in 1..Len(a) : /\ EndsOf(a)[k - 1] <= o /\ o < EndsOf(a)[k]
                              /\ \A j \in 0..Len(a) : EndsOf(a)[j] <= o <=> j < k
<1> DEFINE end == EndsOf(a)
           T == {k \in 0..Len(a) : end[k] > o}
<1>1. a \in Seq(CodePoint) /\ Len(a) \in Nat /\ Len(s) = end[Len(a)] /\ Len(s) \in Nat
  BY DEF Stored
<1>2. end[0] = 0 /\ \A k \in 0..Len(a) : end[k] \in Nat
  BY <1>1, EndsOfIs
<1>3. \A j, k \in 0..Len(a) : j < k => end[j] < end[k]
  BY <1>1, EndsGrow
<1> HIDE DEF end
<1>4. Len(a) \in T /\ T \subseteq Nat
  BY <1>1, <1>2
<1>5. PICK k \in T : \A j \in T : k <= j
  <2> HIDE DEF T
  <2> QED
    BY <1>4, LeastElement
<1>6. k \in 1..Len(a) /\ k - 1 \in 0..Len(a) /\ k \in 0..Len(a) /\ end[k] > o /\ k - 1 < k
  BY <1>1, <1>2, <1>5
<1>7. end[k - 1] <= o
  <2>1. k - 1 \notin T
    BY <1>5, <1>6
  <2> QED
    BY <1>2, <1>6, <2>1
<1>8. ASSUME NEW j \in 0..Len(a) PROVE end[j] <= o <=> j < k
  <2>1. end[j] \in Nat /\ end[k] \in Nat /\ end[k - 1] \in Nat /\ j \in Nat /\ k \in Nat
    BY <1>2, <1>6
  <2>2. CASE j < k
    <3>1. j = k - 1 \/ j < k - 1
      BY <2>1, <2>2
    <3>2. j < k - 1 => end[j] < end[k - 1]
      BY <1>3, <1>6
    <3> QED
      BY <1>7, <2>1, <2>2, <3>1, <3>2
  <2>3. CASE ~(j < k)
    <3>1. j = k \/ k < j
      BY <2>1, <2>3
    <3>2. k < j => end[k] < end[j]
      BY <1>3, <1>6
    <3> QED
      BY <1>6, <2>1, <2>3, <3>1, <3>2
  <2> QED
    BY <2>2, <2>3
<1> QED
  BY <1>6, <1>7, <1>8 DEF end

\* Reading at a code point gives it back and goes to its end, unless the limit is
\* in front of that.
LEMMA ReadIs ==
  ASSUME NEW s, NEW a, Stored(s, a), NEW k \in 1..Len(a), NEW to \in Nat,
         EndsOf(a)[k - 1] < to
  PROVE  readCodePoint(s, EndsOf(a)[k - 1], to) =
           IF EndsOf(a)[k] <= to THEN [next |-> EndsOf(a)[k], codePoint |-> a[k]]
           ELSE [next |-> to, codePoint |-> Question]
<1> DEFINE from == EndsOf(a)[k - 1]
           n == getCodePointLen(a[k])
           e == writeCodePointUnchecked(a[k])
<1>1. a \in Seq(CodePoint) /\ a[k] \in CodePoint
  BY DEF Stored
<1>2. from \in Nat /\ EndsOf(a)[k] = from + n
  <2>1. k - 1 \in 0..Len(a) /\ k \in 1..Len(a)
    BY <1>1
  <2> QED
    BY <1>1, <2>1, EndsOfIs
<1>3. \A i \in 1..n : s[from + i] = e[i]
  BY DEF Stored
<1>4. n \in 1..6 /\ (e[1] < 128 <=> n = 1) /\ (n = 1 => e[1] = a[k])
      /\ (n > 1 => multiByteSequenceLength(e[1]) = n)
  BY <1>1, FirstByteIs
<1>5. n > 1 => ReadSequence(s, from, n) = a[k]
  <2> HIDE DEF from
  <2> QED
    BY <1>1, <1>2, <1>3, ReadsBack
<1> HIDE DEF from, n, e
<1>6. s[from + 1] = e[1]
  <2>1. 1 \in 1..n
    BY <1>4
  <2> QED
    BY <1>3, <2>1
<1>7. CASE n = 1
  <2>1. from + 1 <= to
    BY <1>2 DEF from
  <2>2. readCodePoint(s, from, to) = [next |-> from + 1, codePoint |-> a[k]]
    BY <1>4, <1>6, <1>7 DEF readCodePoint
  <2> QED
    BY <1>2, <1>7, <2>1, <2>2 DEF from
<1>8. CASE n > 1
  <2>1. n \in 2..6 /\ ~(s[from + 1] < 128) /\ multiByteSequenceLength(s[from + 1]) = n
    BY <1>4, <1>6, <1>8
  <2>2. readMultiByteCase(s, from, n) = a[k]
    BY <1>5, <1>8, <2>1 DEF readMultiByteCase
  <2>3. readCodePoint(s, from, to) =
           IF from + n > to THEN [next |-> to, codePoint |-> Question]
           ELSE [next |-> from + n, codePoint |-> a[k]]
    BY <2>1, <2>2 DEF readCodePoint
  <2>4. from + n > to <=> ~(EndsOf(a)[k] <= to)
    BY <1>2, <1>4
  <2> QED
    BY <1>2, <2>3, <2>4 DEF from
<1> QED
  BY <1>4, <1>7, <1>8

\* Moving backwards ends where the code point begins that the byte is in.
LEMMA BackIs ==
  ASSUME NEW s, NEW a, Stored(s, a), NEW o \in 0..(Len(s) - 1), NEW k \in 1..Len(a),
         EndsOf(a)[k - 1] <= o, o < EndsOf(a)[k]
  PROVE  moveBackwardsToCodePointBegin(s, o) = EndsOf(a)[k - 1]
<1> DEFINE from == EndsOf(a)[k - 1]
           n == getCodePointLen(a[k])
           e == writeCodePointUnchecked(a[k])
           Begin(begin) == /\ s[begin + 1] \div 64 # 2
                           /\ \A x \in begin + 1..o : s[x + 1] \div 64 = 2
<1>1. a \in Seq(CodePoint) /\ a[k] \in CodePoint
  BY DEF Stored
<1>2. from \in 0..o /\ o < from + n /\ o \in Nat
  <2>1. k - 1 \in 0..Len(a) /\ k \in 1..Len(a)
    BY <1>1
  <2>2. from \in Nat /\ EndsOf(a)[k] = from + n
    BY <1>1, <2>1, EndsOfIs
  <2>3. s \in Seq(Byte)
    BY DEF Stored
  <2>4. Len(s) \in Nat
    BY <2>3, LenProperties
  <2>5. o \in Nat
    BY <2>4, SMT
  <2> HIDE DEF from, n
  <2>6. from <= o /\ o < EndsOf(a)[k]
    BY DEF from
  <2> QED
    BY <2>2, <2>5, <2>6
<1>3. \A i \in 1..n : s[from + i] = e[i]
  BY DEF Stored
<1>4. n \in 1..6 /\ e[1] \div 64 # 2 /\ \A i \in 2..n : e[i] \div 64 = 2
  BY <1>1, FirstByteIs
<1> HIDE DEF from, n, e
<1>5. s[from + 1] \div 64 # 2
  <2>1. 1 \in 1..n
    BY <1>4
  <2>2. s[from + 1] = e[1]
    BY <1>3, <2>1
  <2> QED
    BY <1>4, <2>2
<1>6. ASSUME NEW x \in from + 1..o PROVE s[x + 1] \div 64 = 2
  <2> DEFINE i == (x - from) + 1
  <2>1. from + i = x + 1 /\ i \in 2..n /\ i \in 1..n
    BY <1>2, <1>4
  <2> HIDE DEF i
  <2>2. s[from + i] = e[i] /\ e[i] \div 64 = 2
    BY <1>3, <1>4, <2>1
  <2> QED
    BY <2>1, <2>2
<1>7. Begin(from)
  BY <1>5, <1>6
<1>8. ASSUME NEW begin \in 0..o, Begin(begin) PROVE begin = from
  <2>1. begin < from => from \in begin + 1..o
    BY <1>2
  <2>2. begin > from => begin \in from + 1..o
    BY <1>2
  <2>3. ~(begin < from)
    BY <1>5, <1>8, <2>1
  <2>4. ~(begin > from)
    BY <1>6, <1>8, <2>2
  <2> QED
    BY <1>2, <2>3, <2>4
<1>9. moveBackwardsToCodePointBegin(s, o) = CHOOSE begin \in 0..o : Begin(begin)
  BY DEF moveBackwardsToCodePointBegin
<1> HIDE DEF Begin
<1> QED
  BY <1>2, <1>7, <1>8, <1>9 DEF from

\* NextUtf8Char reads the code points of up to four bytes and throws at the others.
LEMMA NextUtf8CharIs ==
  ASSUME NEW s, NEW a, Stored(s, a), NEW k \in 1..Len(a)
  PROVE  IF getCodePointLen(a[k]) <= 4
         THEN NextUtf8Char(s, EndsOf(a)[k - 1]) = [next |-> EndsOf(a)[k], codePoint |-> a[k]]
         ELSE NextLength(s[EndsOf(a)[k - 1] + 1]) = 0
<1> DEFINE from == EndsOf(a)[k - 1]
           n == getCodePointLen(a[k])
           e == writeCodePointUnchecked(a[k])
<1>1. a \in Seq(CodePoint) /\ a[k] \in CodePoint
  BY DEF Stored
<1>2. from \in Nat /\ EndsOf(a)[k] = from + n
  <2>1. k - 1 \in 0..Len(a) /\ k \in 1..Len(a)
    BY <1>1
  <2> QED
    BY <1>1, <2>1, EndsOfIs
<1>3. \A i \in 1..n : s[from + i] = e[i]
  BY DEF Stored
<1>4. n \in 1..6 /\ NextLength(e[1]) = (IF n <= 4 THEN n ELSE 0) /\ (n = 1 => e[1] = a[k])
  BY <1>1, FirstByteIs
<1>5. n > 1 => ReadSequence(s, from, n) = a[k]
  <2> HIDE DEF from
  <2> QED
    BY <1>1, <1>2, <1>3, ReadsBack
<1> HIDE DEF from, n, e
<1>6. s[from + 1] = e[1]
  <2>1. 1 \in 1..n
    BY <1>4
  <2> QED
    BY <1>3, <2>1
<1>7. CASE n <= 4
  <2>1. NextLength(s[from + 1]) = n
    BY <1>4, <1>6, <1>7
  <2>2. NextUtf8Char(s, from) = [next |-> from + n, codePoint |-> a[k]]
    BY <1>4, <1>5, <1>6, <2>1 DEF NextUtf8Char
  <2> QED
    BY <1>2, <1>7, <2>2 DEF from, n
<1>8. CASE ~(n <= 4)
  <2>1. NextLength(s[from + 1]) = 0
    BY <1>4, <1>6, <1>8
  <2> QED
    BY <1>8, <2>1 DEF from, n
<1> QED
  BY <1>7, <1>8

-----------------------------------------------------------------------------
(* Writing and reading. *)

\* What has been read: the first code points, and perhaps the cut one.
ReadSoFar ==
  LET n == Len(decoded)
  IN  /\ decoded \in Seq(Nat) /\ n <= Len(accepted)
      /\ \/ reader = EndOf(n) /\ decoded = SubSeq(accepted, 1, n)
         \/ /\ reader = readerLimit /\ readerLimit < EndOf(n)
            /\ decoded = Append(SubSeq(accepted, 1, n - 1), Question)

CodecInv ==
  /\ limit \in Nat /\ Stored(bytes, accepted) /\ Len(bytes) <= limit
  /\ readerLimit \in 0..Len(bytes) /\ reader \in 0..readerLimit
  /\ ~reading => readerLimit = 0 /\ decoded = << >>
  /\ ReadSoFar

\* An empty buffer.
LEMMA CodecInitially == CodecInit => CodecInv
<1> SUFFICES ASSUME CodecInit PROVE CodecInv
  OBVIOUS
<1>1. accepted \in Seq(CodePoint) /\ Len(accepted) = 0 /\ decoded = << >> /\ Len(decoded) = 0
  BY DEF CodecInit
<1>2. EndsOf(accepted)[0] = 0
  BY <1>1, EndsOfIs
<1>3. Stored(bytes, accepted)
  BY <1>1, <1>2 DEF CodecInit, Stored
<1>4. ReadSoFar
  <2>1. SubSeq(accepted, 1, 0) = << >>
    BY <1>1
  <2> QED
    BY <1>1, <1>2, <2>1 DEF CodecInit, ReadSoFar, EndOf
<1> QED
  BY <1>1, <1>3, <1>4, WriterLimitsAssumption DEF CodecInit, CodecInv

\* Nothing is read before the buffer is cut.
LEMMA NothingReadYet ==
  ASSUME NEW a \in Seq(CodePoint)
  PROVE  EndsOf(a)[0] = 0 /\ SubSeq(a, 1, 0) = << >> /\ Len(<< >>) = 0
BY EndsOfIs

\* A code point is written whole or not at all.
LEMMA WriteKeeps ==
  ASSUME CodecInv, NEW c \in CodePoints, Write(c)
  PROVE  CodecInv'
<1> DEFINE e == writeCodePointUnchecked(c)
<1>1. c \in CodePoint
  BY CodePointsAssumption
<1>2. /\ limit \in Nat /\ Stored(bytes, accepted) /\ Len(bytes) <= limit
      /\ readerLimit = 0 /\ decoded = << >> /\ reader \in 0..0 /\ ~reading
      /\ reading' = reading /\ limit' = limit /\ reader' = reader
      /\ readerLimit' = readerLimit /\ decoded' = decoded
      /\ bytes' = writeCodePoint(bytes, limit, c)
      /\ accepted' = IF bytes' = bytes THEN accepted ELSE Append(accepted, c)
  BY DEF CodecInv, Write
<1>3. Stored(bytes', accepted') /\ Len(bytes') <= limit
  <2>1. CASE Fits(bytes, limit, c)
    <3>1. bytes' = bytes \o e
      BY <1>2, <2>1 DEF writeCodePoint
    <3>2. /\ Stored(bytes \o e, Append(accepted, c))
          /\ Len(bytes \o e) = Len(bytes) + getCodePointLen(c)
      BY <1>1, <1>2, StoredMore
    <3>3. getCodePointLen(c) \in 1..6 /\ Len(bytes) \in Nat
      BY <1>1, <1>2, LengthIs DEF Stored
    <3>4. bytes' # bytes
      BY <3>1, <3>2, <3>3
    <3>5. Len(bytes) + getCodePointLen(c) <= limit
      BY <2>1 DEF Fits
    <3> HIDE DEF e
    <3> QED
      BY <1>2, <3>1, <3>2, <3>4, <3>5
  <2>2. CASE ~Fits(bytes, limit, c)
    <3>1. bytes' = bytes
      BY <1>2, <2>2 DEF writeCodePoint
    <3> QED
      BY <1>2, <3>1
  <2> QED
    BY <2>1, <2>2
<1>4. ReadSoFar'
  <2>1. accepted' \in Seq(CodePoint) /\ Len(accepted') \in Nat
    BY <1>3 DEF Stored
  <2>2. EndsOf(accepted')[0] = 0 /\ SubSeq(accepted', 1, 0) = << >> /\ Len(<< >>) = 0
    BY <2>1, NothingReadYet
  <2>3. decoded' = << >> /\ reader' = 0
    BY <1>2
  <2> QED
    BY <2>1, <2>2, <2>3 DEF ReadSoFar, EndOf
<1>5. Len(bytes') \in Nat
  BY <1>3 DEF Stored
<1> QED
  BY <1>2, <1>3, <1>4, <1>5 DEF CodecInv

\* The buffer is cut somewhere.
LEMMA CutOffKeeps ==
  ASSUME CodecInv, CutOff
  PROVE  CodecInv'
<1>1. /\ limit' = limit /\ bytes' = bytes /\ accepted' = accepted /\ reader' = reader
      /\ decoded' = decoded /\ ~reading /\ reading' = TRUE /\ readerLimit' \in 0..Len(bytes)
  BY DEF CutOff
<1>2. reader = 0 /\ decoded = << >> /\ Stored(bytes, accepted)
  BY <1>1 DEF CodecInv
<1>3. reader' \in 0..readerLimit'
  <2>1. Len(bytes) \in Nat
    BY <1>2 DEF Stored
  <2> QED
    BY <1>1, <1>2, <2>1
<1>4. ReadSoFar'
  <2>1. accepted \in Seq(CodePoint) /\ Len(accepted) \in Nat
    BY <1>2 DEF Stored
  <2>2. EndsOf(accepted)[0] = 0 /\ SubSeq(accepted, 1, 0) = << >> /\ Len(<< >>) = 0
    BY <2>1, NothingReadYet
  <2> QED
    BY <1>1, <1>2, <2>1, <2>2 DEF ReadSoFar, EndOf
<1> QED
  BY <1>1, <1>3, <1>4 DEF CodecInv

\* One more code point of a sequence has been taken.
LEMMA PrefixGrows ==
  ASSUME NEW S, NEW a \in Seq(S), NEW n \in Nat, n < Len(a)
  PROVE  /\ Append(SubSeq(a, 1, n), a[n + 1]) = SubSeq(a, 1, n + 1)
         /\ SubSeq(a, 1, n) \in Seq(S) /\ Len(SubSeq(a, 1, n)) = n
OBVIOUS

\* Reading takes the next code point, or what the limit leaves of it.
LEMMA ReadKeeps ==
  ASSUME CodecInv, Read
  PROVE  CodecInv'
<1> DEFINE n == Len(decoded)
           k == n + 1
           end == EndsOf(accepted)
           result == readCodePoint(bytes, reader, readerLimit)
<1>1. /\ limit' = limit /\ bytes' = bytes /\ accepted' = accepted /\ readerLimit' = readerLimit
      /\ reading' = reading /\ reading /\ reader < readerLimit
      /\ reader' = result.next /\ decoded' = Append(decoded, result.codePoint)
  BY DEF Read
<1>2. /\ Stored(bytes, accepted) /\ readerLimit \in 0..Len(bytes) /\ reader \in 0..readerLimit
      /\ decoded \in Seq(Nat) /\ n \in Nat /\ n <= Len(accepted)
      /\ reader = end[n] /\ decoded = SubSeq(accepted, 1, n)
  <2>1. /\ Stored(bytes, accepted) /\ readerLimit \in 0..Len(bytes) /\ reader \in 0..readerLimit
        /\ ReadSoFar
    BY DEF CodecInv
  <2>2. reader # readerLimit
    BY <1>1, <2>1
  <2> QED
    BY <2>1, <2>2 DEF ReadSoFar, EndOf
<1>3. accepted \in Seq(CodePoint) /\ Len(bytes) = end[Len(accepted)] /\ Len(bytes) \in Nat
      /\ Len(accepted) \in Nat
  BY <1>2 DEF Stored
<1>4. n < Len(accepted)
  BY <1>1, <1>2, <1>3
<1>5. k \in 1..Len(accepted) /\ k - 1 = n /\ k \in Nat
  BY <1>2, <1>4
<1>6. result = IF end[k] <= readerLimit THEN [next |-> end[k], codePoint |-> accepted[k]]
               ELSE [next |-> readerLimit, codePoint |-> Question]
  <2>1. end[k - 1] < readerLimit /\ readerLimit \in Nat
    BY <1>1, <1>2, <1>3, <1>5
  <2>2. readCodePoint(bytes, end[k - 1], readerLimit) =
          IF end[k] <= readerLimit THEN [next |-> end[k], codePoint |-> accepted[k]]
          ELSE [next |-> readerLimit, codePoint |-> Question]
    <3> HIDE DEF k
    <3> QED
      BY <1>2, <1>5, <2>1, ReadIs
  <2> QED
    BY <1>2, <1>5, <2>2
<1>7. /\ Append(SubSeq(accepted, 1, n), accepted[k]) = SubSeq(accepted, 1, k)
      /\ end[k] \in Nat /\ accepted[k] \in Nat
  <2>1. Append(SubSeq(accepted, 1, n), accepted[k]) = SubSeq(accepted, 1, k)
    BY <1>2, <1>3, <1>4, PrefixGrows
  <2>2. end[k] \in Nat
    BY <1>3, <1>5, EndsOfIs
  <2>3. accepted[k] \in CodePoint
    BY <1>3, <1>5
  <2> QED
    BY <2>1, <2>2, <2>3, LengthIs
<1> HIDE DEF end, result, n
<1>8. CASE end[k] <= readerLimit
  <2>1. reader' = end[k] /\ decoded' = SubSeq(accepted, 1, k)
        /\ decoded' = Append(decoded, accepted[k])
    BY <1>1, <1>2, <1>6, <1>7, <1>8
  <2>2. decoded' \in Seq(Nat) /\ Len(decoded') = k
    BY <1>2, <1>7, <2>1 DEF n
  <2>3. ReadSoFar'
    BY <1>1, <1>3, <1>4, <1>5, <2>1, <2>2 DEF ReadSoFar, EndOf, end
  <2>4. reader' \in 0..readerLimit'
    BY <1>1, <1>2, <1>3, <1>7, <1>8, <2>1
  <2> QED
    BY <1>1, <1>2, <2>3, <2>4 DEF CodecInv
<1>9. CASE ~(end[k] <= readerLimit)
  <2>1. reader' = readerLimit /\ decoded' = Append(decoded, Question)
    BY <1>1, <1>6, <1>9
  <2>2. decoded' \in Seq(Nat) /\ Len(decoded') = k
    BY <1>2, <2>1 DEF n, Question
  <2>3. readerLimit < end[k]
    BY <1>2, <1>3, <1>7, <1>9
  <2>4. ReadSoFar'
    BY <1>1, <1>2, <1>3, <1>4, <1>5, <2>1, <2>2, <2>3 DEF ReadSoFar, EndOf, end
  <2>5. reader' \in 0..readerLimit'
    BY <1>1, <1>2, <1>3, <2>1
  <2> QED
    BY <1>1, <1>2, <2>4, <2>5 DEF CodecInv
<1> QED
  BY <1>8, <1>9

\* The codec's invariant holds throughout.
THEOREM CodecInvariance == CodecSpec => []CodecInv
<1>1. CodecInv /\ [CodecNext]_codecVars => CodecInv'
  <2> SUFFICES ASSUME CodecInv, [CodecNext]_codecVars PROVE CodecInv'
    OBVIOUS
  <2>1. ASSUME NEW c \in CodePoints, Write(c) PROVE CodecInv'
    BY <2>1, WriteKeeps
  <2>2. CASE CutOff
    BY <2>2, CutOffKeeps
  <2>3. CASE Read
    BY <2>3, ReadKeeps
  <2>4. CASE UNCHANGED codecVars
    BY <2>4 DEF codecVars, CodecInv, ReadSoFar, EndOf
  <2> QED
    BY <2>1, <2>2, <2>3, <2>4 DEF CodecNext
<1> QED
  BY <1>1, CodecInitially, PTL DEF CodecSpec

\* What has been written is read back, code point by code point, whatever the code
\* points and wherever the buffer ends and is cut (writeCodePoint, readCodePoint).
THEOREM ReadBackAsWritten == CodecSpec => []RoundTrip
<1>1. CodecInv => RoundTrip
  <2> SUFFICES ASSUME CodecInv PROVE RoundTrip
    OBVIOUS
  <2>1. Len(bytes) = EndsOf(accepted)[Len(accepted)] /\ Len(bytes) <= limit /\ ReadSoFar
    BY DEF CodecInv, Stored
  <2>2. reader <= readerLimit
    <3>1. readerLimit \in Int /\ reader \in 0..readerLimit
      BY DEF CodecInv
    <3> QED
      BY <3>1
  <2> QED
    BY <2>1, <2>2 DEF RoundTrip, ReadSoFar, EndOf
<1> QED
  BY <1>1, CodecInvariance, PTL

\* Moving backwards from any byte finds the begin of its code point and never leaves
\* the buffer (moveBackwardsToCodePointBegin).
THEOREM BeginIsFound == CodecSpec => []BackIsBegin
<1>1. CodecInv => BackIsBegin
  <2> SUFFICES ASSUME CodecInv, NEW o \in 0..Len(bytes) - 1
               PROVE  LET begin == moveBackwardsToCodePointBegin(bytes, o)
                      IN  /\ begin \in Starts
                          /\ \A start \in Starts : start <= o => start <= begin
    BY DEF BackIsBegin
  <2> DEFINE end == EndsOf(accepted)
  <2>1. Stored(bytes, accepted) /\ accepted \in Seq(CodePoint) /\ Len(accepted) \in Nat
    BY DEF CodecInv, Stored
  <2>2. PICK k \in 1..Len(accepted) : /\ end[k - 1] <= o /\ o < end[k]
                                      /\ \A j \in 0..Len(accepted) : end[j] <= o <=> j < k
    BY <2>1, WhichCodePoint
  <2>3. moveBackwardsToCodePointBegin(bytes, o) = end[k - 1]
    BY <2>1, <2>2, BackIs
  <2>4. k - 1 \in 0..Len(accepted) - 1 /\ k - 1 \in 0..Len(accepted) /\ k \in Nat
    BY <2>1
  <2>5. \A j \in 0..Len(accepted) : end[j] \in Nat
    BY <2>1, EndsOfIs
  <2>6. ASSUME NEW j \in 0..Len(accepted) - 1, end[j] <= o PROVE end[j] <= end[k - 1]
    <3>1. j \in 0..Len(accepted) /\ j < k /\ j \in Nat
      BY <2>1, <2>2, <2>6
    <3>2. CASE j = k - 1
      BY <2>5, <3>1, <3>2
    <3>3. CASE j < k - 1
      <4>1. end[j] < end[k - 1]
        BY <2>1, <2>4, <3>1, <3>3, EndsGrow
      <4> QED
        BY <2>4, <2>5, <3>1, <4>1
    <3> QED
      BY <2>4, <3>1, <3>2, <3>3
  <2>7. Starts = {end[j] : j \in 0..Len(accepted) - 1}
    BY DEF Starts, EndOf
  <2> HIDE DEF end
  <2> QED
    BY <2>3, <2>4, <2>6, <2>7
<1> QED
  BY <1>1, CodecInvariance, PTL

\* The two decoders agree on all code points that both read (readCodePoint,
\* NextUtf8Char).
THEOREM SameCodePoints == CodecSpec => []DecodersAgree
<1>1. CodecInv => DecodersAgree
  <2> SUFFICES ASSUME CodecInv, NEW o \in Starts
               PROVE  IF getCodePointLen(readCodePoint(bytes, o, Len(bytes)).codePoint) <= 4
                      THEN NextUtf8Char(bytes, o) = readCodePoint(bytes, o, Len(bytes))
                      ELSE NextLength(bytes[o + 1]) = 0
    BY DEF DecodersAgree
  <2> DEFINE end == EndsOf(accepted)
  <2>1. /\ Stored(bytes, accepted) /\ accepted \in Seq(CodePoint) /\ Len(accepted) \in Nat
        /\ Len(bytes) = end[Len(accepted)] /\ Len(bytes) \in Nat
    BY DEF CodecInv, Stored
  <2>2. PICK j \in 0..Len(accepted) - 1 : o = end[j]
    BY DEF Starts, EndOf
  <2> DEFINE k == j + 1
  <2>3. k \in 1..Len(accepted) /\ k - 1 = j /\ j \in 0..Len(accepted) /\ k \in 0..Len(accepted)
        /\ Len(accepted) \in 0..Len(accepted)
    BY <2>1
  <2>4. end[j] < Len(bytes)
    BY <2>1, <2>3, EndsGrow
  <2>5. end[k] <= Len(bytes)
    <3>1. k = Len(accepted) \/ k < Len(accepted)
      BY <2>1, <2>3
    <3>2. k < Len(accepted) => end[k] < end[Len(accepted)]
      BY <2>1, <2>3, EndsGrow
    <3>3. end[k] \in Nat
      BY <2>1, <2>3, EndsOfIs
    <3> QED
      BY <2>1, <3>1, <3>2, <3>3
  <2> HIDE DEF k
  <2>6. readCodePoint(bytes, end[k - 1], Len(bytes)) = [next |-> end[k], codePoint |-> accepted[k]]
    <3>1. end[k - 1] < Len(bytes)
      BY <2>3, <2>4
    <3>2. readCodePoint(bytes, end[k - 1], Len(bytes)) =
            IF end[k] <= Len(bytes) THEN [next |-> end[k], codePoint |-> accepted[k]]
            ELSE [next |-> Len(bytes), codePoint |-> Question]
      BY <2>1, <2>3, <3>1, ReadIs
    <3> QED
      BY <2>5, <3>2
  <2>7. o = end[k - 1]
    BY <2>2, <2>3
  <2>8. IF getCodePointLen(accepted[k]) <= 4
        THEN NextUtf8Char(bytes, end[k - 1]) = [next |-> end[k], codePoint |-> accepted[k]]
        ELSE NextLength(bytes[end[k - 1] + 1]) = 0
    BY <2>1, <2>3, NextUtf8CharIs
  <2> HIDE DEF end
  <2> QED
    BY <2>6, <2>7, <2>8
<1> QED
  BY <1>1, CodecInvariance, PTL
=============================================================================
