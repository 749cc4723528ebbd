---------------------------- MODULE CommonLemmas ----------------------------
(***************************************************************************)
(* Lemmas that the proofs about several modules need.                      *)
(*                                                                         *)
(* Induction over natural numbers, stated with the set of the numbers for  *)
(* which a claim holds instead of a predicate, so that the provers can use *)
(* it: what a recursive function of the models computes is proved with it. *)
(*                                                                         *)
(* Code points.  A string is whole if no code point is cut off at its end. *)
(* The offsets at which the code points of a whole string start depend on  *)
(* its bytes alone and not on what follows, so that strings may be cut and *)
(* joined at them.                                                         *)
(***************************************************************************)
EXTENDS Integers, Utf8, FiniteSetTheorems, SequenceTheorems, TLAPS

\* A set of natural numbers that is not empty has a least element.
LEMMA LeastElement ==
  ASSUME NEW S, S \subseteq Nat, S # {}
  PROVE  \E x \in S : \A y \in S : x <= y
<1> DEFINE R == {ss \in Nat \X Nat : ss[1] < ss[2]}
<1>1. IsWellFoundedOn(R, Nat)
  BY NatLessThanWellFounded DEF OpToRel
<1>2. PICK x \in S : \A y \in S : <<y, x>> \notin R
  <2> HIDE DEF R
  <2> QED
    BY <1>1, WFMin
<1>3. ASSUME NEW y \in S PROVE x <= y
  <2>1. x \in Nat /\ y \in Nat
    OBVIOUS
  <2>2. ~(y < x)
    BY <1>2, <2>1
  <2> QED
    BY <2>1, <2>2
<1> QED
  BY <1>3

\* A set of natural numbers with an upper bound has a greatest element.
LEMMA GreatestElement ==
  ASSUME NEW S, S \subseteq Nat, S # {}, NEW bound \in Nat, \A y \in S : y <= bound
  PROVE  \E x \in S : \A y \in S : y <= x
<1> DEFINE Above == {n \in Nat : \A y \in S : y <= n}
<1>1. Above \subseteq Nat /\ bound \in Above
  OBVIOUS
<1>2. PICK x \in Above : \A n \in Above : x <= n
  <2> HIDE DEF Above
  <2> QED
    BY <1>1, LeastElement
<1>3. x \in S
  <2> SUFFICES ASSUME x \notin S PROVE FALSE
    OBVIOUS
  <2>1. PICK y \in S : TRUE
    OBVIOUS
  <2>2. x \in Nat /\ y <= x /\ y # x /\ y \in Nat
    BY <2>1
  <2>3. x - 1 \in Nat
    BY <2>2
  <2>4. ASSUME NEW z \in S PROVE z <= x - 1
    <3>1. z \in Nat /\ z <= x /\ z # x
      OBVIOUS
    <3> QED
      BY <2>2, <3>1
  <2>5. x - 1 \in Above
    BY <2>3, <2>4
  <2> QED
    BY <1>2, <2>2, <2>5
<1> QED
  BY <1>3

\* What holds at 0, and at n + 1 whenever it holds at n, always holds.
LEMMA Induction ==
  ASSUME NEW S, 0 \in S, \A n \in Nat : n \in S => n + 1 \in S
  PROVE  \A n \in Nat : n \in S
<1> DEFINE T == {n \in Nat : n \notin S}
<1> SUFFICES ASSUME T # {} PROVE FALSE
  OBVIOUS
<1>1. PICK x \in T : \A y \in T : x <= y
  <2> T \subseteq Nat
    OBVIOUS
  <2> HIDE DEF T
  <2> QED
    BY LeastElement
<1>2. x # 0 /\ x - 1 \in Nat /\ x - 1 \in S
  BY <1>1
<1> QED
  BY <1>1, <1>2

\* The same between two bounds.
LEMMA InductionUpTo ==
  ASSUME NEW S, NEW low \in Nat, NEW high \in Nat, low \in S,
         \A n \in low..(high - 1) : n \in S => n + 1 \in S
  PROVE  \A n \in low..high : n \in S
<1> DEFINE T == {n \in low..high : n \notin S}
<1> SUFFICES ASSUME T # {} PROVE FALSE
  OBVIOUS
<1>1. PICK x \in T : \A y \in T : x <= y
  <2> T \subseteq Nat
    OBVIOUS
  <2> HIDE DEF T
  <2> QED
    BY LeastElement
<1>2. x # low /\ x - 1 \in low..(high - 1) /\ x - 1 \in S
  BY <1>1
<1> QED
  BY <1>1, <1>2

\* What holds at n whenever it holds below n, always holds.
LEMMA InductionFromBelow ==
  ASSUME NEW S, \A n \in Nat : (\A m \in 0..(n - 1) : m \in S) => n \in S
  PROVE  \A n \in Nat : n \in S
<1> DEFINE T == {n \in Nat : n \notin S}
<1> SUFFICES ASSUME T # {} PROVE FALSE
  OBVIOUS
<1>1. PICK x \in T : \A y \in T : x <= y
  <2> T \subseteq Nat
    OBVIOUS
  <2> HIDE DEF T
  <2> QED
    BY LeastElement
<1>2. \A m \in 0..(x - 1) : m \in S
  BY <1>1
<1> QED
  BY <1>1, <1>2

\* A sequence of steps from base, the n-th of them by step[n], exists.
LEMMA Iteration ==
  ASSUME NEW S, NEW base \in S, NEW N \in Nat, NEW step \in [1..N -> [S -> S]]
  PROVE  \E f \in [0..N -> S] : f[0] = base /\ \A n \in 1..N : f[n] = step[n][f[n - 1]]
<1> DEFINE Reaches(k, f) == /\ f \in [0..N -> S]
                            /\ f[0] = base
                            /\ \A n \in 1..k : f[n] = step[n][f[n - 1]]
           T == {k \in Nat : \E f : Reaches(k, f)}
<1>1. 0 \in T
  <2>1. Reaches(0, [n \in 0..N |-> base])
    OBVIOUS
  <2> QED
    BY <2>1
<1>2. ASSUME NEW k \in 0..(N - 1), k \in T PROVE k + 1 \in T
  <2>1. PICK f : Reaches(k, f)
    BY <1>2
  <2> DEFINE g == [f EXCEPT ![k + 1] = step[k + 1][f[k]]]
  <2>2. k \in 0..N /\ k + 1 \in 1..N /\ k + 1 \in 0..N /\ k + 1 # 0 /\ k \in Nat
    OBVIOUS
  <2>3. step[k + 1][f[k]] \in S
    BY <2>1, <2>2
  <2>4. g \in [0..N -> S] /\ g[k + 1] = step[k + 1][f[k]]
    BY <2>1, <2>2, <2>3
  <2>5. \A n \in 0..k : g[n] = f[n]
    BY <2>1, <2>2
  <2>6. ASSUME NEW n \in 1..(k + 1) PROVE g[n] = step[n][g[n - 1]]
    <3>1. n \in 1..k \/ n = k + 1
      OBVIOUS
    <3>2. n - 1 \in 0..k
      OBVIOUS
    <3>3. k \in 0..k
      OBVIOUS
    <3> HIDE DEF g
    <3> QED
      BY <2>1, <2>4, <2>5, <3>1, <3>2, <3>3
  <2>7. Reaches(k + 1, g)
    <3> HIDE DEF g
    <3>1. 0 \in 0..k
      OBVIOUS
    <3> QED
      BY <2>1, <2>4, <2>5, <2>6, <3>1
  <2> HIDE DEF Reaches, g
  <2> QED
    BY <2>2, <2>7
<1>3. N \in T
  <2> HIDE DEF T
  <2>1. \A n \in 0..N : n \in T
    BY <1>1, <1>2, InductionUpTo
  <2> QED
    BY <2>1
<1> QED
  BY <1>3

-----------------------------------------------------------------------------
(* Rank in an order. *)

\* R orders the elements of S one after the other.
Orders(R, S) ==
  /\ \A x, y \in S : x # y => <<x, y>> \in R \/ <<y, x>> \in R
  /\ \A x, y, z \in S : <<x, y>> \in R /\ <<y, z>> \in R => <<x, z>> \in R
  /\ \A x \in S : <<x, x>> \notin R

Rank(R, S, x) == Cardinality({y \in S : <<y, x>> \in R})

\* Every number below the size of S is the rank of one element, and of no other.
LEMMA RankIsOnto ==
  ASSUME NEW S, IsFiniteSet(S), NEW R, Orders(R, S)
  PROVE  /\ \A x \in S : Rank(R, S, x) \in 0..(Cardinality(S) - 1)
         /\ \A x, y \in S : Rank(R, S, x) = Rank(R, S, y) => x = y
         /\ \A x, y \in S : <<x, y>> \in R => Rank(R, S, x) < Rank(R, S, y)
         /\ \A n \in 0..(Cardinality(S) - 1) : \E x \in S : Rank(R, S, x) = n
<1> DEFINE Below(x) == {y \in S : <<y, x>> \in R}
<1>1. \A x \in S : Below(x) \in SUBSET S /\ Below(x) # S
  BY DEF Orders
<1>2. ASSUME NEW x \in S PROVE Rank(R, S, x) \in 0..(Cardinality(S) - 1)
  <2>1. /\ IsFiniteSet(Below(x))
        /\ Cardinality(Below(x)) <= Cardinality(S) /\ Cardinality(Below(x)) # Cardinality(S)
    BY <1>1, FS_Subset
  <2>2. Cardinality(S) \in Nat /\ Cardinality(Below(x)) \in Nat
    BY <2>1, FS_CardinalityType
  <2> QED
    BY <2>1, <2>2 DEF Rank
<1>3. ASSUME NEW x \in S, NEW y \in S, <<x, y>> \in R PROVE Rank(R, S, x) < Rank(R, S, y)
  <2>1. Below(x) \in SUBSET Below(y) /\ Below(x) # Below(y)
    BY <1>3 DEF Orders
  <2>2. IsFiniteSet(Below(y))
    BY <1>1, FS_Subset
  <2>3. Cardinality(Below(x)) <= Cardinality(Below(y)) /\ Cardinality(Below(x)) # Cardinality(Below(y))
    BY <2>1, <2>2, FS_Subset
  <2>4. Rank(R, S, x) = Cardinality(Below(x)) /\ Rank(R, S, y) = Cardinality(Below(y))
    BY DEF Rank
  <2>5. Rank(R, S, x) \in Int /\ Rank(R, S, y) \in Int
    BY <1>2
  <2> HIDE DEF Below
  <2> QED
    BY <2>3, <2>4, <2>5
<1>4. ASSUME NEW x \in S, NEW y \in S, Rank(R, S, x) = Rank(R, S, y) PROVE x = y
  <2>1. Rank(R, S, x) \in Int /\ Rank(R, S, y) \in Int
    BY <1>2
  <2>2. <<x, y>> \notin R /\ <<y, x>> \notin R
    BY <1>3, <1>4, <2>1
  <2> QED
    BY <2>2 DEF Orders
<1>5. \A n \in 0..(Cardinality(S) - 1) : \E x \in S : Rank(R, S, x) = n
  <2> DEFINE T == 0..(Cardinality(S) - 1)
             f == [x \in S |-> Rank(R, S, x)]
  <2>1. Cardinality(S) \in Nat
    BY FS_CardinalityType
  <2>2. IsFiniteSet(T) /\ Cardinality(T) = Cardinality(S)
    <3>1. 0 \in Int /\ Cardinality(S) - 1 \in Int
      BY <2>1
    <3> QED
      BY <2>1, <3>1, FS_Interval
  <2>3. f \in [S -> T] /\ \A x, y \in S : f[x] = f[y] => x = y
    BY <1>2, <1>4
  <2>4. f \in Injection(S, T)
    <3> HIDE DEF f, T
    <3> QED
      BY <2>3 DEF Injection, IsInjective
  <2>5. f \in Surjection(S, T)
    <3> HIDE DEF f, T
    <3> QED
      BY <2>2, <2>4, FS_Injection
  <2>6. \A n \in T : \E x \in S : f[x] = n
    <3> HIDE DEF f, T
    <3> QED
      BY <2>5 DEF Surjection
  <2> QED
    BY <2>6
<1> QED
  BY <1>2, <1>3, <1>4, <1>5

-----------------------------------------------------------------------------
(* Where code points start. *)

\* A header byte announces at least one byte.
LEMMA CodePointLengthPositive ==
  ASSUME NEW b
  PROVE  /\ multiByteSequenceLength(b) \in Nat \ {0}
         /\ CodePointLength(b) \in Nat \ {0}
<1> DEFINE S == {k \in 1..8 : b \div 2^(8 - k) = 2^k - 1}
<1>1. IsFiniteSet(S) /\ Cardinality(S) \in Nat
  <2>1. S \subseteq 1..8
    OBVIOUS
  <2>2. 1 \in Int /\ 8 \in Int
    OBVIOUS
  <2>3. IsFiniteSet(1..8)
    BY <2>2, FS_Interval
  <2> HIDE DEF S
  <2> QED
    BY <2>1, <2>3, FS_Subset, FS_CardinalityType
<1>2. LeadingOnes(b) = Cardinality(S)
  BY DEF LeadingOnes
<1> HIDE DEF S
<1>3. multiByteSequenceLength(b) \in Nat \ {0}
  BY <1>1, <1>2 DEF multiByteSequenceLength
<1> QED
  BY <1>3 DEF CodePointLength

\* Reading a code point moves on, by its length or to the end.
LEMMA NextOffsetMoves ==
  ASSUME NEW s, Len(s) \in Nat, NEW from \in 0..(Len(s) - 1)
  PROVE  /\ NextOffset(s, from) \in (from + 1)..Len(s)
         /\ from + CodePointLength(s[from + 1]) <= Len(s) =>
              NextOffset(s, from) = from + CodePointLength(s[from + 1])
<1> DEFINE len == CodePointLength(s[from + 1])
           multi == multiByteSequenceLength(s[from + 1])
<1>1. len \in Nat \ {0} /\ multi \in Nat \ {0} /\ from \in Int
  BY CodePointLengthPositive
<1>2. /\ len = IF s[from + 1] < 128 THEN 1 ELSE multi
      /\ NextOffset(s, from) = IF s[from + 1] < 128 THEN from + 1
                            ELSE IF from + multi > Len(s) THEN Len(s) ELSE from + multi
  BY DEF NextOffset, CodePointLength
<1> HIDE DEF len, multi
<1>3. NextOffset(s, from) \in (from + 1)..Len(s) /\ (from + len <= Len(s) => NextOffset(s, from) = from + len)
  BY <1>1, <1>2
<1> QED
  BY <1>3 DEF len

\* The function ptr of CodePointStarts.
Reads(s, ptr) ==
  ptr = [n \in 0..Len(s) |->
           IF n = 0 THEN 0
           ELSE IF ptr[n - 1] = Len(s) THEN ptr[n - 1] ELSE NextOffset(s, ptr[n - 1])]

\* The offsets read one after the other start at 0, do not go back, and the end is
\* among them.
LEMMA ReadsOn ==
  ASSUME NEW s, Len(s) \in Nat
  PROVE  \E ptr \in [0..Len(s) -> 0..Len(s)] :
           /\ CodePointStarts(s) = {ptr[n] : n \in 0..Len(s)}
           /\ ptr[0] = 0 /\ ptr[Len(s)] = Len(s)
           /\ \A n \in 1..Len(s) :
                ptr[n] = IF ptr[n - 1] = Len(s) THEN Len(s) ELSE NextOffset(s, ptr[n - 1])
           /\ \A n \in 0..Len(s) : \A m \in 0..n : ptr[m] <= ptr[n]
<1> DEFINE N == Len(s)
           S == 0..N
           step == [n \in 1..N |-> [o \in S |-> IF o = N THEN N ELSE NextOffset(s, o)]]
<1>1. \A o \in S : o # N => NextOffset(s, o) \in (o + 1)..N
  <2> SUFFICES ASSUME NEW o \in S, o # N PROVE NextOffset(s, o) \in (o + 1)..N
    OBVIOUS
  <2>1. o \in 0..(Len(s) - 1)
    OBVIOUS
  <2> QED
    BY <2>1, NextOffsetMoves
<1>2. step \in [1..N -> [S -> S]]
  <2>1. \A o \in S : (IF o = N THEN N ELSE NextOffset(s, o)) \in S
    <3> SUFFICES ASSUME NEW o \in S, o # N PROVE NextOffset(s, o) \in S
      OBVIOUS
    <3>1. NextOffset(s, o) \in (o + 1)..N
      BY <1>1
    <3> QED
      BY <3>1
  <2> QED
    BY <2>1
<1>3. PICK f \in [0..N -> S] : f[0] = 0 /\ \A n \in 1..N : f[n] = step[n][f[n - 1]]
  <2>1. 0 \in S /\ N \in Nat
    OBVIOUS
  <2> HIDE DEF step, S, N
  <2> QED
    BY <1>2, <2>1, Iteration
<1>4. \A n \in 1..N : f[n] = IF f[n - 1] = N THEN f[n - 1] ELSE NextOffset(s, f[n - 1])
  <2> SUFFICES ASSUME NEW n \in 1..N
               PROVE  f[n] = IF f[n - 1] = N THEN f[n - 1] ELSE NextOffset(s, f[n - 1])
    OBVIOUS
  <2>1. n - 1 \in 0..N
    OBVIOUS
  <2>2. f[n - 1] \in S
    BY <2>1
  <2> QED
    BY <1>3, <2>2
<1>5. Reads(s, f)
  <2>1. f = [n \in 0..N |-> f[n]]
    OBVIOUS
  <2>2. \A n \in 0..N : n = 0 \/ n \in 1..N
    OBVIOUS
  <2> QED
    BY <1>3, <1>4, <2>1, <2>2 DEF Reads
<1>6. CodePointStarts(s) = LET ptr == CHOOSE ptr : Reads(s, ptr) IN {ptr[n] : n \in 0..Len(s)}
  BY DEF CodePointStarts, Reads
<1>7. PICK ptr : Reads(s, ptr) /\ CodePointStarts(s) = {ptr[n] : n \in 0..Len(s)}
  BY <1>5, <1>6
<1> DEFINE In == {n \in Nat : n <= N => ptr[n] \in S /\ (ptr[n] < N => ptr[n] >= n)}
<1>8. ptr[0] = 0 /\ \A n \in 1..N : ptr[n] = IF ptr[n - 1] = N THEN N ELSE NextOffset(s, ptr[n - 1])
  <2>1. /\ 0 \in 0..N /\ ptr = [n \in 0..N |->
                              IF n = 0 THEN 0
                              ELSE IF ptr[n - 1] = N THEN ptr[n - 1] ELSE NextOffset(s, ptr[n - 1])]
    BY <1>7 DEF Reads
  <2> HIDE DEF In, N
  <2>2. ptr[0] = 0
    BY <2>1
  <2>3. ASSUME NEW n \in 1..N
        PROVE  ptr[n] = IF ptr[n - 1] = N THEN N ELSE NextOffset(s, ptr[n - 1])
    <3>1. n \in 0..N /\ n # 0
      BY <2>1
    <3> QED
      BY <2>1, <3>1
  <2> QED
    BY <2>2, <2>3 DEF N
<1>9. \A n \in 0..N : n \in In
  <2>1. 0 \in In
    BY <1>8
  <2>2. ASSUME NEW n \in 0..(N - 1), n \in In PROVE n + 1 \in In
    <3>1. n + 1 \in 1..N /\ (n + 1) - 1 = n /\ n + 1 \in Nat
      OBVIOUS
    <3>2. ptr[n + 1] = IF ptr[n] = N THEN N ELSE NextOffset(s, ptr[n])
      BY <1>8, <3>1
    <3>3. ptr[n] \in S /\ (ptr[n] < N => ptr[n] >= n)
      BY <2>2
    <3>4. ptr[n] # N => ptr[n + 1] \in (ptr[n] + 1)..N
      BY <1>1, <3>2, <3>3
    <3>5. ptr[n + 1] \in S /\ (ptr[n + 1] < N => ptr[n + 1] >= n + 1)
      <4>1. CASE ptr[n] = N
        BY <3>2, <4>1
      <4>2. CASE ptr[n] # N
        BY <3>3, <3>4, <4>2
      <4> QED
        BY <4>1, <4>2
    <3> QED
      BY <3>1, <3>5
  <2>3. N \in Nat /\ 0 \in Nat
    OBVIOUS
  <2> HIDE DEF In, N
  <2> QED
    BY <2>1, <2>2, <2>3, InductionUpTo
<1>10. ptr \in [0..N -> S]
  <2>1. ptr = [n \in 0..N |-> ptr[n]]
    BY <1>7 DEF Reads
  <2> QED
    BY <1>9, <2>1
<1>11. ptr[N] = N
  BY <1>9
<1>12. \A n \in 0..N : \A m \in 0..n : ptr[m] <= ptr[n]
  <2> DEFINE Up == {n \in Nat : n <= N => \A m \in 0..n : ptr[m] <= ptr[n]}
  <2>1. 0 \in Up
    BY <1>8
  <2>2. ASSUME NEW n \in 0..(N - 1), n \in Up PROVE n + 1 \in Up
    <3>1. n + 1 \in 1..N /\ (n + 1) - 1 = n /\ n + 1 \in Nat /\ n \in 0..N /\ n + 1 \in 0..N
      OBVIOUS
    <3>2. ptr[n + 1] = IF ptr[n] = N THEN N ELSE NextOffset(s, ptr[n])
      BY <1>8, <3>1
    <3>3. ptr[n] \in S /\ ptr[n + 1] \in S
      BY <1>10, <3>1
    <3>4. ptr[n] <= ptr[n + 1]
      BY <1>1, <3>2, <3>3
    <3>5. ASSUME NEW m \in 0..(n + 1) PROVE ptr[m] <= ptr[n + 1]
      <4>1. CASE m = n + 1
        BY <3>3, <4>1
      <4>2. CASE m # n + 1
        <5>1. m \in 0..n /\ m \in 0..N
          BY <4>2
        <5>2. ptr[m] <= ptr[n] /\ ptr[m] \in S
          BY <1>10, <2>2, <5>1
        <5> QED
          BY <3>3, <3>4, <5>2
      <4> QED
        BY <4>1, <4>2
    <3> QED
      BY <3>1, <3>5
  <2>3. N \in Nat /\ 0 \in Nat
    OBVIOUS
  <2>4. \A n \in 0..N : n \in Up
    <3> HIDE DEF Up, N
    <3> QED
      BY <2>1, <2>2, <2>3, InductionUpTo
  <2> QED
    BY <2>4
<1> QED
  BY <1>7, <1>8, <1>10, <1>11, <1>12

\* CodePointStarts is the least set with 0 that reading on does not leave, its last
\* element is the end, and between an offset and the next one read there is no other.
LEMMA StartsAre ==
  ASSUME NEW s, Len(s) \in Nat
  PROVE  /\ 0 \in CodePointStarts(s) /\ Len(s) \in CodePointStarts(s)
         /\ CodePointStarts(s) \subseteq 0..Len(s)
         /\ \A o \in CodePointStarts(s) \ {Len(s)} : NextOffset(s, o) \in CodePointStarts(s)
         /\ \A o, x \in CodePointStarts(s) : x < o => NextOffset(s, x) <= o
         /\ \A X : /\ 0 \in X
                   /\ \A o \in X \cap CodePointStarts(s) : o # Len(s) => NextOffset(s, o) \in X
                   => CodePointStarts(s) \subseteq X
<1> DEFINE N == Len(s)
<1>1. PICK ptr \in [0..N -> 0..N] :
        /\ CodePointStarts(s) = {ptr[n] : n \in 0..N}
        /\ ptr[0] = 0 /\ ptr[N] = N
        /\ \A n \in 1..N : ptr[n] = IF ptr[n - 1] = N THEN N ELSE NextOffset(s, ptr[n - 1])
        /\ \A n \in 0..N : \A m \in 0..n : ptr[m] <= ptr[n]
  BY ReadsOn
<1>2. \A n \in 0..N : n # N => n + 1 \in 1..N /\ n + 1 \in 0..N /\ (n + 1) - 1 = n
  OBVIOUS
<1>3. ASSUME NEW n \in 0..N, ptr[n] # N
      PROVE  n + 1 \in 0..N /\ ptr[n + 1] = NextOffset(s, ptr[n])
  <2>1. n # N
    BY <1>1, <1>3
  <2> QED
    BY <1>1, <1>2, <1>3, <2>1
<1>4. \A o \in CodePointStarts(s) \ {N} : NextOffset(s, o) \in CodePointStarts(s)
  BY <1>1, <1>3
<1>5. ASSUME NEW o \in CodePointStarts(s), NEW x \in CodePointStarts(s), x < o
      PROVE  NextOffset(s, x) <= o
  <2>1. PICK m \in 0..N, n \in 0..N : x = ptr[m] /\ o = ptr[n]
    BY <1>1
  <2>2. m < n
    <3>1. SUFFICES ASSUME n <= m PROVE FALSE
      OBVIOUS
    <3>2. n \in 0..m
      BY <3>1
    <3>3. o <= x /\ o \in 0..N /\ x \in 0..N
      BY <1>1, <2>1, <3>2
    <3> QED
      BY <1>5, <3>3
  <2>3. ptr[m] # N
    <3>1. o \in 0..N
      BY <1>1
    <3> QED
      BY <1>5, <2>1, <3>1
  <2>4. m + 1 \in 0..n
    BY <2>2
  <2>5. ptr[m + 1] <= ptr[n] /\ ptr[m + 1] = NextOffset(s, ptr[m])
    BY <1>1, <1>3, <2>3, <2>4
  <2> QED
    BY <2>1, <2>5
<1>6. ASSUME NEW X, 0 \in X,
             \A o \in X \cap CodePointStarts(s) : o # N => NextOffset(s, o) \in X
      PROVE  CodePointStarts(s) \subseteq X
  <2> DEFINE T == {n \in Nat : n <= N => ptr[n] \in X}
  <2>1. 0 \in T
    BY <1>1, <1>6
  <2>2. ASSUME NEW n \in 0..(N - 1), n \in T PROVE n + 1 \in T
    <3>1. n \in 0..N /\ n + 1 \in 1..N /\ (n + 1) - 1 = n /\ n + 1 \in Nat /\ n <= N
      OBVIOUS
    <3>2. ptr[n + 1] = IF ptr[n] = N THEN N ELSE NextOffset(s, ptr[n])
      BY <1>1, <3>1
    <3>3. ptr[n] \in X
      BY <2>2, <3>1
    <3>4. ptr[n] \in CodePointStarts(s)
      BY <1>1, <3>1
    <3>5. ptr[n + 1] \in X
      BY <1>6, <3>2, <3>3, <3>4
    <3> QED
      BY <3>1, <3>5
  <2>3. N \in Nat /\ 0 \in Nat
    OBVIOUS
  <2>4. \A n \in 0..N : n \in T
    <3> HIDE DEF T, N
    <3> QED
      BY <2>1, <2>2, <2>3, InductionUpTo
  <2> QED
    BY <1>1, <2>4
<1>7. 0 \in CodePointStarts(s) /\ N \in CodePointStarts(s) /\ CodePointStarts(s) \subseteq 0..N
  BY <1>1
<1> QED
  BY <1>4, <1>5, <1>6, <1>7

\* X holds the offsets at which the code points of a whole string start: each start
\* is the end of the code point before it.
AreStarts(s, X) ==
  /\ X \subseteq 0..Len(s) /\ 0 \in X /\ Len(s) \in X
  /\ \A x \in X : x # Len(s) =>
       /\ x + CodePointLength(s[x + 1]) \in X
       /\ \A o \in X : x < o => x + CodePointLength(s[x + 1]) <= o

\* There is one such set if the string is whole, and none else.
LEMMA StartsOfWhole ==
  ASSUME NEW s, Len(s) \in Nat
  PROVE  /\ WholeCodePoints(s) => AreStarts(s, CodePointStarts(s))
         /\ \A X : AreStarts(s, X) => WholeCodePoints(s) /\ X = CodePointStarts(s)
<1> DEFINE Starts == CodePointStarts(s)
           L(o) == CodePointLength(s[o + 1])
<1>1. /\ 0 \in Starts /\ Len(s) \in Starts /\ Starts \subseteq 0..Len(s)
      /\ \A o \in Starts : o # Len(s) => NextOffset(s, o) \in Starts
      /\ \A o, x \in Starts : x < o => NextOffset(s, x) <= o
  BY StartsAre
<1>2. ASSUME NEW o \in 0..Len(s), o # Len(s)
      PROVE  /\ L(o) \in Nat \ {0} /\ o \in Nat
             /\ o + L(o) <= Len(s) => NextOffset(s, o) = o + L(o)
  <2>1. o \in 0..(Len(s) - 1)
    BY <1>2
  <2> QED
    BY <2>1, NextOffsetMoves, CodePointLengthPositive
<1>3. ASSUME WholeCodePoints(s) PROVE AreStarts(s, Starts)
  <2>1. \A o \in Starts : o # Len(s) => NextOffset(s, o) = o + L(o)
    <3> SUFFICES ASSUME NEW o \in Starts, o # Len(s) PROVE NextOffset(s, o) = o + L(o)
      OBVIOUS
    <3>1. o + L(o) <= Len(s)
      BY <1>3 DEF WholeCodePoints
    <3>2. o \in 0..Len(s)
      BY <1>1
    <3> HIDE DEF L
    <3> QED
      BY <1>2, <3>1, <3>2
  <2> HIDE DEF Starts
  <2> QED
    BY <1>1, <2>1 DEF AreStarts
<1>4. ASSUME NEW X, AreStarts(s, X) PROVE WholeCodePoints(s) /\ X = Starts
  <2>1. /\ X \subseteq 0..Len(s) /\ 0 \in X /\ Len(s) \in X
        /\ \A x \in X : x # Len(s) =>
             x + L(x) \in X /\ \A o \in X : x < o => x + L(x) <= o
    BY <1>4 DEF AreStarts
  <2> HIDE DEF L
  <2>2. \A x \in X : x # Len(s) => NextOffset(s, x) = x + L(x)
    <3> SUFFICES ASSUME NEW x \in X, x # Len(s) PROVE NextOffset(s, x) = x + L(x)
      OBVIOUS
    <3>1. x + L(x) \in 0..Len(s) /\ x \in 0..Len(s)
      BY <2>1
    <3>2. x + L(x) <= Len(s)
      BY <3>1
    <3> QED
      BY <1>2, <3>1, <3>2
  <2>3. Starts \subseteq X
    <3>1. \A o \in X \cap Starts : o # Len(s) => NextOffset(s, o) \in X
      BY <2>1, <2>2
    <3> QED
      BY <2>1, <3>1, StartsAre
  <2>4. ASSUME NEW x \in X, x \notin Starts PROVE FALSE
    <3> DEFINE Z == {o \in Starts : o < x}
    <3>1. x \in 0..Len(s) /\ x # 0
      BY <1>1, <2>1, <2>4
    <3>2. 0 \in Z
      BY <1>1, <3>1
    <3>3. ASSUME NEW o \in Z, o # Len(s) PROVE NextOffset(s, o) \in Z
      <4>1. o \in X /\ o < x /\ NextOffset(s, o) = o + L(o) /\ o \in Starts
        BY <2>2, <2>3, <3>3
      <4>2. NextOffset(s, o) <= x
        BY <2>1, <2>4, <3>3, <4>1
      <4>3. NextOffset(s, o) \in Starts /\ NextOffset(s, o) # x
        BY <1>1, <2>4, <3>3, <4>1
      <4>4. NextOffset(s, o) \in 0..Len(s)
        BY <1>1, <4>3
      <4> QED
        BY <3>1, <4>2, <4>3, <4>4
    <3>4. Starts \subseteq Z
      <4> HIDE DEF Z
      <4> QED
        BY <3>2, <3>3, StartsAre
    <3>5. Len(s) < x
      BY <1>1, <3>4
    <3> QED
      BY <3>1, <3>5
  <2>5. X = Starts
    BY <2>3, <2>4
  <2>6. WholeCodePoints(s)
    <3>1. \A o \in X : o # Len(s) => o + L(o) <= Len(s)
      <4> SUFFICES ASSUME NEW o \in X, o # Len(s) PROVE o + L(o) <= Len(s)
        OBVIOUS
      <4>1. o + L(o) \in 0..Len(s)
        BY <2>1
      <4> QED
        BY <4>1
    <3> QED
      BY <2>5, <3>1 DEF WholeCodePoints, L
  <2> QED
    BY <2>5, <2>6
<1> QED
  BY <1>3, <1>4

-----------------------------------------------------------------------------
(* Whole strings cut and joined. *)

\* A whole string cut where a code point starts is whole on the left,
LEMMA WholePrefix ==
  ASSUME NEW n \in Seq(Byte), WholeCodePoints(n), NEW o \in CodePointStarts(n)
  PROVE  /\ WholeCodePoints(SubSeq(n, 1, o))
         /\ CodePointStarts(SubSeq(n, 1, o)) = {x \in CodePointStarts(n) : x <= o}
<1> DEFINE m == SubSeq(n, 1, o)
           L(b) == CodePointLength(b)
           X == {x \in CodePointStarts(n) : x <= o}
<1>1. AreStarts(n, CodePointStarts(n)) /\ Len(n) \in Nat
  BY StartsOfWhole
<1>2. o \in 0..Len(n)
  BY <1>1 DEF AreStarts
<1>3. Len(m) = o /\ \A i \in 1..o : m[i] = n[i]
  BY <1>2
<1>4. X \subseteq 0..o /\ 0 \in X /\ o \in X
  BY <1>1, <1>2 DEF AreStarts
<1>5. ASSUME NEW x \in X, x # o
      PROVE  x + L(m[x + 1]) \in X /\ \A y \in X : x < y => x + L(m[x + 1]) <= y
  <2>1. x \in 0..o /\ x < o /\ x # Len(n) /\ x + 1 \in 1..o
    BY <1>2, <1>4, <1>5
  <2>2. m[x + 1] = n[x + 1]
    BY <1>3, <2>1
  <2>3. x + L(n[x + 1]) \in CodePointStarts(n) /\ x + L(n[x + 1]) <= o
        /\ \A y \in X : x < y => x + L(n[x + 1]) <= y
    BY <1>1, <2>1 DEF AreStarts
  <2> QED
    BY <2>2, <2>3
<1>6. AreStarts(m, X)
  <2> HIDE DEF m, X
  <2> QED
    BY <1>3, <1>4, <1>5 DEF AreStarts
<1>7. Len(m) \in Nat
  BY <1>2, <1>3
<1> QED
  BY <1>6, <1>7, StartsOfWhole

\* and on the right.
LEMMA WholeSuffix ==
  ASSUME NEW n \in Seq(Byte), WholeCodePoints(n), NEW o \in CodePointStarts(n)
  PROVE  /\ WholeCodePoints(SubSeq(n, o + 1, Len(n)))
         /\ CodePointStarts(SubSeq(n, o + 1, Len(n))) =
              {x \in 0..(Len(n) - o) : x + o \in CodePointStarts(n)}
<1> DEFINE m == SubSeq(n, o + 1, Len(n))
           L(b) == CodePointLength(b)
           X == {x \in 0..(Len(n) - o) : x + o \in CodePointStarts(n)}
<1>1. AreStarts(n, CodePointStarts(n)) /\ Len(n) \in Nat
  BY StartsOfWhole
<1>2. o \in 0..Len(n)
  BY <1>1 DEF AreStarts
<1>3. Len(m) = Len(n) - o /\ \A i \in 1..(Len(n) - o) : m[i] = n[o + i]
  BY <1>2
<1>4. X \subseteq 0..Len(m) /\ 0 \in X /\ Len(m) \in X
  BY <1>1, <1>2, <1>3 DEF AreStarts
<1>5. ASSUME NEW x \in X, x # Len(m)
      PROVE  x + L(m[x + 1]) \in X /\ \A y \in X : x < y => x + L(m[x + 1]) <= y
  <2>1. x \in 0..(Len(n) - o) /\ x + o \in CodePointStarts(n) /\ x + o # Len(n)
        /\ x + 1 \in 1..(Len(n) - o) /\ o + (x + 1) = (x + o) + 1
    BY <1>2, <1>3, <1>5
  <2>2. m[x + 1] = n[(x + o) + 1]
    <3> HIDE DEF m
    <3> QED
      BY <1>3, <2>1
  <2> DEFINE len == L(n[(x + o) + 1])
  <2>3. (x + o) + len \in CodePointStarts(n) /\ len \in Nat
        /\ \A z \in CodePointStarts(n) : x + o < z => (x + o) + len <= z
    BY <1>1, <2>1, CodePointLengthPositive DEF AreStarts
  <2>4. (x + o) + len \in 0..Len(n)
    BY <1>1, <2>3 DEF AreStarts
  <2> HIDE DEF len
  <2>5. x + len \in X
    <3>1. (x + len) + o = (x + o) + len /\ x + len \in 0..(Len(n) - o)
      BY <1>2, <2>1, <2>3, <2>4
    <3> QED
      BY <2>3, <3>1
  <2>6. ASSUME NEW y \in X, x < y PROVE x + len <= y
    <3>1. y + o \in CodePointStarts(n) /\ x + o < y + o /\ y \in Int
      BY <1>2, <2>1, <2>6
    <3>2. (x + o) + len <= y + o
      BY <2>3, <3>1
    <3> QED
      BY <1>2, <2>1, <2>3, <3>1, <3>2
  <2> QED
    BY <2>2, <2>5, <2>6 DEF len
<1>6. AreStarts(m, X)
  <2> HIDE DEF m, X
  <2> QED
    BY <1>3, <1>4, <1>5 DEF AreStarts
<1>7. Len(m) \in Nat
  BY <1>2, <1>3
<1> QED
  BY <1>6, <1>7, StartsOfWhole

\* A code point: a header byte and as many bytes as it announces.
IsCodePoint(c) == c \in Seq(Byte) /\ c # << >> /\ Len(c) = CodePointLength(c[1])

\* A whole string with a code point behind it is whole.
LEMMA WholeJoin ==
  ASSUME NEW l \in Seq(Byte), WholeCodePoints(l), NEW c, IsCodePoint(c)
  PROVE  /\ WholeCodePoints(l \o c)
         /\ CodePointStarts(l \o c) = CodePointStarts(l) \cup {Len(l) + Len(c)}
<1> DEFINE n == l \o c
           L(b) == CodePointLength(b)
           X == CodePointStarts(l) \cup {Len(l) + Len(c)}
<1>1. AreStarts(l, CodePointStarts(l)) /\ Len(l) \in Nat
  BY StartsOfWhole
<1>2. Len(c) \in Nat \ {0} /\ Len(c) = L(c[1]) /\ c \in Seq(Byte)
  BY DEF IsCodePoint
<1>3. Len(n) = Len(l) + Len(c) /\ (\A i \in 1..Len(l) : n[i] = l[i]) /\ n[Len(l) + 1] = c[1]
  BY <1>2
<1>4. X \subseteq 0..Len(n) /\ 0 \in X /\ Len(n) \in X
  BY <1>1, <1>2, <1>3 DEF AreStarts
<1>5. ASSUME NEW x \in X, x # Len(n)
      PROVE  x + L(n[x + 1]) \in X /\ \A y \in X : x < y => x + L(n[x + 1]) <= y
  <2>1. x \in CodePointStarts(l) /\ x \in 0..Len(l)
    BY <1>1, <1>3, <1>5 DEF AreStarts
  <2>2. CASE x = Len(l)
    <3>1. x + L(n[x + 1]) = Len(l) + Len(c)
      BY <1>2, <1>3, <2>2
    <3>2. \A y \in X : x < y => y = Len(l) + Len(c)
      BY <1>1, <2>2 DEF AreStarts
    <3>3. Len(l) + Len(c) \in Int /\ Len(l) + Len(c) \in X
      BY <1>1, <1>2
    <3> HIDE DEF X, L, n
    <3> QED
      BY <3>1, <3>2, <3>3
  <2>3. CASE x # Len(l)
    <3>1. x + 1 \in 1..Len(l)
      BY <2>1, <2>3
    <3>2. n[x + 1] = l[x + 1]
      BY <1>3, <3>1
    <3>3. x + L(l[x + 1]) \in CodePointStarts(l)
          /\ \A y \in CodePointStarts(l) : x < y => x + L(l[x + 1]) <= y
      BY <1>1, <2>1, <2>3 DEF AreStarts
    <3>4. x + L(l[x + 1]) \in 0..Len(l)
      BY <1>1, <3>3 DEF AreStarts
    <3>5. x + L(l[x + 1]) <= Len(l) + Len(c)
      BY <1>1, <1>2, <3>4
    <3>6. x + L(l[x + 1]) \in X
      BY <3>3
    <3>7. ASSUME NEW y \in X, x < y PROVE x + L(l[x + 1]) <= y
      BY <3>3, <3>5, <3>7
    <3> HIDE DEF X, L, n
    <3> QED
      BY <3>2, <3>6, <3>7
  <2> QED
    BY <2>2, <2>3
<1>6. AreStarts(n, X)
  <2> HIDE DEF n, X
  <2> QED
    BY <1>3, <1>4, <1>5 DEF AreStarts
<1>7. Len(n) \in Nat
  BY <1>1, <1>2, <1>3
<1> QED
  BY <1>6, <1>7, StartsOfWhole

\* The code points of a whole string start where they do in any string it begins.
LEMMA StartsOfLonger ==
  ASSUME NEW m \in Seq(Byte), WholeCodePoints(m), NEW n \in Seq(Byte), Len(m) <= Len(n),
         \A i \in 1..Len(m) : n[i] = m[i]
  PROVE  CodePointStarts(m) \subseteq CodePointStarts(n)
<1> DEFINE X == CodePointStarts(n)
<1>1. AreStarts(m, CodePointStarts(m)) /\ Len(m) \in Nat /\ Len(n) \in Nat
  BY StartsOfWhole
<1>2. ASSUME NEW o \in X \cap CodePointStarts(m), o # Len(m)
      PROVE  NextOffset(m, o) \in X
  <2>1. o \in 0..(Len(m) - 1) /\ o \in 0..(Len(n) - 1) /\ o + 1 \in 1..Len(m)
    BY <1>1, <1>2 DEF AreStarts
  <2> DEFINE len == CodePointLength(m[o + 1])
  <2>2. len = CodePointLength(n[o + 1]) /\ len \in Nat \ {0}
    BY <2>1, CodePointLengthPositive
  <2>3. o + len \in 0..Len(m)
    BY <1>1, <1>2 DEF AreStarts
  <2>4. o + len <= Len(m) /\ o + len <= Len(n)
    BY <1>1, <2>1, <2>2, <2>3
  <2>5. NextOffset(m, o) = o + len
    BY <1>1, <2>1, <2>4, NextOffsetMoves
  <2>6. NextOffset(n, o) = o + len
    BY <1>1, <2>1, <2>2, <2>4, NextOffsetMoves
  <2>7. o # Len(n)
    BY <2>1
  <2> QED
    BY <1>1, <1>2, <2>5, <2>6, <2>7, StartsAre
<1>3. 0 \in X
  BY <1>1, StartsAre
<1> QED
  BY <1>1, <1>2, <1>3, StartsAre

-----------------------------------------------------------------------------
(* Strings of bytes, cut and joined. *)

\* The two parts of a string cut at k.
LEMMA Cut ==
  ASSUME NEW n \in Seq(Byte), NEW k \in 0..Len(n)
  PROVE  /\ SubSeq(n, 1, k) \in Seq(Byte) /\ Len(SubSeq(n, 1, k)) = k
         /\ SubSeq(n, k + 1, Len(n)) \in Seq(Byte) /\ Len(SubSeq(n, k + 1, Len(n))) = Len(n) - k
         /\ \A i \in 1..k : SubSeq(n, 1, k)[i] = n[i]
         /\ \A i \in 1..(Len(n) - k) : SubSeq(n, k + 1, Len(n))[i] = n[k + i]
         /\ n = SubSeq(n, 1, k) \o SubSeq(n, k + 1, Len(n))
<1> DEFINE a == SubSeq(n, 1, k)
           b == SubSeq(n, k + 1, Len(n))
<1>1. /\ a \in Seq(Byte) /\ Len(a) = k /\ b \in Seq(Byte) /\ Len(b) = Len(n) - k
      /\ \A i \in 1..k : a[i] = n[i]
      /\ \A i \in 1..(Len(n) - k) : b[i] = n[k + i]
  <2>1. /\ a \in Seq(Byte) /\ Len(a) = k
        /\ \A i \in 1..k : a[i] = n[i]
    OBVIOUS
  <2>2. b \in Seq(Byte) /\ Len(b) = Len(n) - k
    OBVIOUS
  <2>3. ASSUME NEW i \in 1..(Len(n) - k) PROVE b[i] = n[k + i]
    <3>1. b = [j \in 1..(Len(n) - (k + 1) + 1) |-> n[(k + 1) + j - 1]]
      BY DEF SubSeq
    <3>2. i \in 1..(Len(n) - (k + 1) + 1) /\ (k + 1) + i - 1 = k + i
      OBVIOUS
    <3> HIDE DEF b
    <3> QED
      BY <3>1, <3>2
  <2> HIDE DEF a, b
  <2> QED
    BY <2>1, <2>2, <2>3
<1> HIDE DEF a, b
<1>2. n = a \o b
  <2>1. a \o b \in Seq(Byte) /\ Len(a \o b) = Len(n)
    <3>1. a \o b \in Seq(Byte) /\ Len(a \o b) = Len(a) + Len(b)
      BY <1>1, ConcatProperties
    <3>2. k + (Len(n) - k) = Len(n)
      OBVIOUS
    <3> QED
      BY <1>1, <3>1, <3>2
  <2>2. ASSUME NEW i \in 1..Len(n) PROVE n[i] = (a \o b)[i]
    <3>1. (a \o b)[i] = IF i <= k THEN a[i] ELSE b[i - k]
      BY <1>1
    <3>2. i > k => i - k \in 1..(Len(n) - k) /\ k + (i - k) = i
      OBVIOUS
    <3> QED
      BY <1>1, <3>1, <3>2
  <2> QED
    BY <2>1, <2>2, SeqEqual
<1> QED
  BY <1>1, <1>2 DEF a, b

\* The parts of a joined string.
LEMMA Joined ==
  ASSUME NEW l \in Seq(Byte), NEW c \in Seq(Byte)
  PROVE  /\ l \o c \in Seq(Byte) /\ Len(l \o c) = Len(l) + Len(c)
         /\ \A i \in 1..Len(l) : (l \o c)[i] = l[i]
         /\ \A i \in 1..Len(c) : (l \o c)[Len(l) + i] = c[i]
         /\ \A k \in 0..Len(l) : SubSeq(l \o c, 1, k) = SubSeq(l, 1, k)
         /\ \A k \in 0..Len(l) : SubSeq(l \o c, k + 1, Len(l \o c)) = SubSeq(l, k + 1, Len(l)) \o c
         /\ SubSeq(l \o c, 1, Len(l)) = l
         /\ SubSeq(l \o c, Len(l) + 1, Len(l \o c)) = c
<1> DEFINE n == l \o c
<1>1. /\ n \in Seq(Byte) /\ Len(n) = Len(l) + Len(c) /\ Len(l) \in Nat /\ Len(c) \in Nat
      /\ \A i \in 1..Len(l) : n[i] = l[i]
      /\ \A i \in 1..Len(c) : n[Len(l) + i] = c[i]
  OBVIOUS
<1> HIDE DEF n
<1>2. ASSUME NEW k \in 0..Len(l) PROVE SubSeq(n, 1, k) = SubSeq(l, 1, k)
  <2>1. k \in 0..Len(n)
    BY <1>1
  <2>2. /\ SubSeq(n, 1, k) \in Seq(Byte) /\ SubSeq(l, 1, k) \in Seq(Byte)
        /\ Len(SubSeq(n, 1, k)) = k /\ Len(SubSeq(l, 1, k)) = k
        /\ \A i \in 1..k : SubSeq(n, 1, k)[i] = n[i] /\ SubSeq(l, 1, k)[i] = l[i]
    BY <1>1, <2>1, Cut
  <2>3. \A i \in 1..k : i \in 1..Len(l)
    OBVIOUS
  <2> QED
    BY <1>1, <2>2, <2>3, SeqEqual
<1>3. ASSUME NEW k \in 0..Len(l) PROVE SubSeq(n, k + 1, Len(n)) = SubSeq(l, k + 1, Len(l)) \o c
  <2> DEFINE a == SubSeq(n, k + 1, Len(n))
             d == SubSeq(l, k + 1, Len(l))
  <2>1. k \in 0..Len(n) /\ k \in Nat
    BY <1>1
  <2>2. /\ a \in Seq(Byte) /\ Len(a) = Len(n) - k
        /\ \A i \in 1..(Len(n) - k) : a[i] = n[k + i]
    BY <1>1, <2>1, Cut
  <2>3. /\ d \in Seq(Byte) /\ Len(d) = Len(l) - k
        /\ \A i \in 1..(Len(l) - k) : d[i] = l[k + i]
    BY Cut
  <2> HIDE DEF a, d
  <2>4. d \o c \in Seq(Byte) /\ Len(d \o c) = Len(a)
    BY <1>1, <2>1, <2>2, <2>3
  <2>5. ASSUME NEW i \in 1..Len(a) PROVE a[i] = (d \o c)[i]
    <3>1. (d \o c)[i] = IF i <= Len(d) THEN d[i] ELSE c[i - Len(d)]
      BY <2>3, <2>4
    <3>2. CASE i <= Len(d)
      <4>1. i \in 1..(Len(l) - k) /\ k + i \in 1..Len(l) /\ i \in 1..(Len(n) - k)
        BY <1>1, <2>1, <2>2, <2>3, <3>2
      <4> QED
        BY <1>1, <2>2, <2>3, <3>1, <3>2, <4>1
    <3>3. CASE i > Len(d)
      <4>1. /\ i - Len(d) \in 1..Len(c) /\ Len(l) + (i - Len(d)) = k + i
            /\ i \in 1..(Len(n) - k)
        BY <1>1, <2>1, <2>2, <2>3, <3>3
      <4>2. c[i - Len(d)] = n[k + i]
        BY <1>1, <4>1
      <4>3. ~(i <= Len(d))
        BY <1>1, <2>1, <2>3, <3>3
      <4>4. a[i] = n[k + i]
        BY <2>2, <4>1
      <4>5. (d \o c)[i] = c[i - Len(d)]
        BY <3>1, <4>3, Zenon
      <4> QED
        BY <4>2, <4>4, <4>5, Zenon
    <3>4. i <= Len(d) \/ i > Len(d)
      BY <1>1, <2>1, <2>3
    <3> QED
      BY <3>2, <3>3, <3>4, Zenon
  <2> QED
    BY <2>2, <2>4, <2>5, SeqEqual DEF a, d
<1>4. SubSeq(n, 1, Len(l)) = l
  <2>1. Len(l) \in 0..Len(l)
    BY <1>1
  <2> QED
    BY <1>2, <2>1, SubSeqFull
<1>5. SubSeq(n, Len(l) + 1, Len(n)) = c
  <2>1. Len(l) \in 0..Len(n)
    BY <1>1
  <2>2. /\ SubSeq(n, Len(l) + 1, Len(n)) \in Seq(Byte)
        /\ Len(SubSeq(n, Len(l) + 1, Len(n))) = Len(n) - Len(l)
        /\ \A i \in 1..(Len(n) - Len(l)) : SubSeq(n, Len(l) + 1, Len(n))[i] = n[Len(l) + i]
    BY <1>1, <2>1, Cut
  <2>3. Len(n) - Len(l) = Len(c)
    BY <1>1
  <2> QED
    BY <1>1, <2>2, <2>3, SeqEqual
<1> QED
  BY <1>1, <1>2, <1>3, <1>4, <1>5 DEF n
=============================================================================
