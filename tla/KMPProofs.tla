------------------------------ MODULE KMPProofs ------------------------------
(***************************************************************************)
(* The matcher of kmp/kmp.h is right for every pattern and every text: its *)
(* table holds the longest proper border of every prefix, and Match finds  *)
(* the pattern exactly if it is there.  Both loops fall back in the same   *)
(* way, so both rest on one lemma about a fallback (FallbackIsLargest) and *)
(* one about a byte that is read (ByteKeepsLongest).                       *)
(***************************************************************************)
EXTENDS KMP, CommonLemmas

\* The last n of the first i elements of s are the first n of p.
Agree(p, n, s, i) == \A m \in 1..n : p[m] = s[i - n + m]

\* k is the largest such n, up to a bound.
Longest(p, s, i, bound, k) ==
  /\ k \in 0..bound /\ k <= i /\ Agree(p, k, s, i)
  /\ \A n \in 0..bound : n <= i /\ Agree(p, n, s, i) => n <= k

\* The table is right for the prefixes of p up to length k.
RightUpTo(p, table, k) == \A j \in 1..k : Longest(p, p, j, j - 1, table[j - 1])

\* The n from which byte goes on, among k and the borders of the first k
\* elements of p, or 0.
GoingOn(p, k, byte) == {n \in 0..k : n = 0 \/ (Agree(p, n, p, k) /\ p[n + 1] = byte)}
Largest(p, k, byte) ==
  CHOOSE n \in GoingOn(p, k, byte) : \A m \in GoingOn(p, k, byte) : m <= n

\* There is a longest one, and only one.
LEMMA LongestExists ==
  ASSUME NEW p, NEW s, NEW i \in Nat, NEW bound \in Nat
  PROVE  /\ \E k : Longest(p, s, i, bound, k)
         /\ \A k, l : Longest(p, s, i, bound, k) /\ Longest(p, s, i, bound, l) => k = l
<1> DEFINE S == {n \in 0..bound : n <= i /\ Agree(p, n, s, i)}
<1>1. S \subseteq Nat /\ \A n \in S : n <= bound
  OBVIOUS
<1>2. 0 \in S
  BY DEF Agree
<1>3. PICK k \in S : \A n \in S : n <= k
  <2> HIDE DEF S
  <2> QED
    BY <1>1, <1>2, GreatestElement
<1>4. Longest(p, s, i, bound, k)
  BY <1>3 DEF Longest
<1>5. ASSUME NEW m, NEW n, Longest(p, s, i, bound, m), Longest(p, s, i, bound, n)
      PROVE  m = n
  <2>1. m \in 0..bound /\ n \in 0..bound /\ m <= n /\ n <= m
    BY <1>5 DEF Longest
  <2> QED
    BY <2>1
<1> QED
  BY <1>4, <1>5

\* Some border goes on with the byte or the answer is the empty one, so the largest
\* defined by CHOOSE exists and is the only one.
LEMMA LargestExists ==
  ASSUME NEW p, NEW k \in Nat, NEW byte
  PROVE  /\ Largest(p, k, byte) \in GoingOn(p, k, byte)
         /\ \A m \in GoingOn(p, k, byte) : m <= Largest(p, k, byte)
         /\ \A n \in GoingOn(p, k, byte) :
              (\A m \in GoingOn(p, k, byte) : m <= n) => n = Largest(p, k, byte)
<1> DEFINE S == GoingOn(p, k, byte)
<1>1. S \subseteq Nat /\ 0 \in S /\ \A n \in S : n <= k
  BY DEF GoingOn
<1>2. \E x \in S : \A y \in S : y <= x
  <2> HIDE DEF S
  <2> QED
    BY <1>1, GreatestElement
<1>3. Largest(p, k, byte) \in S /\ \A m \in S : m <= Largest(p, k, byte)
  BY <1>2 DEF Largest
<1>4. ASSUME NEW n \in S, \A m \in S : m <= n PROVE n = Largest(p, k, byte)
  <2>1. n <= Largest(p, k, byte) /\ Largest(p, k, byte) <= n
    BY <1>3, <1>4
  <2>2. n \in Nat /\ Largest(p, k, byte) \in Nat
    BY <1>1, <1>3
  <2> QED
    BY <2>1, <2>2
<1> QED
  BY <1>3, <1>4

\* A prefix of p agrees with itself, and a border of a border is a border.
LEMMA AgreeWithin ==
  ASSUME NEW p, NEW s, NEW i \in Nat, NEW k \in Nat, Agree(p, k, s, i)
  PROVE  /\ Agree(p, k, p, k)
         /\ \A n \in 0..k : Agree(p, n, s, i) <=> Agree(p, n, p, k)
<1>1. Agree(p, k, p, k)
  <2>1. \A m \in 1..k : k - k + m = m
    OBVIOUS
  <2> QED
    BY <2>1 DEF Agree
<1>2. ASSUME NEW n \in 0..k PROVE Agree(p, n, s, i) <=> Agree(p, n, p, k)
  <2>1. ASSUME NEW m \in 1..n PROVE p[k - n + m] = s[i - n + m]
    <3>1. k - n + m \in 1..k /\ i - k + (k - n + m) = i - n + m
      OBVIOUS
    <3>2. p[k - n + m] = s[i - k + (k - n + m)]
      BY <3>1 DEF Agree
    <3> QED
      BY <3>1, <3>2
  <2> QED
    BY <2>1 DEF Agree
<1> QED
  BY <1>1, <1>2

\* One step down the table loses none of them.
LEMMA LargestSteps ==
  ASSUME NEW p, NEW table, NEW k \in Nat, RightUpTo(p, table, k), NEW byte, NEW j \in 0..k
  PROVE  /\ j = 0 \/ p[j + 1] = byte => Largest(p, j, byte) = j
         /\ ~(j = 0 \/ p[j + 1] = byte) =>
              /\ table[j - 1] \in 0..(j - 1)
              /\ Largest(p, j, byte) = Largest(p, table[j - 1], byte)
<1>1. j \in Nat /\ Agree(p, 0, p, 0) /\ Agree(p, 0, p, j)
  BY DEF Agree
<1>2. ASSUME j = 0 \/ p[j + 1] = byte PROVE Largest(p, j, byte) = j
  <2>1. Agree(p, j, p, j)
    <3>1. \A m \in 1..j : j - j + m = m
      OBVIOUS
    <3> QED
      BY <3>1 DEF Agree
  <2>2. j \in GoingOn(p, j, byte) /\ \A m \in GoingOn(p, j, byte) : m <= j
    BY <1>2, <2>1 DEF GoingOn
  <2> QED
    BY <1>1, <2>2, LargestExists
<1>3. ASSUME ~(j = 0 \/ p[j + 1] = byte)
      PROVE  /\ table[j - 1] \in 0..(j - 1)
             /\ Largest(p, j, byte) = Largest(p, table[j - 1], byte)
  <2> DEFINE t == table[j - 1]
  <2>1. j \in 1..k /\ Longest(p, p, j, j - 1, t)
    BY <1>3 DEF RightUpTo
  <2>2. t \in 0..(j - 1) /\ t \in Nat /\ Agree(p, t, p, j)
    BY <2>1 DEF Longest
  <2>3. ASSUME NEW n \in 0..j, n = 0 \/ (Agree(p, n, p, j) /\ p[n + 1] = byte)
        PROVE  n \in 0..t
    <3>1. n # j
      BY <1>3, <2>3
    <3>2. n \in 0..(j - 1) /\ n <= j
      BY <3>1
    <3> QED
      BY <2>1, <2>2, <2>3, <3>2 DEF Longest
  <2>4. \A n \in 0..t : Agree(p, n, p, j) <=> Agree(p, n, p, t)
    BY <1>1, <2>2, AgreeWithin
  <2>5. 0..t \subseteq 0..j
    BY <2>2
  <2> HIDE DEF t
  <2>6. GoingOn(p, j, byte) = GoingOn(p, t, byte)
    BY <2>3, <2>4, <2>5 DEF GoingOn
  <2> QED
    BY <2>2, <2>6 DEF Largest, t
<1> QED
  BY <1>2, <1>3

\* d is the function down of Fallback.
Downs(p, table, k, byte, d) ==
  d = [j \in 0..k |-> IF j = 0 \/ p[j + 1] = byte THEN j ELSE d[table[j - 1]]]

\* A fallback ends at the largest border that byte goes on from.
LEMMA FallbackIsLargest ==
  ASSUME NEW p, NEW table, NEW k \in Nat, RightUpTo(p, table, k), NEW byte
  PROVE  Fallback(p, table, k, byte) = Largest(p, k, byte)
<1> DEFINE w == [j \in 0..k |-> Largest(p, j, byte)]
<1>1. Downs(p, table, k, byte, w)
  <2>1. ASSUME NEW j \in 0..k
        PROVE  w[j] = IF j = 0 \/ p[j + 1] = byte THEN j ELSE w[table[j - 1]]
    <3>1. CASE j = 0 \/ p[j + 1] = byte
      BY <3>1, LargestSteps
    <3>2. CASE ~(j = 0 \/ p[j + 1] = byte)
      <4>1. table[j - 1] \in 0..(j - 1) /\ Largest(p, j, byte) = Largest(p, table[j - 1], byte)
        BY <3>2, LargestSteps
      <4>2. table[j - 1] \in 0..k
        BY <4>1
      <4> QED
        BY <3>2, <4>1, <4>2
    <3> QED
      BY <3>1, <3>2
  <2> QED
    BY <2>1 DEF Downs
<1>2. Fallback(p, table, k, byte) = (CHOOSE d : Downs(p, table, k, byte, d))[k]
  BY DEF Fallback, Downs
<1>3. PICK d : Downs(p, table, k, byte, d) /\ Fallback(p, table, k, byte) = d[k]
  BY <1>1, <1>2
<1> DEFINE S == {j \in Nat : j <= k => d[j] = Largest(p, j, byte)}
<1>4. ASSUME NEW j \in Nat, \A m \in 0..(j - 1) : m \in S PROVE j \in S
  <2> SUFFICES ASSUME j <= k PROVE d[j] = Largest(p, j, byte)
    OBVIOUS
  <2>1. j \in 0..k
    OBVIOUS
  <2>2. d[j] = IF j = 0 \/ p[j + 1] = byte THEN j ELSE d[table[j - 1]]
    BY <1>3, <2>1 DEF Downs
  <2>3. CASE j = 0 \/ p[j + 1] = byte
    BY <2>1, <2>2, <2>3, LargestSteps
  <2>4. CASE ~(j = 0 \/ p[j + 1] = byte)
    <3>1. table[j - 1] \in 0..(j - 1) /\ Largest(p, j, byte) = Largest(p, table[j - 1], byte)
      BY <2>1, <2>4, LargestSteps
    <3>2. d[table[j - 1]] = Largest(p, table[j - 1], byte)
      BY <1>4, <3>1
    <3> QED
      BY <2>2, <2>4, <3>1, <3>2
  <2> QED
    BY <2>3, <2>4
<1>5. \A j \in Nat : j \in S
  <2> HIDE DEF S
  <2> QED
    BY <1>4, InductionFromBelow
<1> QED
  BY <1>3, <1>5

\* A byte is read: the longest prefix that ends before it gives, by a fallback
\* and a test, the longest that ends behind it.
LEMMA ByteKeepsLongest ==
  ASSUME NEW p, NEW s, NEW table, NEW i \in Nat, NEW bound \in Nat, NEW k,
         Longest(p, s, i, bound, k), RightUpTo(p, table, k)
  PROVE  Longest(p, s, i + 1, bound + 1, Extend(p, Fallback(p, table, k, s[i + 1]), s[i + 1]))
<1> DEFINE byte == s[i + 1]
           r == Largest(p, k, byte)
           e == Extend(p, r, byte)
<1>1. k \in Nat /\ k <= bound /\ k <= i /\ Agree(p, k, s, i)
  BY DEF Longest
<1>2. Fallback(p, table, k, byte) = r
  BY <1>1, FallbackIsLargest
<1>3. /\ r \in 0..k /\ (r = 0 \/ (Agree(p, r, p, k) /\ p[r + 1] = byte))
      /\ \A n \in 0..k : Agree(p, n, p, k) /\ p[n + 1] = byte => n <= r
  <2>1. r \in GoingOn(p, k, byte) /\ \A m \in GoingOn(p, k, byte) : m <= r
    BY <1>1, LargestExists
  <2> HIDE DEF r, byte
  <2> QED
    BY <2>1 DEF GoingOn
<1>4. \A n \in 0..k : Agree(p, n, s, i) <=> Agree(p, n, p, k)
  BY <1>1, AgreeWithin
\* n + 1 elements agree behind the byte exactly if n do before it and it fits.
<1>5. ASSUME NEW n \in Nat
      PROVE  Agree(p, n + 1, s, i + 1) <=> Agree(p, n, s, i) /\ p[n + 1] = byte
  <2>1. \A m \in 1..n : (i + 1) - (n + 1) + m = i - n + m
    OBVIOUS
  <2>2. (i + 1) - (n + 1) + (n + 1) = i + 1
    OBVIOUS
  <2>3. \A m \in 1..(n + 1) : m \in 1..n \/ m = n + 1
    OBVIOUS
  <2>4. 1..n \subseteq 1..(n + 1) /\ n + 1 \in 1..(n + 1)
    OBVIOUS
  <2> QED
    BY <2>1, <2>2, <2>3, <2>4 DEF Agree
<1>6. Agree(p, r, s, i)
  <2>1. r = 0 => Agree(p, r, s, i)
    BY DEF Agree
  <2> HIDE DEF r
  <2> QED
    BY <1>3, <1>4, <2>1
<1>7. e \in 0..(bound + 1) /\ e <= i + 1 /\ Agree(p, e, s, i + 1)
  <2>1. CASE p[r + 1] = byte
    <3>1. e = r + 1
      BY <2>1 DEF Extend
    <3> HIDE DEF e, r, byte
    <3> QED
      BY <1>1, <1>3, <1>5, <1>6, <2>1, <3>1
  <2>2. CASE p[r + 1] # byte
    <3>1. e = r
      BY <2>2 DEF Extend
    <3>2. r = 0 /\ Agree(p, 0, s, i + 1)
      BY <1>3, <2>2 DEF Agree
    <3> HIDE DEF e, r, byte
    <3> QED
      BY <1>1, <3>1, <3>2
  <2> QED
    BY <2>1, <2>2
<1>8. ASSUME NEW n \in 0..(bound + 1), n <= i + 1, Agree(p, n, s, i + 1)
      PROVE  n <= e
  <2>1. e \in Nat /\ (p[r + 1] = byte => e = r + 1) /\ r \in Nat
    <3>1. r \in Nat
      BY <1>1, <1>3
    <3> QED
      BY <3>1 DEF Extend
  <2>2. CASE n = 0
    BY <2>1, <2>2
  <2>3. CASE n # 0
    <3>1. n - 1 \in Nat /\ n - 1 \in 0..bound /\ n - 1 <= i /\ (n - 1) + 1 = n
      <4> HIDE DEF e, r, byte
      <4> QED
        BY <1>8, <2>3
    <3>2. Agree(p, n - 1, s, i) /\ p[n] = byte
      BY <1>5, <1>8, <3>1
    <3>3. n - 1 <= k
      BY <3>1, <3>2 DEF Longest
    <3>4. n - 1 \in 0..k
      BY <1>1, <3>1, <3>3
    <3>5. n - 1 <= r /\ Agree(p, n - 1, p, k)
      BY <1>3, <1>4, <3>1, <3>2, <3>4
    <3>6. p[r + 1] = byte
      <4>1. CASE r = 0
        <5>1. n - 1 = 0
          BY <3>1, <3>5, <4>1
        <5> HIDE DEF r, byte
        <5> QED
          BY <3>1, <3>2, <4>1, <5>1
      <4>2. CASE r # 0
        BY <1>3, <4>2
      <4> QED
        BY <4>1, <4>2
    <3> HIDE DEF e, r
    <3> QED
      BY <2>1, <3>1, <3>5, <3>6
  <2> QED
    BY <2>2, <2>3
<1> HIDE DEF e, r, byte
<1>9. Longest(p, s, i + 1, bound + 1, e)
  BY <1>7, <1>8 DEF Longest
<1> QED
  BY <1>2, <1>9 DEF e, byte

\* table satisfies the equation of the constructor.
Fills(p, table) ==
  table = [i \in 0..(Len(p) - 1) |->
             IF i = 0 THEN 0
             ELSE Extend(p, Fallback(p, table, table[i - 1], p[i + 1]), p[i + 1])]

\* The constructor of KMPAlgorithm fills the table with the longest proper
\* border of every prefix of the pattern.
LEMMA TableIsRight ==
  ASSUME NEW p, Len(p) \in Nat \ {0}
  PROVE  RightUpTo(p, LpsTable(p), Len(p))
<1> DEFINE w == [i \in 0..(Len(p) - 1) |-> CHOOSE k : Longest(p, p, i + 1, i, k)]
\* An element that follows right ones is right, by the same step as in Match.
<1>1. ASSUME NEW table, NEW i \in 1..(Len(p) - 1), RightUpTo(p, table, i)
      PROVE  Longest(p, p, i + 1, i, Extend(p, Fallback(p, table, table[i - 1], p[i + 1]), p[i + 1]))
  <2>1. i \in 1..i /\ i \in Nat /\ i - 1 \in Nat /\ (i - 1) + 1 = i
    OBVIOUS
  <2>2. Longest(p, p, i, i - 1, table[i - 1])
    BY <1>1, <2>1 DEF RightUpTo
  <2>3. table[i - 1] \in 0..(i - 1)
    BY <2>2 DEF Longest
  <2>4. RightUpTo(p, table, table[i - 1])
    <3>1. 1..table[i - 1] \subseteq 1..i
      BY <2>3
    <3> QED
      BY <1>1, <3>1 DEF RightUpTo
  <2> QED
    BY <2>1, <2>2, <2>4, ByteKeepsLongest
\* And so is the first.
<1>2. Longest(p, p, 1, 0, 0)
  BY DEF Longest, Agree
<1>3. \A i \in 0..(Len(p) - 1) : Longest(p, p, i + 1, i, w[i])
  BY LongestExists
<1>4. Fills(p, w)
  <2>1. \A i \in 0..(Len(p) - 1) : RightUpTo(p, w, i)
    <3> SUFFICES ASSUME NEW i \in 0..(Len(p) - 1), NEW j \in 1..i
                 PROVE  Longest(p, p, j, j - 1, w[j - 1])
      BY DEF RightUpTo
    <3>1. j - 1 \in 0..(Len(p) - 1) /\ (j - 1) + 1 = j
      OBVIOUS
    <3> HIDE DEF w
    <3> QED
      BY <1>3, <3>1
  <2>2. ASSUME NEW i \in 0..(Len(p) - 1)
        PROVE  w[i] = IF i = 0 THEN 0
                      ELSE Extend(p, Fallback(p, w, w[i - 1], p[i + 1]), p[i + 1])
    <3>1. Longest(p, p, i + 1, i, w[i]) /\ i \in Nat /\ i + 1 \in Nat
      BY <1>3
    <3>2. CASE i = 0
      <4>1. Longest(p, p, 1, 0, w[0])
        BY <3>1, <3>2
      <4> HIDE DEF w
      <4> QED
        BY <1>2, <3>2, <4>1, LongestExists
    <3>3. CASE i # 0
      <4> HIDE DEF w
      <4>1. i \in 1..(Len(p) - 1)
        BY <3>3
      <4>2. Longest(p, p, i + 1, i, Extend(p, Fallback(p, w, w[i - 1], p[i + 1]), p[i + 1]))
        BY <1>1, <2>1, <4>1
      <4> QED
        BY <3>1, <3>3, <4>2, LongestExists
    <3> QED
      BY <3>2, <3>3
  <2>3. w = [i \in 0..(Len(p) - 1) |-> w[i]]
    OBVIOUS
  <2> HIDE DEF w
  <2> QED
    BY <2>2, <2>3 DEF Fills
<1>5. LpsTable(p) = CHOOSE table : Fills(p, table)
  BY DEF LpsTable, Fills
<1>6. Fills(p, LpsTable(p))
  <2> HIDE DEF w
  <2> QED
    BY <1>4, <1>5
<1> DEFINE t == LpsTable(p)
           S == {i \in Nat : i < Len(p) => Longest(p, p, i + 1, i, t[i])}
<1> HIDE DEF w, t
<1>7. ASSUME NEW i \in Nat, \A m \in 0..(i - 1) : m \in S PROVE i \in S
  <2> SUFFICES ASSUME i < Len(p) PROVE Longest(p, p, i + 1, i, t[i])
    OBVIOUS
  <2>1. i \in 0..(Len(p) - 1)
    OBVIOUS
  <2>2. t[i] = IF i = 0 THEN 0 ELSE Extend(p, Fallback(p, t, t[i - 1], p[i + 1]), p[i + 1])
    BY <1>6, <2>1 DEF Fills, t
  <2>3. CASE i = 0
    BY <1>2, <2>2, <2>3
  <2>4. CASE i # 0
    <3>1. RightUpTo(p, t, i)
      <4> SUFFICES ASSUME NEW j \in 1..i PROVE Longest(p, p, j, j - 1, t[j - 1])
        BY DEF RightUpTo
      <4>1. j - 1 \in 0..(i - 1) /\ (j - 1) + 1 = j /\ j - 1 < Len(p)
        BY <2>1
      <4> QED
        BY <1>7, <4>1
    <3>2. i \in 1..(Len(p) - 1)
      BY <2>1, <2>4
    <3> QED
      BY <1>1, <2>2, <2>4, <3>1, <3>2
  <2> QED
    BY <2>3, <2>4
<1>8. \A i \in Nat : i \in S
  <2> HIDE DEF S
  <2> QED
    BY <1>7, InductionFromBelow
<1>9. ASSUME NEW j \in 1..Len(p) PROVE Longest(p, p, j, j - 1, t[j - 1])
  <2>1. j - 1 \in Nat /\ j - 1 < Len(p) /\ (j - 1) + 1 = j
    OBVIOUS
  <2> QED
    BY <1>8, <2>1
<1> QED
  BY <1>9 DEF RightUpTo, t

-----------------------------------------------------------------------------
(* Match. *)

\* The inductive invariant.
IInv ==
  /\ pattern \in Patterns /\ text \in Texts
  /\ lps_table = LpsTable(pattern)
  /\ idx \in 0..Len(text)
  /\ Longest(pattern, text, idx, Len(pattern), match_pos)
  /\ match_pos = Len(pattern) => returned = match_pos
  /\ match_pos # Len(pattern) => returned \in {Running, INVALID_POS}
  /\ returned = INVALID_POS => idx = Len(text)
  \* no occurrence ends before idx
  /\ \A at \in 0..Len(text) :
       at + Len(pattern) <= Len(text) /\ Agree(pattern, Len(pattern), text, at + Len(pattern))
         => idx <= at + Len(pattern)

\* What the inputs are.
LEMMA InputFacts ==
  ASSUME pattern \in Patterns, text \in Texts
  PROVE  /\ pattern \in Seq(Byte) /\ text \in Seq(Byte)
         /\ Len(pattern) \in Nat \ {0} /\ Len(text) \in Nat
BY InputsAssumption, EmptySeq, LenProperties

\* A prefix of the pattern is a suffix of what was read if the two agree.
LEMMA SuffixAgrees ==
  ASSUME pattern \in Patterns, text \in Texts, NEW n \in 0..Len(pattern), NEW i \in 0..Len(text)
  PROVE  IsSuffix(Prefix(pattern, n), Prefix(text, i)) <=> n <= i /\ Agree(pattern, n, text, i)
<1> DEFINE a == Prefix(pattern, n)
           b == Prefix(text, i)
<1>1. /\ pattern \in Seq(Byte) /\ text \in Seq(Byte) /\ n \in Nat /\ i \in Nat
      /\ Len(pattern) \in Nat /\ Len(text) \in Nat
  BY InputFacts
<1>2. /\ a \in Seq(Byte) /\ Len(a) = n /\ \A m \in 1..n : a[m] = pattern[m]
  <2>1. \A m \in 1..n : pattern[m] \in Byte
    BY <1>1, ElementOfSeq
  <2>2. 1 \in Int /\ n \in Int
    BY <1>1
  <2>3. /\ SubSeq(pattern, 1, n) \in Seq(Byte)
        /\ Len(SubSeq(pattern, 1, n)) = IF 1 <= n THEN n - 1 + 1 ELSE 0
        /\ \A m \in 1..(n - 1 + 1) : SubSeq(pattern, 1, n)[m] = pattern[1 + m - 1]
    BY <2>1, <2>2, SubSeqProperties
  <2> QED
    BY <1>1, <2>3 DEF Prefix
<1>3. /\ b \in Seq(Byte) /\ Len(b) = i /\ \A m \in 1..i : b[m] = text[m]
  <2>1. \A m \in 1..i : text[m] \in Byte
    BY <1>1, ElementOfSeq
  <2>2. 1 \in Int /\ i \in Int
    BY <1>1
  <2>3. /\ SubSeq(text, 1, i) \in Seq(Byte)
        /\ Len(SubSeq(text, 1, i)) = IF 1 <= i THEN i - 1 + 1 ELSE 0
        /\ \A m \in 1..(i - 1 + 1) : SubSeq(text, 1, i)[m] = text[1 + m - 1]
    BY <2>1, <2>2, SubSeqProperties
  <2> QED
    BY <1>1, <2>3 DEF Prefix
<1> DEFINE ra == Reverse(a)
           rb == Reverse(b)
<1>4. /\ ra = [m \in 1..n |-> a[(n - m) + 1]] /\ rb = [m \in 1..i |-> b[(i - m) + 1]]
      /\ Len(ra) = n /\ Len(rb) = i
  <2> HIDE DEF a, b
  <2>1. ra = [m \in 1..n |-> a[(n - m) + 1]] /\ rb = [m \in 1..i |-> b[(i - m) + 1]]
    BY <1>2, <1>3 DEF Reverse
  <2> HIDE DEF ra, rb
  <2> QED
    BY <1>1, <2>1
<1>5. \A m \in 1..n : ra[m] = pattern[(n - m) + 1] /\ ra[m] \in Byte
  <2> SUFFICES ASSUME NEW m \in 1..n PROVE ra[m] = pattern[(n - m) + 1] /\ ra[m] \in Byte
    OBVIOUS
  <2>1. (n - m) + 1 \in 1..n /\ (n - m) + 1 \in 1..Len(pattern)
    BY <1>1
  <2>2. pattern[(n - m) + 1] \in Byte
    BY <1>1, <2>1, ElementOfSeq
  <2> HIDE DEF a, ra
  <2> QED
    BY <1>2, <1>4, <2>1, <2>2
<1>6. \A m \in 1..i : rb[m] = text[(i - m) + 1] /\ rb[m] \in Byte
  <2> SUFFICES ASSUME NEW m \in 1..i PROVE rb[m] = text[(i - m) + 1] /\ rb[m] \in Byte
    OBVIOUS
  <2>1. (i - m) + 1 \in 1..i /\ (i - m) + 1 \in 1..Len(text)
    BY <1>1
  <2>2. text[(i - m) + 1] \in Byte
    BY <1>1, <2>1, ElementOfSeq
  <2> HIDE DEF b, rb
  <2> QED
    BY <1>3, <1>4, <2>1, <2>2
<1>7. IsSuffix(a, b) <=> n <= i /\ SubSeq(ra, 1, n) = SubSeq(rb, 1, n)
  <2> HIDE DEF a, b
  <2> QED
    BY <1>4 DEF IsSuffix, IsPrefix
<1> HIDE DEF ra, rb
<1>8. ASSUME n <= i
      PROVE  SubSeq(ra, 1, n) = SubSeq(rb, 1, n) <=> \A m \in 1..n : ra[m] = rb[m]
  <2>1. 1..n \subseteq 1..i /\ 1 \in Int /\ n \in Int
    BY <1>1, <1>8
  <2>2. /\ SubSeq(ra, 1, n) \in Seq(Byte)
        /\ Len(SubSeq(ra, 1, n)) = IF 1 <= n THEN n - 1 + 1 ELSE 0
        /\ \A m \in 1..(n - 1 + 1) : SubSeq(ra, 1, n)[m] = ra[1 + m - 1]
    BY <1>5, <2>1, SubSeqProperties
  <2>3. /\ SubSeq(rb, 1, n) \in Seq(Byte)
        /\ Len(SubSeq(rb, 1, n)) = IF 1 <= n THEN n - 1 + 1 ELSE 0
        /\ \A m \in 1..(n - 1 + 1) : SubSeq(rb, 1, n)[m] = rb[1 + m - 1]
    BY <1>6, <2>1, SubSeqProperties
  <2> DEFINE x == SubSeq(ra, 1, n)
             y == SubSeq(rb, 1, n)
  <2>4. /\ Len(x) = n /\ Len(y) = n /\ x \in Seq(Byte) /\ y \in Seq(Byte)
        /\ \A m \in 1..n : x[m] = ra[m] /\ y[m] = rb[m]
    <3> HIDE DEF a, b
    <3> QED
      BY <1>1, <2>2, <2>3
  <2> HIDE DEF x, y
  <2>5. x = y <=> \A m \in 1..n : x[m] = y[m]
    BY <2>4, SeqEqual
  <2> QED
    BY <2>4, <2>5 DEF x, y
\* Reading from the end and reading from the front is the same.
<1>9. ASSUME n <= i
      PROVE  (\A m \in 1..n : ra[m] = rb[m]) <=> Agree(pattern, n, text, i)
  <2>1. \A m \in 1..n : /\ (n - m) + 1 \in 1..n /\ (n - ((n - m) + 1)) + 1 = m
                        /\ i - n + m = (i - ((n - m) + 1)) + 1
                        /\ i - n + ((n - m) + 1) = (i - m) + 1 /\ m \in 1..i
    BY <1>1, <1>9
  <2>2. \A m \in 1..n : ra[m] = pattern[(n - m) + 1] /\ rb[m] = text[(i - m) + 1]
    BY <1>5, <1>6, <2>1
  <2>3. \A m \in 1..n : (n - m) + 1 \in 1..n
    BY <2>1
  <2>4. ASSUME \A m \in 1..n : ra[m] = rb[m], NEW m \in 1..n PROVE pattern[m] = text[i - n + m]
    <3>1. ra[(n - m) + 1] = rb[(n - m) + 1]
      BY <2>3, <2>4
    <3>2. ra[(n - m) + 1] = pattern[m]
      BY <2>1, <2>2
    <3>3. rb[(n - m) + 1] = text[i - n + m]
      BY <2>1, <2>2
    <3> QED
      BY <3>1, <3>2, <3>3
  <2>5. ASSUME Agree(pattern, n, text, i), NEW m \in 1..n PROVE ra[m] = rb[m]
    <3>1. pattern[(n - m) + 1] = text[i - n + ((n - m) + 1)]
      BY <2>3, <2>5 DEF Agree
    <3> QED
      BY <2>1, <2>2, <3>1
  <2> QED
    BY <2>4, <2>5 DEF Agree
<1> QED
  BY <1>7, <1>8, <1>9

\* The pattern occurs where its whole length agrees with the text.
LEMMA OccursAgrees ==
  ASSUME pattern \in Patterns, text \in Texts, NEW at \in 0..Len(text)
  PROVE  Occurs(at) <=> /\ at + Len(pattern) <= Len(text)
                        /\ Agree(pattern, Len(pattern), text, at + Len(pattern))
<1> DEFINE size == Len(pattern)
           x == SubSeq(text, at + 1, at + Len(pattern))
<1>1. /\ pattern \in Seq(Byte) /\ text \in Seq(Byte) /\ at \in Nat
      /\ size \in Nat \ {0} /\ Len(text) \in Nat
  BY InputFacts
<1> SUFFICES ASSUME at + size <= Len(text)
             PROVE  x = pattern <=> Agree(pattern, size, text, at + size)
  BY DEF Occurs
<1>2. \A m \in (at + 1)..(at + size) : text[m] \in Byte
  <2>1. (at + 1)..(at + size) \subseteq 1..Len(text)
    BY <1>1
  <2> QED
    BY <1>1, <2>1, ElementOfSeq
<1>3. at + 1 \in Int /\ at + size \in Int /\ (at + size) - (at + 1) + 1 = size
  BY <1>1
<1>4. /\ x \in Seq(Byte) /\ Len(x) = size
      /\ \A m \in 1..size : x[m] = text[(at + 1) + m - 1]
  <2>1. /\ x \in Seq(Byte)
        /\ Len(x) = IF at + 1 <= at + size THEN (at + size) - (at + 1) + 1 ELSE 0
        /\ \A m \in 1..((at + size) - (at + 1) + 1) : x[m] = text[(at + 1) + m - 1]
    BY <1>2, <1>3, SubSeqProperties
  <2> HIDE DEF x
  <2>2. at + 1 <= at + size
    BY <1>1
  <2> QED
    BY <1>3, <2>1, <2>2
<1> HIDE DEF x
<1>5. x = pattern <=> \A m \in 1..size : x[m] = pattern[m]
  BY <1>1, <1>4, SeqEqual
<1>6. \A m \in 1..size : (at + 1) + m - 1 = (at + size) - size + m
  BY <1>1
<1>7. \A m \in 1..size : x[m] = text[(at + size) - size + m]
  BY <1>4, <1>6
<1> QED
  BY <1>5, <1>7 DEF Agree

\* The matcher starts with nothing matched.
LEMMA InitHolds == Init => IInv
<1> SUFFICES ASSUME Init PROVE IInv
  OBVIOUS
<1>1. Len(pattern) \in Nat \ {0} /\ Len(text) \in Nat
  BY InputFacts DEF Init
<1>2. Longest(pattern, text, 0, Len(pattern), 0)
  BY <1>1 DEF Longest, Agree
<1> QED
  BY <1>1, <1>2 DEF Init, IInv, Running, INVALID_POS

\* A turn of the loop keeps match_pos the longest.
LEMMA ReadByteKeeps == IInv /\ ReadByte => IInv'
<1> SUFFICES ASSUME IInv, ReadByte PROVE IInv'
  OBVIOUS
<1> DEFINE size == Len(pattern)
           byte == text[idx + 1]
           next == Extend(pattern, Fallback(pattern, lps_table, match_pos, byte), byte)
<1>1. /\ pattern' = pattern /\ text' = text /\ lps_table' = lps_table /\ idx' = idx + 1
      /\ match_pos' = next /\ returned = Running /\ idx < Len(text)
      /\ returned' = IF next = size THEN next ELSE Running
  BY DEF ReadByte
<1>2. size \in Nat \ {0} /\ Len(text) \in Nat /\ idx \in Nat /\ idx + 1 \in 0..Len(text)
  BY <1>1, InputFacts DEF IInv
<1>3. match_pos \in 0..(size - 1) /\ Longest(pattern, text, idx, size - 1, match_pos)
  <2>1. match_pos \in 0..size /\ match_pos # size
    BY <1>1, <1>2 DEF IInv, Longest, Running
  <2>2. 0..(size - 1) \subseteq 0..size /\ match_pos \in 0..(size - 1)
    BY <1>2, <2>1
  <2> QED
    BY <2>2 DEF IInv, Longest
<1>4. RightUpTo(pattern, lps_table, match_pos)
  <2>1. RightUpTo(pattern, lps_table, size)
    BY <1>2, TableIsRight DEF IInv
  <2>2. 1..match_pos \subseteq 1..size
    BY <1>2, <1>3
  <2> QED
    BY <2>1, <2>2 DEF RightUpTo
<1>5. Longest(pattern, text, idx + 1, size, next)
  <2>1. size - 1 \in Nat /\ (size - 1) + 1 = size
    BY <1>2
  <2> QED
    BY <1>2, <1>3, <1>4, <2>1, ByteKeepsLongest
<1>6. ASSUME NEW at \in 0..Len(text), at + size <= Len(text), Agree(pattern, size, text, at + size)
      PROVE  idx + 1 <= at + size
  <2>1. idx <= at + size
    BY <1>6 DEF IInv
  <2>2. idx # at + size
    <3> SUFFICES ASSUME idx = at + size PROVE FALSE
      OBVIOUS
    <3>1. size <= match_pos
      <4>1. size \in 0..size /\ size <= idx /\ Agree(pattern, size, text, idx)
        BY <1>2, <1>6
      <4> QED
        BY <4>1 DEF IInv, Longest
    <3> QED
      BY <1>2, <1>3, <3>1
  <2> QED
    BY <1>2, <2>1, <2>2
<1> HIDE DEF next
<1>7. returned' = INVALID_POS => FALSE
  BY <1>1, <1>2 DEF Running, INVALID_POS
<1> QED
  BY <1>1, <1>2, <1>5, <1>6, <1>7 DEF IInv

\* The table, the text that was read and what Match has returned fit together
\* throughout, for every pattern and every text.
THEOREM Invariance == Spec => []IInv
<1>1. IInv /\ [Next]_vars => IInv'
  <2> SUFFICES ASSUME IInv, [Next]_vars PROVE IInv'
    OBVIOUS
  <2>1. CASE ReadByte
    BY <2>1, ReadByteKeeps
  <2>2. CASE GiveUp
    <3>1. Len(pattern) \in Nat \ {0} /\ match_pos # Len(pattern)
      BY <2>2, InputFacts DEF GiveUp, IInv, Running
    <3> QED
      BY <2>2, <3>1 DEF GiveUp, IInv
  <2>3. CASE UNCHANGED vars
    BY <2>3 DEF vars, IInv
  <2> QED
    BY <2>1, <2>2, <2>3 DEF Next
<1> QED
  BY <1>1, InitHolds, PTL DEF Spec

\* What Match has matched is always the longest prefix of the pattern that ends
\* where it has read to (kmp.h, the two loops and the table).
THEOREM LongestThroughout == Spec => []MatchPosIsLongest
<1>1. IInv => MatchPosIsLongest
  <2> SUFFICES ASSUME IInv, NEW n \in 0..Len(pattern), n <= idx,
                      IsSuffix(Prefix(pattern, n), Prefix(text, idx))
               PROVE  n <= match_pos /\ IsSuffix(Prefix(pattern, match_pos), Prefix(text, idx))
    BY DEF MatchPosIsLongest
  <2>1. Agree(pattern, n, text, idx)
    BY SuffixAgrees DEF IInv
  <2>2. /\ n <= match_pos /\ match_pos \in 0..Len(pattern)
        /\ match_pos <= idx /\ Agree(pattern, match_pos, text, idx)
    BY <2>1 DEF IInv, Longest
  <2> QED
    BY <2>2, SuffixAgrees DEF IInv
<1> QED
  BY <1>1, Invariance, PTL

\* Match answers right, and at the first occurrence (kmp.h, Match).
THEOREM MatchIsRight == Spec => []FoundIffOccurs
<1>1. IInv => FoundIffOccurs
  <2> SUFFICES ASSUME IInv, returned # Running PROVE FoundIffOccurs
    BY DEF FoundIffOccurs
  <2> DEFINE size == Len(pattern)
  <2>1. /\ size \in Nat \ {0} /\ Len(text) \in Nat /\ idx \in 0..Len(text)
        /\ match_pos \in 0..size /\ match_pos <= idx
    BY InputFacts DEF IInv, Longest
  <2>2. \A at \in Occurrences : /\ at \in 0..Len(text) /\ at + size <= Len(text)
                                /\ Agree(pattern, size, text, at + size) /\ idx <= at + size
    BY OccursAgrees DEF Occurrences, IInv
  <2>3. CASE match_pos = size
    <3>1. returned = size /\ returned # INVALID_POS
      BY <2>1, <2>3 DEF IInv, INVALID_POS
    <3>2. idx - size \in 0..Len(text) /\ (idx - size) + size = idx /\ Agree(pattern, size, text, idx)
      BY <2>1, <2>3 DEF IInv, Longest
    <3>3. Occurs(idx - size)
      BY <2>1, <3>2, OccursAgrees DEF IInv
    <3>4. \A at \in Occurrences : idx - size <= at
      BY <2>1, <2>2
    <3>5. idx - size \in Occurrences
      BY <3>2, <3>3 DEF Occurrences
    <3> QED
      BY <3>1, <3>3, <3>4, <3>5 DEF FoundIffOccurs
  <2>4. CASE match_pos # size
    <3>1. returned = INVALID_POS /\ idx = Len(text)
      BY <2>4 DEF IInv
    <3>2. ASSUME NEW at \in Occurrences PROVE FALSE
      <4>1. at + size = idx
        BY <2>1, <2>2, <3>1
      <4>2. size \in 0..size /\ size <= idx /\ Agree(pattern, size, text, idx)
        BY <2>1, <2>2, <4>1
      <4>3. size <= match_pos
        BY <4>2 DEF IInv, Longest
      <4> QED
        BY <2>1, <2>4, <4>3
    <3> QED
      BY <3>1, <3>2 DEF FoundIffOccurs
  <2> QED
    BY <2>3, <2>4
<1> QED
  BY <1>1, Invariance, PTL
=============================================================================
