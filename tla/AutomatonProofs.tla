--------------------------- MODULE AutomatonProofs ---------------------------
(***************************************************************************)
(* Facts about suffixes, tries and climbs along suffix links on which the  *)
(* proofs about the build of the automaton and about the probe rest.       *)
(***************************************************************************)
EXTENDS Automaton, CommonLemmas

-----------------------------------------------------------------------------
(* The proper suffixes of a whole string. *)

\* They are whole, and shorter than it; the empty one is always among them.
LEMMA SuffixType ==
  ASSUME NEW n \in Seq(Byte), WholeCodePoints(n), NEW t \in ProperSuffixes(n)
  PROVE  t \in Seq(Byte) /\ WholeCodePoints(t) /\ Len(t) < Len(n)
<1>1. PICK o \in CodePointStarts(n) \ {0} : t = SubSeq(n, o + 1, Len(n))
  BY DEF ProperSuffixes
<1>2. o \in 0..Len(n) /\ Len(n) \in Nat
  BY StartsAre
<1>3. t \in Seq(Byte) /\ Len(t) = Len(n) - o
  BY <1>1, <1>2, Cut
<1> QED
  BY <1>1, <1>2, <1>3, WholeSuffix

\* A proper suffix of a proper suffix is one, and of two the shorter is one of the longer.
LEMMA SuffixOfSuffix ==
  ASSUME NEW n \in Seq(Byte), WholeCodePoints(n), NEW t \in ProperSuffixes(n)
  PROVE  /\ ProperSuffixes(t) \subseteq ProperSuffixes(n)
         /\ \A u \in ProperSuffixes(n) : u = t \/ u \in ProperSuffixes(t) \/ Len(t) < Len(u)
<1>1. PICK o \in CodePointStarts(n) \ {0} : t = SubSeq(n, o + 1, Len(n))
  BY DEF ProperSuffixes
<1>2. o \in 0..Len(n) /\ Len(n) \in Nat /\ CodePointStarts(n) \subseteq 0..Len(n)
  BY StartsAre
<1>3. /\ t \in Seq(Byte) /\ Len(t) = Len(n) - o
      /\ \A i \in 1..(Len(n) - o) : t[i] = n[o + i]
  BY <1>1, <1>2, Cut
<1>4. CodePointStarts(t) = {x \in 0..(Len(n) - o) : x + o \in CodePointStarts(n)}
  BY <1>1, WholeSuffix
<1>5. ASSUME NEW x \in 0..(Len(n) - o)
      PROVE  SubSeq(t, x + 1, Len(t)) = SubSeq(n, (x + o) + 1, Len(n))
  <2>1. x + o \in 0..Len(n) /\ x \in 0..Len(t)
    BY <1>2, <1>3
  <2> DEFINE a == SubSeq(t, x + 1, Len(t))
             b == SubSeq(n, (x + o) + 1, Len(n))
  <2>2. a \in Seq(Byte) /\ Len(a) = Len(t) - x /\ \A i \in 1..(Len(t) - x) : a[i] = t[x + i]
    BY <1>3, <2>1, Cut
  <2>3. b \in Seq(Byte) /\ Len(b) = Len(n) - (x + o)
        /\ \A i \in 1..(Len(n) - (x + o)) : b[i] = n[(x + o) + i]
    BY <2>1, Cut
  <2> HIDE DEF a, b
  <2>4. Len(a) = Len(b)
    BY <1>2, <1>3, <2>2, <2>3
  <2>5. ASSUME NEW i \in 1..Len(a) PROVE a[i] = b[i]
    <3>1. i \in 1..(Len(t) - x) /\ i \in 1..(Len(n) - (x + o)) /\ x + i \in 1..(Len(n) - o)
          /\ o + (x + i) = (x + o) + i
      BY <1>2, <1>3, <2>2
    <3>2. a[i] = t[x + i] /\ b[i] = n[(x + o) + i] /\ t[x + i] = n[o + (x + i)]
      BY <1>3, <2>2, <2>3, <3>1
    <3> QED
      BY <3>1, <3>2
  <2> QED
    BY <2>2, <2>3, <2>4, <2>5, SeqEqual DEF a, b
<1>6. ASSUME NEW u \in ProperSuffixes(t) PROVE u \in ProperSuffixes(n)
  <2>1. PICK x \in CodePointStarts(t) \ {0} : u = SubSeq(t, x + 1, Len(t))
    BY DEF ProperSuffixes
  <2>2. x \in 0..(Len(n) - o) /\ x # 0 /\ x + o \in CodePointStarts(n)
    BY <1>4, <2>1
  <2>3. x + o # 0
    BY <1>2, <2>2
  <2>4. u = SubSeq(n, (x + o) + 1, Len(n))
    BY <1>5, <2>1, <2>2
  <2> QED
    BY <2>2, <2>3, <2>4 DEF ProperSuffixes
<1>7. ASSUME NEW u \in ProperSuffixes(n), u # t, ~(Len(t) < Len(u))
      PROVE  u \in ProperSuffixes(t)
  <2>1. PICK p \in CodePointStarts(n) \ {0} : u = SubSeq(n, p + 1, Len(n))
    BY DEF ProperSuffixes
  <2>2. p \in 0..Len(n) /\ p # o
    BY <1>1, <1>2, <1>7, <2>1
  <2>3. Len(u) = Len(n) - p
    BY <2>1, <2>2, Cut
  <2>4. p - o \in 0..(Len(n) - o) /\ p - o # 0 /\ (p - o) + o = p
    BY <1>2, <1>3, <1>7, <2>2, <2>3
  <2>5. p - o \in CodePointStarts(t)
    BY <1>4, <2>1, <2>4
  <2>6. u = SubSeq(t, (p - o) + 1, Len(t))
    BY <1>5, <2>1, <2>4
  <2> QED
    BY <2>4, <2>5, <2>6 DEF ProperSuffixes
<1> QED
  BY <1>6, <1>7

\* With a code point behind a string, the suffixes get it too, and the empty one is new.
LEMMA SuffixesOfJoin ==
  ASSUME NEW l \in Seq(Byte), WholeCodePoints(l), NEW c, IsCodePoint(c)
  PROVE  ProperSuffixes(l \o c) = {t \o c : t \in ProperSuffixes(l)} \cup {Root}
<1>1. c \in Seq(Byte) /\ Len(c) \in Nat \ {0} /\ Len(l) \in Nat
  BY DEF IsCodePoint
<1> DEFINE n == l \o c
<1>2. CodePointStarts(n) = CodePointStarts(l) \cup {Len(n)} /\ Len(n) = Len(l) + Len(c)
  BY <1>1, WholeJoin
<1>3. CodePointStarts(l) \subseteq 0..Len(l) /\ Len(l) \in CodePointStarts(l) /\ 0 \in CodePointStarts(l)
  BY <1>1, StartsAre
<1>4. n \in Seq(Byte) /\ \A k \in 0..Len(l) : SubSeq(n, k + 1, Len(n)) = SubSeq(l, k + 1, Len(l)) \o c
  BY <1>1, Joined
<1>5. SubSeq(n, Len(n) + 1, Len(n)) = Root
  <2>1. Len(n) + 1 \in Int /\ Len(n) \in Int /\ Len(n) < Len(n) + 1
    BY <1>1, <1>2
  <2> QED
    BY <2>1, SubSeqEmpty DEF Root
<1>6. Len(n) # 0 /\ Len(n) \in CodePointStarts(n)
  BY <1>1, <1>2
<1>7. Root \in ProperSuffixes(n)
  BY <1>5, <1>6 DEF ProperSuffixes
<1>8. \A t \in ProperSuffixes(l) : t \o c \in ProperSuffixes(n)
  <2> SUFFICES ASSUME NEW o \in CodePointStarts(l) \ {0}
               PROVE  SubSeq(l, o + 1, Len(l)) \o c \in ProperSuffixes(n)
    BY DEF ProperSuffixes
  <2>1. o \in CodePointStarts(n) \ {0} /\ o \in 0..Len(l)
    BY <1>2, <1>3
  <2>2. SubSeq(n, o + 1, Len(n)) = SubSeq(l, o + 1, Len(l)) \o c
    BY <1>4, <2>1
  <2> QED
    BY <2>1, <2>2 DEF ProperSuffixes
<1>9. ASSUME NEW u \in ProperSuffixes(n), u # Root PROVE \E t \in ProperSuffixes(l) : u = t \o c
  <2>1. PICK o \in CodePointStarts(n) \ {0} : u = SubSeq(n, o + 1, Len(n))
    BY DEF ProperSuffixes
  <2>2. o # Len(n)
    BY <1>5, <1>9, <2>1
  <2>3. o \in CodePointStarts(l) \ {0} /\ o \in 0..Len(l)
    BY <1>2, <1>3, <2>1, <2>2
  <2>4. u = SubSeq(l, o + 1, Len(l)) \o c
    BY <1>4, <2>1, <2>3
  <2> QED
    BY <2>3, <2>4 DEF ProperSuffixes
<1> QED
  BY <1>7, <1>8, <1>9, Zenon

\* The empty string is whole, has no proper suffix, and is one of every other whole string.
LEMMA SuffixesOfRoot ==
  /\ Root \in Seq(Byte) /\ WholeCodePoints(Root) /\ ProperSuffixes(Root) = {}
  /\ \A n \in Seq(Byte) : n # Root => Root \in ProperSuffixes(n)
<1>1. Root \in Seq(Byte) /\ Len(Root) = 0
  BY DEF Root
<1>2. AreStarts(Root, {0})
  BY <1>1 DEF AreStarts
<1>3. WholeCodePoints(Root) /\ CodePointStarts(Root) = {0}
  BY <1>1, <1>2, StartsOfWhole
<1>4. ASSUME NEW n \in Seq(Byte), n # Root PROVE Root \in ProperSuffixes(n)
  <2>1. Len(n) \in Nat \ {0}
    BY <1>4, EmptySeq DEF Root
  <2>2. Len(n) \in CodePointStarts(n) \ {0}
    BY <2>1, StartsAre
  <2>3. SubSeq(n, Len(n) + 1, Len(n)) = Root
    <3>1. Len(n) + 1 \in Int /\ Len(n) \in Int /\ Len(n) < Len(n) + 1
      BY <2>1
    <3> QED
      BY <3>1, SubSeqEmpty DEF Root
  <2> QED
    BY <2>2, <2>3 DEF ProperSuffixes
<1> QED
  BY <1>1, <1>3, <1>4 DEF ProperSuffixes

\* Of some of the proper suffixes of a whole string one is the longest.
LEMMA LongestIs ==
  ASSUME NEW n \in Seq(Byte), WholeCodePoints(n), NEW S \in SUBSET ProperSuffixes(n)
  PROVE  /\ S = {} => LongestIn(S) = Null
         /\ S # {} => LongestIn(S) \in S /\ \A r \in S : Len(r) <= Len(LongestIn(S))
         /\ \A s \in S : (\A r \in S : Len(r) <= Len(s)) => s = LongestIn(S)
<1>1. \A s \in S : s \in Seq(Byte) /\ Len(s) \in Nat /\ Len(s) <= Len(n)
  <2>1. ASSUME NEW s \in S PROVE s \in Seq(Byte) /\ Len(s) \in Nat /\ Len(s) <= Len(n)
    <3>1. s \in Seq(Byte) /\ Len(s) < Len(n)
      BY SuffixType
    <3> QED
      BY <3>1
  <2> QED
    BY <2>1
<1>2. ASSUME NEW s \in S, NEW r \in S, Len(s) = Len(r) PROVE s = r
  <2>1. r = s \/ r \in ProperSuffixes(s) \/ Len(s) < Len(r)
    BY SuffixOfSuffix
  <2>2. r \notin ProperSuffixes(s)
    <3>1. WholeCodePoints(s) /\ s \in Seq(Byte)
      BY SuffixType
    <3>2. r \in ProperSuffixes(s) => Len(r) < Len(s)
      BY <3>1, SuffixType
    <3> QED
      BY <1>1, <1>2, <3>2
  <2> QED
    BY <1>1, <1>2, <2>1, <2>2
<1>3. ASSUME S # {} PROVE \E s \in S : \A r \in S : Len(r) <= Len(s)
  <2> DEFINE Lengths == {Len(s) : s \in S}
  <2>1. Lengths \subseteq Nat /\ Lengths # {} /\ Len(n) \in Nat /\ \A k \in Lengths : k <= Len(n)
    BY <1>1, <1>3
  <2>2. PICK k \in Lengths : \A m \in Lengths : m <= k
    <3> HIDE DEF Lengths
    <3> QED
      BY <2>1, GreatestElement
  <2> QED
    BY <2>2
<1>4. ASSUME NEW s \in S, NEW t \in S, \A r \in S : Len(r) <= Len(s), \A r \in S : Len(r) <= Len(t)
      PROVE  s = t
  <2>1. Len(s) = Len(t)
    <3>1. Len(s) <= Len(t) /\ Len(t) <= Len(s) /\ Len(s) \in Nat /\ Len(t) \in Nat
      BY <1>1, <1>4
    <3> QED
      BY <3>1
  <2> QED
    BY <1>2, <2>1
<1>5. ASSUME S # {}
      PROVE  LongestIn(S) \in S /\ \A r \in S : Len(r) <= Len(LongestIn(S))
  <2>1. LongestIn(S) = CHOOSE s \in S : \A r \in S : Len(r) <= Len(s)
    BY <1>5 DEF LongestIn
  <2> QED
    BY <1>3, <1>5, <2>1
<1>6. S = {} => LongestIn(S) = Null
  BY DEF LongestIn
<1>7. ASSUME NEW s \in S, \A r \in S : Len(r) <= Len(s) PROVE s = LongestIn(S)
  <2>1. S # {}
    OBVIOUS
  <2>2. LongestIn(S) \in S /\ \A r \in S : Len(r) <= Len(LongestIn(S))
    BY <1>5, <2>1
  <2> QED
    BY <1>4, <1>7, <2>2
<1> QED
  BY <1>5, <1>6, <1>7

-----------------------------------------------------------------------------
(* The trie of a set of keywords. *)

AreKeywords(K) == \A w \in K : w \in Seq(Byte) /\ w # << >> /\ WholeCodePoints(w)

\* Its nodes are the prefixes of the keywords; the whole ones are its link nodes.
LEMMA TrieNodes ==
  ASSUME NEW K, AreKeywords(K), NEW trie, trie = TrieOf(K)
  PROVE  /\ trie.nodes \subseteq Seq(Byte) /\ Root \in trie.nodes /\ Null \notin trie.nodes
         /\ \A n \in trie.nodes : \A k \in 0..Len(n) : SubSeq(n, 1, k) \in trie.nodes
         /\ trie.keywords = K
         /\ K \subseteq LinkNodesOf(trie) /\ Root \notin K
         /\ trie.ends = {n \in trie.nodes : WholeCodePoints(n)}
         /\ LinkNodesOf(trie) = {n \in trie.nodes : WholeCodePoints(n)}
<1>1. /\ trie.nodes = {Root} \cup UNION {Prefixes(w) : w \in K}
      /\ trie.keywords = K
      /\ trie.ends = {Root} \cup {SubSeq(wo[1], 1, wo[2]) :
                                    wo \in UNION {{w} \X CodePointStarts(w) : w \in K}}
  BY DEF TrieOf, Root
<1>2. \A n : n \in trie.nodes <=> n = Root \/ \E w \in K : \E k \in 0..Len(w) : n = SubSeq(w, 1, k)
  BY <1>1 DEF Prefixes
<1>3. \A n : n \in trie.ends <=>
               n = Root \/ \E w \in K : \E o \in CodePointStarts(w) : n = SubSeq(w, 1, o)
  <2> SUFFICES \A n : (\E wo \in UNION {{w} \X CodePointStarts(w) : w \in K} : n = SubSeq(wo[1], 1, wo[2]))
                        <=> \E w \in K : \E o \in CodePointStarts(w) : n = SubSeq(w, 1, o)
    BY <1>1
  <2>1. ASSUME NEW n, NEW wo \in UNION {{w} \X CodePointStarts(w) : w \in K}, n = SubSeq(wo[1], 1, wo[2])
        PROVE  \E w \in K : \E o \in CodePointStarts(w) : n = SubSeq(w, 1, o)
    <3>1. PICK w \in K : wo \in {w} \X CodePointStarts(w)
      OBVIOUS
    <3>2. wo[1] = w /\ wo[2] \in CodePointStarts(w)
      BY <3>1
    <3> QED
      BY <2>1, <3>2
  <2>2. ASSUME NEW n, NEW w \in K, NEW o \in CodePointStarts(w), n = SubSeq(w, 1, o)
        PROVE  \E wo \in UNION {{v} \X CodePointStarts(v) : v \in K} : n = SubSeq(wo[1], 1, wo[2])
    <3>1. <<w, o>> \in {w} \X CodePointStarts(w)
      OBVIOUS
    <3>2. <<w, o>> \in UNION {{v} \X CodePointStarts(v) : v \in K}
      BY <3>1
    <3>3. <<w, o>>[1] = w /\ <<w, o>>[2] = o
      OBVIOUS
    <3> QED
      BY <2>2, <3>2, <3>3
  <2> QED
    BY <2>1, <2>2
<1>4. \A w \in K : w \in Seq(Byte) /\ Len(w) \in Nat \ {0} /\ WholeCodePoints(w)
  <2>1. ASSUME NEW w \in K PROVE w \in Seq(Byte) /\ Len(w) \in Nat \ {0} /\ WholeCodePoints(w)
    <3>1. w \in Seq(Byte) /\ w # << >> /\ WholeCodePoints(w)
      BY DEF AreKeywords
    <3> QED
      BY <3>1, EmptySeq
  <2> QED
    BY <2>1
<1>5. Root \in Seq(Byte) /\ Len(Root) = 0 /\ WholeCodePoints(Root)
  BY SuffixesOfRoot DEF Root
<1>6. ASSUME NEW n \in trie.nodes PROVE n \in Seq(Byte)
  <2>1. ASSUME NEW w \in K, NEW k \in 0..Len(w) PROVE SubSeq(w, 1, k) \in Seq(Byte)
    BY <1>4, Cut
  <2>2. n = Root \/ \E w \in K : \E k \in 0..Len(w) : n = SubSeq(w, 1, k)
    BY <1>2
  <2> QED
    BY <1>5, <2>1, <2>2
<1>7. ASSUME NEW n \in trie.nodes, NEW k \in 0..Len(n) PROVE SubSeq(n, 1, k) \in trie.nodes
  <2>1. CASE n = Root
    <3>1. k \in Int /\ 1 \in Int /\ k < 1
      BY <1>5, <2>1
    <3>2. SubSeq(n, 1, k) = Root
      BY <3>1, SubSeqEmpty DEF Root
    <3> QED
      BY <1>2, <3>2
  <2>2. ASSUME NEW w \in K, NEW m \in 0..Len(w), n = SubSeq(w, 1, m) PROVE SubSeq(n, 1, k) \in trie.nodes
    <3>1. Len(n) = m /\ w \in Seq(Byte) /\ \A i \in 1..m : n[i] = w[i]
      BY <1>4, <2>2, Cut
    <3>2. k \in 0..Len(w)
      BY <1>4, <3>1
    <3>3. /\ SubSeq(n, 1, k) \in Seq(Byte) /\ Len(SubSeq(n, 1, k)) = k
          /\ \A i \in 1..k : SubSeq(n, 1, k)[i] = n[i]
      BY <1>6, Cut
    <3>4. /\ SubSeq(w, 1, k) \in Seq(Byte) /\ Len(SubSeq(w, 1, k)) = k
          /\ \A i \in 1..k : SubSeq(w, 1, k)[i] = w[i]
      BY <3>1, <3>2, Cut
    <3>5. \A i \in 1..k : i \in 1..m
      BY <3>1
    <3>6. SubSeq(n, 1, k) = SubSeq(w, 1, k)
      BY <3>1, <3>3, <3>4, <3>5, SeqEqual
    <3> QED
      BY <1>2, <3>2, <3>6
  <2> QED
    BY <1>2, <2>1, <2>2
<1>8. Null \notin trie.nodes
  <2>1. Null[1] \notin Byte /\ 1 \in 1..Len(Null)
    BY DEF Null, Byte
  <2> QED
    BY <1>6, <2>1, ElementOfSeq
<1>9. ASSUME NEW n \in trie.ends PROVE n \in trie.nodes /\ WholeCodePoints(n)
  <2>1. ASSUME NEW w \in K, NEW o \in CodePointStarts(w), n = SubSeq(w, 1, o)
        PROVE  n \in trie.nodes /\ WholeCodePoints(n)
    <3>1. o \in 0..Len(w)
      BY <1>4, StartsAre
    <3>2. WholeCodePoints(n)
      BY <1>4, <2>1, WholePrefix
    <3> QED
      BY <1>2, <2>1, <3>1, <3>2
  <2> QED
    BY <1>2, <1>3, <1>5, <2>1
<1>10. ASSUME NEW n \in trie.nodes, WholeCodePoints(n) PROVE n \in trie.ends
  <2>1. ASSUME NEW w \in K, NEW k \in 0..Len(w), n = SubSeq(w, 1, k) PROVE n \in trie.ends
    <3>1. /\ n \in Seq(Byte) /\ w \in Seq(Byte) /\ Len(w) \in Nat
          /\ Len(n) = k /\ \A i \in 1..k : n[i] = w[i]
      BY <1>4, <2>1, Cut
    <3>2. Len(n) <= Len(w) /\ \A i \in 1..Len(n) : w[i] = n[i]
      BY <3>1
    <3>3. CodePointStarts(n) \subseteq CodePointStarts(w)
      BY <1>10, <3>1, <3>2, StartsOfLonger
    <3>4. Len(n) \in CodePointStarts(n)
      BY <3>1, StartsAre
    <3> QED
      BY <1>3, <2>1, <3>1, <3>3, <3>4
  <2> QED
    BY <1>2, <1>3, <1>10, <2>1
<1>11. trie.ends = {n \in trie.nodes : WholeCodePoints(n)}
  BY <1>9, <1>10
<1>12. LinkNodesOf(trie) = {n \in trie.nodes : WholeCodePoints(n)}
  BY <1>11 DEF LinkNodesOf, isLastByteOfCodePoint
<1>13. ASSUME NEW w \in K PROVE w \in LinkNodesOf(trie)
  <2>1. w = SubSeq(w, 1, Len(w)) /\ Len(w) \in 0..Len(w)
    BY <1>4, SubSeqFull
  <2> QED
    BY <1>2, <1>4, <1>12, <2>1
<1>14. Root \notin K /\ Root \in trie.nodes
  BY <1>2, <1>4, <1>5
<1> QED
  BY <1>1, <1>6, <1>7, <1>8, <1>11, <1>12, <1>13, <1>14

-----------------------------------------------------------------------------
(* The longest suffix that is a node, and the climb to it. *)

\* A suffix of a node is one of the nodes up to which the longest suffix node goes.
LEMMA LongestSuffixNodeIs ==
  ASSUME NEW K, AreKeywords(K), NEW trie, trie = TrieOf(K),
         NEW n \in LinkNodesOf(trie), n # Root
  PROVE  LET m == LongestSuffixNode(trie, n)
         IN  /\ m \in LinkNodesOf(trie) /\ m \in ProperSuffixes(n) /\ Len(m) < Len(n)
             /\ ProperSuffixes(m) \subseteq ProperSuffixes(n)
             /\ \A t \in ProperSuffixes(n) \cap trie.nodes : t = m \/ t \in ProperSuffixes(m)
             /\ \A t \in ProperSuffixes(n) \cap trie.nodes : Len(t) <= Len(m)
<1>1. n \in trie.nodes /\ n \in Seq(Byte) /\ WholeCodePoints(n) /\ Root \in trie.nodes
  BY TrieNodes
<1> DEFINE S == ProperSuffixes(n) \cap trie.nodes
           m == LongestIn(S)
<1>2. Root \in S
  BY <1>1, SuffixesOfRoot
<1>3. m \in S /\ \A r \in S : Len(r) <= Len(m)
  <2>1. S \in SUBSET ProperSuffixes(n) /\ S # {}
    BY <1>2
  <2> HIDE DEF S
  <2> QED
    BY <1>1, <2>1, LongestIs
<1>4. m \in Seq(Byte) /\ WholeCodePoints(m) /\ Len(m) < Len(n)
  BY <1>1, <1>3, SuffixType
<1>5. m \in LinkNodesOf(trie)
  BY <1>3, <1>4, TrieNodes
<1>6. ASSUME NEW t \in S PROVE t = m \/ t \in ProperSuffixes(m)
  <2>1. t \in ProperSuffixes(n) /\ Len(t) <= Len(m) /\ m \in ProperSuffixes(n)
    BY <1>3
  <2>2. t \in Seq(Byte)
    BY <1>1, <2>1, SuffixType
  <2>3. Len(t) \in Nat /\ Len(m) \in Nat
    BY <1>4, <2>2
  <2>4. ~(Len(m) < Len(t))
    BY <2>1, <2>3
  <2> QED
    BY <1>1, <2>1, <2>4, SuffixOfSuffix
<1>7. ProperSuffixes(m) \subseteq ProperSuffixes(n)
  BY <1>1, <1>3, SuffixOfSuffix
<1> QED
  BY <1>3, <1>4, <1>5, <1>6, <1>7 DEF LongestSuffixNode

\* The longest suffix keyword is the longest suffix node if that is a keyword, and
\* the longest suffix keyword of that node otherwise.
LEMMA LongestSuffixKeywordIs ==
  ASSUME NEW K, AreKeywords(K), NEW trie, trie = TrieOf(K),
         NEW n \in LinkNodesOf(trie), n # Root
  PROVE  LET m == LongestSuffixNode(trie, n)
         IN  LongestSuffixKeyword(trie, n) = IF m \in K THEN m ELSE LongestSuffixKeyword(trie, m)
<1>1. n \in trie.nodes /\ n \in Seq(Byte) /\ WholeCodePoints(n) /\ trie.keywords = K
      /\ K \subseteq trie.nodes
  BY TrieNodes
<1> DEFINE m == LongestSuffixNode(trie, n)
<1>2. /\ m \in ProperSuffixes(n)
      /\ ProperSuffixes(m) \subseteq ProperSuffixes(n)
      /\ \A t \in ProperSuffixes(n) \cap trie.nodes : t = m \/ t \in ProperSuffixes(m)
      /\ \A t \in ProperSuffixes(n) \cap trie.nodes : Len(t) <= Len(m)
  BY LongestSuffixNodeIs
<1> HIDE DEF m
<1>3. CASE m \in K
  <2> DEFINE S == ProperSuffixes(n) \cap K
  <2>1. m \in S /\ \A r \in S : Len(r) <= Len(m)
    BY <1>1, <1>2, <1>3
  <2>2. S \in SUBSET ProperSuffixes(n)
    OBVIOUS
  <2>3. m = LongestIn(S)
    <3> HIDE DEF S
    <3> QED
      BY <1>1, <2>1, <2>2, LongestIs
  <2> QED
    BY <1>1, <1>3, <2>3 DEF LongestSuffixKeyword, m
<1>4. CASE m \notin K
  <2>1. ProperSuffixes(n) \cap K = ProperSuffixes(m) \cap K
    BY <1>1, <1>2, <1>4
  <2>2. LongestSuffixKeyword(trie, n) = LongestSuffixKeyword(trie, m)
    BY <1>1, <2>1 DEF LongestSuffixKeyword
  <2> QED
    BY <1>4, <2>2 DEF m
<1> QED
  BY <1>3, <1>4

\* The node that s leads to from n or from the longest suffix of n that it leads
\* anywhere from.
Best(trie, n, s) ==
  IF n \o s \in trie.nodes THEN n \o s
  ELSE LET S == {t \in ProperSuffixes(n) : t \o s \in trie.nodes}
       IN  IF S = {} THEN Root ELSE LongestIn(S) \o s

\* It can be found from the suffix link.
LEMMA BestOfLink ==
  ASSUME NEW K, AreKeywords(K), NEW trie, trie = TrieOf(K),
         NEW n \in LinkNodesOf(trie), NEW s \in Seq(Byte), n \o s \notin trie.nodes
  PROVE  Best(trie, n, s) = IF n = Root THEN Root ELSE Best(trie, LongestSuffixNode(trie, n), s)
<1>1. n \in trie.nodes /\ n \in Seq(Byte) /\ WholeCodePoints(n)
  BY TrieNodes
<1> DEFINE S(m) == {t \in ProperSuffixes(m) : t \o s \in trie.nodes}
<1>2. CASE n = Root
  <2>1. S(n) = {}
    BY <1>2, SuffixesOfRoot
  <2> QED
    BY <1>2, <2>1 DEF Best
<1>3. CASE n # Root
  <2> DEFINE m == LongestSuffixNode(trie, n)
  <2>1. /\ m \in ProperSuffixes(n)
        /\ ProperSuffixes(m) \subseteq ProperSuffixes(n)
        /\ \A t \in ProperSuffixes(n) \cap trie.nodes :
             (t = m \/ t \in ProperSuffixes(m)) /\ Len(t) <= Len(m)
    BY <1>3, LongestSuffixNodeIs
  <2> HIDE DEF m
  <2>2. ASSUME NEW t \in S(n) PROVE t \in ProperSuffixes(n) \cap trie.nodes
    <3>1. t \in Seq(Byte)
      BY <1>1, SuffixType
    <3>2. SubSeq(t \o s, 1, Len(t)) = t /\ Len(t) \in 0..Len(t \o s)
      BY <3>1, Joined
    <3>3. \A y \in trie.nodes : \A k \in 0..Len(y) : SubSeq(y, 1, k) \in trie.nodes
      BY TrieNodes
    <3>4. t \o s \in trie.nodes /\ t \in ProperSuffixes(n)
      BY <2>2
    <3>5. t \in trie.nodes
      BY <3>2, <3>3, <3>4, Zenon
    <3> QED
      BY <3>4, <3>5
  <2>3. CASE m \o s \in trie.nodes
    <3>1. m \in S(n) /\ S(n) \in SUBSET ProperSuffixes(n) /\ \A r \in S(n) : Len(r) <= Len(m)
      BY <2>1, <2>2, <2>3
    <3>2. m = LongestIn(S(n)) /\ S(n) # {}
      <4> DEFINE T == S(n)
      <4>1. m \in T /\ T \in SUBSET ProperSuffixes(n) /\ \A r \in T : Len(r) <= Len(m)
        BY <3>1
      <4>2. m = LongestIn(T)
        <5> HIDE DEF T
        <5> QED
          BY <1>1, <4>1, LongestIs
      <4> QED
        BY <4>1, <4>2
    <3>3. Best(trie, n, s) = m \o s
      BY <3>2 DEF Best
    <3>4. Best(trie, m, s) = m \o s
      BY <2>3 DEF Best
    <3> QED
      BY <1>3, <3>3, <3>4 DEF m
  <2>4. CASE m \o s \notin trie.nodes
    <3>1. S(n) = S(m)
      BY <2>1, <2>2, <2>4
    <3>2. Best(trie, n, s) = Best(trie, m, s)
      BY <2>4, <3>1 DEF Best
    <3> QED
      BY <1>3, <3>2 DEF m
  <2> QED
    BY <2>3, <2>4
<1> QED
  BY <1>2, <1>3

\* The function climb of SuffixTarget.
Climbs(trie, link, s, climb) ==
  climb = [n \in DOMAIN link \cup {Null} |->
             IF n = Null THEN Root
             ELSE IF Visit(trie, n, s) # Null THEN Visit(trie, n, s)
             ELSE climb[link[n]]]

\* As long as links are right as far as they are set, the climb from a linked node
\* ends, at the best node there is.
LEMMA ClimbFindsBest ==
  ASSUME NEW K, AreKeywords(K), NEW trie, trie = TrieOf(K),
         NEW link, LinksRight(trie, link), NEW s \in Seq(Byte)
  PROVE  /\ SuffixTarget(trie, link, Null, s) = Root
         /\ \A n \in LinkNodesOf(trie) :
              Linked(link, n) => SuffixTarget(trie, link, n, s) = Best(trie, n, s)
<1> DEFINE LN == LinkNodesOf(trie)
           D == DOMAIN link \cup {Null}
           g == [n \in D |-> IF n = Null THEN Root
                             ELSE IF Linked(link, n) THEN Best(trie, n, s)
                             ELSE IF n \o s \in trie.nodes THEN n \o s ELSE Root]
<1>1. /\ LN \subseteq Seq(Byte) /\ Null \notin LN /\ Null \notin trie.nodes /\ Root \in LN
      /\ LN \subseteq trie.nodes
  <2>1. Root \in trie.nodes /\ WholeCodePoints(Root)
    BY TrieNodes, SuffixesOfRoot
  <2> QED
    BY <2>1, TrieNodes
<1>2. /\ link \in [LN -> LN \cup {Null}] /\ DOMAIN link = LN /\ link[Root] = Null
      /\ \A n \in LN : link[n] # Null => link[n] = LongestSuffixNode(trie, n) /\ Linked(link, link[n])
  BY DEF LinksRight
<1> HIDE DEF LN
<1>3. ASSUME NEW n \in LN
      PROVE  /\ n \o s \in trie.nodes => Visit(trie, n, s) = n \o s /\ Visit(trie, n, s) # Null
             /\ n \o s \notin trie.nodes => Visit(trie, n, s) = Null
  BY <1>1 DEF Visit
<1>4. ASSUME NEW n \in LN, Linked(link, n), n \o s \notin trie.nodes
      PROVE  Best(trie, n, s) = IF n = Root THEN Root ELSE Best(trie, link[n], s)
  <2>1. n # Root => link[n] = LongestSuffixNode(trie, n)
    BY <1>2, <1>4 DEF Linked
  <2> QED
    BY <1>4, <2>1, BestOfLink DEF LN
<1>5. Climbs(trie, link, s, g)
  <2>1. ASSUME NEW n \in LN
        PROVE  g[n] = IF Visit(trie, n, s) # Null THEN Visit(trie, n, s) ELSE g[link[n]]
    <3>1. n # Null /\ n \in D /\ link[n] \in D /\ Null \in D
      BY <1>1, <1>2
    <3>2. g[Null] = Root
      BY <3>1
    <3>3. CASE n \o s \in trie.nodes
      <4>1. Best(trie, n, s) = n \o s
        BY <3>3 DEF Best
      <4>2. g[n] = n \o s
        BY <3>1, <3>3, <4>1
      <4> QED
        BY <1>3, <3>3, <4>2
    <3>4. CASE n \o s \notin trie.nodes /\ Linked(link, n) /\ n # Root
      <4>1. link[n] # Null /\ Linked(link, link[n])
        BY <1>2, <3>4 DEF Linked
      <4>2. g[link[n]] = Best(trie, link[n], s) /\ g[n] = Best(trie, n, s)
        BY <3>1, <3>4, <4>1
      <4> HIDE DEF g
      <4> QED
        BY <1>3, <1>4, <3>4, <4>2
    <3>5. CASE n \o s \notin trie.nodes /\ n = Root
      <4>1. g[n] = Best(trie, n, s)
        BY <3>1, <3>5 DEF Linked
      <4>2. Best(trie, n, s) = Root
        BY <1>4, <3>5 DEF Linked
      <4>3. g[link[n]] = Root
        BY <1>2, <3>2, <3>5
      <4> HIDE DEF g
      <4> QED
        BY <1>3, <3>5, <4>1, <4>2, <4>3
    <3>6. CASE n \o s \notin trie.nodes /\ ~Linked(link, n)
      <4>1. link[n] = Null
        BY <3>6 DEF Linked
      <4>2. g[n] = Root
        BY <3>1, <3>6
      <4> HIDE DEF g
      <4> QED
        BY <1>3, <3>2, <3>6, <4>1, <4>2
    <3> QED
      BY <3>3, <3>4, <3>5, <3>6
  <2>2. g[Null] = Root
    OBVIOUS
  <2>3. g = [n \in D |-> g[n]]
    OBVIOUS
  <2>4. D = LN \cup {Null}
    BY <1>2
  <2> HIDE DEF g
  <2> QED
    BY <2>1, <2>2, <2>3, <2>4 DEF Climbs
<1>6. \A from : SuffixTarget(trie, link, from, s) = (CHOOSE climb : Climbs(trie, link, s, climb))[from]
  BY DEF SuffixTarget, Climbs
<1>7. PICK climb : /\ Climbs(trie, link, s, climb)
                   /\ \A from : SuffixTarget(trie, link, from, s) = climb[from]
  <2> HIDE DEF g
  <2> QED
    BY <1>5, <1>6
<1>8. /\ climb[Null] = Root
      /\ \A n \in LN : climb[n] = IF Visit(trie, n, s) # Null THEN Visit(trie, n, s) ELSE climb[link[n]]
  <2>1. Null \in D /\ \A n \in LN : n \in D /\ n # Null
    BY <1>1, <1>2
  <2> HIDE DEF D
  <2> QED
    BY <1>7, <2>1 DEF Climbs, D
<1> DEFINE Right == {k \in Nat : \A n \in LN : Len(n) = k /\ Linked(link, n) => climb[n] = Best(trie, n, s)}
<1>9. ASSUME NEW k \in Nat, \A m \in 0..(k - 1) : m \in Right PROVE k \in Right
  <2> SUFFICES ASSUME NEW n \in LN, Len(n) = k, Linked(link, n) PROVE climb[n] = Best(trie, n, s)
    OBVIOUS
  <2>1. CASE n \o s \in trie.nodes
    BY <1>3, <1>8, <2>1 DEF Best
  <2>2. CASE n \o s \notin trie.nodes /\ n = Root
    BY <1>2, <1>3, <1>4, <1>8, <2>2
  <2>3. CASE n \o s \notin trie.nodes /\ n # Root
    <3>1. link[n] # Null /\ link[n] = LongestSuffixNode(trie, n) /\ Linked(link, link[n]) /\ link[n] \in LN
      BY <1>2, <2>3 DEF Linked
    <3>2. Len(link[n]) < Len(n)
      BY <2>3, <3>1, LongestSuffixNodeIs DEF LN
    <3>3. Len(link[n]) \in 0..(k - 1)
      <4>1. Len(link[n]) \in Nat
        BY <1>1, <3>1
      <4> QED
        BY <3>2, <4>1
    <3>4. climb[link[n]] = Best(trie, link[n], s)
      BY <1>9, <3>1, <3>3
    <3> QED
      BY <1>3, <1>4, <1>8, <2>3, <3>4
  <2> QED
    BY <2>1, <2>2, <2>3
<1>10. \A k \in Nat : k \in Right
  <2> HIDE DEF Right
  <2> QED
    BY <1>9, InductionFromBelow
<1>11. ASSUME NEW n \in LN, Linked(link, n) PROVE climb[n] = Best(trie, n, s)
  <2>1. Len(n) \in Nat
    BY <1>1
  <2> QED
    BY <1>10, <1>11, <2>1
<1> QED
  BY <1>7, <1>8, <1>11 DEF LN

\* The climb from the suffix link of l by a code point ends at the longest suffix node
\* of what that code point leads to from l.
LEMMA ClimbFindsSuffix ==
  ASSUME NEW K, AreKeywords(K), NEW trie, trie = TrieOf(K),
         NEW link, LinksRight(trie, link),
         NEW l \in LinkNodesOf(trie), Linked(link, l),
         NEW c, IsCodePoint(c), l \o c \in trie.nodes
  PROVE  /\ l \o c \in LinkNodesOf(trie) /\ l \o c # Root
         /\ SuffixTarget(trie, link, link[l], c) = LongestSuffixNode(trie, l \o c)
         /\ l = Root => LongestSuffixNode(trie, l \o c) = Root
<1> DEFINE n == l \o c
           m == LongestSuffixNode(trie, n)
<1>1. l \in trie.nodes /\ l \in Seq(Byte) /\ WholeCodePoints(l) /\ Root \in trie.nodes
  BY TrieNodes
<1>2. c \in Seq(Byte) /\ c # Root
  BY DEF IsCodePoint, Root
<1>3. n \in Seq(Byte) /\ WholeCodePoints(n) /\ n # Root
  BY <1>1, <1>2, Joined, WholeJoin, ConcatEqualIffEmpty DEF Root
<1>4. n \in LinkNodesOf(trie)
  BY <1>3, TrieNodes
<1>5. ProperSuffixes(n) = {t \o c : t \in ProperSuffixes(l)} \cup {Root}
  BY <1>1, SuffixesOfJoin
<1> DEFINE S == ProperSuffixes(n) \cap trie.nodes
<1>6. \A x \in S : (\A r \in S : Len(r) <= Len(x)) => x = m
  <2>1. S \in SUBSET ProperSuffixes(n)
    OBVIOUS
  <2>2. m = LongestIn(S)
    BY DEF LongestSuffixNode
  <2> HIDE DEF S, m
  <2> QED
    BY <1>3, <2>1, <2>2, LongestIs
<1>7. Root \in S /\ Len(Root) = 0
  BY <1>1, <1>5 DEF Root
<1>8. CASE l = Root
  <2>1. S = {Root}
    BY <1>5, <1>7, <1>8, SuffixesOfRoot
  <2>2. m = Root
    <3>1. \A r \in S : Len(r) <= Len(Root)
      BY <1>7, <2>1
    <3> HIDE DEF S, m
    <3> QED
      BY <1>6, <1>7, <3>1
  <2>3. link[l] = Null
    BY <1>8 DEF LinksRight
  <2>4. SuffixTarget(trie, link, link[l], c) = Root
    BY <1>2, <2>3, ClimbFindsBest
  <2> QED
    BY <1>3, <1>4, <2>2, <2>4
<1>9. CASE l # Root
  <2> DEFINE f == LongestSuffixNode(trie, l)
  <2>1. link[l] # Null /\ link[l] = f /\ Linked(link, f)
    BY <1>9 DEF LinksRight, Linked
  <2>2. /\ f \in LinkNodesOf(trie) /\ f \in ProperSuffixes(l)
        /\ ProperSuffixes(f) \subseteq ProperSuffixes(l)
        /\ \A t \in ProperSuffixes(l) \cap trie.nodes :
             (t = f \/ t \in ProperSuffixes(f)) /\ Len(t) <= Len(f)
    BY <1>9, LongestSuffixNodeIs
  <2> HIDE DEF f
  <2>3. SuffixTarget(trie, link, link[l], c) = Best(trie, f, c)
    BY <1>2, <2>1, <2>2, ClimbFindsBest
  <2>4. ASSUME NEW t \in ProperSuffixes(l)
        PROVE  /\ t \in Seq(Byte) /\ Len(t) \in Nat /\ Len(t \o c) = Len(t) + Len(c) /\ Len(c) \in Nat
               /\ t \o c \in trie.nodes => t \in trie.nodes
    <3>1. t \in Seq(Byte)
      BY <1>1, SuffixType
    <3>2. SubSeq(t \o c, 1, Len(t)) = t /\ Len(t) \in 0..Len(t \o c) /\ Len(t \o c) = Len(t) + Len(c)
      BY <1>2, <3>1, Joined
    <3>3. \A x \in trie.nodes : \A k \in 0..Len(x) : SubSeq(x, 1, k) \in trie.nodes
      BY TrieNodes
    <3>4. t \o c \in trie.nodes => t \in trie.nodes
      BY <3>2, <3>3, Zenon
    <3> QED
      BY <1>2, <3>1, <3>2, <3>4
  <2>5. ASSUME NEW x \in ProperSuffixes(l), x \o c \in trie.nodes,
               \A t \in ProperSuffixes(l) : t \o c \in trie.nodes => Len(t) <= Len(x)
        PROVE  x \o c = m
    <3>1. x \o c \in S
      BY <1>5, <2>5
    <3>2. ASSUME NEW r \in S PROVE Len(r) <= Len(x \o c)
      <4>1. CASE r = Root
        BY <1>7, <2>4, <4>1
      <4>2. ASSUME NEW t \in ProperSuffixes(l), r = t \o c PROVE Len(r) <= Len(x \o c)
        <5>1. Len(t) <= Len(x)
          BY <2>5, <3>2, <4>2
        <5>2. /\ Len(t) \in Nat /\ Len(x) \in Nat /\ Len(c) \in Nat
              /\ Len(t \o c) = Len(t) + Len(c) /\ Len(x \o c) = Len(x) + Len(c)
          BY <2>4
        <5> QED
          BY <4>2, <5>1, <5>2
      <4> QED
        BY <1>5, <3>2, <4>1, <4>2
    <3> HIDE DEF S, m
    <3> QED
      BY <1>6, <3>1, <3>2
  <2>6. Best(trie, f, c) = m
    <3>1. CASE f \o c \in trie.nodes
      <4>1. f \o c = m
        BY <2>2, <2>4, <2>5, <3>1
      <4> QED
        BY <3>1, <4>1 DEF Best
    <3>2. CASE f \o c \notin trie.nodes
      <4> DEFINE T == {t \in ProperSuffixes(f) : t \o c \in trie.nodes}
      <4>1. \A t \in ProperSuffixes(l) : t \o c \in trie.nodes => t \in T
        BY <2>2, <2>4, <3>2
      <4>2. Best(trie, f, c) = IF T = {} THEN Root ELSE LongestIn(T) \o c
        BY <3>2 DEF Best
      <4>3. CASE T = {}
        <5>1. S = {Root}
          BY <1>5, <1>7, <4>1, <4>3
        <5>2. \A r \in S : Len(r) <= Len(Root)
          BY <1>7, <5>1
        <5> HIDE DEF S, m, T
        <5> QED
          BY <1>6, <1>7, <4>2, <4>3, <5>2
      <4>4. CASE T # {}
        <5>1. f \in Seq(Byte) /\ WholeCodePoints(f) /\ T \in SUBSET ProperSuffixes(f)
          BY <2>2, TrieNodes
        <5>2. LongestIn(T) \in T /\ \A r \in T : Len(r) <= Len(LongestIn(T))
          <6> HIDE DEF T
          <6> QED
            BY <4>4, <5>1, LongestIs
        <5>3. LongestIn(T) \in ProperSuffixes(l) /\ LongestIn(T) \o c \in trie.nodes
          BY <2>2, <5>2
        <5>4. LongestIn(T) \o c = m
          <6> HIDE DEF T, m
          <6> QED
            BY <2>5, <4>1, <5>2, <5>3
        <5> HIDE DEF T, m
        <5> QED
          BY <4>2, <4>4, <5>4
      <4> QED
        BY <4>3, <4>4
    <3> QED
      BY <3>1, <3>2
  <2> QED
    BY <1>3, <1>4, <1>9, <2>3, <2>6
<1> QED
  BY <1>8, <1>9

-----------------------------------------------------------------------------
(* The walk over the bytes. *)

\* What InOrder makes of a set that R orders.
IsInOrder(R, S, s) ==
  /\ IsFiniteSet(S) /\ Orders(R, S)
  /\ s = [n \in 1..Cardinality(S) |-> s[n]]
  /\ \A n \in 1..Cardinality(S) :
       (\E x \in S : Rank(R, S, x) = n - 1) => s[n] \in S /\ Rank(R, S, s[n]) = n - 1

\* The elements of a sorted set are those of the set, each of them once.
LEMMA InOrderIs ==
  ASSUME NEW R, NEW S, NEW s, IsInOrder(R, S, s)
  PROVE  /\ Len(s) \in Nat /\ s \in [1..Len(s) -> S] /\ DOMAIN s = 1..Len(s)
         /\ \A x \in S : \E n \in 1..Len(s) : s[n] = x
         /\ \A m, n \in 1..Len(s) : m < n => <<s[m], s[n]>> \in R
<1> DEFINE N == Cardinality(S)
<1> USE DEF IsInOrder
<1>1. N \in Nat
  BY FS_CardinalityType
<1>2. /\ \A x \in S : Rank(R, S, x) \in 0..(N - 1)
      /\ \A x, y \in S : Rank(R, S, x) = Rank(R, S, y) => x = y
      /\ \A x, y \in S : <<x, y>> \in R => Rank(R, S, x) < Rank(R, S, y)
      /\ \A n \in 0..(N - 1) : \E x \in S : Rank(R, S, x) = n
  BY RankIsOnto
<1>3. /\ Orders(R, S) /\ s = [n \in 1..N |-> s[n]]
      /\ \A n \in 1..N : (\E x \in S : Rank(R, S, x) = n - 1) => s[n] \in S /\ Rank(R, S, s[n]) = n - 1
  OBVIOUS
<1> HIDE DEF N, IsInOrder
<1>4. ASSUME NEW n \in 1..N PROVE s[n] \in S /\ Rank(R, S, s[n]) = n - 1
  <2>1. n - 1 \in 0..(N - 1)
    BY <1>1
  <2>2. \E x \in S : Rank(R, S, x) = n - 1
    BY <1>2, <2>1
  <2> QED
    BY <1>3, <2>2
<1>5. s \in [1..N -> S]
  BY <1>4, <1>3
<1>6. ASSUME NEW x \in S PROVE \E n \in 1..N : s[n] = x
  <2>1. Rank(R, S, x) + 1 \in 1..N /\ (Rank(R, S, x) + 1) - 1 = Rank(R, S, x)
    BY <1>1, <1>2
  <2>2. s[Rank(R, S, x) + 1] = x
    BY <1>2, <1>4, <2>1
  <2> QED
    BY <2>1, <2>2
<1>7. ASSUME NEW m \in 1..N, NEW n \in 1..N, m < n PROVE <<s[m], s[n]>> \in R
  <2>1. s[m] \in S /\ s[n] \in S /\ Rank(R, S, s[m]) = m - 1 /\ Rank(R, S, s[n]) = n - 1
    BY <1>4
  <2>2. m - 1 < n - 1 /\ m - 1 # n - 1
    BY <1>1, <1>7
  <2>3. s[m] # s[n]
    BY <2>1, <2>2
  <2>4. <<s[n], s[m]>> \notin R
    <3>1. ~(n - 1 < m - 1)
      BY <1>1, <1>7
    <3> QED
      BY <1>2, <2>1, <3>1
  <2> QED
    BY <1>3, <2>1, <2>3, <2>4 DEF Orders
<1>8. Len(s) = N /\ DOMAIN s = 1..N
  BY <1>1, <1>5
<1> QED
  BY <1>1, <1>5, <1>6, <1>7, <1>8

\* The children of a node: the nodes with one byte more.
AreChildren(trie, n, children) ==
  /\ Len(children) \in Nat /\ children \in [1..Len(children) -> trie.nodes]
  /\ DOMAIN children = 1..Len(children)
  /\ \A c \in trie.nodes :
       (\E i \in 1..Len(children) : children[i] = c) <=> c # Root /\ Front(c) = n
  /\ \A i \in 1..Len(children) :
       /\ Last(children[i]) \in Byte /\ children[i] = Append(n, Last(children[i]))
       /\ Len(children[i]) = Len(n) + 1

\* They are what getChildren returns.
LEMMA ChildrenAre ==
  ASSUME NEW K, AreKeywords(K), NEW trie, trie = TrieOf(K), NEW n \in trie.nodes
  PROVE  AreChildren(trie, n, getChildren(trie, n))
<1> DEFINE S == {c \in trie.nodes : c # Root /\ Front(c) = n}
           R == {cd \in S \X S : Last(cd[1]) < Last(cd[2])}
           s == getChildren(trie, n)
<1>1. trie.nodes \subseteq Seq(Byte)
  BY TrieNodes
<1>2. ASSUME NEW c \in S
      PROVE  Last(c) \in Byte /\ c = Append(n, Last(c)) /\ Len(c) = Len(n) + 1
  <2>1. c \in Seq(Byte) /\ c # << >> /\ n = SubSeq(c, 1, Len(c) - 1) /\ n \in Seq(Byte)
    BY <1>1 DEF Root, Front
  <2>2. Len(c) \in Nat \ {0}
    BY <2>1, EmptySeq
  <2>3. Len(c) - 1 \in 0..Len(c) /\ Len(n) = Len(c) - 1 /\ Len(c) \in 1..Len(c)
    <3>1. Len(c) - 1 \in 0..Len(c) /\ Len(c) \in 1..Len(c)
      BY <2>2
    <3> QED
      BY <2>1, <3>1, Cut
  <2>4. c[Len(c)] \in Byte
    BY <2>1, <2>3
  <2>5. c = Append(n, c[Len(c)])
    <3>1. Append(n, c[Len(c)]) \in Seq(Byte) /\ Len(Append(n, c[Len(c)])) = Len(c)
      BY <2>1, <2>2, <2>3, <2>4
    <3>2. \A i \in 1..Len(c) : c[i] = Append(n, c[Len(c)])[i]
      <4> SUFFICES ASSUME NEW i \in 1..Len(c) PROVE c[i] = Append(n, c[Len(c)])[i]
        OBVIOUS
      <4>1. CASE i = Len(c)
        BY <2>1, <2>2, <2>3, <2>4, <4>1
      <4>2. CASE i # Len(c)
        <5>1. i \in 1..(Len(c) - 1) /\ i \in 1..Len(n)
          BY <2>2, <2>3, <4>2
        <5>2. Append(n, c[Len(c)])[i] = n[i]
          BY <2>1, <2>4, <5>1, AppendProperties
        <5>3. n[i] = c[i]
          BY <2>1, <2>3, <5>1, Cut
        <5> QED
          BY <5>2, <5>3
      <4> QED
        BY <4>1, <4>2
    <3> QED
      BY <2>1, <3>1, <3>2, SeqEqual
  <2> QED
    BY <2>2, <2>3, <2>4, <2>5 DEF Last
<1>3. IsFiniteSet(S)
  <2> DEFINE f == [c \in S |-> Last(c)]
  <2>1. IsFiniteSet(Byte)
    <3>1. 0 \in Int /\ 255 \in Int
      OBVIOUS
    <3> QED
      BY <3>1, FS_Interval DEF Byte
  <2> HIDE DEF S
  <2>2. f \in [S -> Byte] /\ \A c, d \in S : f[c] = f[d] => c = d
    BY <1>2
  <2>3. f \in Injection(S, Byte)
    <3> HIDE DEF f
    <3> QED
      BY <2>2 DEF Injection, IsInjective
  <2> QED
    BY <2>1, <2>3, FS_Injection
<1>4. Orders(R, S)
  <2>1. \A c \in S : Last(c) \in Int /\ c = Append(n, Last(c))
    <3>1. \A c \in S : Last(c) \in Byte /\ c = Append(n, Last(c))
      BY <1>2
    <3>2. Byte \subseteq Int
      BY DEF Byte
    <3> HIDE DEF S
    <3> QED
      BY <3>1, <3>2
  <2>2. \A c, d \in S : <<c, d>> \in R <=> Last(c) < Last(d)
    OBVIOUS
  <2> HIDE DEF S, R
  <2>3. \A c, d \in S : c # d => Last(c) < Last(d) \/ Last(d) < Last(c)
    BY <2>1
  <2>4. \A c, d, e \in S : Last(c) < Last(d) /\ Last(d) < Last(e) => Last(c) < Last(e)
    BY <2>1
  <2>5. \A c \in S : ~(Last(c) < Last(c))
    BY <2>1
  <2> QED
    BY <2>2, <2>3, <2>4, <2>5 DEF Orders
<1>5. /\ s = [i \in 1..Cardinality(S) |-> s[i]]
      /\ \A i \in 1..Cardinality(S) :
           (\E x \in S : Rank(R, S, x) = i - 1) => s[i] \in S /\ Rank(R, S, s[i]) = i - 1
  <2>1. \A x \in S : {y \in S : Last(y) < Last(x)} = {y \in S : <<y, x>> \in R}
    OBVIOUS
  <2>2. \A x \in S : Cardinality({y \in S : Last(y) < Last(x)}) = Rank(R, S, x)
    BY <2>1 DEF Rank
  <2>3. s = [i \in 1..Cardinality(S) |->
               CHOOSE x \in S : Cardinality({y \in S : Last(y) < Last(x)}) = i - 1]
    BY DEF getChildren, InOrder
  <2> DEFINE e(i) == CHOOSE x \in S : Cardinality({y \in S : Last(y) < Last(x)}) = i - 1
  <2> HIDE DEF S, R, s
  <2>4. s = [i \in 1..Cardinality(S) |-> s[i]]
    <3>1. s = [i \in 1..Cardinality(S) |-> e(i)]
      BY <2>3
    <3> HIDE DEF e
    <3> QED
      BY <3>1
  <2>5. ASSUME NEW i \in 1..Cardinality(S), \E x \in S : Rank(R, S, x) = i - 1
        PROVE  s[i] \in S /\ Rank(R, S, s[i]) = i - 1
    <3>1. s[i] = CHOOSE x \in S : Cardinality({y \in S : Last(y) < Last(x)}) = i - 1
      BY <2>3
    <3>2. \E x \in S : Cardinality({y \in S : Last(y) < Last(x)}) = i - 1
      BY <2>2, <2>5
    <3>3. s[i] \in S /\ Cardinality({y \in S : Last(y) < Last(s[i])}) = i - 1
      BY <3>1, <3>2
    <3> QED
      BY <2>2, <3>3
  <2> QED
    BY <2>4, <2>5
<1>6. Len(s) \in Nat /\ s \in [1..Len(s) -> S] /\ DOMAIN s = 1..Len(s)
      /\ \A x \in S : \E i \in 1..Len(s) : s[i] = x
  <2> HIDE DEF S, R, s
  <2>1. IsInOrder(R, S, s)
    BY <1>3, <1>4, <1>5 DEF IsInOrder
  <2> QED
    BY <2>1, InOrderIs
<1>8. \A c \in trie.nodes : (\E i \in 1..Len(s) : s[i] = c) <=> c \in S
  <2> HIDE DEF S, s
  <2> QED
    BY <1>6
<1>9. s \in [1..Len(s) -> trie.nodes] /\ DOMAIN s = 1..Len(s) /\ \A i \in 1..Len(s) : s[i] \in S
  <2>1. S \subseteq trie.nodes
    OBVIOUS
  <2> HIDE DEF S, s
  <2> QED
    BY <1>6, <2>1
<1>10. Len(s) \in Nat
  BY <1>6
<1>11. \A i \in 1..Len(s) :
         Last(s[i]) \in Byte /\ s[i] = Append(n, Last(s[i])) /\ Len(s[i]) = Len(n) + 1
  <2> HIDE DEF s
  <2> QED
    BY <1>2, <1>9
<1>12. \A c \in trie.nodes : (\E i \in 1..Len(s) : s[i] = c) <=> c # Root /\ Front(c) = n
  <2> HIDE DEF s
  <2> QED
    BY <1>8
<1> QED
  BY <1>9, <1>10, <1>11, <1>12 DEF AreChildren

-----------------------------------------------------------------------------
(* The walk over a text. *)

\* The ends of s that start at a code point, s itself included.
CodePointSuffixes(s) == ProperSuffixes(s) \cup {s}

\* n is the longest of them that is a node.
IsLongestNode(trie, s, n) ==
  /\ n \in LinkNodesOf(trie) /\ n \in CodePointSuffixes(s)
  /\ \A t \in CodePointSuffixes(s) \cap trie.nodes : Len(t) <= Len(n)

\* Of two ends of a string the shorter one is an end of the longer one.
LEMMA SuffixesNest ==
  ASSUME NEW s \in Seq(Byte), WholeCodePoints(s), NEW n \in CodePointSuffixes(s)
  PROVE  /\ n \in Seq(Byte) /\ WholeCodePoints(n)
         /\ CodePointSuffixes(n) \subseteq CodePointSuffixes(s)
         /\ \A t \in CodePointSuffixes(s) : Len(t) <= Len(n) => t \in CodePointSuffixes(n)
<1>1. CASE n = s
  <2>1. \A t \in CodePointSuffixes(s) : t \in CodePointSuffixes(n)
    BY <1>1
  <2> QED
    BY <1>1, <2>1
<1>2. CASE n \in ProperSuffixes(s)
  <2>1. n \in Seq(Byte) /\ WholeCodePoints(n) /\ Len(n) < Len(s)
    BY <1>2, SuffixType
  <2>2. /\ ProperSuffixes(n) \subseteq ProperSuffixes(s)
        /\ \A t \in ProperSuffixes(s) : t = n \/ t \in ProperSuffixes(n) \/ Len(n) < Len(t)
    BY <1>2, SuffixOfSuffix
  <2>3. ASSUME NEW t \in CodePointSuffixes(s), Len(t) <= Len(n) PROVE t \in CodePointSuffixes(n)
    <3>1. t # s /\ Len(t) \in Nat
      <4>1. t = s \/ t \in ProperSuffixes(s)
        BY DEF CodePointSuffixes
      <4>2. t \in Seq(Byte)
        BY <4>1, SuffixType
      <4> QED
        BY <2>1, <2>3, <4>2
    <3>2. ~(Len(n) < Len(t)) /\ t \in ProperSuffixes(s)
      BY <2>1, <2>3, <3>1 DEF CodePointSuffixes
    <3> QED
      BY <2>2, <3>2 DEF CodePointSuffixes
  <2> QED
    BY <1>2, <2>1, <2>2, <2>3 DEF CodePointSuffixes
<1> QED
  BY <1>1, <1>2 DEF CodePointSuffixes

\* From the longest node of what was read, a climb finds the longest node of it and
\* one code point more.
LEMMA ReadKeepsLongest ==
  ASSUME NEW K, AreKeywords(K), NEW trie, trie = TrieOf(K),
         NEW s \in Seq(Byte), WholeCodePoints(s), NEW n, IsLongestNode(trie, s, n),
         NEW c, IsCodePoint(c)
  PROVE  IsLongestNode(trie, s \o c, Best(trie, n, c))
<1> DEFINE S == {t \in ProperSuffixes(n) : t \o c \in trie.nodes}
           m == Best(trie, n, c)
<1>1. /\ trie.nodes \subseteq Seq(Byte) /\ Root \in trie.nodes
      /\ \A y \in trie.nodes : \A k \in 0..Len(y) : SubSeq(y, 1, k) \in trie.nodes
      /\ LinkNodesOf(trie) = {y \in trie.nodes : WholeCodePoints(y)}
  BY TrieNodes
<1>2. c \in Seq(Byte) /\ c # Root /\ Len(c) \in Nat \ {0}
  <2>1. c \in Seq(Byte) /\ c # << >>
    BY DEF IsCodePoint
  <2> QED
    BY <2>1, EmptySeq DEF Root
<1>3. n \in Seq(Byte) /\ WholeCodePoints(n) /\ n \in CodePointSuffixes(s)
      /\ CodePointSuffixes(n) \subseteq CodePointSuffixes(s)
      /\ \A t \in CodePointSuffixes(s) : Len(t) <= Len(n) => t \in CodePointSuffixes(n)
  BY SuffixesNest DEF IsLongestNode
<1>4. CodePointSuffixes(s \o c) = {t \o c : t \in CodePointSuffixes(s)} \cup {Root}
  <2>1. ProperSuffixes(s \o c) = {t \o c : t \in ProperSuffixes(s)} \cup {Root}
    BY SuffixesOfJoin
  <2> QED
    BY <2>1 DEF CodePointSuffixes
<1>5. \A t \in CodePointSuffixes(s) : t \in Seq(Byte) /\ WholeCodePoints(t)
  BY SuffixesNest
<1>6. \A t \in CodePointSuffixes(s) : t \o c \in Seq(Byte) /\ Len(t \o c) = Len(t) + Len(c)
        /\ Len(t) \in Nat /\ WholeCodePoints(t \o c)
  <2> SUFFICES ASSUME NEW t \in CodePointSuffixes(s)
               PROVE  t \o c \in Seq(Byte) /\ Len(t \o c) = Len(t) + Len(c)
                      /\ Len(t) \in Nat /\ WholeCodePoints(t \o c)
    OBVIOUS
  <2>1. t \in Seq(Byte) /\ WholeCodePoints(t)
    BY <1>5
  <2> QED
    BY <1>2, <2>1, Joined, WholeJoin
<1>7. ASSUME NEW t \in CodePointSuffixes(s), t \o c \in trie.nodes PROVE t = n \/ t \in S
  <2>1. t \in Seq(Byte) /\ Len(t) \in 0..Len(t \o c)
    BY <1>2, <1>5, <1>6
  <2>2. SubSeq(t \o c, 1, Len(t)) = t
    BY <1>2, <2>1, Joined
  <2>3. t \in trie.nodes
    BY <1>1, <1>7, <2>1, <2>2, Zenon
  <2>4. Len(t) <= Len(n)
    BY <2>3 DEF IsLongestNode
  <2> QED
    BY <1>3, <1>7, <2>4 DEF CodePointSuffixes
<1>8. S \subseteq ProperSuffixes(n) /\ ProperSuffixes(n) \subseteq CodePointSuffixes(s)
  BY <1>3 DEF CodePointSuffixes
<1> SUFFICES /\ m \in trie.nodes /\ m \in CodePointSuffixes(s \o c)
             /\ \A t \in CodePointSuffixes(s) : t \o c \in trie.nodes => Len(t \o c) <= Len(m)
  <2>1. ASSUME m \in trie.nodes, m \in CodePointSuffixes(s \o c),
               \A t \in CodePointSuffixes(s) : t \o c \in trie.nodes => Len(t \o c) <= Len(m)
        PROVE  IsLongestNode(trie, s \o c, m)
    <3>1. WholeCodePoints(m) /\ Len(m) \in Nat
      <4> HIDE DEF m
      <4>1. m \in Seq(Byte)
        BY <1>1, <2>1
      <4>2. WholeCodePoints(m)
        BY <1>4, <1>6, <2>1, SuffixesOfRoot
      <4> QED
        BY <4>1, <4>2
    <3>2. Len(Root) = 0
      BY DEF Root
    <3> HIDE DEF m
    <3>3. ASSUME NEW u \in CodePointSuffixes(s \o c) \cap trie.nodes PROVE Len(u) <= Len(m)
      <4>1. CASE u = Root
        BY <3>1, <3>2, <4>1
      <4>2. CASE u # Root
        <5>1. PICK t \in CodePointSuffixes(s) : u = t \o c
          BY <1>4, <4>2
        <5> QED
          BY <2>1, <5>1
      <4> QED
        BY <4>1, <4>2
    <3> QED
      BY <1>1, <2>1, <3>1, <3>3 DEF IsLongestNode
  <2> QED
    BY <2>1
<1>9. CASE n \o c \in trie.nodes
  <2>1. m = n \o c
    BY <1>9 DEF Best
  <2>2. \A t \in S : Len(t) < Len(n) /\ Len(t) \in Nat
    <3> SUFFICES ASSUME NEW t \in S PROVE Len(t) < Len(n) /\ Len(t) \in Nat
      OBVIOUS
    <3>1. t \in Seq(Byte) /\ Len(t) < Len(n)
      BY <1>3, SuffixType
    <3> QED
      BY <3>1
  <2> HIDE DEF m, S
  <2>3. ASSUME NEW t \in CodePointSuffixes(s), t \o c \in trie.nodes PROVE Len(t \o c) <= Len(m)
    <3>1. Len(t) <= Len(n) /\ Len(t) \in Nat /\ Len(n) \in Nat
      <4>1. Len(t) \in Nat /\ Len(n) \in Nat
        BY <1>3, <1>6
      <4>2. t = n \/ t \in S
        BY <1>7, <2>3
      <4>3. t \in S => Len(t) < Len(n)
        BY <2>2
      <4> QED
        BY <4>1, <4>2, <4>3
    <3>2. Len(t \o c) = Len(t) + Len(c) /\ Len(n \o c) = Len(n) + Len(c)
      BY <1>3, <1>6
    <3> QED
      BY <1>2, <2>1, <3>1, <3>2
  <2> QED
    BY <1>3, <1>4, <1>9, <2>1, <2>3
<1>10. CASE n \o c \notin trie.nodes /\ S = {}
  <2>1. m = Root
    BY <1>10 DEF Best
  <2>2. \A t \in CodePointSuffixes(s) : t \o c \notin trie.nodes
    BY <1>7, <1>10
  <2> HIDE DEF m, S
  <2> QED
    BY <1>1, <1>4, <2>1, <2>2
<1>11. CASE n \o c \notin trie.nodes /\ S # {}
  <2> DEFINE l == LongestIn(S)
  <2>1. m = l \o c
    BY <1>11 DEF Best
  <2>2. l \in S /\ \A r \in S : Len(r) <= Len(l)
    <3>1. S \in SUBSET ProperSuffixes(n)
      OBVIOUS
    <3> HIDE DEF S
    <3> QED
      BY <1>3, <1>11, <3>1, LongestIs
  <2>3. l \o c \in trie.nodes /\ l \in CodePointSuffixes(s)
    BY <1>8, <2>2
  <2>4. ASSUME NEW t \in CodePointSuffixes(s), t \o c \in trie.nodes PROVE Len(t \o c) <= Len(l \o c)
    <3>1. t \in S
      BY <1>7, <1>11, <2>4
    <3>2. Len(t) <= Len(l)
      BY <2>2, <3>1
    <3> HIDE DEF l
    <3> QED
      BY <1>2, <1>6, <2>3, <3>2
  <2> HIDE DEF m, l
  <2> QED
    BY <1>4, <2>1, <2>3, <2>4
<1> QED
  BY <1>9, <1>10, <1>11

\* The links of a finished automaton are right and all set.
LEMMA FinishedLinks ==
  ASSUME NEW K, AreKeywords(K), NEW trie, trie = TrieOf(K)
  PROVE  /\ LinksRight(trie, SuffixLinksOf(trie))
         /\ \A n \in LinkNodesOf(trie) :
              /\ Linked(SuffixLinksOf(trie), n)
              /\ OutputLinksOf(trie)[n] = LongestSuffixKeyword(trie, n)
<1> DEFINE LN == LinkNodesOf(trie)
           link == SuffixLinksOf(trie)
<1>1. /\ Root \in LN /\ Null \notin LN
  <2>1. /\ LN = {n \in trie.nodes : WholeCodePoints(n)} /\ Root \in trie.nodes /\ Null \notin trie.nodes
    BY TrieNodes
  <2> QED
    BY <2>1, SuffixesOfRoot
<1>2. \A n \in LN : n # Root => LongestSuffixNode(trie, n) \in LN
  BY LongestSuffixNodeIs
<1>3. link = [n \in LN |-> IF n = Root THEN Null ELSE LongestSuffixNode(trie, n)]
  BY DEF SuffixLinksOf
<1> HIDE DEF LN, link
<1>4. /\ link \in [LN -> LN \cup {Null}] /\ link[Root] = Null
      /\ \A n \in LN : n # Root => link[n] = LongestSuffixNode(trie, n) /\ link[n] \in LN
  BY <1>1, <1>2, <1>3
<1>5. \A n \in LN : Linked(link, n)
  BY <1>1, <1>4 DEF Linked
<1>6. LinksRight(trie, link)
  BY <1>1, <1>4, <1>5 DEF LinksRight, LN
<1>7. LongestSuffixKeyword(trie, Root) = Null
  BY SuffixesOfRoot DEF LongestSuffixKeyword, LongestIn
<1>8. \A n \in LN : OutputLinksOf(trie)[n] = LongestSuffixKeyword(trie, n)
  BY <1>7 DEF OutputLinksOf, LN
<1> QED
  BY <1>5, <1>6, <1>8 DEF LN, link

\* What a string ends with, byte by byte.
LEMMA IsSuffixIs ==
  ASSUME NEW k \in Seq(Byte), NEW s \in Seq(Byte)
  PROVE  IsSuffix(k, s) <=> /\ Len(k) <= Len(s)
                            /\ k = SubSeq(s, (Len(s) - Len(k)) + 1, Len(s))
<1> DEFINE m == Len(k)
           n == Len(s)
           rk == Reverse(k)
           rs == Reverse(s)
           o == n - m
<1>1. m \in Nat /\ n \in Nat
  OBVIOUS
<1>2. /\ rk \in Seq(Byte) /\ Len(rk) = m /\ \A i \in 1..m : rk[i] = k[(m - i) + 1]
      /\ rs \in Seq(Byte) /\ Len(rs) = n /\ \A i \in 1..n : rs[i] = s[(n - i) + 1]
  <2>1. ASSUME NEW t \in Seq(Byte)
        PROVE  /\ Reverse(t) \in Seq(Byte) /\ Len(Reverse(t)) = Len(t)
               /\ \A i \in 1..Len(t) : Reverse(t)[i] = t[(Len(t) - i) + 1]
    <3>1. Reverse(t) = [i \in 1..Len(t) |-> t[(Len(t) - i) + 1]]
      BY DEF Reverse
    <3>2. \A i \in 1..Len(t) : t[(Len(t) - i) + 1] \in Byte
      <4>1. \A i \in 1..Len(t) : (Len(t) - i) + 1 \in 1..Len(t)
        OBVIOUS
      <4> QED
        BY <4>1
    <3> QED
      BY <3>1, <3>2
  <2> QED
    BY <2>1
<1> HIDE DEF rk, rs
<1>3. CASE m <= n
  <2>1. m \in 0..n /\ o \in 0..n /\ o \in Nat /\ n - o = m
    BY <1>1, <1>3
  <2> DEFINE t == SubSeq(s, o + 1, n)
  <2>2. t \in Seq(Byte) /\ Len(t) = m /\ \A i \in 1..m : t[i] = s[o + i]
    BY <2>1, Cut
  <2>3. SubSeq(rk, 1, m) = rk
    BY <1>2, SubSeqFull
  <2> DEFINE u == SubSeq(rs, 1, m)
  <2>4. u \in Seq(Byte) /\ Len(u) = m /\ \A i \in 1..m : u[i] = rs[i]
    BY <1>2, <2>1, Cut
  <2> HIDE DEF t, u
  <2>5. rk = u <=> \A i \in 1..m : rk[i] = rs[i]
    <3>1. rk \in Seq(Byte) /\ Len(rk) = m
      BY <1>2
    <3>2. (\A i \in 1..m : rk[i] = u[i]) => rk = u
      BY <2>4, <3>1, SeqEqual
    <3> QED
      BY <2>4, <3>2
  <2>6. k = t <=> \A i \in 1..m : k[i] = s[o + i]
    BY <2>2, SeqEqual
  <2>7. \A i \in 1..m : i \in 1..n /\ (m - i) + 1 \in 1..m /\ o + ((m - i) + 1) = (n - i) + 1
    BY <1>1, <2>1
  <2>8. (\A i \in 1..m : rk[i] = rs[i]) <=> (\A i \in 1..m : k[i] = s[o + i])
    <3>1. ASSUME \A i \in 1..m : rk[i] = rs[i], NEW j \in 1..m PROVE k[j] = s[o + j]
      <4> DEFINE i == (m - j) + 1
      <4>1. i \in 1..m /\ i \in 1..n /\ (m - i) + 1 = j /\ (n - i) + 1 = o + j
        BY <1>1, <2>1
      <4> HIDE DEF i
      <4> QED
        BY <1>2, <3>1, <4>1
    <3>2. ASSUME \A i \in 1..m : k[i] = s[o + i], NEW j \in 1..m PROVE rk[j] = rs[j]
      <4>1. rk[j] = k[(m - j) + 1] /\ rs[j] = s[(n - j) + 1]
        BY <1>2, <2>7
      <4>2. k[(m - j) + 1] = s[o + ((m - j) + 1)]
        BY <2>7, <3>2
      <4> QED
        BY <2>7, <4>1, <4>2
    <3> QED
      BY <3>1, <3>2
  <2>9. IsSuffix(k, s) <=> rk = u
    BY <1>2, <1>3, <2>3 DEF IsSuffix, IsPrefix, rk, rs, u
  <2> QED
    BY <1>3, <2>5, <2>6, <2>8, <2>9 DEF t
<1>4. CASE ~(m <= n)
  BY <1>2, <1>4 DEF IsSuffix, IsPrefix, rk, rs
<1> QED
  BY <1>3, <1>4

\* In a valid text a valid string can only end at the bytes of whole code points.
LEMMA EndingIs ==
  ASSUME NEW k, ValidText(k), k # << >>, NEW s, ValidText(s)
  PROVE  IsSuffix(k, s) <=> k \in CodePointSuffixes(s)
<1>1. /\ k \in Seq(Byte) /\ s \in Seq(Byte) /\ WholeCodePoints(s) /\ WholeCodePoints(k)
      /\ \A o \in 0..(Len(s) - 1) : o \in CodePointStarts(s) <=> s[o + 1] \notin 128..191
  BY DEF ValidText
<1>2. Len(k) \in Nat \ {0} /\ Len(s) \in Nat
  BY <1>1, EmptySeq
<1>3. k[1] \notin 128..191
  <2>1. 0 \in CodePointStarts(k) /\ 0 \in 0..(Len(k) - 1)
    BY <1>2, StartsAre
  <2>2. k[0 + 1] \notin 128..191
    BY <2>1 DEF ValidText
  <2> QED
    BY <2>2
<1>4. IsSuffix(k, s) <=> Len(k) <= Len(s) /\ k = SubSeq(s, (Len(s) - Len(k)) + 1, Len(s))
  BY <1>1, IsSuffixIs
<1> DEFINE o == Len(s) - Len(k)
<1>5. ASSUME Len(k) <= Len(s), k = SubSeq(s, o + 1, Len(s)) PROVE k \in CodePointSuffixes(s)
  <2>1. o \in 0..Len(s) /\ o \in 0..(Len(s) - 1) /\ 1 \in 1..(Len(s) - o)
    BY <1>2, <1>5
  <2>2. SubSeq(s, o + 1, Len(s))[1] = s[o + 1]
    BY <1>1, <2>1, Cut
  <2> HIDE DEF o
  <2>3. o \in CodePointStarts(s)
    BY <1>1, <1>3, <1>5, <2>1, <2>2
  <2>4. CASE o = 0
    <3>1. SubSeq(s, 1, Len(s)) = s
      BY <1>1, SubSeqFull
    <3>2. o + 1 = 1
      BY <2>4
    <3> QED
      BY <1>5, <3>1, <3>2 DEF CodePointSuffixes
  <2>5. CASE o # 0
    BY <1>5, <2>3, <2>5 DEF CodePointSuffixes, ProperSuffixes
  <2> QED
    BY <2>4, <2>5
<1>6. ASSUME k \in CodePointSuffixes(s) PROVE Len(k) <= Len(s) /\ k = SubSeq(s, o + 1, Len(s))
  <2>1. CASE k = s
    <3>1. o = 0 /\ SubSeq(s, 1, Len(s)) = s
      BY <1>1, <1>2, <2>1, SubSeqFull
    <3>2. Len(k) <= Len(s)
      BY <1>2, <2>1
    <3>3. o + 1 = 1
      BY <3>1
    <3> HIDE DEF o
    <3> QED
      BY <2>1, <3>1, <3>2, <3>3
  <2>2. CASE k \in ProperSuffixes(s)
    <3>1. PICK x \in CodePointStarts(s) \ {0} : k = SubSeq(s, x + 1, Len(s))
      BY <2>2 DEF ProperSuffixes
    <3>2. x \in 0..Len(s)
      BY <1>2, StartsAre
    <3>3. Len(k) = Len(s) - x
      BY <1>1, <3>1, <3>2, Cut
    <3>4. o = x /\ Len(k) <= Len(s)
      BY <1>2, <3>2, <3>3
    <3> HIDE DEF o
    <3> QED
      BY <3>1, <3>4
  <2> QED
    BY <1>6, <2>1, <2>2 DEF CodePointSuffixes
<1> QED
  BY <1>4, <1>5, <1>6

\* What was read so far of a valid text is valid.
LEMMA ValidPrefix ==
  ASSUME NEW s, ValidText(s), NEW o \in CodePointStarts(s)
  PROVE  ValidText(SubSeq(s, 1, o)) /\ Len(SubSeq(s, 1, o)) = o
<1> DEFINE t == SubSeq(s, 1, o)
<1>1. /\ s \in Seq(Byte) /\ WholeCodePoints(s)
      /\ \A x \in 0..(Len(s) - 1) : x \in CodePointStarts(s) <=> s[x + 1] \notin 128..191
  BY DEF ValidText
<1>2. o \in 0..Len(s) /\ Len(s) \in Nat
  BY <1>1, StartsAre
<1>3. /\ WholeCodePoints(t) /\ CodePointStarts(t) = {x \in CodePointStarts(s) : x <= o}
      /\ t \in Seq(Byte) /\ Len(t) = o /\ \A i \in 1..o : t[i] = s[i]
  BY <1>1, <1>2, WholePrefix, Cut
<1> HIDE DEF t
<1>4. ASSUME NEW x \in 0..(o - 1) PROVE x \in CodePointStarts(t) <=> t[x + 1] \notin 128..191
  <2>1. x \in 0..(Len(s) - 1) /\ x + 1 \in 1..o /\ x <= o
    BY <1>2
  <2> QED
    BY <1>1, <1>3, <2>1
<1> QED
  BY <1>3, <1>4 DEF ValidText, t

\* The keywords among the ends of a node: the longest one, and those among its ends.
LEMMA KeywordChain ==
  ASSUME NEW K, AreKeywords(K), NEW trie, trie = TrieOf(K), NEW n \in LinkNodesOf(trie)
  PROVE  LET m == LongestSuffixKeyword(trie, n)
         IN  \/ m = Null /\ ProperSuffixes(n) \cap K = {}
             \/ /\ m \in K /\ m \in LinkNodesOf(trie) /\ m \in ProperSuffixes(n) /\ m # Null
                /\ Len(m) < Len(n)
                /\ ProperSuffixes(m) \subseteq ProperSuffixes(n)
                /\ \A t \in ProperSuffixes(n) \cap K : t = m \/ t \in ProperSuffixes(m)
                /\ \A t \in ProperSuffixes(n) : t = m \/ t \in ProperSuffixes(m) \/ Len(m) < Len(t)
<1> DEFINE S == ProperSuffixes(n) \cap K
           m == LongestSuffixKeyword(trie, n)
<1>1. /\ n \in Seq(Byte) /\ WholeCodePoints(n) /\ trie.keywords = K
      /\ K \subseteq LinkNodesOf(trie) /\ Null \notin LinkNodesOf(trie)
  BY TrieNodes
<1>2. m = LongestIn(S) /\ S \in SUBSET ProperSuffixes(n)
  BY <1>1 DEF LongestSuffixKeyword
<1>3. CASE S = {}
  BY <1>2, <1>3 DEF LongestIn
<1>4. CASE S # {}
  <2> HIDE DEF S, m
  <2>1. m \in S /\ \A r \in S : Len(r) <= Len(m)
    BY <1>1, <1>2, <1>4, LongestIs
  <2>2. m \in ProperSuffixes(n) /\ m \in K
    BY <2>1 DEF S
  <2>3. /\ Len(m) < Len(n) /\ ProperSuffixes(m) \subseteq ProperSuffixes(n)
        /\ \A t \in ProperSuffixes(n) : t = m \/ t \in ProperSuffixes(m) \/ Len(m) < Len(t)
        /\ m \in Seq(Byte)
    BY <1>1, <2>2, SuffixType, SuffixOfSuffix
  <2>4. ASSUME NEW t \in S PROVE t = m \/ t \in ProperSuffixes(m)
    <3>1. Len(t) <= Len(m) /\ t \in ProperSuffixes(n)
      BY <2>1, <2>4 DEF S
    <3>2. t \in Seq(Byte)
      BY <1>1, <3>1, SuffixType
    <3>3. Len(t) \in Nat /\ Len(m) \in Nat
      BY <2>3, <3>2
    <3> QED
      BY <2>3, <3>1, <3>3
  <2> QED
    BY <1>1, <2>2, <2>3, <2>4 DEF S, m
<1> QED
  BY <1>3, <1>4
=============================================================================
