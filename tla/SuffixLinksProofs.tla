-------------------------- MODULE SuffixLinksProofs --------------------------
(***************************************************************************)
(* The links of the automaton are right for every set of keywords whose    *)
(* code points are whole: when the walk is over, every suffix link is the  *)
(* longest proper suffix that is a node, and every output link the longest *)
(* one that is a keyword.  The argument is the one the code relies on and  *)
(* never states: the walk is breadth first, so that whatever a climb meets *)
(* is shorter than the node it is made for, and has its links already.     *)
(***************************************************************************)
EXTENDS SuffixLinks, AutomatonProofs

\* One byte more either finishes the code point or does not: the string that ends with
\* it is whole or not.
LEMMA OneMoreByte ==
  ASSUME NEW l \in Seq(Byte), WholeCodePoints(l), NEW bytes, IsUnfinished(bytes), NEW b \in Byte
  PROVE  LET s == Append(bytes, b)
         IN  /\ s \in Seq(Byte) /\ (l \o bytes) \o <<b>> = l \o s
             /\ WholeCodePoints(l \o s) => IsCodePoint(s)
             /\ ~WholeCodePoints(l \o s) => IsUnfinished(s)
<1> DEFINE s == Append(bytes, b)
           n == l \o s
<1>1. bytes \in Seq(Byte) /\ (bytes = << >> \/ Len(bytes) < CodePointLength(bytes[1]))
  BY DEF IsUnfinished
<1>2. /\ s \in Seq(Byte) /\ s # << >> /\ Len(s) = Len(bytes) + 1 /\ Len(bytes) \in Nat
      /\ bytes = << >> => s[1] = b
      /\ bytes # << >> => s[1] = bytes[1]
  BY <1>1
<1>3. (l \o bytes) \o <<b>> = l \o s
  <2>1. s = bytes \o <<b>> /\ <<b>> \in Seq(Byte)
    BY <1>1, AppendIsConcat
  <2> QED
    BY <1>1, <2>1, ConcatAssociative
<1> HIDE DEF s
<1>4. CodePointLength(s[1]) \in Nat \ {0} /\ Len(s) <= CodePointLength(s[1])
  <2>1. CodePointLength(s[1]) \in Nat \ {0} /\ CodePointLength(bytes[1]) \in Nat \ {0}
    BY CodePointLengthPositive
  <2>2. bytes = << >> => Len(bytes) = 0
    OBVIOUS
  <2> QED
    BY <1>1, <1>2, <2>1, <2>2
<1>5. CASE Len(s) = CodePointLength(s[1])
  <2>1. IsCodePoint(s)
    BY <1>2, <1>5 DEF IsCodePoint
  <2> QED
    BY <1>2, <1>3, <2>1, WholeJoin DEF s
<1>6. CASE Len(s) # CodePointLength(s[1])
  <2>1. IsUnfinished(s)
    BY <1>2, <1>4, <1>6 DEF IsUnfinished
  <2>2. ASSUME WholeCodePoints(n) PROVE FALSE
    <3>1. /\ n \in Seq(Byte) /\ Len(n) = Len(l) + Len(s) /\ Len(l) \in Nat /\ Len(s) \in Nat \ {0}
          /\ \A i \in 1..Len(l) : n[i] = l[i]
          /\ \A i \in 1..Len(s) : n[Len(l) + i] = s[i]
      BY <1>2, Joined
    <3> HIDE DEF n
    <3>2. AreStarts(n, CodePointStarts(n))
      BY <2>2, <3>1, StartsOfWhole
    <3>3. Len(l) \in CodePointStarts(n)
      <4>1. CodePointStarts(l) \subseteq CodePointStarts(n)
        BY <3>1, StartsOfLonger
      <4> QED
        BY <3>1, <4>1, StartsAre
    <3>4. Len(l) # Len(n) /\ 1 \in 1..Len(s)
      BY <3>1
    <3>5. Len(l) + CodePointLength(n[Len(l) + 1]) \in 0..Len(n)
      BY <3>2, <3>3, <3>4 DEF AreStarts
    <3>6. n[Len(l) + 1] = s[1]
      BY <3>1, <3>4
    <3> QED
      BY <1>4, <1>6, <3>1, <3>5, <3>6
  <2> QED
    BY <1>2, <1>3, <2>1, <2>2 DEF s
<1> QED
  BY <1>5, <1>6



-----------------------------------------------------------------------------
(* One item of the walk. *)

\* The keywords are those of one of the sets.
LEMMA KeywordsOk ==
  ASSUME IInv
  PROVE  /\ AreKeywords(trie.keywords) /\ trie = TrieOf(trie.keywords)
         /\ Root \in LinkNodesOf(trie) /\ Null \notin LinkNodesOf(trie)
         /\ LinkNodesOf(trie) = {n \in trie.nodes : WholeCodePoints(n)}
         /\ trie.nodes \subseteq Seq(Byte)
<1>1. AreKeywords(trie.keywords) /\ trie = TrieOf(trie.keywords)
  BY KeywordSetsAssumption DEF IInv, AreKeywords
<1>2. /\ LinkNodesOf(trie) = {n \in trie.nodes : WholeCodePoints(n)}
      /\ Root \in trie.nodes /\ Null \notin trie.nodes /\ trie.nodes \subseteq Seq(Byte)
  BY <1>1, TrieNodes
<1> QED
  BY <1>1, <1>2, SuffixesOfRoot

\* The item that is handled, and the queue as a sequence.
LEMMA HeadItem ==
  ASSUME IInv, bfs_queue # << >>
  PROVE  /\ Len(bfs_queue) \in Nat \ {0} /\ Head(bfs_queue) = bfs_queue[1]
         /\ ItemOk(bfs_queue[1])
         /\ \E V : bfs_queue \in Seq(V)
<1> DEFINE q == bfs_queue
           V == {q[i] : i \in 1..Len(q)}
<1>1. Len(q) \in Nat /\ q = [i \in 1..Len(q) |-> q[i]]
  BY DEF IInv
<1>2. q \in Seq(V)
  <2>1. q \in [1..Len(q) -> V]
    BY <1>1
  <2> HIDE DEF V, q
  <2> QED
    BY <1>1, <2>1
<1>3. Len(q) # 0
  <2> HIDE DEF V
  <2> QED
    BY <1>2, EmptySeq
<1>4. Head(q) = q[1]
  BY DEF Head
<1>5. ItemOk(q[1])
  BY <1>1, <1>3 DEF IInv
<1> QED
  BY <1>1, <1>2, <1>3, <1>4, <1>5

\* Because the walk is breadth first, whatever is not longer than the node that is
\* visited has its links.
LEMMA ShorterIsLinked ==
  ASSUME IInv, bfs_queue # << >>, NEW n \in LinkNodesOf(trie), Len(n) <= Len(bfs_queue[1].node)
  PROVE  Linked(suffixLink, n)
<1> SUFFICES ASSUME n # Root, suffixLink[n] = Null PROVE FALSE
  BY DEF Linked
<1>1. PICK i \in 1..Len(bfs_queue), k \in 0..(Len(n) - 1) : bfs_queue[i].node = SubSeq(n, 1, k)
  BY DEF IInv, StillToVisit
<1>2. Len(bfs_queue) \in Nat \ {0} /\ ItemOk(bfs_queue[1]) /\ 1 \in 1..Len(bfs_queue)
  BY HeadItem
<1>3. n \in Seq(Byte) /\ bfs_queue[1].node \in Seq(Byte)
  BY <1>2, KeywordsOk DEF ItemOk
<1>4. k \in 0..Len(n)
  BY <1>1, <1>3
<1>5. Depth(i) = k /\ k < Len(n) /\ Depth(1) = Len(bfs_queue[1].node)
      /\ Len(bfs_queue[1].node) \in Nat /\ Len(n) \in Nat
  BY <1>1, <1>3, <1>4, Cut DEF Depth
<1>6. Depth(1) <= Depth(i)
  <2>1. CASE i = 1
    BY <1>5, <2>1
  <2>2. CASE i # 1
    BY <1>1, <1>2, <2>2 DEF IInv, BreadthFirst
  <2> QED
    BY <2>1, <2>2
<1> QED
  BY <1>5, <1>6

\* An item made of its parts is one.
LEMMA ItemOfParts ==
  ASSUME NEW node \in trie.nodes, NEW last \in LinkNodesOf(trie), NEW bytes, IsUnfinished(bytes),
         node = last \o bytes
  PROVE  ItemOk(Item(node, last, bytes)) /\ Item(node, last, bytes).node = node
BY DEF ItemOk, Item

IsChildBy(c, n, b) == b \in Byte /\ c = Append(n, b)

\* What a step makes of one child: a right item and, at the end of a code point, the
\* right links.
LEMMA ChildIsRight ==
  ASSUME IInv, bfs_queue # << >>, NEW c \in trie.nodes, NEW b,
         IsChildBy(c, bfs_queue[1].node, b)
  PROVE  LET item == bfs_queue[1]
         IN  /\ ItemOk(ItemOf(item, c)) /\ ItemOf(item, c).node = c
             /\ c \in LinkNodesOf(trie) =>
                  /\ c # Root
                  /\ ChildSuffix(item, c) = LongestSuffixNode(trie, c)
                  /\ ChildOutput(item, c) = LongestSuffixKeyword(trie, c)
                  /\ Linked(suffixLink, LongestSuffixNode(trie, c))
<1> DEFINE item == bfs_queue[1]
           K == trie.keywords
           l == item.last_codepoint_node
           bytes == item.bytes_since_last_cp
           s == Append(bytes, b)
<1>1. /\ AreKeywords(K) /\ trie = TrieOf(K) /\ trie.nodes \subseteq Seq(Byte)
      /\ LinkNodesOf(trie) = {n \in trie.nodes : WholeCodePoints(n)}
      /\ Root \in LinkNodesOf(trie) /\ Null \notin LinkNodesOf(trie)
  BY KeywordsOk
<1>11. AreKeywords(K) /\ trie = TrieOf(K)
  BY <1>1
<1>2. /\ ItemOk(item) /\ l \in LinkNodesOf(trie) /\ item.node \in trie.nodes
      /\ IsUnfinished(bytes) /\ item.node = l \o bytes
  BY HeadItem DEF ItemOk
<1>3. l \in Seq(Byte) /\ WholeCodePoints(l) /\ bytes \in Seq(Byte) /\ item.node \in Seq(Byte)
  BY <1>1, <1>2 DEF IsUnfinished
<1>4. c = item.node \o <<b>> /\ Last(c) = b /\ Len(c) = Len(item.node) + 1
  BY <1>3, AppendIsConcat DEF Last, IsChildBy
<1>10. bytes = item.bytes_since_last_cp /\ s = Append(bytes, b) /\ l = item.last_codepoint_node
       /\ K = trie.keywords
  OBVIOUS
<1> HIDE DEF item, l, bytes, s, K
<1>5. /\ s \in Seq(Byte) /\ c = l \o s
      /\ WholeCodePoints(c) => IsCodePoint(s)
      /\ ~WholeCodePoints(c) => IsUnfinished(s)
  <2>1. b \in Byte
    BY DEF IsChildBy
  <2>2. c = l \o Append(bytes, b)
    BY <1>2, <1>3, <1>4, <2>1, OneMoreByte
  <2> QED
    BY <1>2, <1>3, <1>10, <2>1, <2>2, OneMoreByte
<1>6. Last(c) = b /\ Len(c) = Len(item.node) + 1
  BY <1>4
<1>7. c \in LinkNodesOf(trie) <=> isLastByteOfCodePoint(trie, c)
  BY DEF LinkNodesOf
<1>8. ItemOk(ItemOf(item, c)) /\ ItemOf(item, c).node = c
  <2>1. CASE c \in LinkNodesOf(trie)
    <3>1. ItemOf(item, c) = Item(c, c, << >>)
      BY <1>7, <2>1 DEF ItemOf
    <3>2. c \o << >> = c /\ IsUnfinished(<< >>)
      BY <1>1, ConcatEmptySeq DEF IsUnfinished
    <3> DEFINE none == << >>
    <3>3. c = c \o none /\ IsUnfinished(none)
      BY <3>2
    <3>4. ItemOf(item, c) = Item(c, c, none)
      BY <3>1
    <3> HIDE DEF none
    <3>5. ItemOk(Item(c, c, none)) /\ Item(c, c, none).node = c
      BY <2>1, <3>3, ItemOfParts
    <3> QED
      BY <3>4, <3>5
  <2>2. CASE c \notin LinkNodesOf(trie)
    <3>1. ItemOf(item, c) = Item(c, l, s)
      BY <1>6, <1>7, <1>10, <2>2 DEF ItemOf
    <3>2. IsUnfinished(s)
      BY <1>1, <1>5, <2>2
    <3>3. ItemOk(Item(c, l, s)) /\ Item(c, l, s).node = c
      BY <1>2, <1>5, <3>2, ItemOfParts
    <3> QED
      BY <3>1, <3>3
  <2> QED
    BY <2>1, <2>2
<1>9. ASSUME c \in LinkNodesOf(trie)
      PROVE  /\ c # Root
             /\ ChildSuffix(item, c) = LongestSuffixNode(trie, c)
             /\ ChildOutput(item, c) = LongestSuffixKeyword(trie, c)
             /\ Linked(suffixLink, LongestSuffixNode(trie, c))
  <2> DEFINE m == LongestSuffixNode(trie, c)
  <2>0. m = LongestSuffixNode(trie, c)
    OBVIOUS
  <2> HIDE DEF m
  <2>1. IsCodePoint(s) /\ LinksRight(trie, suffixLink)
    BY <1>1, <1>5, <1>9 DEF IInv
  <2>2. Linked(suffixLink, l)
    <3>1. Len(l) <= Len(item.node)
      BY <1>2, <1>3
    <3> QED
      BY <1>2, <3>1, ShorterIsLinked DEF item
  <2>3. /\ c # Root
        /\ SuffixTarget(trie, suffixLink, suffixLink[l], s) = m
        /\ l = Root => m = Root
    <3>1. c = l \o s /\ l \o s \in trie.nodes
      BY <1>5
    <3>2. /\ l \o s # Root
          /\ SuffixTarget(trie, suffixLink, suffixLink[l], s) = LongestSuffixNode(trie, l \o s)
          /\ l = Root => LongestSuffixNode(trie, l \o s) = Root
      BY <1>2, <1>11, <2>1, <2>2, <3>1, ClimbFindsSuffix
    <3> QED
      BY <2>0, <3>1, <3>2
  <2>4. item.node = Root => l = Root
    <3>1. Len(item.node) = Len(l) + Len(bytes) /\ Len(l) \in Nat /\ Len(bytes) \in Nat
      BY <1>2, <1>3, Joined
    <3>2. l # Root => Len(l) # 0
      BY <1>3, EmptySeq DEF Root
    <3>3. Len(Root) = 0
      BY DEF Root
    <3>4. ASSUME item.node = Root PROVE l = Root
      <4>1. Len(l) + Len(bytes) = 0
        BY <3>1, <3>3, <3>4
      <4>2. Len(l) = 0
        BY <3>1, <4>1
      <4> QED
        BY <3>2, <4>2
    <3> QED
      BY <3>4
  <2>5. ChildSuffix(item, c) = m
    BY <1>6, <1>10, <2>3, <2>4 DEF ChildSuffix
  <2>6. m \in LinkNodesOf(trie) /\ Len(m) < Len(c)
    BY <1>1, <1>9, <2>0, <2>3, LongestSuffixNodeIs
  <2>7. Linked(suffixLink, m)
    <3>1. Len(m) <= Len(item.node)
      <4>1. Len(m) \in Nat /\ Len(item.node) \in Nat
        BY <1>1, <1>3, <2>6
      <4> QED
        BY <1>6, <2>6, <4>1
    <3> QED
      BY <2>6, <3>1, ShorterIsLinked DEF item
  <2>8. LongestSuffixKeyword(trie, c) = IF m \in K THEN m ELSE LongestSuffixKeyword(trie, m)
    <3>1. LongestSuffixKeyword(trie, c) =
            IF LongestSuffixNode(trie, c) \in K THEN LongestSuffixNode(trie, c)
            ELSE LongestSuffixKeyword(trie, LongestSuffixNode(trie, c))
      BY <1>9, <1>11, <2>3, LongestSuffixKeywordIs
    <3> QED
      BY <2>0, <3>1
  <2>9. LongestSuffixKeyword(trie, Root) = Null /\ Root \notin K
    <3>1. ProperSuffixes(Root) \cap trie.keywords = {}
      BY SuffixesOfRoot
    <3>2. Root \notin K
      BY <1>1, TrieNodes
    <3> QED
      BY <3>1, <3>2 DEF LongestSuffixKeyword, LongestIn
  <2>10. ChildOutput(item, c) = LongestSuffixKeyword(trie, c)
    <3>1. CASE item.node = Root
      <4>1. m = Root
        BY <2>3, <2>4, <3>1
      <4>2. LongestSuffixKeyword(trie, c) = Null
        BY <2>8, <2>9, <4>1
      <4> QED
        BY <3>1, <4>2 DEF ChildOutput
    <3>2. CASE item.node # Root
      <4>1. ChildOutput(item, c) = IF m \in K THEN m ELSE outputLink[m]
        BY <2>5, <3>2 DEF ChildOutput, OutputTarget, isTerminalNode, K
      <4>2. outputLink[m] = LongestSuffixKeyword(trie, m)
        <5>1. CASE m = Root
          BY <2>9, <5>1 DEF IInv
        <5>2. CASE m # Root
          BY <2>6, <2>7, <5>2 DEF IInv, Linked
        <5> QED
          BY <5>1, <5>2
      <4> QED
        BY <2>8, <4>1, <4>2
    <3> QED
      BY <3>1, <3>2
  <2> QED
    BY <2>0, <2>3, <2>5, <2>7, <2>10
<1> QED
  BY <1>8, <1>9 DEF item

\* The children of the node that is visited, and the links and the queue after the step.
LEMMA StepIs ==
  ASSUME IInv, VisitItem
  PROVE  LET item == bfs_queue[1]
             children == getChildren(trie, item.node)
             linked == {c \in LinkNodesOf(trie) : c # Root /\ Front(c) = item.node}
         IN  /\ bfs_queue # << >> /\ trie' = trie
             /\ Len(children) \in Nat
             /\ \A i \in 1..Len(children) :
                  /\ children[i] \in trie.nodes
                  /\ \E b : IsChildBy(children[i], item.node, b)
                  /\ Len(children[i]) = Len(item.node) + 1
             /\ \A c \in trie.nodes : c # Root /\ Front(c) = item.node =>
                  \E i \in 1..Len(children) : children[i] = c
             /\ Len(bfs_queue') = (Len(bfs_queue) - 1) + Len(children)
             /\ bfs_queue' = [i \in 1..Len(bfs_queue') |-> bfs_queue'[i]]
             /\ \A i \in 1..(Len(bfs_queue) - 1) : bfs_queue'[i] = bfs_queue[i + 1]
             /\ \A i \in 1..Len(children) :
                  bfs_queue'[(Len(bfs_queue) - 1) + i] = ItemOf(item, children[i])
             /\ suffixLink' = [n \in LinkNodesOf(trie) |->
                                 IF n \in linked THEN ChildSuffix(item, n) ELSE suffixLink[n]]
             /\ outputLink' = [n \in LinkNodesOf(trie) |->
                                 IF n \in linked THEN ChildOutput(item, n) ELSE outputLink[n]]
<1> DEFINE item == bfs_queue[1]
           children == getChildren(trie, item.node)
           linked == {c \in LinkNodesOf(trie) : c # Root /\ Front(c) = item.node}
           q == bfs_queue
           N == Len(children)
           new == [i \in 1..N |-> ItemOf(item, children[i])]
<1>1. bfs_queue # << >> /\ trie' = trie
  BY DEF VisitItem
<1>2. /\ Len(q) \in Nat \ {0} /\ Head(q) = item /\ ItemOk(item)
      /\ \E V : q \in Seq(V)
  BY <1>1, HeadItem
<1>3. /\ AreKeywords(trie.keywords) /\ trie = TrieOf(trie.keywords) /\ item.node \in trie.nodes
      /\ trie.nodes \subseteq Seq(Byte)
  BY <1>2, KeywordsOk DEF ItemOk
<1>4. /\ N \in Nat /\ children \in [1..N -> trie.nodes] /\ DOMAIN children = 1..N
      /\ \A c \in trie.nodes :
           (\E i \in 1..N : children[i] = c) <=> c # Root /\ Front(c) = item.node
      /\ \A i \in 1..N :
           /\ Last(children[i]) \in Byte /\ children[i] = Append(item.node, Last(children[i]))
           /\ Len(children[i]) = Len(item.node) + 1
  <2> DEFINE K == trie.keywords
             n == item.node
  <2>1. AreKeywords(K) /\ trie = TrieOf(K) /\ n \in trie.nodes
    BY <1>3
  <2> HIDE DEF K, n
  <2>2. AreChildren(trie, n, getChildren(trie, n))
    BY <2>1, ChildrenAre
  <2> QED
    BY <2>2 DEF n, AreChildren
<1>5. linked = {c \in ToSet(children) : isLastByteOfCodePoint(trie, c)}
  <2>1. \A c : c \in ToSet(children) <=> \E i \in 1..N : children[i] = c
    BY <1>4 DEF ToSet
  <2>2. \A i \in 1..N : children[i] \in trie.nodes
    BY <1>4
  <2>3. \A c : c \in ToSet(children) <=> c \in trie.nodes /\ c # Root /\ Front(c) = item.node
    <3> HIDE DEF children, N, item
    <3> QED
      BY <1>4, <2>1, <2>2
  <2>4. LinkNodesOf(trie) = {c \in trie.nodes : isLastByteOfCodePoint(trie, c)}
    BY DEF LinkNodesOf
  <2> HIDE DEF children, N, item
  <2> QED
    BY <2>3, <2>4
<1>6. DOMAIN suffixLink = LinkNodesOf(trie)
  BY DEF IInv, LinksRight
<1>7. /\ q' = Tail(q) \o new
      /\ suffixLink' = [n \in LinkNodesOf(trie) |->
                          IF n \in linked THEN ChildSuffix(item, n) ELSE suffixLink[n]]
      /\ outputLink' = [n \in LinkNodesOf(trie) |->
                          IF n \in linked THEN ChildOutput(item, n) ELSE outputLink[n]]
  BY <1>2, <1>5, <1>6 DEF VisitItem, Enqueue, LinkNodes
<1>8. PICK V : q \in Seq(V)
  BY <1>2
<1> DEFINE W == V \cup {new[i] : i \in 1..N}
<1>9. /\ new \in Seq(W) /\ Len(new) = N /\ Tail(q) \in Seq(W) /\ Len(Tail(q)) = Len(q) - 1
      /\ \A i \in 1..(Len(q) - 1) : Tail(q)[i] = q[i + 1]
  <2>1. new \in [1..N -> W]
    OBVIOUS
  <2>2. new \in Seq(W) /\ Len(new) = N
    <3> HIDE DEF new, N, W
    <3> QED
      BY <1>4, <2>1
  <2>3. V \subseteq W
    OBVIOUS
  <2> HIDE DEF new, N, W
  <2>4. q \in Seq(W) /\ q # << >>
    BY <1>1, <1>8, <2>3, SeqMonotonic
  <2> QED
    BY <2>2, <2>4, HeadTailProperties
<1>10. /\ Len(q') = (Len(q) - 1) + N
       /\ q' = [i \in 1..Len(q') |-> q'[i]]
       /\ \A i \in 1..(Len(q) - 1) : q'[i] = q[i + 1]
       /\ \A i \in 1..N : q'[(Len(q) - 1) + i] = new[i]
  <2> DEFINE a == Tail(q)
             r == a \o new
  <2> HIDE DEF new, W, N, a
  <2>1. /\ r \in Seq(W) /\ Len(r) = Len(a) + Len(new)
        /\ \A i \in 1..(Len(a) + Len(new)) : r[i] = IF i <= Len(a) THEN a[i] ELSE new[i - Len(a)]
    BY <1>9, ConcatProperties DEF a
  <2>2. Len(a) = Len(q) - 1 /\ Len(new) = N /\ Len(a) \in Nat /\ N \in Nat
    BY <1>2, <1>4, <1>9 DEF a
  <2>3. q' = r
    BY <1>7 DEF a
  <2>4. \A i \in 1..(Len(q) - 1) : a[i] = q[i + 1]
    BY <1>9 DEF a
  <2> HIDE DEF r
  <2>5. r = [i \in 1..Len(r) |-> r[i]]
    BY <2>1
  <2>6. ASSUME NEW i \in 1..(Len(q) - 1) PROVE r[i] = q[i + 1]
    <3>1. i \in 1..(Len(a) + Len(new)) /\ i <= Len(a)
      BY <2>2
    <3> QED
      BY <2>1, <2>4, <3>1
  <2>7. ASSUME NEW i \in 1..N PROVE r[(Len(q) - 1) + i] = new[i]
    <3> DEFINE k == (Len(q) - 1) + i
    <3>1. k \in 1..(Len(a) + Len(new)) /\ ~(k <= Len(a)) /\ k - Len(a) = i
      BY <2>2
    <3> HIDE DEF k
    <3>2. r[k] = new[k - Len(a)]
      BY <2>1, <3>1
    <3> QED
      BY <3>1, <3>2 DEF k
  <2> QED
    BY <2>1, <2>2, <2>3, <2>5, <2>6, <2>7
<1>11. \A i \in 1..N : new[i] = ItemOf(item, children[i])
  OBVIOUS
<1>12. \A i \in 1..N :
         children[i] \in trie.nodes /\ (\E b : IsChildBy(children[i], item.node, b))
  <2> HIDE DEF children, N, item
  <2> QED
    BY <1>4 DEF IsChildBy
<1>13. \A c \in trie.nodes : c # Root /\ Front(c) = item.node => \E i \in 1..N : children[i] = c
  <2> HIDE DEF children, N, item
  <2> QED
    BY <1>4
<1> HIDE DEF new
<1>14. \A i \in 1..N : q'[(Len(q) - 1) + i] = ItemOf(item, children[i])
  BY <1>10, <1>11
<1> QED
  BY <1>1, <1>4, <1>7, <1>10, <1>12, <1>13, <1>14

-----------------------------------------------------------------------------
(* The invariant. *)

\* It holds at the start, when no link is set and the root is in the queue.
LEMMA LinksInit ==
  ASSUME Init
  PROVE  IInv
<1>1. PICK K \in KeywordSets : trie = TrieOf(K)
  BY DEF Init
<1>2. AreKeywords(K) /\ trie.keywords = K
  BY <1>1, KeywordSetsAssumption DEF AreKeywords, TrieOf
<1>3. /\ LinkNodesOf(trie) = {n \in trie.nodes : WholeCodePoints(n)}
      /\ Root \in trie.nodes /\ Null \notin trie.nodes /\ trie.nodes \subseteq Seq(Byte)
  BY <1>1, <1>2, TrieNodes
<1>4. Root \in LinkNodesOf(trie) /\ Root \in Seq(Byte)
  BY <1>3, SuffixesOfRoot
<1>5. /\ suffixLink = [n \in LinkNodesOf(trie) |-> Null]
      /\ outputLink = [n \in LinkNodesOf(trie) |-> Null]
      /\ bfs_queue = << Item(Root, Root, Root) >>
  BY DEF Init, Root
<1>6. IsUnfinished(Root) /\ Root = Root \o Root
  <2>1. Root = Root \o Root
    BY <1>4, ConcatEmptySeq DEF Root
  <2> QED
    BY <1>4, <2>1 DEF IsUnfinished, Root
<1>7. ItemOk(Item(Root, Root, Root)) /\ Item(Root, Root, Root).node = Root
  BY <1>3, <1>4, <1>6, ItemOfParts
<1>8. /\ Len(bfs_queue) = 1 /\ bfs_queue[1] = Item(Root, Root, Root)
      /\ bfs_queue = [i \in 1..Len(bfs_queue) |-> bfs_queue[i]]
  BY <1>5
<1>9. LinksRight(trie, suffixLink)
  BY <1>4, <1>5 DEF LinksRight
<1>10. StillToVisit
  <2> SUFFICES ASSUME NEW n \in LinkNodesOf(trie), n # Root
               PROVE  \E i \in 1..Len(bfs_queue) : \E k \in 0..(Len(n) - 1) :
                        bfs_queue[i].node = SubSeq(n, 1, k)
    BY DEF StillToVisit
  <2>1. n \in Seq(Byte)
    BY <1>3
  <2>2. Len(n) \in Nat \ {0}
    BY <2>1, EmptySeq DEF Root
  <2>3. SubSeq(n, 1, 0) = Root
    BY SubSeqEmpty DEF Root
  <2>4. 0 \in 0..(Len(n) - 1) /\ 1 \in 1..Len(bfs_queue)
    BY <1>8, <2>2
  <2> QED
    BY <1>7, <1>8, <2>3, <2>4
<1>11. \A i \in 1..Len(bfs_queue) : ItemOk(bfs_queue[i])
  BY <1>7, <1>8
<1>12. BreadthFirst
  BY <1>8 DEF BreadthFirst
<1>13. trie.keywords \in KeywordSets /\ trie = TrieOf(trie.keywords)
  BY <1>1, <1>2
<1> QED
  BY <1>4, <1>5, <1>8, <1>9, <1>10, <1>11, <1>12, <1>13 DEF IInv

\* Each step sets the links of the children right,
LEMMA StepKeepsLinks ==
  ASSUME IInv, VisitItem
  PROVE  /\ LinksRight(trie, suffixLink)'
         /\ outputLink' \in [LinkNodesOf(trie) -> LinkNodesOf(trie) \cup {Null}]
         /\ outputLink'[Root] = Null
         /\ \A n \in LinkNodesOf(trie) : suffixLink'[n] # Null =>
              n # Root /\ outputLink'[n] = LongestSuffixKeyword(trie, n)
         /\ \A n \in LinkNodesOf(trie) :
              n # Root /\ Front(n) = bfs_queue[1].node => suffixLink'[n] # Null
         /\ \A n \in LinkNodesOf(trie) : suffixLink[n] # Null => suffixLink'[n] # Null
<1> DEFINE item == bfs_queue[1]
           LN == LinkNodesOf(trie)
           linked == {c \in LN : c # Root /\ Front(c) = item.node}
<1>1. /\ bfs_queue # << >> /\ trie' = trie
      /\ suffixLink' = [n \in LN |-> IF n \in linked THEN ChildSuffix(item, n) ELSE suffixLink[n]]
      /\ outputLink' = [n \in LN |-> IF n \in linked THEN ChildOutput(item, n) ELSE outputLink[n]]
      /\ \A c \in trie.nodes : c # Root /\ Front(c) = item.node =>
           \E b : IsChildBy(c, item.node, b)
  BY StepIs
<1>2. /\ AreKeywords(trie.keywords) /\ trie = TrieOf(trie.keywords)
      /\ Root \in LN /\ Null \notin LN /\ LN \subseteq trie.nodes
  BY KeywordsOk
<1>3. ASSUME NEW n \in linked
      PROVE  /\ n # Root
             /\ ChildSuffix(item, n) = LongestSuffixNode(trie, n)
             /\ ChildOutput(item, n) = LongestSuffixKeyword(trie, n)
             /\ Linked(suffixLink, LongestSuffixNode(trie, n))
             /\ LongestSuffixNode(trie, n) \in LN
  <2>1. PICK b : IsChildBy(n, item.node, b)
    BY <1>1, <1>2
  <2>2. n \in LN /\ n # Root /\ n \in trie.nodes
    BY <1>2
  <2>3. /\ ChildSuffix(item, n) = LongestSuffixNode(trie, n)
        /\ ChildOutput(item, n) = LongestSuffixKeyword(trie, n)
        /\ Linked(suffixLink, LongestSuffixNode(trie, n))
    BY <1>1, <2>1, <2>2, ChildIsRight
  <2>4. LongestSuffixNode(trie, n) \in LN
    BY <1>2, <2>2, LongestSuffixNodeIs
  <2> QED
    BY <2>2, <2>3, <2>4
<1>4. /\ suffixLink \in [LN -> LN \cup {Null}] /\ suffixLink[Root] = Null
      /\ \A n \in LN : suffixLink[n] # Null =>
           suffixLink[n] = LongestSuffixNode(trie, n) /\ Linked(suffixLink, suffixLink[n])
      /\ outputLink \in [LN -> LN \cup {Null}] /\ outputLink[Root] = Null
      /\ \A n \in LN : suffixLink[n] # Null => n # Root /\ outputLink[n] = LongestSuffixKeyword(trie, n)
  BY DEF IInv, LinksRight
<1>5. \A n \in LN : LongestSuffixKeyword(trie, n) \in LN \cup {Null} \/ n \notin linked
  <2> SUFFICES ASSUME NEW n \in linked PROVE LongestSuffixKeyword(trie, n) \in LN \cup {Null}
    OBVIOUS
  <2> DEFINE S == ProperSuffixes(n) \cap trie.keywords
  <2>1. n \in Seq(Byte) /\ WholeCodePoints(n) /\ S \in SUBSET ProperSuffixes(n)
    BY KeywordsOk
  <2>2. LongestIn(S) = Null \/ LongestIn(S) \in S
    <3> HIDE DEF S, linked
    <3> QED
      BY <2>1, LongestIs
  <2>3. trie.keywords \subseteq LN
    BY <1>2, TrieNodes
  <2> QED
    BY <2>2, <2>3 DEF LongestSuffixKeyword
<1> HIDE DEF LN, linked, item
<1>6. Root \notin linked /\ linked \subseteq LN
  BY <1>3 DEF linked
<1>7. \A n \in LN : suffixLink'[n] = IF n \in linked THEN LongestSuffixNode(trie, n) ELSE suffixLink[n]
  BY <1>1, <1>3
<1>8. \A n \in LN : outputLink'[n] = IF n \in linked THEN LongestSuffixKeyword(trie, n) ELSE outputLink[n]
  BY <1>1, <1>3
<1>9. suffixLink' \in [LN -> LN \cup {Null}]
  <2>1. \A n \in LN : (IF n \in linked THEN ChildSuffix(item, n) ELSE suffixLink[n]) \in LN \cup {Null}
    BY <1>3, <1>4
  <2> QED
    BY <1>1, <2>1
<1>10. outputLink' \in [LN -> LN \cup {Null}]
  <2>1. \A n \in LN : (IF n \in linked THEN ChildOutput(item, n) ELSE outputLink[n]) \in LN \cup {Null}
    BY <1>3, <1>4, <1>5
  <2> QED
    BY <1>1, <2>1
<1>11. \A n \in LN : Linked(suffixLink, n) => Linked(suffixLink', n)
  BY <1>2, <1>3, <1>7 DEF Linked
<1>12. LinksRight(trie, suffixLink)'
  <2>1. suffixLink'[Root] = Null
    BY <1>2, <1>4, <1>6, <1>7
  <2>2. ASSUME NEW n \in LN, suffixLink'[n] # Null
        PROVE  suffixLink'[n] = LongestSuffixNode(trie, n) /\ Linked(suffixLink', suffixLink'[n])
    <3>1. CASE n \in linked
      BY <1>3, <1>7, <1>11, <3>1
    <3>2. CASE n \notin linked
      <4>1. suffixLink'[n] = suffixLink[n] /\ suffixLink[n] \in LN
        BY <1>4, <1>7, <2>2, <3>2
      <4> QED
        BY <1>4, <1>11, <2>2, <4>1
    <3> QED
      BY <3>1, <3>2
  <2>3. LinksRight(trie, suffixLink)' <=> LinksRight(trie, suffixLink')
    BY <1>1 DEF LinksRight, Linked, LinkNodesOf, isLastByteOfCodePoint, LongestSuffixNode
  <2> QED
    BY <1>9, <2>1, <2>2, <2>3 DEF LinksRight, LN
<1>13. \A n \in LN : suffixLink'[n] # Null => n # Root /\ outputLink'[n] = LongestSuffixKeyword(trie, n)
  BY <1>3, <1>4, <1>7, <1>8
<1>14. \A n \in LN : n # Root /\ Front(n) = item.node => suffixLink'[n] # Null
  <2> SUFFICES ASSUME NEW n \in linked PROVE suffixLink'[n] # Null
    BY DEF linked
  <2> QED
    BY <1>2, <1>3, <1>6, <1>7
<1>15. outputLink'[Root] = Null
  BY <1>2, <1>4, <1>6, <1>8
<1>16. \A n \in LN : suffixLink[n] # Null => suffixLink'[n] # Null
  BY <1>2, <1>3, <1>7
<1> QED
  BY <1>10, <1>12, <1>13, <1>14, <1>15, <1>16 DEF LN, item

\* and keeps the queue in order,
LEMMA StepKeepsOrder ==
  ASSUME IInv, VisitItem
  PROVE  /\ Len(bfs_queue') \in Nat
         /\ \A i \in 1..Len(bfs_queue') : ItemOk(bfs_queue[i])'
         /\ BreadthFirst'
<1> DEFINE q == bfs_queue
           item == q[1]
           children == getChildren(trie, item.node)
           N == Len(children)
           M == Len(q) - 1
<1>1. /\ bfs_queue # << >> /\ trie' = trie /\ N \in Nat
      /\ \A i \in 1..N :
           /\ children[i] \in trie.nodes
           /\ \E b : IsChildBy(children[i], item.node, b)
           /\ Len(children[i]) = Len(item.node) + 1
      /\ Len(q') = M + N
      /\ \A i \in 1..M : q'[i] = q[i + 1]
      /\ \A i \in 1..N : q'[M + i] = ItemOf(item, children[i])
  BY StepIs
<1>2. /\ Len(q) \in Nat \ {0} /\ M \in Nat /\ ItemOk(item)
      /\ \A i \in 1..Len(q) : ItemOk(q[i])
      /\ \A i, j \in 1..Len(q) : i < j => Depth(i) <= Depth(j) /\ Depth(j) <= Depth(i) + 1
  BY <1>1, HeadItem DEF IInv, BreadthFirst
<1>3. \A i \in 1..N : LET new == ItemOf(item, children[i])
                      IN  ItemOk(new) /\ new.node = children[i] /\ Len(new.node) = Len(item.node) + 1
  <2> SUFFICES ASSUME NEW i \in 1..N
               PROVE  LET new == ItemOf(item, children[i])
                      IN  ItemOk(new) /\ new.node = children[i] /\ Len(new.node) = Len(item.node) + 1
    OBVIOUS
  <2> DEFINE c == children[i]
  <2>1. c \in trie.nodes /\ (\E b : IsChildBy(c, item.node, b)) /\ Len(c) = Len(item.node) + 1
    BY <1>1
  <2> HIDE DEF c
  <2>2. ItemOk(ItemOf(item, c)) /\ ItemOf(item, c).node = c
    BY <1>1, <2>1, ChildIsRight
  <2> QED
    BY <2>1, <2>2 DEF c
<1>4. \A i \in 1..Len(q) : Depth(i) = Len(q[i].node) /\ Depth(i) \in Nat
  <2> SUFFICES ASSUME NEW i \in 1..Len(q) PROVE Len(q[i].node) \in Nat
    BY DEF Depth
  <2>1. q[i].node \in Seq(Byte)
    BY <1>2, KeywordsOk DEF ItemOk
  <2> QED
    BY <2>1
<1> DEFINE d == Len(item.node)
<1>5. d \in Nat /\ \A i \in 1..M : Len(q[i + 1].node) \in d..(d + 1)
  <2>1. 1 \in 1..Len(q) /\ d = Depth(1) /\ d \in Nat
    BY <1>2, <1>4
  <2>2. ASSUME NEW i \in 1..M PROVE Len(q[i + 1].node) \in d..(d + 1)
    <3>1. i + 1 \in 1..Len(q) /\ 1 < i + 1
      BY <1>2
    <3>2. Depth(1) <= Depth(i + 1) /\ Depth(i + 1) <= Depth(1) + 1
      BY <1>2, <2>1, <3>1
    <3>3. Len(q[i + 1].node) = Depth(i + 1) /\ Depth(i + 1) \in Nat
      BY <1>4, <3>1
    <3> HIDE DEF d
    <3> QED
      BY <2>1, <3>2, <3>3
  <2> QED
    BY <2>1, <2>2
<1>6. \A i \in 1..(M + N) : i \in 1..M \/ (i - M \in 1..N /\ M + (i - M) = i)
  <2> HIDE DEF M, N
  <2> QED
    BY <1>1, <1>2
<1> DEFINE new(i) == ItemOf(item, children[i])
<1>7. \A i \in 1..N : ItemOk(new(i)) /\ Len(new(i).node) = d + 1 /\ q'[M + i] = new(i)
  BY <1>1, <1>3
<1>8. \A i \in 1..M : ItemOk(q[i + 1]) /\ q'[i] = q[i + 1]
  <2>1. \A i \in 1..M : i + 1 \in 1..Len(q)
    BY <1>2
  <2> QED
    BY <1>1, <1>2, <2>1
<1> HIDE DEF new, d
<1>9. \A i \in 1..(M + N) : ItemOk(q'[i])
  <2> HIDE DEF M, N, q
  <2>1. ASSUME NEW i \in 1..(M + N) PROVE ItemOk(q'[i])
    <3>1. CASE i \in 1..M
      BY <1>8, <3>1
    <3>2. CASE i - M \in 1..N /\ M + (i - M) = i
      BY <1>7, <3>2
    <3> QED
      BY <1>6, <3>1, <3>2
  <2> QED
    BY <2>1
<1>10. ASSUME NEW i \in 1..Len(q') PROVE ItemOk(q[i])'
  <2>1. ItemOk(q'[i])
    BY <1>1, <1>9
  <2> QED
    BY <1>1, <2>1 DEF ItemOk, Item, LinkNodesOf, isLastByteOfCodePoint
<1>11. BreadthFirst'
  <2>1. ASSUME NEW i \in 1..(M + N), NEW j \in 1..(M + N), i < j
        PROVE  Len(q'[i].node) <= Len(q'[j].node) /\ Len(q'[j].node) <= Len(q'[i].node) + 1
    <3>1. CASE j \in 1..M
      <4>1. i \in 1..M /\ i + 1 \in 1..Len(q) /\ j + 1 \in 1..Len(q) /\ i + 1 < j + 1
        BY <1>1, <1>2, <2>1, <3>1
      <4>2. Depth(i + 1) <= Depth(j + 1) /\ Depth(j + 1) <= Depth(i + 1) + 1
        BY <1>2, <4>1
      <4>3. Depth(i + 1) = Len(q'[i].node) /\ Depth(j + 1) = Len(q'[j].node)
        BY <1>8, <3>1, <4>1 DEF Depth
      <4> QED
        BY <4>2, <4>3
    <3>2. CASE j - M \in 1..N /\ M + (j - M) = j
      <4>1. Len(q'[j].node) = d + 1
        BY <1>7, <3>2
      <4>2. CASE i \in 1..M
        <5>1. Len(q'[i].node) \in d..(d + 1)
          BY <1>5, <1>8, <4>2
        <5> HIDE DEF q
        <5> QED
          BY <1>5, <4>1, <5>1
      <4>3. CASE i - M \in 1..N /\ M + (i - M) = i
        <5>1. Len(q'[i].node) = d + 1
          BY <1>7, <4>3
        <5> HIDE DEF q
        <5> QED
          BY <1>5, <4>1, <5>1
      <4> QED
        BY <1>6, <4>2, <4>3
    <3> QED
      BY <1>6, <3>1, <3>2
  <2>2. Len(q') = M + N
    BY <1>1
  <2> HIDE DEF M, N
  <2> QED
    BY <2>1, <2>2 DEF BreadthFirst, Depth
<1>12. Len(q') \in Nat
  BY <1>1, <1>2
<1> QED
  BY <1>10, <1>11, <1>12

\* The part of n before its last byte, and one byte more of it.
LEMMA OneByteFurther ==
  ASSUME NEW n \in Seq(Byte), NEW k \in 0..(Len(n) - 1)
  PROVE  LET c == SubSeq(n, 1, k + 1)
         IN  /\ c # Root /\ Front(c) = SubSeq(n, 1, k) /\ Len(c) = k + 1
             /\ k + 1 = Len(n) => c = n
<1> DEFINE c == SubSeq(n, 1, k + 1)
           a == SubSeq(n, 1, k)
<1>1. /\ k \in 0..Len(n) /\ k + 1 \in 0..Len(n) /\ Len(n) \in Nat /\ k \in Nat
  OBVIOUS
<1>2. /\ c \in Seq(Byte) /\ Len(c) = k + 1 /\ \A i \in 1..(k + 1) : c[i] = n[i]
      /\ a \in Seq(Byte) /\ Len(a) = k /\ \A i \in 1..k : a[i] = n[i]
  BY <1>1, Cut
<1>3. k + 1 = Len(n) => c = n
  <2>1. c \in Seq(Byte) /\ n \in Seq(Byte)
    BY <1>2
  <2> HIDE DEF c
  <2> QED
    BY <1>2, <2>1, SeqEqual
<1>4. c # Root
  <2> HIDE DEF c
  <2> QED
    BY <1>1, <1>2 DEF Root
<1>5. Front(c) = a
  <2>1. SubSeq(c, 1, k) \in Seq(Byte) /\ Len(SubSeq(c, 1, k)) = k
        /\ \A i \in 1..k : SubSeq(c, 1, k)[i] = c[i]
    <3> HIDE DEF c
    <3>1. k \in 0..Len(c)
      BY <1>1, <1>2
    <3> QED
      BY <1>2, <3>1, Cut
  <2>2. Front(c) = SubSeq(c, 1, k)
    <3> HIDE DEF c
    <3>1. Len(c) - 1 = k
      BY <1>1, <1>2
    <3> QED
      BY <3>1 DEF Front
  <2> DEFINE d == SubSeq(c, 1, k)
  <2>3. \A i \in 1..k : i \in 1..(k + 1)
    BY <1>1
  <2>4. \A i \in 1..k : d[i] = a[i]
    BY <1>2, <2>1, <2>3
  <2>5. d \in Seq(Byte) /\ Len(d) = k /\ a \in Seq(Byte) /\ Len(a) = k
    BY <1>2, <2>1
  <2> HIDE DEF d, a, c
  <2>6. d = a
    BY <2>4, <2>5, SeqEqual
  <2> QED
    BY <2>2, <2>6 DEF d
<1> QED
  BY <1>2, <1>3, <1>4, <1>5

\* and forgets no node.
LEMMA StepKeepsVisits ==
  ASSUME IInv, VisitItem
  PROVE  StillToVisit'
<1> DEFINE q == bfs_queue
           item == q[1]
           children == getChildren(trie, item.node)
           N == Len(children)
           M == Len(q) - 1
           LN == LinkNodesOf(trie)
           Above(r, L, n) == \E i \in 1..L : \E k \in 0..(Len(n) - 1) : r[i].node = SubSeq(n, 1, k)
<1>1. /\ bfs_queue # << >> /\ trie' = trie /\ N \in Nat
      /\ \A i \in 1..N :
           /\ children[i] \in trie.nodes
           /\ \E b : IsChildBy(children[i], item.node, b)
      /\ \A c \in trie.nodes : c # Root /\ Front(c) = item.node => \E i \in 1..N : children[i] = c
      /\ Len(q') = M + N
      /\ \A i \in 1..M : q'[i] = q[i + 1]
      /\ \A i \in 1..N : q'[M + i] = ItemOf(item, children[i])
  BY StepIs
<1>2. Len(q) \in Nat \ {0} /\ M \in Nat /\ Len(q') \in Nat
  BY <1>1, HeadItem
<1>3. /\ AreKeywords(trie.keywords) /\ trie = TrieOf(trie.keywords)
      /\ LN \subseteq trie.nodes /\ trie.nodes \subseteq Seq(Byte)
  BY KeywordsOk
<1>4. /\ \A n \in LN : n # Root /\ Front(n) = item.node => suffixLink'[n] # Null
      /\ \A n \in LN : suffixLink[n] # Null => suffixLink'[n] # Null
  BY StepKeepsLinks
<1>5. ASSUME NEW n \in LN, n # Root, suffixLink'[n] = Null
      PROVE  Above(q', Len(q'), n)
  <2>1. suffixLink[n] = Null
    BY <1>4, <1>5
  <2>2. PICK i \in 1..Len(q), k \in 0..(Len(n) - 1) : q[i].node = SubSeq(n, 1, k)
    BY <1>5, <2>1 DEF IInv, StillToVisit
  <2>3. n \in Seq(Byte) /\ n \in trie.nodes /\ Len(n) \in Nat
    BY <1>3
  <2>4. CASE i # 1
    <3>1. i - 1 \in 1..M /\ (i - 1) + 1 = i /\ i - 1 \in 1..Len(q')
      BY <1>1, <1>2, <2>4
    <3>2. q'[i - 1] = q[i]
      BY <1>1, <3>1
    <3> QED
      BY <2>2, <3>1, <3>2
  <2>5. CASE i = 1
    <3> DEFINE c == SubSeq(n, 1, k + 1)
    <3>1. c # Root /\ Front(c) = item.node /\ (k + 1 = Len(n) => c = n)
      BY <2>2, <2>3, <2>5, OneByteFurther
    <3>2. k + 1 # Len(n)
      BY <1>4, <1>5, <3>1
    <3>3. k + 1 \in 0..(Len(n) - 1) /\ k + 1 \in 0..Len(n)
      BY <2>3, <3>2
    <3>4. c \in trie.nodes
      BY <1>3, <2>3, <3>3, TrieNodes
    <3> HIDE DEF c
    <3>5. PICK j \in 1..N : children[j] = c
      BY <1>1, <3>1, <3>4
    <3>6. PICK b : IsChildBy(c, item.node, b)
      BY <1>1, <3>5
    <3>7. ItemOf(item, c).node = c
      BY <1>1, <3>4, <3>6, ChildIsRight
    <3>8. q'[M + j].node = c /\ M + j \in 1..Len(q')
      <4>1. q'[M + j] = ItemOf(item, c)
        BY <1>1, <3>5
      <4>2. M + j \in 1..(M + N)
        <5> HIDE DEF M, N
        <5> QED
          BY <1>1, <1>2, <3>5
      <4> QED
        BY <1>1, <3>7, <4>1, <4>2
    <3> HIDE DEF M, N, q, item, children
    <3> QED
      BY <3>3, <3>8 DEF c
  <2> QED
    BY <2>4, <2>5
<1>6. LN' = LN
  BY <1>1 DEF LinkNodesOf, isLastByteOfCodePoint
<1> HIDE DEF LN
<1>7. \A n \in LN' : n # Root /\ suffixLink'[n] = Null => Above(q', Len(q'), n)
  BY <1>5, <1>6
<1> QED
  BY <1>7 DEF StillToVisit, LN

\* The invariant is inductive.
LEMMA LinksStep ==
  ASSUME IInv, [Next]_vars
  PROVE  IInv'
<1>1. CASE VisitItem
  <2>1. trie' = trie /\ bfs_queue' = [i \in 1..Len(bfs_queue') |-> bfs_queue'[i]]
    BY <1>1, StepIs
  <2>2. /\ LinksRight(trie, suffixLink)'
        /\ outputLink' \in [LinkNodesOf(trie) -> LinkNodesOf(trie) \cup {Null}]
        /\ outputLink'[Root] = Null
        /\ \A n \in LinkNodesOf(trie) : suffixLink'[n] # Null =>
             n # Root /\ outputLink'[n] = LongestSuffixKeyword(trie, n)
    BY <1>1, StepKeepsLinks
  <2>3. Len(bfs_queue') \in Nat /\ (\A i \in 1..Len(bfs_queue') : ItemOk(bfs_queue[i])') /\ BreadthFirst'
    BY <1>1, StepKeepsOrder
  <2>4. StillToVisit'
    BY <1>1, StepKeepsVisits
  <2>5. trie.keywords' \in KeywordSets /\ (trie = TrieOf(trie.keywords))'
    BY <2>1 DEF IInv
  <2>6. LinkNodesOf(trie)' = LinkNodesOf(trie)
    BY <2>1 DEF LinkNodesOf, isLastByteOfCodePoint
  <2>7. /\ (outputLink \in [LinkNodesOf(trie) -> LinkNodesOf(trie) \cup {Null}])'
        /\ outputLink[Root]' = Null
        /\ \A n \in LinkNodesOf(trie)' : suffixLink'[n] # Null =>
             n # Root /\ outputLink'[n] = LongestSuffixKeyword(trie', n)
    BY <2>1, <2>2, <2>6
  <2> QED
    BY <2>1, <2>2, <2>3, <2>4, <2>5, <2>7 DEF IInv
<1>2. CASE UNCHANGED vars
  BY <1>2 DEF vars, IInv, LinksRight, Linked, LinkNodesOf, isLastByteOfCodePoint, LongestSuffixNode,
     LongestSuffixKeyword, ItemOk, Item, BreadthFirst, Depth, StillToVisit
<1> QED
  BY <1>1, <1>2 DEF Next

-----------------------------------------------------------------------------
(* What it says. *)

\* The links that are set are right, and the queue is in order, at every step of the
\* walk.
THEOREM Invariance == Spec => []IInv
BY LinksInit, LinksStep, PTL DEF Spec

\* Every link names a node that has links, or none, and every item of the queue what it
\* says: the walk reads no link outside the trie.
THEOREM TypesRight == Spec => []TypeOK
<1>1. ASSUME IInv PROVE TypeOK
  <2>1. DOMAIN suffixLink = LinkNodesOf(trie)
    BY <1>1 DEF IInv, LinksRight
  <2> QED
    BY <1>1, <2>1 DEF TypeOK, IInv, LinksRight, LinkNodes, ItemOk
<1> QED
  BY <1>1, Invariance, PTL

\* A link that is set leads to a shorter node, which has its links too unless it is the
\* root: every climb ends, and reads no link that is not set yet.
THEOREM ChainsReach == Spec => []ChainsReachRoot
<1>1. ASSUME IInv PROVE ChainsReachRoot
  <2>1. DOMAIN suffixLink = LinkNodesOf(trie)
    BY <1>1 DEF IInv, LinksRight
  <2>2. AreKeywords(trie.keywords) /\ trie = TrieOf(trie.keywords)
    BY <1>1, KeywordsOk
  <2> SUFFICES ASSUME NEW n \in LinkNodesOf(trie), suffixLink[n] # Null
               PROVE  /\ Len(suffixLink[n]) < Len(n)
                      /\ suffixLink[n] # Root => suffixLink[suffixLink[n]] # Null
    BY <2>1 DEF ChainsReachRoot, LinkNodes
  <2>3. n # Root /\ suffixLink[n] = LongestSuffixNode(trie, n) /\ Linked(suffixLink, suffixLink[n])
    BY <1>1 DEF IInv, LinksRight
  <2>4. Len(LongestSuffixNode(trie, n)) < Len(n)
    BY <2>2, <2>3, LongestSuffixNodeIs
  <2> QED
    BY <2>3, <2>4 DEF Linked
<1> QED
  BY <1>1, Invariance, PTL

\* When the walk is over every node has its links, and they are the longest: BuildSuffixLink
\* builds the automaton of any set of keywords, so that the probe, which follows nothing but
\* these links, skips no occurrence and emits none twice.
THEOREM LinksRightAtEnd == Spec => []LinksAreLongest
<1>1. ASSUME IInv PROVE LinksAreLongest
  <2>1. DOMAIN suffixLink = LinkNodesOf(trie)
    BY <1>1 DEF IInv, LinksRight
  <2> SUFFICES ASSUME bfs_queue = << >>, NEW n \in LinkNodesOf(trie), n # Root
               PROVE  /\ suffixLink[n] = LongestSuffixNode(trie, n)
                      /\ outputLink[n] = LongestSuffixKeyword(trie, n)
    BY <2>1 DEF LinksAreLongest, LinkNodes, Built
  <2>2. suffixLink[n] # Null
    <3>1. Len(bfs_queue) = 0
      OBVIOUS
    <3> QED
      BY <1>1, <3>1 DEF IInv, StillToVisit
  <2> QED
    BY <1>1, <2>2 DEF IInv, LinksRight
<1> QED
  BY <1>1, Invariance, PTL
=============================================================================
