------------------------------ MODULE Automaton ------------------------------
(***************************************************************************)
(* The links of the Aho-Corasick automaton on the finished trie.           *)
(***************************************************************************)
EXTENDS Trie, Order

Root == << >>
Null == << -1 >>   \* no node: -1 is no byte

isTerminalNode(trie, n)        == n \in trie.keywords
isLastByteOfCodePoint(trie, n) == n \in trie.ends

\* The nodes that have links.
LinkNodesOf(trie) == {n \in trie.nodes : isLastByteOfCodePoint(trie, n)}

\* The children of a node that are nodes, ordered by their last byte.
getChildren(trie, n) ==
  LET Below(c, d) == Last(c) < Last(d)
  IN  InOrder({c \in trie.nodes : c # Root /\ Front(c) = n}, Below)

\* Where the byte string s leads from n, or Null if it leaves the trie.  There is no NUL
\* in s: the leaves are not among the nodes.
Visit(trie, n, s) == IF n \o s \in trie.nodes THEN n \o s ELSE Null

\* The suffix link of the node that s, one code point, leads to from a node
\* whose own suffix link is from: up the links until s can be followed.
SuffixTarget(trie, suffixLink, from, s) ==
  LET climb[n \in DOMAIN suffixLink \cup {Null}] ==
        IF n = Null THEN Root
        ELSE IF Visit(trie, n, s) # Null THEN Visit(trie, n, s)
        ELSE climb[suffixLink[n]]
  IN  climb[from]

\* And the output link that goes with it.
OutputTarget(trie, outputLink, suffix) ==
  IF isTerminalNode(trie, suffix) THEN suffix ELSE outputLink[suffix]

\* What the links should be: the longest proper suffix of n that starts where
\* one of its code points does, and that is a node, or, for the output link,
\* a keyword.
ProperSuffixes(n) ==
  {SubSeq(n, o + 1, Len(n)) : o \in CodePointStarts(n) \ {0}}

LongestIn(S) == IF S = {} THEN Null ELSE CHOOSE s \in S : \A r \in S : Len(r) <= Len(s)

LongestSuffixNode(trie, n) == LongestIn(ProperSuffixes(n) \cap trie.nodes)
LongestSuffixKeyword(trie, n) == LongestIn(ProperSuffixes(n) \cap trie.keywords)

\* The links BuildSuffixLink leaves: SuffixLinks builds them as the code does, and
\* SuffixLinksProofs shows that these come out.
SuffixLinksOf(trie) ==
  [n \in LinkNodesOf(trie) |-> IF n = Root THEN Null ELSE LongestSuffixNode(trie, n)]
OutputLinksOf(trie) ==
  [n \in LinkNodesOf(trie) |-> IF n = Root THEN Null ELSE LongestSuffixKeyword(trie, n)]

\* A node whose link is set, or the root, which has none.
Linked(link, n) == n = Root \/ link[n] # Null

\* Links as far as they are set: the longest suffix nodes, down to the root.
LinksRight(trie, link) ==
  /\ link \in [LinkNodesOf(trie) -> LinkNodesOf(trie) \cup {Null}]
  /\ link[Root] = Null
  /\ \A n \in LinkNodesOf(trie) : link[n] # Null =>
       link[n] = LongestSuffixNode(trie, n) /\ Linked(link, link[n])
=============================================================================
