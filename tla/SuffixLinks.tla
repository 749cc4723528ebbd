----------------------------- MODULE SuffixLinks -----------------------------
(***************************************************************************)
(* AhoCorasick::BuildSuffixLink: a breadth-first walk over the bytes of    *)
(* the trie that gives every node at the end of a code point its suffix    *)
(* link and its output link.  Each step handles one item of the queue, the *)
(* children of one node.  The links a step follows must have been set by   *)
(* then: the code never checks whether they have.                          *)
(***************************************************************************)
EXTENDS Automaton

CONSTANT KeywordSets   \* the sets of keywords to build an automaton of

\* NextLiteral returns no empty literal, and the patterns it cuts up are valid texts
\* without a NUL, under which VisitCodePoint would find a leaf.
ASSUME KeywordSetsAssumption ==
  \A K \in KeywordSets : \A w \in K :
    w \in Seq(Byte) /\ w # << >> /\ WholeCodePoints(w) /\ 0 \notin ToSet(w)

VARIABLES
  trie,         \* the trie of this automaton, which nothing changes any more
  bfs_queue,    \* items [node, last_codepoint_node, bytes_since_last_cp]
  suffixLink,   \* links[0] of every node that ends a code point
  outputLink    \* links[1] of every node that ends a code point

vars == <<trie, bfs_queue, suffixLink, outputLink>>

LinkNodes == DOMAIN suffixLink

Item(node, last, bytes) ==
  [node |-> node, last_codepoint_node |-> last, bytes_since_last_cp |-> bytes]

Init ==
  /\ \E K \in KeywordSets : trie = TrieOf(K)
  /\ bfs_queue = << Item(Root, Root, << >>) >>
  /\ suffixLink = [n \in LinkNodesOf(trie) |-> Null]
  /\ outputLink = [n \in LinkNodesOf(trie) |-> Null]

\* Mistake: only the last byte of an unfinished code point is remembered.
ItemOfLastByte(item, child) ==
  IF isLastByteOfCodePoint(trie, child) THEN Item(child, child, << >>)
  ELSE Item(child, item.last_codepoint_node, << Last(child) >>)

\* The item of a child: a code point ends there, or one more of its bytes is
\* remembered.
ItemOf(item, child) ==
  IF isLastByteOfCodePoint(trie, child) THEN Item(child, child, << >>)
  ELSE Item(child, item.last_codepoint_node, Append(item.bytes_since_last_cp, Last(child)))

\* Mistake: the climb starts at the parent and not at its suffix link.
ChildSuffixFromParent(item, child) ==
  SuffixTarget(trie, suffixLink, item.last_codepoint_node,
               Append(item.bytes_since_last_cp, Last(child)))

\* The suffix link of a child that ends a code point.
ChildSuffix(item, child) ==
  IF item.node = Root THEN Root
  ELSE SuffixTarget(trie, suffixLink, suffixLink[item.last_codepoint_node],
                    Append(item.bytes_since_last_cp, Last(child)))

ChildOutput(item, child) ==
  IF item.node = Root THEN Null
  ELSE OutputTarget(trie, outputLink, ChildSuffix(item, child))

\* Mistake: the new items go to the front, which makes it depth first.
EnqueueFirst(queue, items) == items \o queue
Enqueue(queue, items) == queue \o items

VisitItem ==
  LET item     == Head(bfs_queue)
      children == getChildren(trie, item.node)
      linked   == {c \in ToSet(children) : isLastByteOfCodePoint(trie, c)}
  IN
  /\ bfs_queue # << >>
  /\ bfs_queue' = Enqueue(Tail(bfs_queue),
                          [i \in 1..Len(children) |-> ItemOf(item, children[i])])
  /\ suffixLink' = [n \in LinkNodes |->
                      IF n \in linked THEN ChildSuffix(item, n) ELSE suffixLink[n]]
  /\ outputLink' = [n \in LinkNodes |->
                      IF n \in linked THEN ChildOutput(item, n) ELSE outputLink[n]]
  /\ UNCHANGED trie

Built == bfs_queue = << >>

Next == VisitItem \/ (Built /\ UNCHANGED vars)

Spec == Init /\ [][Next]_vars

-----------------------------------------------------------------------------
(* Properties. *)

\* Queue items name nodes of the trie, and what an item remembers is the part
\* of its node that follows the last whole code point.
TypeOK ==
  /\ trie.keywords \in KeywordSets
  /\ suffixLink \in [LinkNodes -> LinkNodes \cup {Null}]
  /\ outputLink \in [LinkNodes -> LinkNodes \cup {Null}]
  /\ \A i \in 1..Len(bfs_queue) :
       LET item == bfs_queue[i]
       IN  /\ item.node \in trie.nodes
           /\ item.last_codepoint_node \in LinkNodes
           /\ item.node = item.last_codepoint_node \o item.bytes_since_last_cp

\* The links are right when the walk is over: the suffix link is the longest
\* proper suffix that is a node, and the output link the longest one that is a
\* keyword, so that no occurrence is skipped and none is emitted twice.
LinksAreLongest ==
  Built => \A n \in LinkNodes \ {Root} :
             /\ suffixLink[n] = LongestSuffixNode(trie, n)
             /\ outputLink[n] = LongestSuffixKeyword(trie, n)

\* A node with a suffix link has a chain of them, each shorter than the one
\* before, down to the root: the climb of a later step, and the probe's, ends,
\* and never meets a link that is not set yet.
ChainsReachRoot ==
  \A n \in LinkNodes :
    suffixLink[n] # Null =>
      /\ Len(suffixLink[n]) < Len(n)
      /\ suffixLink[n] # Root => suffixLink[suffixLink[n]] # Null

-----------------------------------------------------------------------------
(* Why the links are right: the inductive invariant of the walk.           *)

\* The first bytes of a code point, but not all of them.
IsUnfinished(bytes) ==
  bytes \in Seq(Byte) /\ (bytes = << >> \/ Len(bytes) < CodePointLength(bytes[1]))

\* What an item remembers since the last code point is the beginning of the next one.
ItemOk(item) ==
  /\ item = Item(item.node, item.last_codepoint_node, item.bytes_since_last_cp)
  /\ item.node \in trie.nodes
  /\ item.last_codepoint_node \in LinkNodesOf(trie)
  /\ IsUnfinished(item.bytes_since_last_cp)
  /\ item.node = item.last_codepoint_node \o item.bytes_since_last_cp

Depth(i) == Len(bfs_queue[i].node)

\* The items stand in the order of their depths, which differ by one at most.
BreadthFirst ==
  \A i, j \in 1..Len(bfs_queue) :
    i < j => Depth(i) <= Depth(j) /\ Depth(j) <= Depth(i) + 1

\* A node that has no links yet is below one that is still in the queue.
StillToVisit ==
  \A n \in LinkNodesOf(trie) : n # Root /\ suffixLink[n] = Null =>
    \E i \in 1..Len(bfs_queue) : \E k \in 0..(Len(n) - 1) : bfs_queue[i].node = SubSeq(n, 1, k)

\* The links are right as far as they are set, and all that is shorter than the node
\* at the head of the queue has them.
IInv ==
  /\ trie.keywords \in KeywordSets /\ trie = TrieOf(trie.keywords)
  /\ LinksRight(trie, suffixLink)
  /\ outputLink \in [LinkNodesOf(trie) -> LinkNodesOf(trie) \cup {Null}]
  /\ outputLink[Root] = Null
  /\ \A n \in LinkNodesOf(trie) : suffixLink[n] # Null =>
       n # Root /\ outputLink[n] = LongestSuffixKeyword(trie, n)
  /\ Len(bfs_queue) \in Nat /\ bfs_queue = [i \in 1..Len(bfs_queue) |-> bfs_queue[i]]
  /\ \A i \in 1..Len(bfs_queue) : ItemOk(bfs_queue[i])
  /\ BreadthFirst
  /\ StillToVisit
=============================================================================
