-------------------------- MODULE ArtTreeRefinement --------------------------
(***************************************************************************)
(* ArtTree implements LiteralIndex.  A call takes effect when the leaf's   *)
(* chain is stored into its slot (a new keyword) or when the bitmap is     *)
(* written back (a known one); it returns when the lock is released.       *)
(* And what the threads build is the trie that the links are built on.     *)
(***************************************************************************)
EXTENDS ArtTree, Trie

AbstractCalls ==
  [t \in Threads |->
     [i \in 1..Len(Jobs[t]) |->
        [key |-> Key(Jobs[t][i].keyword), literal_len |-> Len(Jobs[t][i].keyword),
         aux |-> Jobs[t][i].aux]]]

\* The index a reader of the trie sees.
AbstractIndex ==
  [k \in FoundKeys |->
     [id |-> auxIndex(Lookup(k)), literal_len |-> LiteralOf(k).literal_len,
      bitmap |-> LiteralOf(k).bitmap]]

LiteralIndex ==
  INSTANCE LiteralIndex WITH
    Threads <- Threads,
    Calls   <- AbstractCalls,
    Ids     <- 0..(Cardinality(Keys) - 1),
    index   <- AbstractIndex,
    call    <- job,
    applied <- [t \in Threads |-> pc[t] \in {"countRead", "countWrite", "unlock"}]

\* Concurrent insertion is linearizable: what the threads do to the trie is a
\* behaviour of the abstract index, in which no id is ever skipped.
ImplementsLiteralIndex == LiteralIndex!Spec

-----------------------------------------------------------------------------

\* No keyword ends inside a code point.
ASSUME KeywordsAssumption == \A k \in Keys : WholeCodePoints(Front(k))

\* The nodes that can be reached, each with the string of bytes that leads to it.
Reached ==
  LET within[depth \in 0..allocated] ==
        IF depth = 0 THEN {[string |-> << >>, node |-> Root]}
        ELSE within[depth - 1] \cup
             UNION {{[string |-> Append(r.string, b), node |-> children[r.node][b]] :
                       b \in {c \in Bytes : children[r.node][c] \in 1..allocated}} :
                    r \in within[depth - 1]}
  IN  within[allocated]

\* The nodes in memory, as Automaton has them.
HeapTrie ==
  [nodes    |-> {r.string : r \in Reached},
   keywords |-> {r.string : r \in {q \in Reached : isLeaf(children[q.node][NULL_TERMINATOR])}},
   ends     |-> {r.string : r \in {q \in Reached : isCodePointEnd[q.node]}}]

\* At every moment a reader finds the trie of the keywords that are in, and no
\* part of another: a new chain appears with all its nodes and its leaf at once.
\* Its labels are those of all keywords that share a node, not only of the one
\* that made it; links[] is allocated on the nodes labelled and on no other, and
\* BuildSuffixLink and the probe, which start from Automaton's trie, rely on it.
HeapIsTrie ==
  HeapTrie = TrieOf({Front(k) : k \in FoundKeys})
=============================================================================
