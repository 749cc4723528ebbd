-------------------------------- MODULE Trie --------------------------------
(***************************************************************************)
(* The trie of a set of keywords, as it is when no thread is inserting.  A *)
(* node is the string of bytes that leads to it.  The leaves under NUL are *)
(* not nodes here: a node has one exactly if its string is a keyword.      *)
(***************************************************************************)
EXTENDS Integers, Sequences, FiniteSets, SequencesExt, Utf8

\* The trie of a set of keywords.  ends has the nodes that insert has labelled
\* as the last byte of a code point of the keyword it made them for.
TrieOf(K) ==
  [nodes    |-> {<< >>} \cup UNION {Prefixes(w) : w \in K},
   keywords |-> K,
   ends     |-> {<< >>} \cup {SubSeq(wo[1], 1, wo[2]) :
                               wo \in UNION {{w} \X CodePointStarts(w) : w \in K}}]
=============================================================================
