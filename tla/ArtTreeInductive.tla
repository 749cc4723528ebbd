-------------------------- MODULE ArtTreeInductive --------------------------
(***************************************************************************)
(* The inductive invariant behind the theorems about ArtTree: the safety   *)
(* invariants are not inductive on their own, because what a step writes   *)
(* depends on what its thread has read and not yet given up.  Its parts    *)
(* are invariants of the shared words and of one thread's walk.            *)
(***************************************************************************)
EXTENDS ArtTree

AfterRead == {"validate", "checkParent", "insertCheckParent", "insertLock", "upsertLock"}
Reading   == AfterRead \cup {"readChild"}
Inserting == {"newTid", "emplace", "publish"}

(* The nodes and the literals. *)

\* What nobody has made is blank, and nobody points at it.
FreeNodesBlank ==
  \A n \in NodeIds : \A b \in Bytes :
    /\ children[n][b] <= allocated
    /\ n > allocated => children[n][b] = Null

\* In every slot, a leaf is under NUL and a node is not.
NulMeansLeaf ==
  \A n \in NodeIds : \A b \in Bytes :
    children[n][b] # Null => (isLeaf(children[n][b]) <=> b = NULL_TERMINATOR)

\* Every leaf of the trie has its literal.
LeavesHaveLiterals ==
  \A n \in NodeIds : \A b \in Bytes :
    isLeaf(children[n][b]) => auxIndex(children[n][b]) \in DOMAIN literal_map

(* A thread. *)

\* A thread that is not done is inside one of its calls, at a byte of its key.
WalkInKey(t) ==
  pc[t] # "done" => /\ job[t] \in 1..Len(Jobs[t])
                    /\ level[t] < Len(Key(keyword(t)))

WalkOnMadeNodes(t) ==
  node[t] <= allocated /\ parentNode[t] <= allocated /\ nextNode[t] <= allocated

\* What the walk has read, and the branch it took on it.
ReadPointer(t) ==
  /\ pc[t] \in AfterRead \cup {"upsertRead"} /\ nextNode[t] # Null
       => (isLeaf(nextNode[t]) <=> nodeKey(t) = NULL_TERMINATOR)
  /\ pc[t] = "checkParent" => nextNode[t] # Null
  /\ pc[t] \in {"insertCheckParent", "insertLock"} => nextNode[t] = Null
  /\ pc[t] \in {"upsertLock", "upsertRead"} => isLeaf(nextNode[t])

\* A reader holds an unlocked version that the node has had.
ReadVersion(t) ==
  pc[t] \in Reading => ~isLocked(v[t]) /\ v[t] <= versionLock[node[t]]

\* As long as the version has not moved, what was read is still there.
ReadStillValid(t) ==
  pc[t] \in AfterRead /\ versionLock[node[t]] = v[t]
    => children[node[t]][nodeKey(t)] = nextNode[t]

\* A writer holds the lock, and its locked version is the node's.
WriterHoldsLock(t) ==
  pc[t] \in WriteSection => isLocked(v[t]) /\ versionLock[node[t]] = v[t]

\* The slot an insert is about to fill is empty until it does.
SlotStillFree(t) ==
  pc[t] \in Inserting => children[node[t]][nodeKey(t)] = Null

\* A leaf in the hands of a thread has its literal.
HeldLiteralExists(t) ==
  /\ isLeaf(nextNode[t]) => auxIndex(nextNode[t]) \in DOMAIN literal_map
  /\ pc[t] \in {"publish", "upsertWrite"} => tid[t] \in DOMAIN literal_map

ThreadInv(t) ==
  /\ WalkInKey(t)
  /\ WalkOnMadeNodes(t)
  /\ ReadPointer(t)
  /\ ReadVersion(t)
  /\ ReadStillValid(t)
  /\ WriterHoldsLock(t)
  /\ SlotStillFree(t)
  /\ HeldLiteralExists(t)

SharedInv == FreeNodesBlank /\ NulMeansLeaf /\ LeavesHaveLiterals

\* The inductive invariant of the lock protocol.  Together its parts say that the optimistic
\* protocol of insert is sound: what a thread acts on is what is there.
IInv == TypeOK /\ SharedInv /\ WriteLockExclusive /\ \A t \in Threads : ThreadInv(t)

-----------------------------------------------------------------------------
(* The trie is a tree, and the literals are filed under their leaves.      *)

\* No two slots hold the same pointer, be it a node or a leaf.
PointersDistinct ==
  \A m, n \in NodeIds : \A b, c \in Bytes :
    children[m][b] # Null /\ children[m][b] = children[n][c] => m = n /\ b = c

\* Every node that was made but the root is in some slot, the root in none.
NodesOwned ==
  \A n \in 1..allocated : n # Root <=> \E m \in 1..allocated, b \in Bytes : children[m][b] = n

Counting(n) == \E t \in Threads : pc[t] \in {"countRead", "countWrite"} /\ node[t] = n

\* count lags behind by the child a thread has published and not yet counted.
CountUpToDate ==
  \A n \in 1..allocated :
    count[n] = Cardinality({b \in Bytes : children[n][b] # Null})
                 - (IF Counting(n) THEN 1 ELSE 0)

\* Nobody has changed the count that a count++ has loaded.
CountedIsCurrent ==
  \A t \in Threads : pc[t] = "countWrite" => counted[t] = count[node[t]]

InFlight(t) == pc[t] \in {"emplace", "publish"}
LeafIn(c, id) == \E n \in NodeIds : \E b \in Bytes : c[n][b] = Leaf(id)

\* Every id handed out has one place: a leaf, or the thread that fetched it.
IdsPlaced ==
  /\ \A n \in NodeIds : \A b \in Bytes :
       isLeaf(children[n][b]) => auxIndex(children[n][b]) < unique_literal_cnt
  /\ \A t \in Threads : InFlight(t) => tid[t] < unique_literal_cnt /\ ~LeafIn(children, tid[t])
  /\ \A t, u \in Threads : t # u /\ InFlight(t) /\ InFlight(u) => tid[t] # tid[u]
  /\ \A id \in 0..(unique_literal_cnt - 1) :
       LeafIn(children, id) \/ \E t \in Threads : InFlight(t) /\ tid[t] = id

\* Entries exist for ids handed out, and not before emplace.
EntriesPlaced ==
  /\ \A id \in DOMAIN literal_map : id < unique_literal_cnt
  /\ \A t \in Threads : pc[t] = "emplace" => tid[t] \notin DOMAIN literal_map
  /\ \A t \in Threads : pc[t] = "publish" =>
       literal_map[tid[t]] =
         [literal_len |-> Len(keyword(t)), bitmap |-> {Jobs[t][job[t]].aux}]

\* Every leaf is where the path of some keyword leads.
LeavesHaveKeys ==
  \A n \in NodeIds : \A b \in Bytes :
    isLeaf(children[n][b]) => \E k \in Keys : Lookup(k) = children[n][b]

\* A walk is on the path of its key.
OnPath(t) == pc[t] # "done" => Path(Key(keyword(t)))[level[t]] = node[t]

\* A pointer that was read is there for good.
ReadIsThere(t) ==
  pc[t] \in AfterRead \cup {"upsertRead"} /\ nextNode[t] # Null =>
    children[node[t]][nodeKey(t)] = nextNode[t]

\* The bitmap an upsert has read is still the one of its leaf.
BitmapIsCurrent(t) ==
  pc[t] = "upsertWrite" =>
    /\ children[node[t]][nodeKey(t)] = Leaf(tid[t])
    /\ bitmap[t] = literal_map[tid[t]].bitmap

\* The i-th call of t has taken effect.
Applied(t, i) ==
  LET k == Key(Jobs[t][i].keyword)
  IN  /\ isLeaf(Lookup(k))
      /\ auxIndex(Lookup(k)) \in DOMAIN literal_map
      /\ Jobs[t][i].aux \in LiteralOf(k).bitmap

AppliedBeforeUnlock(t) ==
  pc[t] \in {"countRead", "countWrite", "unlock"} => \A i \in 1..Len(Jobs[t]) : i = job[t] => Applied(t, i)

\* A thread is in one of its calls, or has made the last.
JobInRange(t) == job[t] \in 1..(Len(Jobs[t]) + 1)

WalkInv(t) ==
  OnPath(t) /\ ReadIsThere(t) /\ BitmapIsCurrent(t) /\ AppliedBeforeUnlock(t) /\ JobInRange(t)

TreeInv == PointersDistinct /\ NodesOwned /\ CountUpToDate /\ CountedIsCurrent

\* What the theorems about the contents of the trie rest on, with IInv.
IndexInv ==
  /\ TreeInv
  /\ IdsPlaced /\ EntriesPlaced /\ LeavesHaveKeys
  /\ \A t \in Threads : WalkInv(t)
  /\ InsertedStaysFound /\ OccurrencesExact

\* Every node is on the path of a keyword that is in, and labelled as that keyword
\* has it there; no part of a chain is reachable before its leaf is.
NodesOnKeys ==
  /\ isCodePointEnd[Root]
  /\ \A n \in 1..allocated : n # Root =>
       \E k \in FoundKeys : \E i \in 1..(Len(k) - 1) :
         Path(k)[i] = n /\ (isCodePointEnd[n] <=> isEndCodePoint(k, i))

\* The three together are inductive.
FullInv == IInv /\ IndexInv /\ NodesOnKeys
=============================================================================
