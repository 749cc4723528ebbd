------------------------------ MODULE ArtTree ------------------------------
(***************************************************************************)
(* Concurrent insertion of keywords into the trie of the automaton: the    *)
(* N256 nodes and the optimistic lock coupling of art/node.h, the walk of  *)
(* Tree::insert in art/tree.h, and the two callbacks AhoCorasick::Insert   *)
(* hands to it.  Every load, store and read-modify-write of a word another *)
(* thread may touch is a step of its own; everything a thread does on its  *)
(* own stack, or on nodes nobody else can reach yet, is part of the next   *)
(* such step.                                                              *)
(*                                                                         *)
(* A pointer N256* is an integer: Null, the number of a node, or, for a    *)
(* Leaf tagged in its high bit, a negative number that carries the leaf's  *)
(* auxIndex (the id of the literal).                                       *)
(***************************************************************************)
EXTENDS Integers, Sequences, FiniteSets, Utf8

CONSTANTS
  Threads,    \* the threads that call AhoCorasick::Insert
  Jobs,       \* Jobs[t]: the calls t makes, a sequence of [keyword, aux]
  Bytes,      \* bound: the byte values that occur in some keyword
  MaxNodes    \* bound: how many nodes can be allocated

NULL_TERMINATOR == 0
Null == 0
Root == 1
NodeIds == 1..MaxNodes

\* A keyword is not empty (asserted by Insert), and NUL may occur only as its
\* last byte: a pattern literal never has one inside.
IsKeyword(w) ==
  /\ w \in Seq(Bytes)
  /\ w # << >>
  /\ \A i \in 1..(Len(w) - 1) : w[i] # NULL_TERMINATOR

\* Job(t, j) of every thread is a keyword with the (pattern, start position)
\* it occurs at, packed in one number as PatternIndexType::ToUint does.
IsJob(j) == IsKeyword(j.keyword) /\ j.aux \in Nat

ASSUME ThreadsAssumption == IsFiniteSet(Threads)
ASSUME JobsAssumption ==
  \A t \in Threads : /\ Len(Jobs[t]) \in Nat \ {0}
                     /\ \A i \in 1..Len(Jobs[t]) : IsJob(Jobs[t][i])
ASSUME BytesAssumption == Bytes \subseteq Byte /\ NULL_TERMINATOR \in Bytes
ASSUME MaxNodesAssumption == MaxNodes \in Nat \ {0}

VARIABLES
  \* the nodes
  versionLock,        \* 63 bits of version, one bit of lock
  children,           \* children[n][b]: a pointer
  count,              \* how many children of n are not null
  isCodePointEnd,     \* does the path to n end at the end of a code point
  allocated,          \* nodes 1..allocated have been made
  \* the literals
  unique_literal_cnt, \* the next literal id
  literal_map,        \* literal id -> [literal_len, bitmap]
  \* the locals of insert, per thread
  pc, job,
  node, nextNode, parentNode, level, v, parentVersion,
  tid,                \* the id insert_fn returned
  bitmap,             \* the bitmap upsert_fn has read and is about to extend
  counted             \* the count that count++ has loaded and is about to replace

nodeVars    == <<versionLock, children, count, isCodePointEnd, allocated>>
literalVars == <<unique_literal_cnt, literal_map>>
walkVars    == <<node, nextNode, parentNode, level, v, parentVersion>>
vars == <<nodeVars, literalVars, pc, job, walkVars, tid, bitmap, counted>>

-----------------------------------------------------------------------------
(* Pointers and keys. *)

\* Mistake: the tag is looked for in a bit that is never set.
isLeafNoTag(p) == FALSE

Leaf(id)    == -(id + 1)
isLeaf(p)   == p < 0
auxIndex(p) == -p - 1

\* The bytes the trie path of a keyword is made of: the keyword, with a NUL
\* appended unless it ends with one already (must_append_null).
Key(w) == IF w[Len(w)] = NULL_TERMINATOR THEN w ELSE Append(w, NULL_TERMINATOR)

keyword(t) == Jobs[t][job[t]].keyword
nodeKey(t) == Key(keyword(t))[level[t] + 1]

-----------------------------------------------------------------------------
(* The version word: what each check of the protocol asks. *)

isLocked(version) == version % 2 = 1

\* readUnlockOrRestart: nothing was written to n since startRead was loaded.
ReadUnlock(n, startRead) == versionLock[n] = startRead

\* Mistakes: a store in place of the compare and exchange; a lock that is taken
\* when it is free, whatever happened since the version was read.
CanUpgradeByStore(n, version) == TRUE
CanUpgradeWhenFree(n, version) == ~isLocked(versionLock[n])

\* upgradeToWriteLockOrRestart: the compare and exchange succeeds.
CanUpgrade(n, version) == versionLock[n] = version

ParentUnchanged(t) ==
  parentNode[t] # Null => ReadUnlock(parentNode[t], parentVersion[t])

-----------------------------------------------------------------------------
Goto(t, label) == pc' = [pc EXCEPT ![t] = label]

Init ==
  /\ versionLock = [n \in NodeIds |-> 2]
  /\ children = [n \in NodeIds |-> [b \in Bytes |-> Null]]
  /\ count = [n \in NodeIds |-> 0]
  /\ isCodePointEnd = [n \in NodeIds |-> n = Root]
  /\ allocated = Root
  /\ unique_literal_cnt = 0
  /\ literal_map = << >>
  /\ pc = [t \in Threads |-> "readLock"]
  /\ job = [t \in Threads |-> 1]
  /\ node = [t \in Threads |-> Root]
  /\ nextNode = [t \in Threads |-> Null]
  /\ parentNode = [t \in Threads |-> Null]
  /\ level = [t \in Threads |-> 0]
  /\ v = [t \in Threads |-> 0]
  /\ parentVersion = [t \in Threads |-> 0]
  /\ tid = [t \in Threads |-> 0]
  /\ bitmap = [t \in Threads |-> {}]
  /\ counted = [t \in Threads |-> 0]

\* Back to the root, for a restart or for the next keyword.
FromRoot(t) ==
  /\ node' = [node EXCEPT ![t] = Root]
  /\ parentNode' = [parentNode EXCEPT ![t] = Null]
  /\ level' = [level EXCEPT ![t] = 0]
  /\ parentVersion' = [parentVersion EXCEPT ![t] = 0]
  /\ nextNode' = [nextNode EXCEPT ![t] = Null]
  /\ v' = [v EXCEPT ![t] = 0]

\* The conditions under which a check sets needRestart.
MustRestart(t) ==
  \/ pc[t] = "readLock" /\ isLocked(versionLock[node[t]])
  \/ pc[t] = "validate" /\ ~ReadUnlock(node[t], v[t])
  \/ pc[t] \in {"checkParent", "insertCheckParent"} /\ ~ParentUnchanged(t)
  \/ pc[t] \in {"insertLock", "upsertLock"} /\ ~CanUpgrade(node[t], v[t])

Restart(t) ==
  /\ MustRestart(t)
  /\ Goto(t, "readLock")
  /\ FromRoot(t)
  /\ UNCHANGED <<nodeVars, literalVars, job, tid, bitmap, counted>>

\* readLockOrRestart on the node the walk has reached.
ReadLock(t) ==
  /\ pc[t] = "readLock"
  /\ ~isLocked(versionLock[node[t]])
  /\ v' = [v EXCEPT ![t] = versionLock[node[t]]]
  /\ Goto(t, "readChild")
  /\ UNCHANGED <<nodeVars, literalVars, job, node, nextNode, parentNode, level,
                 parentVersion, tid, bitmap, counted>>

\* getChild, a plain load that a writer may overlap.
ReadChild(t) ==
  /\ pc[t] = "readChild"
  /\ nextNode' = [nextNode EXCEPT ![t] = children[node[t]][nodeKey(t)]]
  /\ Goto(t, "validate")
  /\ UNCHANGED <<nodeVars, literalVars, job, node, parentNode, level, v,
                 parentVersion, tid, bitmap, counted>>

\* readUnlockOrRestart after the load, and the choice between inserting the
\* rest of the path here and walking on.
Validate(t) ==
  /\ pc[t] = "validate"
  /\ ReadUnlock(node[t], v[t])
  /\ Goto(t, IF nextNode[t] = Null THEN "insertCheckParent" ELSE "checkParent")
  /\ UNCHANGED <<nodeVars, literalVars, job, walkVars, tid, bitmap, counted>>

\* The check of the parent's version before the walk leaves it, and the choice
\* between a duplicate keyword (a leaf) and one more level.
CheckParent(t) ==
  /\ pc[t] = "checkParent"
  /\ ParentUnchanged(t)
  /\ \/ /\ isLeaf(nextNode[t])
        /\ Goto(t, "upsertLock")
        /\ UNCHANGED walkVars
     \/ /\ ~isLeaf(nextNode[t])
        /\ parentNode' = [parentNode EXCEPT ![t] = node[t]]
        /\ parentVersion' = [parentVersion EXCEPT ![t] = v[t]]
        /\ node' = [node EXCEPT ![t] = nextNode[t]]
        /\ level' = [level EXCEPT ![t] = level[t] + 1]
        /\ Goto(t, "readLock")
        /\ UNCHANGED <<nextNode, v>>
  /\ UNCHANGED <<nodeVars, literalVars, job, tid, bitmap, counted>>

\* insertAndUnlock, the parent's version once more.
InsertCheckParent(t) ==
  /\ pc[t] = "insertCheckParent"
  /\ ParentUnchanged(t)
  /\ Goto(t, "insertLock")
  /\ UNCHANGED <<nodeVars, literalVars, job, walkVars, tid, bitmap, counted>>

\* The compare and exchange that takes the write lock of node[t].
Upgrade(t) ==
  /\ CanUpgrade(node[t], v[t])
  /\ versionLock' = [versionLock EXCEPT ![node[t]] = v[t] + 1]
  /\ v' = [v EXCEPT ![t] = v[t] + 1]
  /\ UNCHANGED <<children, count, isCodePointEnd, allocated, literalVars, job,
                 node, nextNode, parentNode, level, parentVersion, tid, bitmap, counted>>

InsertLock(t) == pc[t] = "insertLock" /\ Upgrade(t) /\ Goto(t, "newTid")
UpsertLock(t) == pc[t] = "upsertLock" /\ Upgrade(t) /\ Goto(t, "upsertRead")

\* new_tid, first half: the fetch_add that hands out the literal id.
NewTid(t) ==
  /\ pc[t] = "newTid"
  /\ tid' = [tid EXCEPT ![t] = unique_literal_cnt]
  /\ unique_literal_cnt' = unique_literal_cnt + 1
  /\ Goto(t, "emplace")
  /\ UNCHANGED <<nodeVars, literal_map, job, walkVars, bitmap, counted>>

\* Mistake: the entry is filed under the counter, read again after the
\* fetch_add, and not under the id that came back.
EmplaceUnderCounter(t) ==
  /\ pc[t] = "emplace"
  /\ literal_map' =
       [id \in DOMAIN literal_map \cup {unique_literal_cnt - 1} |->
          IF id \in DOMAIN literal_map THEN literal_map[id]
          ELSE [literal_len |-> Len(keyword(t)), bitmap |-> {Jobs[t][job[t]].aux}]]
  /\ Goto(t, "publish")
  /\ UNCHANGED <<nodeVars, unique_literal_cnt, job, walkVars, tid, bitmap, counted>>

\* new_tid, second half.  emplace leaves an entry that is already there alone.
Emplace(t) ==
  /\ pc[t] = "emplace"
  /\ literal_map' =
       [id \in DOMAIN literal_map \cup {tid[t]} |->
          IF id \in DOMAIN literal_map THEN literal_map[id]
          ELSE [literal_len |-> Len(keyword(t)), bitmap |-> {Jobs[t][job[t]].aux}]]
  /\ Goto(t, "publish")
  /\ UNCHANGED <<nodeVars, unique_literal_cnt, job, walkVars, tid, bitmap, counted>>

\* How many nodes generateVal makes for the keyword of t: one per byte that
\* follows nodeKey(t).
ChainLength(t) == Len(Key(keyword(t))) - level[t] - 1

\* They are made from the last byte up, so the one that holds the leaf comes
\* first, and the node of trie level idx is:
ChainNode(t, idx) == allocated + (Len(Key(keyword(t))) - idx)
ChainLevel(t, n)  == Len(Key(keyword(t))) - (n - allocated)

\* The labels insert computes before it walks (isEndCodePoint), and a mistake:
\* the label of the level above.
isEndCodePointLate(key, idx) == idx - 1 \in CodePointStarts(key)
isEndCodePoint(key, idx)     == idx \in CodePointStarts(key)

\* What the node of level idx points at under the idx-th byte of the key, and
\* a mistake: the range of generateVal one short, so the leaf hangs too high.
ChainNextShort(t, idx) ==
  IF idx >= Len(Key(keyword(t))) - 2 THEN Leaf(tid[t]) ELSE ChainNode(t, idx + 1)
ChainNext(t, idx) ==
  IF idx = Len(Key(keyword(t))) - 1 THEN Leaf(tid[t]) ELSE ChainNode(t, idx + 1)

\* generateVal, which builds the private chain, and the store that publishes
\* it under nodeKey(t).
Publish(t) ==
  LET key  == Key(keyword(t))
      made == (allocated + 1)..(allocated + ChainLength(t))
  IN
  /\ pc[t] = "publish"
  /\ allocated + ChainLength(t) <= MaxNodes
  /\ allocated' = allocated + ChainLength(t)
  /\ children' =
       [n \in NodeIds |->
          CASE n \in made ->
                 [b \in Bytes |-> IF b = key[ChainLevel(t, n) + 1]
                                  THEN ChainNext(t, ChainLevel(t, n)) ELSE Null]
            [] n = node[t] -> [children[n] EXCEPT ![nodeKey(t)] = ChainNext(t, level[t])]
            [] OTHER -> children[n]]
  /\ count' = [n \in NodeIds |-> IF n \in made THEN 1 ELSE count[n]]
  /\ isCodePointEnd' =
       [n \in NodeIds |-> IF n \in made THEN isEndCodePoint(key, ChainLevel(t, n))
                          ELSE isCodePointEnd[n]]
  /\ Goto(t, "countRead")
  /\ UNCHANGED <<versionLock, literalVars, job, walkVars, tid, bitmap, counted>>

\* count++ on a plain unsigned: a load, and a store of one more.
CountRead(t) ==
  /\ pc[t] = "countRead"
  /\ counted' = [counted EXCEPT ![t] = count[node[t]]]
  /\ Goto(t, "countWrite")
  /\ UNCHANGED <<nodeVars, literalVars, job, walkVars, tid, bitmap>>

CountWrite(t) ==
  /\ pc[t] = "countWrite"
  /\ count' = [count EXCEPT ![node[t]] = counted[t] + 1]
  /\ Goto(t, "unlock")
  /\ UNCHANGED <<versionLock, children, isCodePointEnd, allocated, literalVars,
                 job, walkVars, tid, bitmap, counted>>

\* upsert_fn on a leaf that is there already: bitmap.add is a read and a write
\* of a bitmap that is not safe to share.
UpsertRead(t) ==
  /\ pc[t] = "upsertRead"
  /\ tid' = [tid EXCEPT ![t] = auxIndex(nextNode[t])]
  /\ bitmap' = [bitmap EXCEPT ![t] = literal_map[auxIndex(nextNode[t])].bitmap]
  /\ Goto(t, "upsertWrite")
  /\ UNCHANGED <<nodeVars, literalVars, job, walkVars, counted>>

UpsertWrite(t) ==
  /\ pc[t] = "upsertWrite"
  /\ literal_map' =
       [literal_map EXCEPT ![tid[t]].bitmap = bitmap[t] \cup {Jobs[t][job[t]].aux}]
  /\ Goto(t, "unlock")
  /\ UNCHANGED <<nodeVars, unique_literal_cnt, job, walkVars, tid, bitmap, counted>>

\* writeUnlock: a fetch_add on the locked version.  Mistake: no release.
NoUnlock(version)    == version
writeUnlock(version) == version + 1

\* writeUnlock, and the return from insert to the thread's next call.
Unlock(t) ==
  /\ pc[t] = "unlock"
  /\ versionLock' = [versionLock EXCEPT ![node[t]] = writeUnlock(@)]
  /\ job' = [job EXCEPT ![t] = job[t] + 1]
  /\ Goto(t, IF job[t] < Len(Jobs[t]) THEN "readLock" ELSE "done")
  /\ FromRoot(t)
  /\ tid' = [tid EXCEPT ![t] = 0]
  /\ bitmap' = [bitmap EXCEPT ![t] = {}]
  /\ counted' = [counted EXCEPT ![t] = 0]
  /\ UNCHANGED <<children, count, isCodePointEnd, allocated, literalVars>>

Step(t) ==
  \/ Restart(t)
  \/ ReadLock(t)
  \/ ReadChild(t)
  \/ Validate(t)
  \/ CheckParent(t)
  \/ InsertCheckParent(t)
  \/ InsertLock(t)
  \/ NewTid(t)
  \/ Emplace(t)
  \/ Publish(t)
  \/ CountRead(t)
  \/ CountWrite(t)
  \/ UpsertLock(t)
  \/ UpsertRead(t)
  \/ UpsertWrite(t)
  \/ Unlock(t)

AllDone == \A t \in Threads : pc[t] = "done"
Terminating == AllDone /\ UNCHANGED vars

Next == (\E t \in Threads : Step(t)) \/ Terminating

\* A thread that can take a step takes one: the scheduler is preemptive.
Fairness == \A t \in Threads : WF_vars(Step(t))

Spec == Init /\ [][Next]_vars
FairSpec == Spec /\ Fairness

-----------------------------------------------------------------------------
(* What a reader of the trie sees. *)

JobsOf(t) == {Jobs[t][i] : i \in 1..Len(Jobs[t])}
AllJobs   == UNION {JobsOf(t) : t \in Threads}
Keys      == {Key(j.keyword) : j \in AllJobs}

\* The pointers along the path of a key; what follows a leaf or a null is null.
Path(k) ==
  LET at[i \in 0..Len(k)] ==
        IF i = 0 THEN Root
        ELSE IF at[i - 1] > 0 THEN children[at[i - 1]][k[i]] ELSE Null
  IN  at

Lookup(k)  == Path(k)[Len(k)]
FoundKeys  == {k \in Keys : isLeaf(Lookup(k))}
LiteralOf(k) == literal_map[auxIndex(Lookup(k))]

-----------------------------------------------------------------------------
(* Safety. *)

Locals == {"readLock", "readChild", "validate", "checkParent", "insertCheckParent",
           "insertLock", "newTid", "emplace", "publish", "countRead", "countWrite",
           "upsertLock", "upsertRead", "upsertWrite", "unlock", "done"}
Pointer == Int
LiteralEntry == [literal_len : Nat, bitmap : SUBSET Nat]

\* Every variable holds a value of its C++ type, and a walk never leaves the
\* nodes that exist (insert, tree.h).
TypeOK ==
  /\ versionLock \in [NodeIds -> Nat]
  /\ children \in [NodeIds -> [Bytes -> Pointer]]
  /\ count \in [NodeIds -> Nat]
  /\ isCodePointEnd \in [NodeIds -> BOOLEAN]
  /\ allocated \in NodeIds
  /\ unique_literal_cnt \in Nat
  /\ literal_map \in [DOMAIN literal_map -> LiteralEntry]
  /\ DOMAIN literal_map \subseteq Nat
  /\ pc \in [Threads -> Locals]
  /\ job \in [Threads -> Nat]
  /\ node \in [Threads -> NodeIds]
  /\ nextNode \in [Threads -> Pointer]
  /\ parentNode \in [Threads -> {Null} \cup NodeIds]
  /\ level \in [Threads -> Nat]
  /\ v \in [Threads -> Nat]
  /\ parentVersion \in [Threads -> Nat]
  /\ tid \in [Threads -> Nat]
  /\ bitmap \in [Threads -> SUBSET Nat]
  /\ counted \in [Threads -> Nat]

WriteSection ==
  {"newTid", "emplace", "publish", "countRead", "countWrite", "upsertRead", "upsertWrite",
   "unlock"}

\* Two threads never both believe they hold the write lock of one node, so the
\* plain count++ and the bitmap.add of upsert_fn, which are no atomics, are
\* never concurrent with themselves (upgradeToWriteLockOrRestart, node.h).
WriteLockExclusive ==
  \A t, u \in Threads :
    t # u /\ pc[t] \in WriteSection /\ pc[u] \in WriteSection => node[t] # node[u]

\* No insert is lost: once a call of Insert has returned, its keyword leads to
\* a leaf, and the bitmap of that leaf's literal holds its occurrence, whatever
\* the other threads do afterwards.
InsertedStaysFound ==
  \A t \in Threads : \A i \in 1..(job[t] - 1) :
    LET k == Key(Jobs[t][i].keyword)
    IN  /\ isLeaf(Lookup(k))
        /\ auxIndex(Lookup(k)) \in DOMAIN literal_map
        /\ Jobs[t][i].aux \in LiteralOf(k).bitmap

\* Nothing is invented: a keyword that is found has its literal, the occurrences
\* recorded there are those of calls that named this keyword and have begun, and
\* its length is right.
OccurrencesExact ==
  \A k \in FoundKeys :
    /\ auxIndex(Lookup(k)) \in DOMAIN literal_map
    /\ \A occurrence \in LiteralOf(k).bitmap : \E t \in Threads : \E i \in 1..Len(Jobs[t]) :
         i <= job[t] /\ Key(Jobs[t][i].keyword) = k /\ Jobs[t][i].aux = occurrence
    /\ \E j \in AllJobs : Key(j.keyword) = k /\ LiteralOf(k).literal_len = Len(j.keyword)

\* Literal ids are dense and none is used twice: every id handed out is the
\* leaf of exactly one keyword, or still in the hands of the thread that
\* fetched it.  A restart between fetch_add and the store would leak one.
LiteralIdsDense ==
  LET published == {auxIndex(Lookup(k)) : k \in FoundKeys}
      inFlight  == {t \in Threads : pc[t] \in {"emplace", "publish"}}
  IN  /\ Cardinality(published) = Cardinality(FoundKeys)
      /\ published \cup {tid[t] : t \in inFlight} = 0..(unique_literal_cnt - 1)
      /\ unique_literal_cnt = Cardinality(FoundKeys) + Cardinality(inFlight)

\* Every node that was made hangs off exactly one slot, so ~Tree, which frees
\* what it reaches, frees each node and each leaf exactly once.
EveryNodeOwnedOnce ==
  \A n \in 1..allocated : n # Root =>
    Cardinality({s \in (1..allocated) \X Bytes : children[s[1]][s[2]] = n}) = 1

\* The "fully expanded trie": a leaf hangs off a NUL slot and off no other, and
\* nothing else does.  insert decides on isLeaf alone that the key is used up.
LeafOnlyUnderNul ==
  \A n \in 1..allocated, b \in Bytes :
    children[n][b] # Null => (isLeaf(children[n][b]) <=> b = NULL_TERMINATOR)

\* count says how many children a node has whenever its lock is free.
CountIsChildren ==
  \A n \in 1..allocated : ~isLocked(versionLock[n]) =>
    count[n] = Cardinality({b \in Bytes : children[n][b] # Null})

(* What a step may never do. *)

\* A slot is written once: no pointer that a reader may have followed is ever
\* replaced, so no subtree and no literal is ever dropped.
SlotWrittenOnce ==
  [][\A n \in NodeIds, b \in Bytes :
       children[n][b] # Null => children'[n][b] = children[n][b]]_vars

(* Liveness. *)

\* Restarts do not go on for ever: every thread gets all its keywords in.
AllInserted == <>AllDone
=============================================================================
