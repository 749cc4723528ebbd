-------------------------- MODULE ArtTreeIndexProofs --------------------------
(***************************************************************************)
(* Theorems about ArtTree, for every set of threads and every list of      *)
(* calls: about the protocol of the locks; about what the trie contains    *)
(* (that it is a tree, that every returned call is found in it, and that   *)
(* its literals and their ids are exact); that it implements LiteralIndex; *)
(* and that ~Tree frees it whole.  A keyword is found along a path, so the *)
(* part about the contents begins with the paths through any array of      *)
(* slots.                                                                  *)
(***************************************************************************)
EXTENDS ArtTreeRefinement, ArtTreeInductive, ArtTreeLifetime, CommonLemmas

-----------------------------------------------------------------------------
(* The protocol. *)

\* The key of a keyword: bytes, of which the last one and no other is NUL.
LEMMA KeyType ==
  ASSUME NEW w, IsKeyword(w)
  PROVE  /\ Key(w) \in Seq(Bytes)
         /\ Len(Key(w)) \in Nat \ {0}
         /\ \A i \in 1..Len(Key(w)) :
              Key(w)[i] \in Bytes /\ (Key(w)[i] = NULL_TERMINATOR <=> i = Len(Key(w)))
<1>1. w \in Seq(Bytes) /\ w # << >> /\ Len(w) \in Nat \ {0}
  BY DEF IsKeyword
<1>2. CASE w[Len(w)] = NULL_TERMINATOR
  BY <1>1, <1>2 DEF IsKeyword, Key
<1>3. CASE w[Len(w)] # NULL_TERMINATOR
  BY <1>1, <1>3, BytesAssumption DEF IsKeyword, Key, NULL_TERMINATOR
<1>4. QED
  BY <1>2, <1>3

\* What a thread inside a call knows of its keyword and of its next byte.
LEMMA WalkFacts ==
  ASSUME NEW t \in Threads, WalkInKey(t), level[t] \in Nat, pc[t] # "done"
  PROVE  /\ IsKeyword(keyword(t)) /\ Jobs[t][job[t]].aux \in Nat
         /\ Len(keyword(t)) \in Nat
         /\ Len(Key(keyword(t))) \in Nat \ {0}
         /\ nodeKey(t) \in Bytes
         /\ nodeKey(t) = NULL_TERMINATOR <=> level[t] = Len(Key(keyword(t))) - 1
         /\ level[t] \in 0..(Len(Key(keyword(t))) - 1)
         /\ \A i \in 1..Len(Key(keyword(t))) :
              /\ Key(keyword(t))[i] \in Bytes
              /\ Key(keyword(t))[i] = NULL_TERMINATOR <=> i = Len(Key(keyword(t)))
<1>1. job[t] \in 1..Len(Jobs[t]) /\ level[t] \in Nat /\ level[t] < Len(Key(keyword(t)))
  BY DEF WalkInKey
<1>2. IsKeyword(keyword(t)) /\ Jobs[t][job[t]].aux \in Nat
  BY <1>1, JobsAssumption DEF IsJob, keyword
<1>3. Len(keyword(t)) \in Nat
  BY <1>2 DEF IsKeyword
<1>4. /\ Len(Key(keyword(t))) \in Nat \ {0}
      /\ \A i \in 1..Len(Key(keyword(t))) :
           /\ Key(keyword(t))[i] \in Bytes
           /\ Key(keyword(t))[i] = NULL_TERMINATOR <=> i = Len(Key(keyword(t)))
  BY <1>2, KeyType
<1>5. level[t] + 1 \in 1..Len(Key(keyword(t)))
  BY <1>1, <1>4
<1>6. QED
  BY <1>1, <1>2, <1>3, <1>4, <1>5 DEF nodeKey

\* A step of t leaves the locals of the other threads alone.
OnlyLocalsOf(t) ==
  \A u \in Threads : u # t =>
    /\ pc'[u] = pc[u] /\ job'[u] = job[u] /\ level'[u] = level[u]
    /\ node'[u] = node[u] /\ nextNode'[u] = nextNode[u] /\ parentNode'[u] = parentNode[u]
    /\ v'[u] = v[u] /\ tid'[u] = tid[u]

\* A step of t touches no node but the one t stands on (and new ones), moves
\* versions only up, and changes that node's children only under its lock.
TouchesOnlyNodeOf(t) ==
  /\ allocated' \in Nat /\ allocated <= allocated'
  /\ \A n \in 1..allocated : n # node[t] =>
       versionLock'[n] = versionLock[n] /\ children'[n] = children[n]
  /\ versionLock'[node[t]] \in Nat /\ versionLock[node[t]] <= versionLock'[node[t]]
  /\ ~isLocked(versionLock[node[t]]) => children'[node[t]] = children[node[t]]
  /\ DOMAIN literal_map \subseteq DOMAIN literal_map'

\* Such a step keeps what every other thread relies on, provided no other
\* thread is writing to the node it touches.
LEMMA OtherThreadsKeep ==
  ASSUME TypeOK, NEW t \in Threads, NEW u \in Threads, u # t, ThreadInv(u),
         OnlyLocalsOf(t), TouchesOnlyNodeOf(t),
         pc[u] \in WriteSection => node[u] # node[t]
  PROVE  ThreadInv(u)'
<1>1. /\ pc'[u] = pc[u] /\ job'[u] = job[u] /\ level'[u] = level[u]
      /\ node'[u] = node[u] /\ nextNode'[u] = nextNode[u] /\ parentNode'[u] = parentNode[u]
      /\ v'[u] = v[u] /\ tid'[u] = tid[u]
  BY DEF OnlyLocalsOf
<1>2. keyword(u)' = keyword(u) /\ nodeKey(u)' = nodeKey(u)
  BY <1>1 DEF keyword, nodeKey
<1>3. /\ node[u] \in 1..allocated /\ versionLock[node[u]] \in Nat /\ v[u] \in Nat
      /\ node[u] \in Nat /\ allocated \in Nat /\ parentNode[u] \in Nat /\ nextNode[u] \in Int
  <2>1. node[u] \in NodeIds /\ parentNode[u] \in {0} \cup NodeIds /\ allocated \in NodeIds
    BY DEF TypeOK, Null
  <2>2. versionLock[node[u]] \in Nat /\ v[u] \in Nat /\ nextNode[u] \in Int
    BY <2>1 DEF TypeOK, Pointer
  <2>3. node[u] <= allocated
    BY DEF ThreadInv, WalkOnMadeNodes
  <2>4. QED
    BY <2>1, <2>2, <2>3, MaxNodesAssumption DEF NodeIds
<1>4. /\ versionLock'[node[u]] \in Nat /\ versionLock[node[u]] <= versionLock'[node[u]]
      /\ ~isLocked(versionLock[node[u]]) => children'[node[u]] = children[node[u]]
      /\ pc[u] \in WriteSection =>
           versionLock'[node[u]] = versionLock[node[u]] /\ children'[node[u]] = children[node[u]]
  BY <1>3 DEF TouchesOnlyNodeOf
<1>5. WalkInKey(u)'
  BY <1>1, <1>2 DEF ThreadInv, WalkInKey
<1>6. WalkOnMadeNodes(u)'
  BY <1>1, <1>3 DEF ThreadInv, WalkOnMadeNodes, TouchesOnlyNodeOf
<1>7. ReadPointer(u)'
  BY <1>1, <1>2 DEF ThreadInv, ReadPointer
<1>8. ReadVersion(u)'
  BY <1>1, <1>3, <1>4 DEF ThreadInv, ReadVersion
<1>9. ReadStillValid(u)'
  <2>1. SUFFICES ASSUME pc[u] \in AfterRead, versionLock'[node[u]] = v[u]
                 PROVE  children'[node[u]][nodeKey(u)] = nextNode[u]
    BY <1>1, <1>2 DEF ReadStillValid
  <2>2. ~isLocked(v[u]) /\ v[u] <= versionLock[node[u]]
    BY <2>1 DEF ThreadInv, ReadVersion, Reading
  <2>3. versionLock[node[u]] = v[u]
    BY <1>3, <1>4, <2>1, <2>2
  <2>4. QED
    BY <1>4, <2>1, <2>2, <2>3 DEF ThreadInv, ReadStillValid
<1>10. WriterHoldsLock(u)'
  BY <1>1, <1>4 DEF ThreadInv, WriterHoldsLock
<1>11. SlotStillFree(u)'
  BY <1>1, <1>2, <1>4 DEF ThreadInv, SlotStillFree, Inserting, WriteSection
<1>12. HeldLiteralExists(u)'
  BY <1>1 DEF ThreadInv, HeldLiteralExists, TouchesOnlyNodeOf
<1>13. QED
  BY <1>5, <1>6, <1>7, <1>8, <1>9, <1>10, <1>11, <1>12 DEF ThreadInv

\* A step that writes neither nodes nor literals, and takes no lock.
LEMMA LocalStep ==
  ASSUME IInv, NEW t \in Threads, OnlyLocalsOf(t), UNCHANGED <<nodeVars, literalVars>>,
         pc'[t] \notin WriteSection, TypeOK', ThreadInv(t)'
  PROVE  IInv'
<1>1. SharedInv'
  BY DEF IInv, SharedInv, FreeNodesBlank, NulMeansLeaf, LeavesHaveLiterals, nodeVars,
         literalVars
<1>2. WriteLockExclusive'
  BY DEF IInv, WriteLockExclusive, OnlyLocalsOf
<1>3. ASSUME NEW u \in Threads, u # t PROVE ThreadInv(u)'
  <2>1. /\ pc'[u] = pc[u] /\ job'[u] = job[u] /\ level'[u] = level[u]
        /\ node'[u] = node[u] /\ nextNode'[u] = nextNode[u] /\ parentNode'[u] = parentNode[u]
        /\ v'[u] = v[u] /\ tid'[u] = tid[u] /\ ThreadInv(u)
        /\ versionLock' = versionLock /\ children' = children /\ allocated' = allocated
        /\ literal_map' = literal_map
    BY <1>3 DEF OnlyLocalsOf, IInv, nodeVars, literalVars
  <2>2. keyword(u)' = keyword(u) /\ nodeKey(u)' = nodeKey(u)
    BY <2>1 DEF keyword, nodeKey
  <2>3. QED
    BY <2>1, <2>2 DEF ThreadInv, WalkInKey, WalkOnMadeNodes, ReadPointer, ReadVersion,
      ReadStillValid, WriterHoldsLock, SlotStillFree, HeldLiteralExists
<1>4. QED
  BY <1>1, <1>2, <1>3 DEF IInv

\* A step on the node t stands on, while no other thread writes there.
LEMMA NodeStep ==
  ASSUME IInv, NEW t \in Threads, OnlyLocalsOf(t), TouchesOnlyNodeOf(t),
         \A u \in Threads : u # t /\ pc[u] \in WriteSection => node[u] # node[t],
         pc'[t] \in WriteSection => node'[t] = node[t],
         TypeOK', SharedInv', ThreadInv(t)'
  PROVE  IInv'
<1>1. WriteLockExclusive'
  BY DEF IInv, WriteLockExclusive, OnlyLocalsOf
<1>2. ASSUME NEW u \in Threads, u # t PROVE ThreadInv(u)'
  BY <1>2, OtherThreadsKeep DEF IInv
<1>3. QED
  BY <1>1, <1>2 DEF IInv

\* What the invariant gives about the thread that takes the step.
LEMMA StepFacts ==
  ASSUME IInv, NEW t \in Threads, pc[t] # "done"
  PROVE  /\ ThreadInv(t) /\ TypeOK
         /\ node[t] \in 1..allocated /\ node[t] \in Nat /\ allocated \in Nat
         /\ allocated \in NodeIds /\ nextNode[t] \in Int /\ nextNode[t] <= allocated
         /\ parentNode[t] \in Nat /\ parentNode[t] <= allocated
         /\ versionLock[node[t]] \in Nat /\ v[t] \in Nat /\ tid[t] \in Nat
         /\ job[t] \in 1..Len(Jobs[t]) /\ Len(Jobs[t]) \in Nat
         /\ Root \in NodeIds /\ Root <= allocated
         /\ IsKeyword(keyword(t)) /\ Jobs[t][job[t]].aux \in Nat
         /\ Len(keyword(t)) \in Nat
         /\ Len(Key(keyword(t))) \in Nat \ {0}
         /\ nodeKey(t) \in Bytes
         /\ nodeKey(t) = NULL_TERMINATOR <=> level[t] = Len(Key(keyword(t))) - 1
         /\ level[t] \in 0..(Len(Key(keyword(t))) - 1)
         /\ \A i \in 1..Len(Key(keyword(t))) :
              /\ Key(keyword(t))[i] \in Bytes
              /\ Key(keyword(t))[i] = NULL_TERMINATOR <=> i = Len(Key(keyword(t)))
<1>1. TypeOK /\ ThreadInv(t) /\ WalkInKey(t) /\ WalkOnMadeNodes(t)
  BY DEF IInv, ThreadInv
<1>2. /\ node[t] \in NodeIds /\ allocated \in NodeIds /\ nextNode[t] \in Int
      /\ versionLock[node[t]] \in Nat /\ v[t] \in Nat /\ tid[t] \in Nat /\ level[t] \in Nat
      /\ parentNode[t] \in {0} \cup NodeIds
  BY <1>1 DEF TypeOK, Pointer, Null
<1>3. /\ node[t] \in 1..allocated /\ node[t] \in Nat /\ allocated \in Nat
      /\ parentNode[t] \in Nat /\ nextNode[t] <= allocated /\ parentNode[t] <= allocated
      /\ Root \in NodeIds /\ Root <= allocated
  BY <1>1, <1>2, MaxNodesAssumption DEF NodeIds, WalkOnMadeNodes, Root
<1>4. job[t] \in 1..Len(Jobs[t]) /\ Len(Jobs[t]) \in Nat
  BY <1>1, JobsAssumption DEF WalkInKey
<1>5. QED
  BY <1>1, <1>2, <1>3, <1>4, WalkFacts

-----------------------------------------------------------------------------
(* The steps of the walk. *)

LEMMA RestartStep ==
  ASSUME IInv, NEW t \in Threads, Restart(t)
  PROVE  IInv'
<1>1. pc[t] # "done" /\ pc' = [pc EXCEPT ![t] = "readLock"]
  BY DEF Restart, MustRestart, Goto
<1>2. TypeOK /\ ThreadInv(t) /\ Root \in NodeIds /\ Root <= allocated /\ allocated \in Nat
      /\ Len(Key(keyword(t))) \in Nat \ {0} /\ job[t] \in 1..Len(Jobs[t])
  BY <1>1, StepFacts
<1>3. OnlyLocalsOf(t)
  BY <1>2 DEF Restart, FromRoot, Goto, OnlyLocalsOf, TypeOK
<1>4. TypeOK'
  <2>1. /\ node' \in [Threads -> NodeIds] /\ level' \in [Threads -> Nat]
        /\ parentVersion' \in [Threads -> Nat] /\ v' \in [Threads -> Nat]
    BY <1>2 DEF Restart, FromRoot, TypeOK
  <2>2. parentNode' \in [Threads -> {Null} \cup NodeIds] /\ nextNode' \in [Threads -> Int]
    BY <1>2 DEF Restart, FromRoot, TypeOK, Null, Pointer
  <2>3. pc' \in [Threads -> Locals]
    BY <1>1, <1>2 DEF TypeOK, Locals
  <2>4. QED
    BY <1>2, <2>1, <2>2, <2>3 DEF Restart, TypeOK, nodeVars, literalVars, Pointer
<1>5. /\ pc'[t] = "readLock" /\ job'[t] = job[t] /\ level'[t] = 0
      /\ node'[t] = Root /\ nextNode'[t] = Null /\ parentNode'[t] = Null
  BY <1>2 DEF Restart, FromRoot, Goto, TypeOK
<1>6. ThreadInv(t)'
  <2>1. WalkInKey(t)'
    BY <1>2, <1>5 DEF WalkInKey, keyword
  <2>2. WalkOnMadeNodes(t)'
    BY <1>2, <1>5 DEF Restart, nodeVars, WalkOnMadeNodes, Null
  <2>3. QED
    BY <2>1, <2>2, <1>5 DEF ThreadInv, ReadPointer, ReadVersion, ReadStillValid, isLeaf,
      WriterHoldsLock, SlotStillFree, HeldLiteralExists, Null,
      AfterRead, Reading, Inserting, WriteSection
<1>7. QED
  BY <1>3, <1>4, <1>5, <1>6, LocalStep DEF Restart, WriteSection

\* readLockOrRestart remembers a version and promises nothing of the slot yet.
LEMMA ReadLockStep ==
  ASSUME IInv, NEW t \in Threads, ReadLock(t)
  PROVE  IInv'
<1>1. pc[t] = "readLock" /\ pc' = [pc EXCEPT ![t] = "readChild"]
  BY DEF ReadLock, Goto
<1>2. TypeOK /\ ThreadInv(t) /\ versionLock[node[t]] \in Nat
  BY <1>1, StepFacts
<1>3. OnlyLocalsOf(t)
  BY <1>2 DEF ReadLock, Goto, OnlyLocalsOf, TypeOK
<1>4. TypeOK'
  BY <1>2 DEF ReadLock, Goto, TypeOK, nodeVars, literalVars, Locals
<1>5. pc'[t] = "readChild" /\ v'[t] = versionLock[node[t]] /\ ~isLocked(v'[t])
  BY <1>2 DEF ReadLock, Goto, TypeOK
<1>6. ThreadInv(t)'
  BY <1>1, <1>2, <1>5 DEF ReadLock, ThreadInv, WalkInKey, WalkOnMadeNodes, ReadPointer,
    ReadVersion, ReadStillValid, WriterHoldsLock, SlotStillFree, HeldLiteralExists, keyword,
    AfterRead, Reading, Inserting, WriteSection, nodeVars, literalVars
<1>7. QED
  BY <1>3, <1>4, <1>5, <1>6, LocalStep DEF ReadLock, WriteSection

\* The pointer read is what the slot holds now, if the version has not moved.
LEMMA ReadChildStep ==
  ASSUME IInv, NEW t \in Threads, ReadChild(t)
  PROVE  IInv'
<1>1. pc[t] = "readChild" /\ pc' = [pc EXCEPT ![t] = "validate"]
  BY DEF ReadChild, Goto
<1>2. /\ TypeOK /\ ThreadInv(t) /\ node[t] \in 1..allocated /\ node[t] \in NodeIds
      /\ nodeKey(t) \in Bytes
  BY <1>1, StepFacts DEF TypeOK
<1>3. OnlyLocalsOf(t)
  BY <1>2 DEF ReadChild, Goto, OnlyLocalsOf, TypeOK
<1>4. children[node[t]][nodeKey(t)] \in Int
  BY <1>2 DEF TypeOK, Pointer
<1>5. TypeOK'
  BY <1>2, <1>4 DEF ReadChild, Goto, TypeOK, nodeVars, literalVars, Locals, Pointer
<1>6. /\ pc'[t] = "validate" /\ nextNode'[t] = children[node[t]][nodeKey(t)]
      /\ nodeKey(t)' = nodeKey(t) /\ keyword(t)' = keyword(t)
  BY <1>2 DEF ReadChild, Goto, TypeOK, nodeKey, keyword
<1>7. /\ nextNode'[t] <= allocated
      /\ nextNode'[t] # Null => (isLeaf(nextNode'[t]) <=> nodeKey(t) = NULL_TERMINATOR)
      /\ isLeaf(nextNode'[t]) => auxIndex(nextNode'[t]) \in DOMAIN literal_map
  BY <1>2, <1>6 DEF IInv, SharedInv, FreeNodesBlank, NulMeansLeaf, LeavesHaveLiterals
<1>8. ThreadInv(t)'
  BY <1>1, <1>2, <1>6, <1>7 DEF ReadChild, ThreadInv, WalkInKey, WalkOnMadeNodes, ReadPointer,
    ReadVersion, ReadStillValid, WriterHoldsLock, SlotStillFree, HeldLiteralExists,
    AfterRead, Reading, Inserting, WriteSection, nodeVars, literalVars
<1>9. QED
  BY <1>3, <1>5, <1>6, <1>8, LocalStep DEF ReadChild, WriteSection

\* Validation keeps what was read, or the thread starts again.
LEMMA ValidateStep ==
  ASSUME IInv, NEW t \in Threads, Validate(t)
  PROVE  IInv'
<1>1. /\ pc[t] = "validate"
      /\ pc' = [pc EXCEPT ![t] = IF nextNode[t] = Null THEN "insertCheckParent"
                                 ELSE "checkParent"]
  BY DEF Validate, Goto
<1>2. TypeOK /\ ThreadInv(t)
  BY <1>1, StepFacts
<1>3. OnlyLocalsOf(t)
  BY <1>1, <1>2 DEF Validate, OnlyLocalsOf, TypeOK, walkVars
<1>4. TypeOK'
  BY <1>1, <1>2 DEF Validate, TypeOK, nodeVars, literalVars, walkVars, Locals
<1>5. /\ pc'[t] = IF nextNode[t] = Null THEN "insertCheckParent" ELSE "checkParent"
      /\ nodeKey(t)' = nodeKey(t) /\ keyword(t)' = keyword(t)
  BY <1>1, <1>2 DEF Validate, TypeOK, nodeKey, keyword, walkVars
<1>6. ThreadInv(t)'
  BY <1>1, <1>2, <1>5 DEF Validate, ThreadInv, WalkInKey, WalkOnMadeNodes, ReadPointer,
    ReadVersion, ReadStillValid, WriterHoldsLock, SlotStillFree, HeldLiteralExists,
    AfterRead, Reading, Inserting, WriteSection, nodeVars, literalVars, walkVars
<1>7. QED
  BY <1>3, <1>4, <1>5, <1>6, LocalStep DEF Validate, WriteSection

\* The parent's check changes no shared word.
LEMMA InsertCheckParentStep ==
  ASSUME IInv, NEW t \in Threads, InsertCheckParent(t)
  PROVE  IInv'
<1>1. pc[t] = "insertCheckParent" /\ pc' = [pc EXCEPT ![t] = "insertLock"]
  BY DEF InsertCheckParent, Goto
<1>2. TypeOK /\ ThreadInv(t)
  BY <1>1, StepFacts
<1>3. OnlyLocalsOf(t)
  BY <1>1, <1>2 DEF InsertCheckParent, OnlyLocalsOf, TypeOK, walkVars
<1>4. TypeOK'
  BY <1>1, <1>2 DEF InsertCheckParent, TypeOK, nodeVars, literalVars, walkVars, Locals
<1>5. pc'[t] = "insertLock" /\ nodeKey(t)' = nodeKey(t) /\ keyword(t)' = keyword(t)
  BY <1>1, <1>2 DEF InsertCheckParent, TypeOK, nodeKey, keyword, walkVars
<1>6. ThreadInv(t)'
  BY <1>1, <1>2, <1>5 DEF InsertCheckParent, ThreadInv, WalkInKey, WalkOnMadeNodes,
    ReadPointer, ReadVersion, ReadStillValid, WriterHoldsLock, SlotStillFree,
    HeldLiteralExists, AfterRead, Reading, Inserting, WriteSection, nodeVars, literalVars,
    walkVars
<1>7. QED
  BY <1>3, <1>4, <1>5, <1>6, LocalStep DEF InsertCheckParent, WriteSection

\* One level down, the child read becomes the node and its version is not known yet.
LEMMA CheckParentStep ==
  ASSUME IInv, NEW t \in Threads, CheckParent(t)
  PROVE  IInv'
<1>1. pc[t] = "checkParent" /\ UNCHANGED <<nodeVars, literalVars, job, tid, bitmap, counted>>
  BY DEF CheckParent
<1>2. /\ TypeOK /\ ThreadInv(t) /\ node[t] \in NodeIds /\ nextNode[t] # Null
      /\ nextNode[t] \in Int /\ nextNode[t] <= allocated /\ allocated \in NodeIds
      /\ level[t] \in 0..(Len(Key(keyword(t))) - 1) /\ Len(Key(keyword(t))) \in Nat
      /\ nodeKey(t) = NULL_TERMINATOR <=> level[t] = Len(Key(keyword(t))) - 1
      /\ node[t] <= allocated /\ v[t] \in Nat
      /\ isLeaf(nextNode[t]) <=> nodeKey(t) = NULL_TERMINATOR
  <2>1. /\ TypeOK /\ ThreadInv(t) /\ node[t] \in NodeIds
        /\ nextNode[t] \in Int /\ nextNode[t] <= allocated /\ allocated \in NodeIds
        /\ level[t] \in 0..(Len(Key(keyword(t))) - 1) /\ Len(Key(keyword(t))) \in Nat
        /\ nodeKey(t) = NULL_TERMINATOR <=> level[t] = Len(Key(keyword(t))) - 1
        /\ v[t] \in Nat
    BY <1>1, StepFacts DEF TypeOK
  <2>2. /\ nextNode[t] # Null /\ node[t] <= allocated
        /\ isLeaf(nextNode[t]) <=> nodeKey(t) = NULL_TERMINATOR
    BY <1>1, <2>1 DEF ThreadInv, ReadPointer, WalkOnMadeNodes, AfterRead
  <2>3. QED
    BY <2>1, <2>2
<1>3. CASE isLeaf(nextNode[t])
  <2>1. pc' = [pc EXCEPT ![t] = "upsertLock"] /\ UNCHANGED walkVars
    BY <1>3 DEF CheckParent, Goto
  <2>2. OnlyLocalsOf(t)
    BY <1>1, <1>2, <2>1 DEF OnlyLocalsOf, TypeOK, walkVars
  <2>3. TypeOK'
    BY <1>1, <1>2, <2>1 DEF TypeOK, nodeVars, literalVars, walkVars, Locals
  <2>4. pc'[t] = "upsertLock" /\ nodeKey(t)' = nodeKey(t) /\ keyword(t)' = keyword(t)
    BY <1>1, <1>2, <2>1 DEF TypeOK, nodeKey, keyword, walkVars
  <2>5. ThreadInv(t)'
    BY <1>1, <1>2, <1>3, <2>1, <2>4 DEF ThreadInv, WalkInKey, WalkOnMadeNodes,
      ReadPointer, ReadVersion, ReadStillValid, WriterHoldsLock, SlotStillFree,
      HeldLiteralExists, AfterRead, Reading, Inserting, WriteSection, nodeVars, literalVars,
      walkVars
  <2>6. QED
    BY <1>1, <2>2, <2>3, <2>4, <2>5, LocalStep DEF WriteSection
<1>4. CASE ~isLeaf(nextNode[t])
  <2>1. /\ pc' = [pc EXCEPT ![t] = "readLock"]
        /\ parentNode' = [parentNode EXCEPT ![t] = node[t]]
        /\ parentVersion' = [parentVersion EXCEPT ![t] = v[t]]
        /\ node' = [node EXCEPT ![t] = nextNode[t]]
        /\ level' = [level EXCEPT ![t] = level[t] + 1]
        /\ UNCHANGED <<nextNode, v>>
    BY <1>4 DEF CheckParent, Goto
  <2>2. nextNode[t] \in NodeIds /\ level[t] + 1 \in Nat /\ level[t] + 1 < Len(Key(keyword(t)))
    BY <1>2, <1>4, MaxNodesAssumption DEF isLeaf, Null, NodeIds
  <2>3. OnlyLocalsOf(t)
    BY <1>1, <1>2, <2>1 DEF OnlyLocalsOf, TypeOK
  <2>4. TypeOK'
    BY <1>1, <1>2, <2>1, <2>2 DEF TypeOK, nodeVars, literalVars, Locals
  <2>5. /\ pc'[t] = "readLock" /\ node'[t] = nextNode[t] /\ parentNode'[t] = node[t]
        /\ level'[t] = level[t] + 1 /\ keyword(t)' = keyword(t)
    BY <1>1, <1>2, <2>1 DEF TypeOK, keyword
  <2>6. ThreadInv(t)'
    BY <1>1, <1>2, <1>4, <2>1, <2>2, <2>5 DEF ThreadInv, WalkInKey, WalkOnMadeNodes,
      ReadPointer, ReadVersion, ReadStillValid, WriterHoldsLock, SlotStillFree,
      HeldLiteralExists, AfterRead, Reading, Inserting, WriteSection, nodeVars, literalVars
  <2>7. QED
    BY <1>1, <2>3, <2>4, <2>5, <2>6, LocalStep DEF WriteSection
<1>5. QED
  BY <1>3, <1>4

-----------------------------------------------------------------------------
(* The steps that take, hold and release the write lock. *)

LEMMA LockParity ==
  ASSUME NEW version \in Nat
  PROVE  isLocked(version + 1) <=> ~isLocked(version)
BY DEF isLocked

\* While t may still be reading an unlocked version that is current, or is
\* writing, nobody else is writing to its node.
LEMMA NobodyElseWrites ==
  ASSUME IInv, NEW t \in Threads,
         \/ pc[t] \in WriteSection
         \/ ~isLocked(versionLock[node[t]])
  PROVE  \A u \in Threads : u # t /\ pc[u] \in WriteSection => node[u] # node[t]
<1>1. CASE pc[t] \in WriteSection
  BY <1>1 DEF IInv, WriteLockExclusive
<1>2. CASE ~isLocked(versionLock[node[t]])
  BY <1>2 DEF IInv, ThreadInv, WriterHoldsLock
<1>3. QED
  BY <1>1, <1>2

\* Taking the lock: the same step for an insert and for an upsert.
LEMMA UpgradeStep ==
  ASSUME IInv, NEW t \in Threads, Upgrade(t),
         \/ pc[t] = "insertLock" /\ pc' = [pc EXCEPT ![t] = "newTid"]
         \/ pc[t] = "upsertLock" /\ pc' = [pc EXCEPT ![t] = "upsertRead"]
  PROVE  IInv'
<1>1. /\ TypeOK /\ ThreadInv(t) /\ node[t] \in 1..allocated /\ allocated \in NodeIds
      /\ node[t] \in NodeIds /\ v[t] \in Nat /\ versionLock[node[t]] \in Nat
  <2>1. pc[t] # "done"
    OBVIOUS
  <2>2. QED
    BY <2>1, StepFacts DEF TypeOK
<1>2. versionLock[node[t]] = v[t] /\ ~isLocked(v[t]) /\ isLocked(v[t] + 1)
  BY <1>1, LockParity DEF Upgrade, CanUpgrade, ThreadInv, ReadVersion, Reading, AfterRead
<1>3. OnlyLocalsOf(t)
  BY <1>1 DEF Upgrade, OnlyLocalsOf, TypeOK
<1>4. /\ versionLock' \in [NodeIds -> Nat] /\ versionLock'[node[t]] = v[t] + 1
      /\ \A n \in NodeIds : n # node[t] => versionLock'[n] = versionLock[n]
      /\ children' = children /\ allocated' = allocated /\ literal_map' = literal_map
  BY <1>1 DEF Upgrade, TypeOK, literalVars
<1>5. TouchesOnlyNodeOf(t)
  BY <1>1, <1>2, <1>4, MaxNodesAssumption DEF TouchesOnlyNodeOf, NodeIds
<1>6. /\ pc'[t] \in {"newTid", "upsertRead"} /\ pc'[t] \in WriteSection
      /\ v'[t] = v[t] + 1 /\ v' \in [Threads -> Nat] /\ pc' \in [Threads -> Locals]
      /\ nodeKey(t)' = nodeKey(t) /\ keyword(t)' = keyword(t) /\ node'[t] = node[t]
      /\ job'[t] = job[t] /\ level'[t] = level[t] /\ nextNode' = nextNode
      /\ parentNode' = parentNode
  <2>1. /\ node' = node /\ job' = job /\ level' = level /\ nextNode' = nextNode
        /\ parentNode' = parentNode /\ v' = [v EXCEPT ![t] = v[t] + 1]
    BY DEF Upgrade
  <2>2. nodeKey(t)' = nodeKey(t) /\ keyword(t)' = keyword(t)
    BY <2>1 DEF nodeKey, keyword
  <2>3. v'[t] = v[t] + 1 /\ v' \in [Threads -> Nat]
    BY <1>1, <2>1 DEF TypeOK
  <2>4. /\ pc'[t] \in {"newTid", "upsertRead"} /\ pc'[t] \in WriteSection
        /\ pc' \in [Threads -> Locals]
    BY <1>1 DEF TypeOK, WriteSection, Locals
  <2>5. QED
    BY <2>1, <2>2, <2>3, <2>4
<1>7. TypeOK'
  BY <1>1, <1>4, <1>6 DEF Upgrade, TypeOK, literalVars
<1>8. SharedInv'
  BY <1>4 DEF IInv, SharedInv, FreeNodesBlank, NulMeansLeaf, LeavesHaveLiterals
<1>9. ThreadInv(t)'
  <2>1. SlotStillFree(t)'
    BY <1>1, <1>2, <1>4, <1>6 DEF ThreadInv, SlotStillFree, ReadStillValid, ReadPointer,
      Inserting, AfterRead
  <2>2. ReadPointer(t)' /\ HeldLiteralExists(t)'
    BY <1>1, <1>4, <1>6 DEF ThreadInv, ReadPointer, HeldLiteralExists, AfterRead
  <2>3. QED
    BY <1>1, <1>2, <1>4, <1>6, <2>1, <2>2 DEF ThreadInv, WalkInKey, WalkOnMadeNodes,
      ReadVersion, ReadStillValid, WriterHoldsLock, AfterRead, Reading
<1>10. QED
  BY <1>1, <1>2, <1>3, <1>5, <1>6, <1>7, <1>8, <1>9, NobodyElseWrites, NodeStep

\* The exchange of insertAndUnlock: by UpgradeStep the slot is still free.
LEMMA InsertLockStep ==
  ASSUME IInv, NEW t \in Threads, InsertLock(t)
  PROVE  IInv'
BY UpgradeStep DEF InsertLock, Goto

\* The exchange of a duplicate: by UpgradeStep the leaf is still there.
LEMMA UpsertLockStep ==
  ASSUME IInv, NEW t \in Threads, UpsertLock(t)
  PROVE  IInv'
BY UpgradeStep DEF UpsertLock, Goto

\* A step of a writer that touches only literals and its own locals.
LEMMA LiteralStep ==
  ASSUME IInv, NEW t \in Threads, pc[t] \in WriteSection, pc'[t] \in WriteSection,
         OnlyLocalsOf(t), UNCHANGED <<nodeVars, job, walkVars>>,
         DOMAIN literal_map \subseteq DOMAIN literal_map',
         pc'[t] \in Inserting => pc[t] \in Inserting,
         pc'[t] # "upsertRead",
         pc'[t] \in {"publish", "upsertWrite"} => tid'[t] \in DOMAIN literal_map',
         TypeOK'
  PROVE  IInv'
<1>1. /\ TypeOK /\ ThreadInv(t) /\ node[t] \in 1..allocated /\ allocated \in Nat
      /\ versionLock[node[t]] \in Nat
  BY StepFacts DEF WriteSection
<1>2. /\ versionLock' = versionLock /\ children' = children /\ allocated' = allocated
      /\ node' = node /\ nextNode' = nextNode /\ parentNode' = parentNode /\ v' = v
      /\ job' = job /\ level' = level
  BY DEF nodeVars, walkVars
<1>3. TouchesOnlyNodeOf(t)
  BY <1>1, <1>2 DEF TouchesOnlyNodeOf
<1>4. SharedInv'
  BY <1>2 DEF IInv, SharedInv, FreeNodesBlank, NulMeansLeaf, LeavesHaveLiterals
<1>5. nodeKey(t)' = nodeKey(t) /\ keyword(t)' = keyword(t)
  BY <1>2 DEF nodeKey, keyword
<1>6. ThreadInv(t)'
  <2>1. SlotStillFree(t)' /\ WriterHoldsLock(t)'
    BY <1>1, <1>2, <1>5 DEF ThreadInv, SlotStillFree, WriterHoldsLock
  <2>2. HeldLiteralExists(t)' /\ ReadPointer(t)' /\ WalkInKey(t)' /\ WalkOnMadeNodes(t)'
    BY <1>1, <1>2, <1>5 DEF ThreadInv, HeldLiteralExists, ReadPointer, WalkInKey,
      WalkOnMadeNodes, WriteSection, AfterRead
  <2>3. ReadVersion(t)' /\ ReadStillValid(t)'
    BY DEF ReadVersion, ReadStillValid, WriteSection, AfterRead, Reading
  <2>4. QED
    BY <2>1, <2>2, <2>3 DEF ThreadInv
<1>7. QED
  BY <1>2, <1>3, <1>4, <1>6, NobodyElseWrites, NodeStep

\* A new id has no entry and is no leaf.
LEMMA NewTidStep ==
  ASSUME IInv, NEW t \in Threads, NewTid(t)
  PROVE  IInv'
<1>1. pc[t] = "newTid" /\ pc' = [pc EXCEPT ![t] = "emplace"] /\ literal_map' = literal_map
  BY DEF NewTid, Goto
<1>2. TypeOK
  BY DEF IInv
<1>3. OnlyLocalsOf(t) /\ pc'[t] = "emplace"
  BY <1>1, <1>2 DEF NewTid, OnlyLocalsOf, TypeOK, walkVars
<1>4. TypeOK'
  BY <1>1, <1>2 DEF NewTid, TypeOK, nodeVars, walkVars, Locals
<1>5. UNCHANGED <<nodeVars, job, walkVars>>
  BY DEF NewTid
<1>6. QED
  BY <1>1, <1>3, <1>4, <1>5, LiteralStep DEF WriteSection, Inserting

\* The entry exists before the leaf does.
LEMMA EmplaceStep ==
  ASSUME IInv, NEW t \in Threads, Emplace(t)
  PROVE  IInv'
<1>1. /\ pc[t] = "emplace" /\ pc' = [pc EXCEPT ![t] = "publish"]
      /\ UNCHANGED <<nodeVars, unique_literal_cnt, job, walkVars, tid, bitmap, counted>>
  BY DEF Emplace, Goto
<1>2. /\ TypeOK /\ tid[t] \in Nat /\ Len(keyword(t)) \in Nat
      /\ Jobs[t][job[t]].aux \in Nat
  BY <1>1, StepFacts
<1>3. OnlyLocalsOf(t) /\ pc'[t] = "publish"
  BY <1>1, <1>2 DEF OnlyLocalsOf, TypeOK, walkVars
<1>4. /\ DOMAIN literal_map' = DOMAIN literal_map \cup {tid[t]}
      /\ literal_map' \in [DOMAIN literal_map' -> LiteralEntry]
      /\ DOMAIN literal_map' \subseteq Nat
  <2> DEFINE entry == [literal_len |-> Len(keyword(t)), bitmap |-> {Jobs[t][job[t]].aux}]
  <2>1. entry \in LiteralEntry
    BY <1>2 DEF LiteralEntry
  <2>2. \A id \in DOMAIN literal_map : literal_map[id] \in LiteralEntry
    BY <1>2 DEF TypeOK
  <2>3. literal_map' = [id \in DOMAIN literal_map \cup {tid[t]} |->
                          IF id \in DOMAIN literal_map THEN literal_map[id] ELSE entry]
    BY DEF Emplace
  <2>4. DOMAIN literal_map \subseteq Nat
    BY <1>2 DEF TypeOK
  <2> HIDE DEF entry
  <2>5. QED
    BY <1>2, <2>1, <2>2, <2>3, <2>4
<1>5. TypeOK'
  BY <1>1, <1>2, <1>4 DEF TypeOK, nodeVars, walkVars, Locals
<1>6. tid'[t] \in DOMAIN literal_map'
  BY <1>1, <1>4
<1>7. UNCHANGED <<nodeVars, job, walkVars>> /\ DOMAIN literal_map \subseteq DOMAIN literal_map'
  BY <1>1, <1>4
<1>8. QED
  BY <1>1, <1>3, <1>5, <1>6, <1>7, LiteralStep DEF WriteSection, Inserting

\* The bitmap read is one that exists, since a published leaf has its entry.
LEMMA UpsertReadStep ==
  ASSUME IInv, NEW t \in Threads, UpsertRead(t)
  PROVE  IInv'
<1>1. /\ pc[t] = "upsertRead" /\ pc' = [pc EXCEPT ![t] = "upsertWrite"]
      /\ tid' = [tid EXCEPT ![t] = auxIndex(nextNode[t])]
      /\ bitmap' = [bitmap EXCEPT ![t] = literal_map[auxIndex(nextNode[t])].bitmap]
      /\ UNCHANGED <<nodeVars, literalVars, job, walkVars, counted>>
  BY DEF UpsertRead, Goto
<1>2. TypeOK /\ ThreadInv(t)
  BY DEF IInv
<1>3. auxIndex(nextNode[t]) \in DOMAIN literal_map
  BY <1>1, <1>2 DEF ThreadInv, ReadPointer, HeldLiteralExists
<1>4. /\ auxIndex(nextNode[t]) \in Nat
      /\ literal_map[auxIndex(nextNode[t])].bitmap \in SUBSET Nat
  <2>1. literal_map[auxIndex(nextNode[t])] \in LiteralEntry
    BY <1>2, <1>3 DEF TypeOK
  <2>2. QED
    BY <1>2, <1>3, <2>1 DEF TypeOK, LiteralEntry
<1>5. OnlyLocalsOf(t) /\ pc'[t] = "upsertWrite" /\ tid'[t] \in DOMAIN literal_map'
  BY <1>1, <1>2, <1>3 DEF OnlyLocalsOf, TypeOK, walkVars, literalVars
<1>6. TypeOK'
  BY <1>1, <1>2, <1>4 DEF TypeOK, nodeVars, walkVars, literalVars, Locals
<1>7. UNCHANGED <<nodeVars, job, walkVars>> /\ DOMAIN literal_map \subseteq DOMAIN literal_map'
  BY <1>1 DEF literalVars
<1>8. QED
  BY <1>1, <1>5, <1>6, <1>7, LiteralStep DEF WriteSection, Inserting

\* Writing the bitmap back keeps every entry there.
LEMMA UpsertWriteStep ==
  ASSUME IInv, NEW t \in Threads, UpsertWrite(t)
  PROVE  IInv'
<1>1. /\ pc[t] = "upsertWrite" /\ pc' = [pc EXCEPT ![t] = "unlock"]
      /\ UNCHANGED <<nodeVars, unique_literal_cnt, job, walkVars, tid, bitmap, counted>>
      /\ literal_map' =
           [literal_map EXCEPT ![tid[t]].bitmap = bitmap[t] \cup {Jobs[t][job[t]].aux}]
  BY DEF UpsertWrite, Goto
<1>2. TypeOK /\ ThreadInv(t) /\ Jobs[t][job[t]].aux \in Nat
  BY <1>1, StepFacts
<1>3. tid[t] \in DOMAIN literal_map /\ bitmap[t] \cup {Jobs[t][job[t]].aux} \in SUBSET Nat
  BY <1>1, <1>2 DEF ThreadInv, HeldLiteralExists, TypeOK
<1>4. DOMAIN literal_map' = DOMAIN literal_map
  BY <1>1
<1>5. literal_map' \in [DOMAIN literal_map -> LiteralEntry]
  <2> DEFINE bits == bitmap[t] \cup {Jobs[t][job[t]].aux}
  <2>1. literal_map \in [DOMAIN literal_map -> LiteralEntry]
    BY <1>2 DEF TypeOK
  <2>2. [literal_map[tid[t]] EXCEPT !.bitmap = bits] \in LiteralEntry
    BY <1>3, <2>1 DEF LiteralEntry
  <2>3. literal_map' = [literal_map EXCEPT ![tid[t]] = [literal_map[tid[t]] EXCEPT !.bitmap = bits]]
    BY <1>1
  <2> HIDE DEF bits
  <2> QED
    BY <2>1, <2>2, <2>3
<1>6. OnlyLocalsOf(t) /\ pc'[t] = "unlock"
  BY <1>1, <1>2 DEF OnlyLocalsOf, TypeOK, walkVars
<1>7. TypeOK'
  BY <1>1, <1>2, <1>4, <1>5 DEF TypeOK, nodeVars, walkVars, Locals
<1>8. QED
  BY <1>1, <1>4, <1>6, <1>7, LiteralStep DEF WriteSection, Inserting

\* The load of count++ changes nothing that is shared.
LEMMA CountReadStep ==
  ASSUME IInv, NEW t \in Threads, CountRead(t)
  PROVE  IInv'
<1>1. /\ pc[t] = "countRead" /\ pc' = [pc EXCEPT ![t] = "countWrite"]
      /\ counted' = [counted EXCEPT ![t] = count[node[t]]]
      /\ UNCHANGED <<nodeVars, literalVars, job, walkVars, tid, bitmap>>
  BY DEF CountRead, Goto
<1>2. TypeOK /\ count[node[t]] \in Nat
  BY DEF IInv, TypeOK
<1>3. OnlyLocalsOf(t) /\ pc'[t] = "countWrite"
  BY <1>1, <1>2 DEF OnlyLocalsOf, TypeOK, walkVars
<1>4. TypeOK'
  BY <1>1, <1>2 DEF TypeOK, nodeVars, walkVars, literalVars, Locals
<1>5. UNCHANGED <<nodeVars, job, walkVars>> /\ DOMAIN literal_map' = DOMAIN literal_map
  BY <1>1 DEF literalVars
<1>6. QED
  BY <1>1, <1>3, <1>4, <1>5, LiteralStep DEF WriteSection, Inserting

\* The store of count++ is done by the writer, under its lock.
LEMMA CountWriteStep ==
  ASSUME IInv, NEW t \in Threads, CountWrite(t)
  PROVE  IInv'
<1>1. /\ pc[t] = "countWrite" /\ pc' = [pc EXCEPT ![t] = "unlock"]
      /\ count' = [count EXCEPT ![node[t]] = counted[t] + 1]
      /\ UNCHANGED <<versionLock, children, allocated, literalVars, job, walkVars, tid, counted>>
  BY DEF CountWrite, Goto
<1>2. /\ TypeOK /\ ThreadInv(t) /\ node[t] \in 1..allocated /\ allocated \in Nat
      /\ versionLock[node[t]] \in Nat
  BY <1>1, StepFacts
<1>3. OnlyLocalsOf(t) /\ pc'[t] = "unlock" /\ node' = node
  BY <1>1, <1>2 DEF OnlyLocalsOf, TypeOK, walkVars
<1>4. count' \in [NodeIds -> Nat]
  BY <1>1, <1>2 DEF TypeOK
<1>5. TypeOK'
  BY <1>1, <1>2, <1>4 DEF CountWrite, TypeOK, walkVars, literalVars, Locals
<1>6. TouchesOnlyNodeOf(t)
  BY <1>1, <1>2 DEF TouchesOnlyNodeOf, literalVars
<1>7. SharedInv'
  BY <1>1 DEF IInv, SharedInv, FreeNodesBlank, NulMeansLeaf, LeavesHaveLiterals, literalVars
<1>8. ThreadInv(t)'
  <2>1. nodeKey(t)' = nodeKey(t) /\ keyword(t)' = keyword(t)
    BY <1>1 DEF nodeKey, keyword, walkVars
  <2>2. QED
    BY <1>1, <1>2, <1>3, <2>1 DEF ThreadInv, WalkInKey, WalkOnMadeNodes, ReadPointer,
      ReadVersion, ReadStillValid, WriterHoldsLock, SlotStillFree, HeldLiteralExists,
      AfterRead, Reading, Inserting, WriteSection, walkVars, literalVars
<1>9. QED
  BY <1>1, <1>3, <1>5, <1>6, <1>7, <1>8, NobodyElseWrites, NodeStep DEF WriteSection

\* The release of the lock moves the version, so nobody validates what it read before.
LEMMA UnlockStep ==
  ASSUME IInv, NEW t \in Threads, Unlock(t)
  PROVE  IInv'
<1> DEFINE next == IF job[t] < Len(Jobs[t]) THEN "readLock" ELSE "done"
<1>1. /\ pc[t] = "unlock" /\ pc' = [pc EXCEPT ![t] = next]
      /\ versionLock' = [versionLock EXCEPT ![node[t]] = @ + 1]
      /\ job' = [job EXCEPT ![t] = job[t] + 1] /\ FromRoot(t)
      /\ tid' = [tid EXCEPT ![t] = 0] /\ bitmap' = [bitmap EXCEPT ![t] = {}]
      /\ counted' = [counted EXCEPT ![t] = 0]
      /\ UNCHANGED <<children, count, isCodePointEnd, allocated, literalVars>>
  BY DEF Unlock, Goto, writeUnlock
<1>2. /\ TypeOK /\ ThreadInv(t) /\ node[t] \in 1..allocated /\ allocated \in Nat
      /\ node[t] \in NodeIds /\ Root \in NodeIds /\ Root <= allocated
      /\ versionLock[node[t]] \in Nat /\ job[t] \in 1..Len(Jobs[t]) /\ Len(Jobs[t]) \in Nat
  BY <1>1, StepFacts DEF TypeOK
<1>3. isLocked(versionLock[node[t]])
  BY <1>1, <1>2 DEF ThreadInv, WriterHoldsLock, WriteSection
<1>4. OnlyLocalsOf(t)
  BY <1>1, <1>2 DEF FromRoot, OnlyLocalsOf, TypeOK
<1>5. TypeOK'
  <2>1. /\ node' \in [Threads -> NodeIds] /\ level' \in [Threads -> Nat]
        /\ parentVersion' \in [Threads -> Nat] /\ v' \in [Threads -> Nat]
    BY <1>1, <1>2 DEF FromRoot, TypeOK
  <2>2. /\ job' \in [Threads -> Nat] /\ tid' \in [Threads -> Nat]
        /\ counted' \in [Threads -> Nat]
    BY <1>1, <1>2, SMTT(20) DEF TypeOK
  <2>3. parentNode' \in [Threads -> {Null} \cup NodeIds] /\ nextNode' \in [Threads -> Int]
    BY <1>1, <1>2, SMTT(20) DEF FromRoot, TypeOK, Null, Pointer
  <2>4. pc' \in [Threads -> Locals] /\ bitmap' \in [Threads -> SUBSET Nat]
    BY <1>1, <1>2 DEF TypeOK, Locals
  <2>5. versionLock' \in [NodeIds -> Nat]
    BY <1>1, <1>2 DEF TypeOK
  <2>6. QED
    BY <1>1, <1>2, <2>1, <2>2, <2>3, <2>4, <2>5 DEF TypeOK, literalVars, Pointer
<1>6. TouchesOnlyNodeOf(t)
  <2>1. versionLock'[node[t]] = versionLock[node[t]] + 1
    BY <1>1, <1>2 DEF TypeOK
  <2>2. \A n \in 1..allocated : n # node[t] => versionLock'[n] = versionLock[n]
    BY <1>1, <1>2, MaxNodesAssumption DEF TypeOK, NodeIds
  <2>3. QED
    BY <1>1, <1>2, <2>1, <2>2 DEF TouchesOnlyNodeOf, literalVars
<1>7. SharedInv'
  BY <1>1 DEF IInv, SharedInv, FreeNodesBlank, NulMeansLeaf, LeavesHaveLiterals, literalVars
<1>8. /\ pc'[t] = next /\ job'[t] = job[t] + 1 /\ level'[t] = 0
      /\ node'[t] = Root /\ nextNode'[t] = Null /\ parentNode'[t] = Null
  BY <1>1, <1>2 DEF FromRoot, TypeOK
<1>9. ThreadInv(t)'
  <2>1. WalkInKey(t)'
    <3>1. SUFFICES ASSUME job[t] < Len(Jobs[t])
                   PROVE  job'[t] \in 1..Len(Jobs[t]) /\ level'[t] < Len(Key(keyword(t)'))
      BY <1>8 DEF WalkInKey
    <3>2. job'[t] \in 1..Len(Jobs[t])
      BY <1>2, <1>8, <3>1
    <3>3. IsKeyword(keyword(t)')
      BY <3>2, JobsAssumption DEF keyword, IsJob
    <3>4. QED
      BY <1>8, <3>2, <3>3, KeyType
  <2>2. WalkOnMadeNodes(t)'
    BY <1>1, <1>2, <1>8 DEF WalkOnMadeNodes, Null
  <2>3. QED
    BY <2>1, <2>2, <1>8 DEF ThreadInv, ReadPointer, ReadVersion, ReadStillValid, isLeaf,
      WriterHoldsLock, SlotStillFree, HeldLiteralExists, Null,
      AfterRead, Reading, Inserting, WriteSection
<1>10. QED
  BY <1>1, <1>4, <1>5, <1>6, <1>7, <1>8, <1>9, NobodyElseWrites, NodeStep DEF WriteSection

-----------------------------------------------------------------------------
(* The step that publishes a chain of new nodes. *)

\* What Publish makes of the slots: the slot it fills was empty and points at
\* the top of the chain, a made node has one child, and the rest is untouched.
LEMMA PublishEffect ==
  ASSUME IInv, NEW t \in Threads, Publish(t)
  PROVE  /\ allocated' \in NodeIds /\ allocated <= allocated'
         /\ children' \in [NodeIds -> [Bytes -> Int]]
         /\ children[node[t]][nodeKey(t)] = Null
         /\ \A n \in NodeIds : \A b \in Bytes :
              \/ children'[n][b] = children[n][b]
              \/ /\ children[n][b] = Null
                 /\ n > allocated \/ (n = node[t] /\ b = nodeKey(t))
                 /\ n <= allocated'
                 /\ children'[n][b] = Null
                    \/ /\ children'[n][b] <= allocated' /\ children'[n][b] # Null
                       /\ isLeaf(children'[n][b]) <=> b = NULL_TERMINATOR
                       /\ isLeaf(children'[n][b]) => auxIndex(children'[n][b]) = tid[t]
<1>1. pc[t] = "publish"
  BY DEF Publish
<1> DEFINE key  == Key(keyword(t))
           L    == Len(Key(keyword(t)))
           made == (allocated + 1)..(allocated + ChainLength(t))
<1>2. /\ TypeOK /\ ThreadInv(t) /\ node[t] \in 1..allocated /\ allocated \in Nat
      /\ allocated \in NodeIds /\ node[t] \in NodeIds /\ tid[t] \in Nat
      /\ L \in Nat \ {0} /\ level[t] \in 0..(L - 1) /\ nodeKey(t) \in Bytes
      /\ nodeKey(t) = NULL_TERMINATOR <=> level[t] = L - 1
      /\ \A i \in 1..L : key[i] \in Bytes /\ (key[i] = NULL_TERMINATOR <=> i = L)
  BY <1>1, StepFacts DEF TypeOK
<1>3. ChainLength(t) = L - level[t] - 1 /\ ChainLength(t) \in Nat
  BY <1>2 DEF ChainLength
<1>4. allocated' = allocated + ChainLength(t) /\ allocated' \in NodeIds
  BY <1>2, <1>3, MaxNodesAssumption DEF Publish, NodeIds
<1>5. \A idx \in level[t]..(L - 1) :
        /\ ChainNext(t, idx) \in Int /\ ChainNext(t, idx) # Null
        /\ ChainNext(t, idx) <= allocated'
        /\ isLeaf(ChainNext(t, idx)) <=> idx = L - 1
        /\ isLeaf(ChainNext(t, idx)) => auxIndex(ChainNext(t, idx)) = tid[t]
  <2>1. SUFFICES ASSUME NEW idx \in level[t]..(L - 1)
                 PROVE  /\ ChainNext(t, idx) \in Int /\ ChainNext(t, idx) # Null
                        /\ ChainNext(t, idx) <= allocated'
                        /\ isLeaf(ChainNext(t, idx)) <=> idx = L - 1
                        /\ isLeaf(ChainNext(t, idx)) => auxIndex(ChainNext(t, idx)) = tid[t]
    OBVIOUS
  <2>2. allocated \in Nat /\ allocated' \in Nat /\ tid[t] \in Nat
    BY <1>2, <1>3, <1>4
  <2>3. CASE idx = L - 1
    <3>1. ChainNext(t, idx) = -(tid[t] + 1)
      BY <2>3 DEF ChainNext, Leaf
    <3>2. /\ -(tid[t] + 1) \in Int /\ -(tid[t] + 1) < 0 /\ -(tid[t] + 1) <= allocated'
          /\ -(-(tid[t] + 1)) - 1 = tid[t]
      BY <2>2
    <3>3. QED
      BY <2>3, <3>1, <3>2 DEF isLeaf, auxIndex, Null
  <2>4. CASE idx # L - 1
    <3>1. ChainNext(t, idx) = allocated + (L - (idx + 1))
      BY <2>4 DEF ChainNext, ChainNode
    <3>2. L - (idx + 1) \in Nat \ {0} /\ L - (idx + 1) <= ChainLength(t)
      <4>1. L \in Nat /\ level[t] \in Nat /\ idx \in level[t]..(L - 1)
        BY <1>2
      <4>2. QED
        BY <1>3, <2>4, <4>1
    <3>3. /\ ChainNext(t, idx) \in Nat \ {0}
          /\ ChainNext(t, idx) <= allocated + ChainLength(t)
      BY <1>3, <2>2, <3>1, <3>2
    <3>4. QED
      BY <1>4, <2>4, <3>3 DEF isLeaf, Null
  <2>5. QED
    BY <2>3, <2>4
<1>6. \A n \in made : ChainLevel(t, n) \in (level[t] + 1)..(L - 1)
  BY <1>2, <1>3 DEF ChainLevel
<1>7. children' =
       [n \in NodeIds |->
          CASE n \in made ->
                 [b \in Bytes |-> IF b = key[ChainLevel(t, n) + 1]
                                  THEN ChainNext(t, ChainLevel(t, n)) ELSE Null]
            [] n = node[t] -> [children[n] EXCEPT ![nodeKey(t)] = ChainNext(t, level[t])]
            [] OTHER -> children[n]]
  BY DEF Publish
<1>8. node[t] \notin made
  BY <1>2
<1>9. children[node[t]][nodeKey(t)] = Null
  BY <1>1, <1>2 DEF ThreadInv, SlotStillFree, Inserting
<1> DEFINE New(n, b) ==
     /\ children[n][b] = Null
     /\ n > allocated \/ (n = node[t] /\ b = nodeKey(t))
     /\ n <= allocated'
     /\ children'[n][b] = Null
        \/ /\ children'[n][b] <= allocated' /\ children'[n][b] # Null
           /\ isLeaf(children'[n][b]) <=> b = NULL_TERMINATOR
           /\ isLeaf(children'[n][b]) => auxIndex(children'[n][b]) = tid[t]
<1>10. ASSUME NEW n \in NodeIds
       PROVE  /\ children'[n] \in [Bytes -> Int]
              /\ \A b \in Bytes : children'[n][b] = children[n][b] \/ New(n, b)
  <2>1. CASE n \in made
    <3>1. children'[n] = [b \in Bytes |-> IF b = key[ChainLevel(t, n) + 1]
                                          THEN ChainNext(t, ChainLevel(t, n)) ELSE Null]
      BY <1>7, <1>8, <2>1
    <3>2. n > allocated /\ n <= allocated'
      BY <1>2, <1>3, <1>4, <2>1
    <3>3. \A b \in Bytes : children[n][b] = Null
      BY <3>2 DEF IInv, SharedInv, FreeNodesBlank
    <3>4. ChainLevel(t, n) \in (level[t] + 1)..(L - 1)
      BY <1>6, <2>1
    <3>5. /\ ChainLevel(t, n) \in level[t]..(L - 1) /\ ChainLevel(t, n) + 1 \in 1..L
          /\ ChainLevel(t, n) + 1 = L <=> ChainLevel(t, n) = L - 1
      BY <1>2, <3>4
    <3>6. key[ChainLevel(t, n) + 1] = NULL_TERMINATOR <=> ChainLevel(t, n) = L - 1
      BY <1>2, <3>5
    <3>7. children'[n] \in [Bytes -> Int]
      BY <1>5, <3>1, <3>5 DEF Null
    <3>8. \A b \in Bytes : New(n, b)
      BY <1>5, <3>1, <3>2, <3>3, <3>5, <3>6
    <3>9. QED
      BY <3>7, <3>8
  <2>2. CASE n = node[t]
    <3>1. children'[n] = [children[n] EXCEPT ![nodeKey(t)] = ChainNext(t, level[t])]
      BY <1>7, <1>8, <2>2
    <3>2. children[n] \in [Bytes -> Int]
      BY <1>2 DEF TypeOK, Pointer
    <3>3. level[t] \in level[t]..(L - 1)
      BY <1>2
    <3>4. children'[n] \in [Bytes -> Int]
      BY <1>5, <3>1, <3>2, <3>3
    <3>5. \A b \in Bytes : b # nodeKey(t) => children'[n][b] = children[n][b]
      BY <3>1, <3>2
    <3>6. children'[n][nodeKey(t)] = ChainNext(t, level[t])
      BY <1>2, <3>1, <3>2
    <3>7. n <= allocated'
      BY <1>2, <1>3, <1>4, <2>2
    <3>8. New(n, nodeKey(t))
      BY <1>2, <1>5, <1>9, <2>2, <3>3, <3>6, <3>7
    <3>9. QED
      BY <3>4, <3>5, <3>8
  <2>3. CASE n \notin made /\ n # node[t]
    BY <1>2, <1>7, <2>3 DEF TypeOK, Pointer
  <2>4. QED
    BY <2>1, <2>2, <2>3
<1>11. children' \in [NodeIds -> [Bytes -> Int]]
  BY <1>7, <1>10
<1>12. allocated <= allocated'
  BY <1>2, <1>3, <1>4
<1>13. QED
  BY <1>4, <1>9, <1>10, <1>11, <1>12

\* The store: into a slot still free, of a chain whose last pointer is a leaf under NUL.
LEMMA PublishStep ==
  ASSUME IInv, NEW t \in Threads, Publish(t)
  PROVE  IInv'
<1>1. /\ pc[t] = "publish" /\ pc' = [pc EXCEPT ![t] = "countRead"]
      /\ UNCHANGED <<versionLock, literalVars, job, walkVars, tid, bitmap, counted>>
  BY DEF Publish, Goto
<1>2. /\ TypeOK /\ ThreadInv(t) /\ node[t] \in 1..allocated /\ allocated \in Nat
      /\ versionLock[node[t]] \in Nat
  BY <1>1, StepFacts
<1>3. OnlyLocalsOf(t) /\ pc'[t] = "countRead"
  BY <1>1, <1>2 DEF OnlyLocalsOf, TypeOK, walkVars
<1>4. allocated' \in NodeIds /\ allocated' \in Nat /\ allocated <= allocated'
  BY PublishEffect, MaxNodesAssumption DEF NodeIds
<1>5. isLocked(versionLock[node[t]])
  BY <1>1, <1>2 DEF ThreadInv, WriterHoldsLock, WriteSection
<1>6. TypeOK'
  <2>1. count' \in [NodeIds -> Nat] /\ isCodePointEnd' \in [NodeIds -> BOOLEAN]
    <3> DEFINE made == (allocated + 1)..(allocated + ChainLength(t))
               ends(n) == isEndCodePoint(Key(keyword(t)), ChainLevel(t, n))
    <3>1. /\ count' = [n \in NodeIds |-> IF n \in made THEN 1 ELSE count[n]]
          /\ isCodePointEnd' =
               [n \in NodeIds |-> IF n \in made THEN ends(n) ELSE isCodePointEnd[n]]
      BY DEF Publish
    <3>2. count \in [NodeIds -> Nat] /\ isCodePointEnd \in [NodeIds -> BOOLEAN]
      BY <1>2 DEF TypeOK
    <3>3. \A n \in NodeIds : ends(n) \in BOOLEAN
      BY DEF isEndCodePoint
    <3> HIDE DEF made, ends
    <3>4. count' \in [NodeIds -> Nat]
      BY <3>1, <3>2
    <3>5. isCodePointEnd' \in [NodeIds -> BOOLEAN]
      BY <3>1, <3>2, <3>3, Zenon
    <3>6. QED
      BY <3>4, <3>5
  <2>2. children' \in [NodeIds -> [Bytes -> Pointer]]
    BY PublishEffect DEF Pointer
  <2>3. pc' \in [Threads -> Locals]
    BY <1>1, <1>2 DEF TypeOK, Locals
  <2>4. QED
    BY <1>1, <1>2, <1>4, <2>1, <2>2, <2>3 DEF TypeOK, literalVars, walkVars
<1>7. TouchesOnlyNodeOf(t)
  <2>1. ASSUME NEW n \in 1..allocated, n # node[t]
        PROVE  children'[n] = children[n]
    <3>1. n \in NodeIds /\ ~(n > allocated)
      BY <1>2, MaxNodesAssumption DEF TypeOK, NodeIds
    <3>2. \A b \in Bytes : children'[n][b] = children[n][b]
      BY <2>1, <3>1, PublishEffect
    <3>3. children'[n] \in [Bytes -> Int] /\ children[n] \in [Bytes -> Int]
      BY <1>2, <3>1, PublishEffect DEF TypeOK, Pointer
    <3>4. QED
      BY <3>2, <3>3
  <2>2. QED
    BY <1>1, <1>2, <1>4, <1>5, <2>1 DEF TouchesOnlyNodeOf, literalVars
<1>8. SharedInv'
  <2>1. FreeNodesBlank'
    <3>1. SUFFICES ASSUME NEW n \in NodeIds, NEW b \in Bytes
                   PROVE  /\ children'[n][b] <= allocated'
                          /\ n > allocated' => children'[n][b] = Null
      BY DEF FreeNodesBlank
    <3>2. /\ children[n][b] <= allocated /\ children[n][b] \in Int
          /\ n > allocated => children[n][b] = Null
      BY <1>2 DEF IInv, SharedInv, FreeNodesBlank, TypeOK, Pointer
    <3>3. n \in Nat
      BY MaxNodesAssumption DEF NodeIds
    <3>4. CASE children'[n][b] = children[n][b]
      BY <1>2, <1>4, <3>2, <3>3, <3>4
    <3>5. CASE children'[n][b] # children[n][b]
      <4>1. n <= allocated' /\ (children'[n][b] = Null \/ children'[n][b] <= allocated')
        BY <3>5, PublishEffect
      <4>2. QED
        BY <1>4, <3>3, <4>1 DEF Null
    <3>6. QED
      BY <3>4, <3>5
  <2>2. NulMeansLeaf'
    BY PublishEffect DEF IInv, SharedInv, NulMeansLeaf
  <2>3. LeavesHaveLiterals'
    <3>1. tid[t] \in DOMAIN literal_map /\ literal_map' = literal_map
      BY <1>1, <1>2 DEF ThreadInv, HeldLiteralExists, literalVars
    <3>2. \A n \in NodeIds : \A b \in Bytes :
            isLeaf(children[n][b]) => auxIndex(children[n][b]) \in DOMAIN literal_map
      BY DEF IInv, SharedInv, LeavesHaveLiterals
    <3>3. ~isLeaf(Null)
      BY DEF isLeaf, Null
    <3>4. QED
      BY <3>1, <3>2, <3>3, PublishEffect DEF LeavesHaveLiterals
  <2>4. QED
    BY <2>1, <2>2, <2>3 DEF SharedInv
<1>9. ThreadInv(t)'
  <2>1. /\ nodeKey(t)' = nodeKey(t) /\ keyword(t)' = keyword(t) /\ node' = node
        /\ nextNode' = nextNode /\ parentNode' = parentNode /\ v' = v /\ level' = level
        /\ literal_map' = literal_map /\ versionLock' = versionLock /\ job' = job
    BY <1>1 DEF nodeKey, keyword, walkVars, literalVars
  <2>2. WalkInKey(t)' /\ WriterHoldsLock(t)' /\ HeldLiteralExists(t)'
    BY <1>1, <1>2, <1>3, <2>1 DEF ThreadInv, WalkInKey, WriterHoldsLock, HeldLiteralExists,
      WriteSection
  <2>3. WalkOnMadeNodes(t)'
    <3>1. node[t] \in Nat /\ parentNode[t] \in Nat /\ nextNode[t] \in Int
      BY <1>1, StepFacts
    <3>2. QED
      BY <1>2, <1>4, <2>1, <3>1 DEF ThreadInv, WalkOnMadeNodes
  <2>4. ReadPointer(t)' /\ ReadVersion(t)' /\ ReadStillValid(t)' /\ SlotStillFree(t)'
    BY <1>3 DEF ReadPointer, ReadVersion, ReadStillValid, SlotStillFree, AfterRead, Reading,
      Inserting
  <2>5. QED
    BY <2>2, <2>3, <2>4 DEF ThreadInv
<1>10. QED
  BY <1>1, <1>3, <1>6, <1>7, <1>8, <1>9, NobodyElseWrites, NodeStep DEF WriteSection, walkVars

-----------------------------------------------------------------------------
(* The invariant, and the theorems. *)

LEMMA InitHolds == Init => IInv
<1> SUFFICES ASSUME Init PROVE IInv
  OBVIOUS
<1>1. Root \in NodeIds /\ Root = 1
  BY MaxNodesAssumption DEF Root, NodeIds
<1>2. TypeOK
  <2>1. /\ versionLock \in [NodeIds -> Nat] /\ count \in [NodeIds -> Nat]
        /\ children \in [NodeIds -> [Bytes -> Pointer]]
        /\ isCodePointEnd \in [NodeIds -> BOOLEAN] /\ allocated \in NodeIds
    BY <1>1 DEF Init, Pointer, Null
  <2>2. /\ unique_literal_cnt \in Nat /\ literal_map \in [DOMAIN literal_map -> LiteralEntry]
        /\ DOMAIN literal_map \subseteq Nat
    BY DEF Init
  <2>3. /\ pc \in [Threads -> Locals] /\ job \in [Threads -> Nat]
        /\ node \in [Threads -> NodeIds] /\ nextNode \in [Threads -> Pointer]
        /\ parentNode \in [Threads -> {Null} \cup NodeIds] /\ level \in [Threads -> Nat]
        /\ v \in [Threads -> Nat] /\ parentVersion \in [Threads -> Nat]
        /\ tid \in [Threads -> Nat] /\ bitmap \in [Threads -> SUBSET Nat]
        /\ counted \in [Threads -> Nat]
    BY <1>1 DEF Init, Locals, Pointer, Null
  <2>4. QED
    BY <2>1, <2>2, <2>3 DEF TypeOK
<1>3. SharedInv
  BY <1>1 DEF Init, SharedInv, FreeNodesBlank, NulMeansLeaf, LeavesHaveLiterals, isLeaf, Null
<1>4. WriteLockExclusive
  BY DEF Init, WriteLockExclusive, WriteSection
<1>5. ASSUME NEW t \in Threads PROVE ThreadInv(t)
  <2>1. job[t] \in 1..Len(Jobs[t])
    BY JobsAssumption DEF Init
  <2>2. WalkInKey(t)
    <3>1. IsKeyword(keyword(t))
      BY <2>1, JobsAssumption DEF keyword, IsJob
    <3>2. QED
      BY <2>1, <3>1, KeyType DEF Init, WalkInKey
  <2>3. QED
    BY <1>1, <2>2 DEF Init, ThreadInv, WalkOnMadeNodes, ReadPointer, ReadVersion,
      ReadStillValid, WriterHoldsLock, SlotStillFree, HeldLiteralExists, isLeaf, Null,
      AfterRead, Reading, Inserting, WriteSection
<1>6. QED
  BY <1>2, <1>3, <1>4, <1>5 DEF IInv

\* A step that changes nothing keeps IInv.
LEMMA StutterStep ==
  ASSUME IInv, UNCHANGED vars
  PROVE  IInv'
<1>1. TypeOK'
  BY DEF IInv, TypeOK, vars, nodeVars, literalVars, walkVars
<1>2. SharedInv' /\ WriteLockExclusive'
  BY DEF IInv, SharedInv, FreeNodesBlank, NulMeansLeaf, LeavesHaveLiterals,
    WriteLockExclusive, vars, nodeVars, literalVars, walkVars
<1>3. ASSUME NEW t \in Threads PROVE ThreadInv(t)'
  <2>1. ThreadInv(t)
    BY DEF IInv
  <2>2. WalkInKey(t)' /\ WalkOnMadeNodes(t)' /\ HeldLiteralExists(t)'
    BY <2>1 DEF ThreadInv, WalkInKey, WalkOnMadeNodes, HeldLiteralExists, keyword,
      vars, nodeVars, literalVars, walkVars
  <2>3. ReadPointer(t)' /\ ReadVersion(t)' /\ ReadStillValid(t)' /\ WriterHoldsLock(t)'
        /\ SlotStillFree(t)'
    BY <2>1 DEF ThreadInv, ReadPointer, ReadVersion, ReadStillValid, WriterHoldsLock,
      SlotStillFree, nodeKey, keyword, vars, nodeVars, literalVars, walkVars
  <2> QED
    BY <2>2, <2>3 DEF ThreadInv
<1> QED
  BY <1>1, <1>2, <1>3 DEF IInv

\* IInv is inductive: one lemma for each action.
LEMMA NextKeeps ==
  ASSUME IInv, [Next]_vars
  PROVE  IInv'
<1>1. ASSUME NEW t \in Threads, Step(t)
      PROVE  IInv'
  BY <1>1, RestartStep, ReadLockStep, ReadChildStep, ValidateStep, CheckParentStep,
    InsertCheckParentStep, InsertLockStep, NewTidStep, EmplaceStep, PublishStep, CountReadStep,
    CountWriteStep, UpsertLockStep, UpsertReadStep, UpsertWriteStep, UnlockStep DEF Step
<1>2. CASE UNCHANGED vars
  BY <1>2, StutterStep
<1>3. QED
  BY <1>1, <1>2 DEF Next, Terminating

\* The invariant holds in every reachable state: whatever insert acts on after
\* its optimistic reads is what is in the trie.
THEOREM Invariance == Spec => []IInv
<1>1. Init => IInv
  BY InitHolds
<1>2. IInv /\ [Next]_vars => IInv'
  BY NextKeeps
<1>3. QED
  BY <1>1, <1>2, PTL DEF Spec

\* Every word and every local keeps its type, and no walk leaves the nodes.
THEOREM TypeCorrect == Spec => []TypeOK
<1>1. IInv => TypeOK
  BY DEF IInv
<1>2. QED
  BY <1>1, Invariance, PTL

\* Two threads never hold the write lock of one node (node.h, 81-88).
THEOREM MutualExclusion == Spec => []WriteLockExclusive
<1>1. IInv => WriteLockExclusive
  BY DEF IInv
<1>2. QED
  BY <1>1, Invariance, PTL

\* In the fully expanded trie a leaf is under NUL, and only a leaf is: insert
\* may take isLeaf for "the whole key has been consumed" (tree.h, 128-132).
THEOREM LeavesUnderNul == Spec => []LeafOnlyUnderNul
<1>1. IInv => LeafOnlyUnderNul
  <2>1. ASSUME IInv PROVE 1..allocated \subseteq NodeIds
    BY <2>1, MaxNodesAssumption DEF IInv, TypeOK, NodeIds
  <2>2. QED
    BY <2>1 DEF IInv, SharedInv, NulMeansLeaf, LeafOnlyUnderNul
<1>2. QED
  BY <1>1, Invariance, PTL

\* No slot is ever written twice: nothing that was inserted is ever dropped,
\* whoever overtakes whom between the read of a slot and its write.
THEOREM SlotsWrittenOnce == Spec => SlotWrittenOnce
<1> DEFINE A == \A n \in NodeIds, b \in Bytes :
                  children[n][b] # Null => children'[n][b] = children[n][b]
<1>1. IInv /\ [Next]_vars => [A]_vars
  <2>1. SUFFICES ASSUME IInv, Next PROVE A
    OBVIOUS
  <2>2. ASSUME NEW t \in Threads, Step(t) PROVE A
    <3>1. CASE Publish(t)
      BY <2>1, <3>1, PublishEffect
    <3>2. CASE ~Publish(t)
      <4>1. children' = children
        BY <2>2, <3>2 DEF Step, Restart, ReadLock, ReadChild, Validate, CheckParent,
          InsertCheckParent, InsertLock, NewTid, Emplace, CountRead, CountWrite, UpsertLock,
          UpsertRead, UpsertWrite, Unlock, Upgrade, nodeVars
      <4>2. QED
        BY <4>1
    <3>3. QED
      BY <3>1, <3>2
  <2>3. CASE Terminating
    BY <2>3 DEF Terminating, vars, nodeVars
  <2>4. QED
    BY <2>1, <2>2, <2>3 DEF Next
<1>2. QED
  BY <1>1, Invariance, PTL DEF Spec, SlotWrittenOnce

-----------------------------------------------------------------------------
(* The contents. *)

\* Path, in an array of slots that is given.
PathIn(c, k) ==
  LET at[i \in 0..Len(k)] ==
        IF i = 0 THEN Root
        ELSE IF at[i - 1] > 0 THEN c[at[i - 1]][k[i]] ELSE Null
  IN  at

\* The path of a key in the present slots is PathIn of them, now and after a step:
\* the tree in memory can be compared with the one a step ago.
LEMMA PathIsPathIn ==
  ASSUME NEW k
  PROVE  Path(k) = PathIn(children, k) /\ Path(k)' = PathIn(children', k)
BY DEF Path, PathIn

\* at is the path of the first n bytes of k.
FollowsTo(c, k, n, at) ==
  at = [i \in 0..n |->
          IF i = 0 THEN Root ELSE IF at[i - 1] > 0 THEN c[at[i - 1]][k[i]] ELSE Null]

\* The recursive path of a key has a defining function, however far it is followed.
LEMMA PathExists ==
  ASSUME NEW c, NEW k, NEW n \in Nat
  PROVE  \E at : FollowsTo(c, k, n, at)
<1> DEFINE S == {m \in Nat : \E at : FollowsTo(c, k, m, at)}
<1>1. 0 \in S
  <2>1. FollowsTo(c, k, 0, [i \in 0..0 |-> Root])
    BY DEF FollowsTo
  <2> QED
    BY <2>1
<1>2. ASSUME NEW m \in Nat, m \in S PROVE m + 1 \in S
  <2>1. PICK at : FollowsTo(c, k, m, at)
    BY <1>2
  <2> DEFINE last == IF at[m] > 0 THEN c[at[m]][k[m + 1]] ELSE Null
             longer == [i \in 0..(m + 1) |-> IF i = m + 1 THEN last ELSE at[i]]
  <2>2. ASSUME NEW i \in 0..(m + 1)
        PROVE  longer[i] = IF i = 0 THEN Root
                           ELSE IF longer[i - 1] > 0 THEN c[longer[i - 1]][k[i]] ELSE Null
    <3>1. CASE i = m + 1
      <4>1. longer[i] = last /\ i # 0 /\ longer[i - 1] = at[m] /\ i - 1 = m
        BY <3>1
      <4> QED
        BY <3>1, <4>1
    <3>2. CASE i = 0
      <4>1. longer[i] = at[0] /\ at[0] = Root
        BY <2>1, <3>2 DEF FollowsTo
      <4> QED
        BY <3>2, <4>1
    <3>3. CASE i # 0 /\ i # m + 1
      <4>1. i \in 0..m /\ i - 1 \in 0..m /\ longer[i] = at[i] /\ longer[i - 1] = at[i - 1]
        BY <3>3
      <4>2. at[i] = IF at[i - 1] > 0 THEN c[at[i - 1]][k[i]] ELSE Null
        BY <2>1, <3>3, <4>1 DEF FollowsTo
      <4> QED
        BY <3>3, <4>1, <4>2
    <3> QED
      BY <3>1, <3>2, <3>3
  <2>3. FollowsTo(c, k, m + 1, longer)
    BY <2>2 DEF FollowsTo
  <2> QED
    BY <2>3
<1> HIDE DEF S
<1>3. n \in S
  BY <1>1, <1>2, Induction
<1> QED
  BY <1>3 DEF S

\* The defining equation of a path.
LEMMA PathSteps ==
  ASSUME NEW c, NEW k, Len(k) \in Nat
  PROVE  /\ PathIn(c, k)[0] = Root
         /\ \A i \in 1..Len(k) :
              PathIn(c, k)[i] =
                IF PathIn(c, k)[i - 1] > 0 THEN c[PathIn(c, k)[i - 1]][k[i]] ELSE Null
<1>1. \E at : FollowsTo(c, k, Len(k), at)
  BY PathExists
<1>2. PathIn(c, k) = CHOOSE at : FollowsTo(c, k, Len(k), at)
  BY DEF PathIn, FollowsTo
<1>3. FollowsTo(c, k, Len(k), PathIn(c, k))
  BY <1>1, <1>2
<1> QED
  BY <1>3 DEF FollowsTo

\* An array of slots whose pointers lead to nodes there are.
SlotArray(c) ==
  c \in [NodeIds -> [Bytes -> Int]] /\ \A n \in NodeIds : \A b \in Bytes : c[n][b] <= MaxNodes

\* What a path visits are slots' contents: leaves, no node, or nodes of the tree.
LEMMA PathType ==
  ASSUME NEW c, SlotArray(c), NEW k \in Seq(Bytes)
  PROVE  \A i \in 0..Len(k) :
           PathIn(c, k)[i] \in Int /\ (PathIn(c, k)[i] > 0 => PathIn(c, k)[i] \in NodeIds)
<1> DEFINE at == PathIn(c, k)
           S == {i \in Nat : at[i] \in Int /\ (at[i] > 0 => at[i] \in NodeIds)}
<1>1. Len(k) \in Nat /\ \A i \in 1..Len(k) : k[i] \in Bytes
  OBVIOUS
<1>2. /\ at[0] = Root
      /\ \A i \in 1..Len(k) : at[i] = IF at[i - 1] > 0 THEN c[at[i - 1]][k[i]] ELSE Null
  BY <1>1, PathSteps
<1> HIDE DEF at
<1>3. 0 \in S
  BY <1>2, MaxNodesAssumption DEF Root, NodeIds
<1>4. ASSUME NEW i \in 0..(Len(k) - 1), i \in S PROVE i + 1 \in S
  <2>1. i + 1 \in 1..Len(k) /\ (i + 1) - 1 = i /\ k[i + 1] \in Bytes
    BY <1>1
  <2>2. at[i + 1] = IF at[i] > 0 THEN c[at[i]][k[i + 1]] ELSE Null
    BY <1>2, <2>1
  <2>3. CASE at[i] > 0
    <3>1. at[i] \in NodeIds
      BY <1>4, <2>3
    <3>2. c[at[i]][k[i + 1]] \in Int /\ c[at[i]][k[i + 1]] <= MaxNodes
      BY <2>1, <3>1 DEF SlotArray
    <3> QED
      BY <2>1, <2>2, <2>3, <3>2, MaxNodesAssumption DEF NodeIds
  <2>4. CASE ~(at[i] > 0)
    BY <2>1, <2>2, <2>4 DEF Null
  <2> QED
    BY <2>3, <2>4
<1>5. \A i \in 0..Len(k) : i \in S
  <2> HIDE DEF S
  <2> QED
    BY <1>1, <1>3, <1>4, InductionUpTo
<1> QED
  BY <1>5 DEF at

\* What is on a path is there because what is before it is a node.
LEMMA PathBack ==
  ASSUME NEW c, SlotArray(c), NEW k \in Seq(Bytes), NEW i \in 1..Len(k),
         PathIn(c, k)[i] # Null
  PROVE  /\ k[i] \in Bytes /\ i - 1 \in 0..Len(k) /\ PathIn(c, k)[i - 1] > 0
         /\ PathIn(c, k)[i - 1] \in NodeIds /\ PathIn(c, k)[i - 1] # Null
         /\ PathIn(c, k)[i] = c[PathIn(c, k)[i - 1]][k[i]]
<1>1. Len(k) \in Nat /\ k[i] \in Bytes /\ i - 1 \in 0..Len(k)
  OBVIOUS
<1>2. PathIn(c, k)[i - 1] > 0 /\ PathIn(c, k)[i] = c[PathIn(c, k)[i - 1]][k[i]]
  BY <1>1, PathSteps
<1> QED
  BY <1>1, <1>2, PathType DEF Null

\* Pointers that are written into empty slots leave every path as far as it went.
LEMMA PathGrows ==
  ASSUME NEW c, NEW d, SlotArray(c), SlotArray(d), NEW k \in Seq(Bytes),
         \A n \in NodeIds : \A b \in Bytes : c[n][b] # Null => d[n][b] = c[n][b]
  PROVE  \A i \in 0..Len(k) : PathIn(c, k)[i] # Null => PathIn(d, k)[i] = PathIn(c, k)[i]
<1> DEFINE S == {i \in Nat : PathIn(c, k)[i] # Null => PathIn(d, k)[i] = PathIn(c, k)[i]}
<1>1. Len(k) \in Nat
  OBVIOUS
<1>2. 0 \in S
  BY <1>1, PathSteps
<1>3. ASSUME NEW i \in 0..(Len(k) - 1), i \in S PROVE i + 1 \in S
  <2> SUFFICES ASSUME PathIn(c, k)[i + 1] # Null
               PROVE  PathIn(d, k)[i + 1] = PathIn(c, k)[i + 1]
    OBVIOUS
  <2>1. i + 1 \in 1..Len(k) /\ (i + 1) - 1 = i
    BY <1>1
  <2>2. /\ k[i + 1] \in Bytes /\ PathIn(c, k)[i] > 0 /\ PathIn(c, k)[i] # Null
        /\ PathIn(c, k)[i] \in NodeIds /\ PathIn(c, k)[i + 1] = c[PathIn(c, k)[i]][k[i + 1]]
    BY <2>1, PathBack
  <2>3. PathIn(d, k)[i] = PathIn(c, k)[i]
    BY <1>3, <2>2
  <2>4. PathIn(d, k)[i + 1] = d[PathIn(d, k)[i]][k[i + 1]]
    BY <1>1, <2>1, <2>2, <2>3, PathSteps
  <2> QED
    BY <2>2, <2>3, <2>4
<1>4. \A i \in 0..Len(k) : i \in S
  <2> HIDE DEF S
  <2> QED
    BY <1>1, <1>2, <1>3, InductionUpTo
<1> QED
  BY <1>4

\* An array of slots in which no pointer is twice and none leads to the root.
IsTree(c) ==
  /\ \A m, n \in NodeIds : \A b, d \in Bytes :
       c[m][b] # Null /\ c[m][b] = c[n][d] => m = n /\ b = d
  /\ \A n \in NodeIds : \A b \in Bytes : c[n][b] # Root

\* In a tree one way leads to each node and to each leaf.
LEMMA OneWay ==
  ASSUME NEW c, SlotArray(c), IsTree(c), NEW k \in Seq(Bytes), NEW l \in Seq(Bytes)
  PROVE  \A i \in 0..Len(k) : \A j \in 0..Len(l) :
           PathIn(c, k)[i] = PathIn(c, l)[j] /\ PathIn(c, k)[i] # Null =>
             i = j /\ \A m \in 1..i : k[m] = l[m]
<1> DEFINE S == {i \in Nat : \A j \in 0..Len(l) :
                   PathIn(c, k)[i] = PathIn(c, l)[j] /\ PathIn(c, k)[i] # Null =>
                     i = j /\ \A m \in 1..i : k[m] = l[m]}
<1>1. Len(k) \in Nat /\ Len(l) \in Nat /\ Root # Null
  BY DEF Root, Null
<1>2. PathIn(c, k)[0] = Root /\ PathIn(c, l)[0] = Root
  BY <1>1, PathSteps
<1>3. 0 \in S
  <2> SUFFICES ASSUME NEW j \in 0..Len(l), PathIn(c, k)[0] = PathIn(c, l)[j], j # 0
               PROVE  FALSE
    OBVIOUS
  <2>1. j \in 1..Len(l) /\ PathIn(c, l)[j] = Root
    BY <1>1, <1>2
  <2> QED
    BY <1>1, <2>1, PathBack DEF IsTree
<1>4. ASSUME NEW i \in 0..(Len(k) - 1), i \in S PROVE i + 1 \in S
  <2> SUFFICES ASSUME NEW j \in 0..Len(l), PathIn(c, k)[i + 1] = PathIn(c, l)[j],
                      PathIn(c, k)[i + 1] # Null
               PROVE  i + 1 = j /\ \A m \in 1..(i + 1) : k[m] = l[m]
    BY <1>1
  <2>1. i + 1 \in 1..Len(k) /\ (i + 1) - 1 = i
    BY <1>1
  <2>2. /\ k[i + 1] \in Bytes /\ PathIn(c, k)[i] # Null
        /\ PathIn(c, k)[i] \in NodeIds /\ PathIn(c, k)[i + 1] = c[PathIn(c, k)[i]][k[i + 1]]
    BY <2>1, PathBack
  <2>3. j \in 1..Len(l)
    <3>1. PathIn(c, k)[i + 1] # Root
      BY <2>2 DEF IsTree
    <3> QED
      BY <1>1, <1>2, <3>1
  <2>4. /\ l[j] \in Bytes /\ j - 1 \in 0..Len(l)
        /\ PathIn(c, l)[j - 1] \in NodeIds /\ PathIn(c, l)[j] = c[PathIn(c, l)[j - 1]][l[j]]
    BY <2>3, PathBack
  <2>5. PathIn(c, k)[i] = PathIn(c, l)[j - 1] /\ k[i + 1] = l[j]
    <3> DEFINE m == PathIn(c, k)[i]
               n == PathIn(c, l)[j - 1]
    <3>1. /\ m \in NodeIds /\ n \in NodeIds /\ k[i + 1] \in Bytes /\ l[j] \in Bytes
          /\ c[m][k[i + 1]] # Null /\ c[m][k[i + 1]] = c[n][l[j]]
      BY <2>2, <2>4
    <3> HIDE DEF m, n
    <3>2. m = n /\ k[i + 1] = l[j]
      BY <3>1 DEF IsTree
    <3> QED
      BY <3>2 DEF m, n
  <2>6. i = j - 1 /\ \A m \in 1..i : k[m] = l[m]
    BY <1>4, <2>2, <2>4, <2>5
  <2> QED
    BY <2>3, <2>5, <2>6
<1>5. \A i \in 0..Len(k) : i \in S
  <2> HIDE DEF S
  <2> QED
    BY <1>1, <1>3, <1>4, InductionUpTo
<1> QED
  BY <1>5

\* Two byte strings that the same leaf is found under are the same.
LEMMA LookupInjective ==
  ASSUME NEW c, SlotArray(c), IsTree(c), NEW k \in Seq(Bytes), NEW l \in Seq(Bytes),
         PathIn(c, k)[Len(k)] = PathIn(c, l)[Len(l)], PathIn(c, k)[Len(k)] # Null
  PROVE  k = l
<1>1. Len(k) \in Nat /\ Len(l) \in Nat
  OBVIOUS
<1>2. Len(k) = Len(l) /\ \A m \in 1..Len(k) : k[m] = l[m]
  BY <1>1, OneWay
<1> QED
  BY <1>2

-----------------------------------------------------------------------------
(* What Publish writes. *)

KeyLength(t) == Len(Key(keyword(t)))
Chain(t)     == level[t]..(KeyLength(t) - 1)

\* The node whose slot takes the pointer to trie level idx + 1.
SlotNode(t, idx) == IF idx = level[t] THEN node[t] ELSE ChainNode(t, idx)
SlotByte(t, idx) == Key(keyword(t))[idx + 1]

\* Where the chain of generateVal lies, in numbers.
LEMMA ChainFacts ==
  ASSUME IInv, NEW t \in Threads, Publish(t)
  PROVE  /\ KeyLength(t) \in Nat \ {0} /\ level[t] \in Nat /\ level[t] < KeyLength(t)
         /\ allocated \in Nat /\ tid[t] \in Nat
         /\ allocated' = allocated + KeyLength(t) - level[t] - 1
         /\ allocated' \in NodeIds
         /\ node[t] \in 1..allocated /\ SlotByte(t, level[t]) = nodeKey(t)
         /\ \A idx \in Chain(t) :
              /\ idx \in Nat /\ SlotNode(t, idx) \in NodeIds /\ SlotNode(t, idx) \in 1..allocated'
              /\ SlotByte(t, idx) \in Bytes
              /\ idx # level[t] => SlotNode(t, idx) = allocated + KeyLength(t) - idx
              /\ idx # KeyLength(t) - 1 =>
                   ChainNext(t, idx) = allocated + KeyLength(t) - (idx + 1)
              /\ idx = KeyLength(t) - 1 => ChainNext(t, idx) = Leaf(tid[t])
<1>1. pc[t] = "publish" /\ allocated' = allocated + ChainLength(t)
  BY DEF Publish
<1>2. /\ node[t] \in 1..allocated /\ allocated \in Nat /\ tid[t] \in Nat
      /\ KeyLength(t) \in Nat \ {0} /\ level[t] \in 0..(KeyLength(t) - 1)
      /\ \A i \in 1..KeyLength(t) : Key(keyword(t))[i] \in Bytes
  BY <1>1, StepFacts DEF KeyLength
<1>3. allocated' = allocated + KeyLength(t) - level[t] - 1
  BY <1>1, <1>2 DEF ChainLength, KeyLength
<1>4. allocated' \in NodeIds
  BY PublishEffect
<1>5. ASSUME NEW idx \in Chain(t)
      PROVE  /\ idx \in Nat /\ SlotNode(t, idx) \in NodeIds /\ SlotNode(t, idx) \in 1..allocated'
             /\ SlotByte(t, idx) \in Bytes
             /\ idx # level[t] => SlotNode(t, idx) = allocated + KeyLength(t) - idx
             /\ idx # KeyLength(t) - 1 =>
                  ChainNext(t, idx) = allocated + KeyLength(t) - (idx + 1)
             /\ idx = KeyLength(t) - 1 => ChainNext(t, idx) = Leaf(tid[t])
  <2>1. idx \in Nat /\ idx + 1 \in 1..KeyLength(t) /\ idx >= level[t]
    BY <1>2 DEF Chain
  <2>2. SlotByte(t, idx) \in Bytes
    BY <1>2, <2>1 DEF SlotByte
  <2>3. ChainNode(t, idx) = allocated + KeyLength(t) - idx
    BY <1>2, <2>1 DEF ChainNode, KeyLength
  <2>4. ChainNode(t, idx + 1) = allocated + KeyLength(t) - (idx + 1)
    BY <1>2, <2>1 DEF ChainNode, KeyLength
  <2>5. SlotNode(t, idx) \in 1..allocated'
    BY <1>2, <1>3, <2>1, <2>3 DEF SlotNode
  <2>6. SlotNode(t, idx) \in NodeIds
    BY <1>4, <2>5, MaxNodesAssumption DEF NodeIds
  <2> QED
    BY <2>1, <2>2, <2>3, <2>4, <2>5, <2>6 DEF SlotNode, ChainNext, KeyLength
<1> QED
  BY <1>2, <1>3, <1>4, <1>5 DEF SlotByte, nodeKey

\* Publish fills the slots of the chain, all of them empty, and no other.
LEMMA PublishSlots ==
  ASSUME IInv, NEW t \in Threads, Publish(t)
  PROVE  /\ \A idx \in Chain(t) :
              /\ children[SlotNode(t, idx)][SlotByte(t, idx)] = Null
              /\ children'[SlotNode(t, idx)][SlotByte(t, idx)] = ChainNext(t, idx)
         /\ \A n \in NodeIds : \A b \in Bytes :
              children'[n][b] # children[n][b] =>
                \E idx \in Chain(t) : n = SlotNode(t, idx) /\ b = SlotByte(t, idx)
         /\ \A n \in NodeIds : n \notin (allocated + 1)..allocated' /\ n # node[t] =>
              children'[n] = children[n]
<1> DEFINE made == (allocated + 1)..(allocated + ChainLength(t))
<1>1. /\ KeyLength(t) \in Nat \ {0} /\ level[t] \in Nat /\ level[t] < KeyLength(t)
      /\ allocated \in Nat /\ node[t] \in 1..allocated /\ node[t] \in NodeIds
      /\ allocated' = allocated + ChainLength(t)
      /\ allocated' = allocated + KeyLength(t) - level[t] - 1
      /\ SlotByte(t, level[t]) = nodeKey(t) /\ children \in [NodeIds -> [Bytes -> Int]]
      /\ allocated' <= MaxNodes
  BY ChainFacts, MaxNodesAssumption DEF IInv, TypeOK, Pointer, NodeIds, Publish
<1>2. children' =
       [n \in NodeIds |->
          CASE n \in made ->
                 [b \in Bytes |-> IF b = SlotByte(t, ChainLevel(t, n))
                                  THEN ChainNext(t, ChainLevel(t, n)) ELSE Null]
            [] n = node[t] -> [children[n] EXCEPT ![nodeKey(t)] = ChainNext(t, level[t])]
            [] OTHER -> children[n]]
  BY DEF Publish, SlotByte
<1>3. /\ node[t] \notin made
      /\ \A n \in made : /\ n \in NodeIds /\ n > allocated
                         /\ ChainLevel(t, n) = KeyLength(t) - (n - allocated)
                         /\ ChainLevel(t, n) \in Chain(t) /\ ChainLevel(t, n) # level[t]
  <2>1. ASSUME NEW n \in made
        PROVE  /\ n \in NodeIds /\ n > allocated
               /\ ChainLevel(t, n) = KeyLength(t) - (n - allocated)
               /\ ChainLevel(t, n) \in Chain(t) /\ ChainLevel(t, n) # level[t]
    <3>1. n \in Int /\ n > allocated /\ n <= allocated'
      BY <1>1
    <3>2. ChainLevel(t, n) = KeyLength(t) - (n - allocated)
      BY DEF ChainLevel, KeyLength
    <3>3. ChainLevel(t, n) \in (level[t] + 1)..(KeyLength(t) - 1)
      BY <1>1, <3>1, <3>2
    <3> QED
      BY <1>1, <3>1, <3>2, <3>3, MaxNodesAssumption DEF Chain, NodeIds
  <2> QED
    BY <1>1, <2>1
<1>4. ASSUME NEW n \in made
      PROVE  /\ children[n] = [b \in Bytes |-> Null]
             /\ children'[n] = [b \in Bytes |-> IF b = SlotByte(t, ChainLevel(t, n))
                                                THEN ChainNext(t, ChainLevel(t, n)) ELSE Null]
             /\ n = SlotNode(t, ChainLevel(t, n))
  <2>1. \A b \in Bytes : children[n][b] = Null
    BY <1>3 DEF IInv, SharedInv, FreeNodesBlank
  <2>2. children[n] = [b \in Bytes |-> Null]
    <3>1. children[n] \in [Bytes -> Int]
      BY <1>1, <1>3
    <3> QED
      BY <2>1, <3>1
  <2>3. SlotNode(t, ChainLevel(t, n)) = allocated + KeyLength(t) - ChainLevel(t, n)
    BY <1>3, ChainFacts
  <2>4. n = SlotNode(t, ChainLevel(t, n))
    BY <1>1, <1>3, <2>3
  <2> QED
    BY <1>2, <1>3, <2>2, <2>4
<1>5. /\ children'[node[t]] = [children[node[t]] EXCEPT ![nodeKey(t)] = ChainNext(t, level[t])]
      /\ children[node[t]][nodeKey(t)] = Null
      /\ children[node[t]] \in [Bytes -> Int] /\ nodeKey(t) \in Bytes
      /\ level[t] \in Chain(t) /\ SlotNode(t, level[t]) = node[t]
  <2>1. level[t] \in Chain(t)
    BY <1>1 DEF Chain
  <2>2. nodeKey(t) \in Bytes
    BY <1>1, <2>1, ChainFacts
  <2> QED
    BY <1>1, <1>2, <1>3, <2>1, <2>2, PublishEffect DEF SlotNode
<1>6. ASSUME NEW n \in NodeIds, n \notin made, n # node[t] PROVE children'[n] = children[n]
  BY <1>2, <1>6
<1>7. ASSUME NEW idx \in Chain(t)
      PROVE  /\ children[SlotNode(t, idx)][SlotByte(t, idx)] = Null
             /\ children'[SlotNode(t, idx)][SlotByte(t, idx)] = ChainNext(t, idx)
  <2>1. CASE idx = level[t]
    BY <1>1, <1>5, <2>1
  <2>2. CASE idx # level[t]
    <3>1. /\ idx \in Nat /\ SlotNode(t, idx) = allocated + KeyLength(t) - idx
          /\ SlotByte(t, idx) \in Bytes
      BY <2>2, ChainFacts
    <3>2. idx \in (level[t] + 1)..(KeyLength(t) - 1)
      <4>1. idx \in level[t]..(KeyLength(t) - 1)
        BY DEF Chain
      <4>2. KeyLength(t) \in Nat /\ level[t] \in Nat
        BY <1>1
      <4> QED
        BY <2>2, <4>1, <4>2
    <3>3. SlotNode(t, idx) \in made
      BY <1>1, <3>1, <3>2
    <3>4. ChainLevel(t, SlotNode(t, idx)) = idx
      BY <1>1, <1>3, <3>1, <3>2, <3>3
    <3>5. children[SlotNode(t, idx)] = [b \in Bytes |-> Null]
      BY <1>4, <3>3
    <3>6. children'[SlotNode(t, idx)] =
            [b \in Bytes |-> IF b = SlotByte(t, idx) THEN ChainNext(t, idx) ELSE Null]
      BY <1>4, <3>3, <3>4
    <3> QED
      BY <3>1, <3>5, <3>6
  <2> QED
    BY <2>1, <2>2
<1>8. ASSUME NEW n \in NodeIds, NEW b \in Bytes, children'[n][b] # children[n][b]
      PROVE  \E idx \in Chain(t) : n = SlotNode(t, idx) /\ b = SlotByte(t, idx)
  <2>1. CASE n \in made
    <3>1. b = SlotByte(t, ChainLevel(t, n))
      <4>1. /\ children[n][b] = Null
            /\ children'[n][b] = IF b = SlotByte(t, ChainLevel(t, n))
                                 THEN ChainNext(t, ChainLevel(t, n)) ELSE Null
        BY <1>4, <2>1
      <4> QED
        BY <1>8, <4>1
    <3> QED
      BY <1>3, <1>4, <2>1, <3>1
  <2>2. CASE n = node[t]
    <3>1. b = nodeKey(t)
      BY <1>5, <1>8, <2>2
    <3> QED
      BY <1>1, <1>5, <2>2, <3>1
  <2> QED
    BY <1>6, <1>8, <2>1, <2>2
<1>9. made = (allocated + 1)..allocated'
  BY <1>1
<1> HIDE DEF made
<1> QED
  BY <1>6, <1>7, <1>8, <1>9

\* No node of a freshly built chain is left without a successor.
LEMMA ChainNotNull ==
  ASSUME IInv, NEW t \in Threads, Publish(t), NEW i \in Chain(t)
  PROVE  ChainNext(t, i) # Null
<1>1. /\ allocated \in Nat /\ tid[t] \in Nat /\ KeyLength(t) \in Nat /\ i \in Nat
      /\ i <= KeyLength(t) - 1
  BY ChainFacts DEF Chain
<1>2. CASE i = KeyLength(t) - 1
  <2>1. ChainNext(t, i) = Leaf(tid[t])
    BY <1>2, ChainFacts
  <2> QED
    BY <1>1, <2>1 DEF Leaf, Null
<1>3. CASE i # KeyLength(t) - 1
  <2>1. ChainNext(t, i) = allocated + KeyLength(t) - (i + 1)
    BY <1>3, ChainFacts
  <2>2. ChainNext(t, i) > 0
    BY <1>1, <1>3, <2>1
  <2> QED
    BY <2>2 DEF Null
<1> QED
  BY <1>2, <1>3

\* The pointers of the chain are new, and no two of them are the same.
LEMMA ChainPointers ==
  ASSUME IInv, IdsPlaced, NEW t \in Threads, Publish(t)
  PROVE  /\ \A i \in Chain(t) : ChainNext(t, i) \in Int /\ ChainNext(t, i) # Null
         /\ \A i \in Chain(t) : \A n \in NodeIds : \A b \in Bytes :
              ChainNext(t, i) # children[n][b]
         /\ \A i \in Chain(t) : ChainNext(t, i) > allocated \/ isLeaf(ChainNext(t, i))
         /\ \A i, j \in Chain(t) : ChainNext(t, i) = ChainNext(t, j) => i = j
<1>1. pc[t] = "publish" /\ ~LeafIn(children, tid[t])
  BY DEF Publish, IdsPlaced, InFlight
<1>2. allocated \in Nat /\ tid[t] \in Nat /\ KeyLength(t) \in Nat
  BY ChainFacts
<1>3. Leaf(tid[t]) \in Int /\ Leaf(tid[t]) < 0
  BY <1>2 DEF Leaf
<1>4. ASSUME NEW i \in Chain(t)
      PROVE  /\ i \in Nat
             /\ \/ i = KeyLength(t) - 1 /\ ChainNext(t, i) = Leaf(tid[t])
                \/ /\ i # KeyLength(t) - 1
                   /\ ChainNext(t, i) = allocated + KeyLength(t) - (i + 1)
                   /\ ChainNext(t, i) > allocated /\ ChainNext(t, i) \in Nat
  <2>1. i \in Nat /\ i <= KeyLength(t) - 1
    BY <1>2, ChainFacts DEF Chain
  <2>2. CASE i = KeyLength(t) - 1
    BY <2>1, <2>2, ChainFacts
  <2>3. CASE i # KeyLength(t) - 1
    <3>1. ChainNext(t, i) = allocated + KeyLength(t) - (i + 1)
      BY <2>3, ChainFacts
    <3> QED
      BY <1>2, <2>1, <2>3, <3>1
  <2> QED
    BY <2>2, <2>3
<1>5. ASSUME NEW i \in Chain(t), NEW n \in NodeIds, NEW b \in Bytes
      PROVE  ChainNext(t, i) # children[n][b]
  <2>1. children[n][b] <= allocated /\ children[n][b] # Leaf(tid[t]) /\ children[n][b] \in Int
    BY <1>1 DEF IInv, SharedInv, FreeNodesBlank, LeafIn, TypeOK, Pointer
  <2> QED
    BY <1>2, <1>4, <2>1
<1>6. ASSUME NEW i \in Chain(t), NEW j \in Chain(t), ChainNext(t, i) = ChainNext(t, j)
      PROVE  i = j
  <2>1. i \in Nat /\ j \in Nat
    BY <1>4
  <2>2. CASE i = KeyLength(t) - 1
    <3>1. ~(ChainNext(t, j) > allocated)
      BY <1>2, <1>3, <1>4, <1>6, <2>2
    <3> QED
      BY <1>4, <2>2, <3>1
  <2>3. CASE i # KeyLength(t) - 1
    <3>1. ChainNext(t, j) > allocated
      BY <1>4, <1>6, <2>3
    <3>2. j # KeyLength(t) - 1
      BY <1>2, <1>3, <1>4, <3>1
    <3> QED
      BY <1>2, <1>4, <1>6, <2>1, <2>3, <3>2
  <2> QED
    BY <2>2, <2>3
<1>7. \A i \in Chain(t) : /\ ChainNext(t, i) \in Int /\ ChainNext(t, i) # Null
                          /\ ChainNext(t, i) > allocated \/ isLeaf(ChainNext(t, i))
  BY <1>2, <1>3, <1>4 DEF isLeaf, Null
<1> QED
  BY <1>5, <1>6, <1>7

\* A pointer in a slot after Publish was there before, or is of the chain.
LEMMA OldOrNew ==
  ASSUME IInv, NEW t \in Threads, Publish(t), NEW n \in NodeIds, NEW b \in Bytes
  PROVE  \/ children'[n][b] = children[n][b]
         \/ \E i \in Chain(t) : /\ n = SlotNode(t, i) /\ b = SlotByte(t, i)
                                /\ children'[n][b] = ChainNext(t, i)
BY PublishSlots

\* Storing a chain creates no second pointer to any node: the chain's nodes are new.
LEMMA PublishKeepsDistinct ==
  ASSUME IInv, IdsPlaced, PointersDistinct, NEW t \in Threads, Publish(t)
  PROVE  PointersDistinct'
<1> SUFFICES ASSUME NEW m \in NodeIds, NEW n \in NodeIds, NEW b \in Bytes, NEW c \in Bytes,
                    children'[m][b] # Null, children'[m][b] = children'[n][c]
             PROVE  m = n /\ b = c
  BY DEF PointersDistinct
<1>1. CASE children'[m][b] = children[m][b] /\ children'[n][c] = children[n][c]
  <2>1. children[m][b] # Null /\ children[m][b] = children[n][c]
    BY <1>1
  <2> QED
    BY <2>1 DEF PointersDistinct
<1>2. CASE children'[m][b] # children[m][b] /\ children'[n][c] # children[n][c]
  <2>1. PICK i \in Chain(t) : /\ m = SlotNode(t, i) /\ b = SlotByte(t, i)
                              /\ children'[m][b] = ChainNext(t, i)
    BY <1>2, OldOrNew
  <2>2. PICK j \in Chain(t) : /\ n = SlotNode(t, j) /\ c = SlotByte(t, j)
                              /\ children'[n][c] = ChainNext(t, j)
    BY <1>2, OldOrNew
  <2>3. i = j
    BY <2>1, <2>2, ChainPointers
  <2> QED
    BY <2>1, <2>2, <2>3
<1>3. CASE children'[m][b] # children[m][b] /\ children'[n][c] = children[n][c]
  BY <1>3, OldOrNew, ChainPointers
<1>4. CASE children'[m][b] = children[m][b] /\ children'[n][c] # children[n][c]
  <2>1. PICK j \in Chain(t) : children'[n][c] = ChainNext(t, j)
    BY <1>4, OldOrNew
  <2>2. children[m][b] = ChainNext(t, j)
    BY <1>4, <2>1
  <2> QED
    BY <2>2, ChainPointers
<1> QED
  BY <1>1, <1>2, <1>3, <1>4

\* After the store every node handed out is still hung up at exactly one slot, the new
\* ones along the chain and its first node at the slot written.
LEMMA PublishKeepsOwned ==
  ASSUME IInv, IdsPlaced, NodesOwned, NEW t \in Threads, Publish(t)
  PROVE  NodesOwned'
<1>1. /\ allocated \in Nat /\ allocated' \in Nat /\ allocated <= allocated' /\ Root = 1
      /\ 1..allocated' \subseteq NodeIds /\ Root <= allocated
  <2>1. allocated \in NodeIds /\ allocated' \in NodeIds /\ allocated <= allocated'
    BY PublishEffect DEF IInv, TypeOK
  <2> QED
    BY <2>1, MaxNodesAssumption DEF NodeIds, Root
<1>2. ASSUME NEW n \in 1..allocated', NEW m \in 1..allocated', NEW b \in Bytes,
             children'[m][b] = n
      PROVE  n # Root
  <2>1. CASE children'[m][b] = children[m][b]
    <3>1. m \in NodeIds /\ n # Null /\ children[m][b] = n /\ children[m][b] <= allocated
          /\ (m > allocated => children[m][b] = Null)
      BY <1>1, <1>2, <2>1 DEF IInv, SharedInv, FreeNodesBlank, Null
    <3>2. m \in 1..allocated /\ n \in 1..allocated
      BY <1>1, <3>1
    <3> QED
      BY <3>1, <3>2 DEF NodesOwned
  <2>2. CASE children'[m][b] # children[m][b]
    <3>1. PICK i \in Chain(t) : children'[m][b] = ChainNext(t, i)
      BY <1>1, <2>2, OldOrNew
    <3>2. n > allocated \/ isLeaf(n)
      BY <1>2, <3>1, ChainPointers
    <3> QED
      BY <1>1, <3>2 DEF isLeaf
  <2> QED
    BY <2>1, <2>2
<1>3. ASSUME NEW n \in 1..allocated', n # Root
      PROVE  \E m \in 1..allocated', b \in Bytes : children'[m][b] = n
  <2>1. CASE n <= allocated
    <3>1. n \in 1..allocated
      BY <1>1, <2>1
    <3>2. PICK m \in 1..allocated, b \in Bytes : children[m][b] = n
      BY <1>3, <3>1 DEF NodesOwned
    <3>3. m \in 1..allocated' /\ m \in NodeIds /\ n # Null
      BY <1>1 DEF Null
    <3>4. children'[m][b] = children[m][b]
      BY <3>2, <3>3, PublishEffect
    <3> QED
      BY <3>2, <3>3, <3>4
  <2>2. CASE n > allocated
    <3> DEFINE idx == KeyLength(t) - (n - allocated) - 1
    <3>1. /\ KeyLength(t) \in Nat /\ level[t] \in Nat
          /\ allocated' = allocated + KeyLength(t) - level[t] - 1
      BY ChainFacts
    <3>2. idx \in Chain(t) /\ idx # KeyLength(t) - 1
      BY <1>1, <2>2, <3>1 DEF Chain
    <3>3. ChainNext(t, idx) = allocated + KeyLength(t) - (idx + 1)
      <4> HIDE DEF idx
      <4> QED
        BY <3>2, ChainFacts
    <3>4. ChainNext(t, idx) = n
      BY <1>1, <3>1, <3>3
    <3>5. SlotNode(t, idx) \in 1..allocated' /\ SlotByte(t, idx) \in Bytes
      <4> HIDE DEF idx
      <4> QED
        BY <3>2, ChainFacts
    <3>6. children'[SlotNode(t, idx)][SlotByte(t, idx)] = ChainNext(t, idx)
      <4> HIDE DEF idx
      <4> QED
        BY <3>2, PublishSlots
    <3> HIDE DEF idx
    <3> QED
      BY <3>4, <3>5, <3>6
  <2> QED
    BY <1>1, <2>1, <2>2
<1> QED
  BY <1>2, <1>3 DEF NodesOwned

-----------------------------------------------------------------------------
(* What each step changes, and what it leaves alone. *)

SameWords(t) ==
  /\ ~Publish(t) => /\ children' = children /\ allocated' = allocated
                     /\ isCodePointEnd' = isCodePointEnd
  /\ ~Publish(t) /\ ~CountWrite(t) => count' = count
  /\ ~NewTid(t) => unique_literal_cnt' = unique_literal_cnt
  /\ ~Emplace(t) /\ ~UpsertWrite(t) => literal_map' = literal_map

\* Which action may change which shared word: slots only Publish, ids only NewTid,
\* entries only Emplace and UpsertWrite.
LEMMA StepKeepsWords ==
  ASSUME NEW t \in Threads, Step(t)
  PROVE  SameWords(t)
<1>1. CASE Restart(t) \/ ReadLock(t) \/ ReadChild(t) \/ Validate(t) \/ CheckParent(t)
           \/ InsertCheckParent(t) \/ InsertLock(t) \/ CountRead(t) \/ UpsertLock(t)
           \/ UpsertRead(t) \/ Unlock(t)
  BY <1>1 DEF SameWords, Restart, ReadLock, ReadChild, Validate, CheckParent,
    InsertCheckParent, InsertLock, CountRead, UpsertLock, UpsertRead, Unlock, Upgrade, nodeVars,
    literalVars
<1>2. CASE NewTid(t) \/ Emplace(t) \/ Publish(t) \/ CountWrite(t) \/ UpsertWrite(t)
  BY <1>2 DEF SameWords, NewTid, Emplace, Publish, CountWrite, UpsertWrite, nodeVars,
    literalVars
<1> QED
  BY <1>1, <1>2 DEF Step

\* Where the locals of a thread come from.
SameLocals(t) ==
  /\ pc[t] # "done"
  /\ \A u \in Threads : u # t => /\ pc'[u] = pc[u] /\ job'[u] = job[u] /\ node'[u] = node[u]
                                 /\ nextNode'[u] = nextNode[u] /\ level'[u] = level[u]
                                 /\ tid'[u] = tid[u] /\ bitmap'[u] = bitmap[u]
                                 /\ counted'[u] = counted[u]
  /\ ~Unlock(t) => job' = job
  /\ ~Unlock(t) /\ ~NewTid(t) /\ ~UpsertRead(t) => tid' = tid
  /\ ~Unlock(t) /\ ~UpsertRead(t) => bitmap' = bitmap
  /\ ~Unlock(t) /\ ~Restart(t) /\ ~CheckParent(t) => node' = node /\ level' = level
  /\ ~Unlock(t) /\ ~Restart(t) /\ ~ReadChild(t) => nextNode' = nextNode

\* A step leaves the locals of every other thread alone.
LEMMA StepKeepsLocals ==
  ASSUME TypeOK, NEW t \in Threads, Step(t)
  PROVE  SameLocals(t)
<1>1. CASE Restart(t) \/ Unlock(t)
  BY <1>1 DEF SameLocals, Restart, Unlock, MustRestart, FromRoot, Goto, TypeOK
<1>2. CASE ReadLock(t) \/ ReadChild(t) \/ Validate(t) \/ InsertCheckParent(t)
  BY <1>2 DEF SameLocals, ReadLock, ReadChild, Validate, InsertCheckParent, Goto, TypeOK,
    walkVars
<1>3. CASE CheckParent(t)
  BY <1>3 DEF SameLocals, CheckParent, Goto, TypeOK, walkVars
<1>4. CASE InsertLock(t) \/ UpsertLock(t)
  BY <1>4 DEF SameLocals, InsertLock, UpsertLock, Upgrade, Goto, TypeOK
<1>5. CASE NewTid(t) \/ Emplace(t) \/ CountRead(t) \/ CountWrite(t) \/ UpsertRead(t)
           \/ UpsertWrite(t)
  BY <1>5 DEF SameLocals, NewTid, Emplace, CountRead, CountWrite, UpsertRead, UpsertWrite,
    Goto, TypeOK, walkVars
<1>6. CASE Publish(t)
  <2>1. /\ pc[t] = "publish" /\ pc' = [pc EXCEPT ![t] = "countRead"]
        /\ UNCHANGED <<job, walkVars, tid, bitmap, counted>>
    BY <1>6 DEF Publish, Goto
  <2> QED
    BY <2>1 DEF SameLocals, TypeOK, walkVars
<1> QED
  BY <1>1, <1>2, <1>3, <1>4, <1>5, <1>6 DEF Step

\* Which label leads where.
LabelsOf(t) ==
  /\ pc[t] = "emplace" <=> Emplace(t)
  /\ pc[t] = "publish" <=> Publish(t)
  /\ pc[t] = "countRead" <=> CountRead(t)
  /\ pc[t] = "countWrite" <=> CountWrite(t)
  /\ pc[t] = "upsertWrite" <=> UpsertWrite(t)
  /\ pc[t] = "unlock" <=> Unlock(t)
  /\ pc'[t] = "emplace" <=> NewTid(t)
  /\ pc'[t] = "publish" <=> Emplace(t)
  /\ pc'[t] = "countRead" <=> Publish(t)
  /\ pc'[t] = "countWrite" <=> CountRead(t)
  /\ pc'[t] = "upsertWrite" <=> UpsertRead(t)
  /\ pc'[t] = "unlock" <=> CountWrite(t) \/ UpsertWrite(t)
  /\ pc'[t] \in AfterRead \cup {"upsertRead"} =>
       \/ ReadChild(t)
       \/ pc[t] \in AfterRead /\ ~Restart(t) /\ ~Unlock(t) /\ pc'[t] # "validate"

\* The labels before and after a step tell which action it was.
LEMMA StepMovesLabels ==
  ASSUME TypeOK, NEW t \in Threads, Step(t)
  PROVE  LabelsOf(t)
<1>1. pc \in [Threads -> Locals]
  BY DEF TypeOK
<1>2. /\ Restart(t) => /\ pc[t] \in AfterRead \cup {"readLock"} /\ pc'[t] = "readLock"
      /\ ReadLock(t) => pc[t] = "readLock" /\ pc'[t] = "readChild"
      /\ ReadChild(t) => pc[t] = "readChild" /\ pc'[t] = "validate"
  BY <1>1 DEF Restart, MustRestart, ReadLock, ReadChild, Goto, AfterRead
<1>3. /\ Validate(t) => pc[t] = "validate" /\ pc'[t] \in {"checkParent", "insertCheckParent"}
      /\ CheckParent(t) => pc[t] = "checkParent" /\ pc'[t] \in {"upsertLock", "readLock"}
      /\ InsertCheckParent(t) => pc[t] = "insertCheckParent" /\ pc'[t] = "insertLock"
  BY <1>1 DEF Validate, CheckParent, InsertCheckParent, Goto
<1>4. /\ InsertLock(t) => pc[t] = "insertLock" /\ pc'[t] = "newTid"
      /\ UpsertLock(t) => pc[t] = "upsertLock" /\ pc'[t] = "upsertRead"
      /\ NewTid(t) => pc[t] = "newTid" /\ pc'[t] = "emplace"
      /\ Emplace(t) => pc[t] = "emplace" /\ pc'[t] = "publish"
  BY <1>1 DEF InsertLock, UpsertLock, NewTid, Emplace, Goto
<1>5. /\ CountRead(t) => pc[t] = "countRead" /\ pc'[t] = "countWrite"
      /\ CountWrite(t) => pc[t] = "countWrite" /\ pc'[t] = "unlock"
      /\ UpsertRead(t) => pc[t] = "upsertRead" /\ pc'[t] = "upsertWrite"
      /\ UpsertWrite(t) => pc[t] = "upsertWrite" /\ pc'[t] = "unlock"
      /\ Unlock(t) => pc[t] = "unlock" /\ pc'[t] \in {"readLock", "done"}
  BY <1>1 DEF CountRead, CountWrite, UpsertRead, UpsertWrite, Unlock, Goto
<1>6. Publish(t) => pc[t] = "publish" /\ pc'[t] = "countRead"
  <2>1. Publish(t) => pc[t] = "publish" /\ pc' = [pc EXCEPT ![t] = "countRead"]
    BY DEF Publish, Goto
  <2> QED
    BY <1>1, <2>1
<1>7. \/ Restart(t) \/ ReadLock(t) \/ ReadChild(t) \/ Validate(t) \/ CheckParent(t)
      \/ InsertCheckParent(t) \/ InsertLock(t) \/ NewTid(t) \/ Emplace(t) \/ Publish(t)
      \/ CountRead(t) \/ CountWrite(t) \/ UpsertLock(t) \/ UpsertRead(t) \/ UpsertWrite(t)
      \/ Unlock(t)
  BY DEF Step
<1>8. /\ pc[t] = "emplace" <=> Emplace(t)
      /\ pc[t] = "publish" <=> Publish(t)
      /\ pc[t] = "countRead" <=> CountRead(t)
      /\ pc[t] = "countWrite" <=> CountWrite(t)
      /\ pc[t] = "upsertWrite" <=> UpsertWrite(t)
      /\ pc[t] = "unlock" <=> Unlock(t)
  BY <1>2, <1>3, <1>4, <1>5, <1>6, <1>7 DEF AfterRead
<1>9. /\ pc'[t] = "emplace" <=> NewTid(t)
      /\ pc'[t] = "publish" <=> Emplace(t)
      /\ pc'[t] = "countRead" <=> Publish(t)
      /\ pc'[t] = "countWrite" <=> CountRead(t)
      /\ pc'[t] = "upsertWrite" <=> UpsertRead(t)
      /\ pc'[t] = "unlock" <=> CountWrite(t) \/ UpsertWrite(t)
  BY <1>2, <1>3, <1>4, <1>5, <1>6, <1>7
<1>10. ASSUME pc'[t] \in AfterRead \cup {"upsertRead"}, ~ReadChild(t)
       PROVE  pc[t] \in AfterRead /\ ~Restart(t) /\ ~Unlock(t) /\ pc'[t] # "validate"
  BY <1>2, <1>3, <1>4, <1>5, <1>6, <1>7, <1>10 DEF AfterRead
<1> QED
  BY <1>8, <1>9, <1>10 DEF LabelsOf

-----------------------------------------------------------------------------
(* The trie is a tree, and its counts are right. *)

Row(c, n) == {b \in Bytes : c[n][b] # Null}

\* The occupied slots of a node form a finite set, so they have a number.
LEMMA RowsFinite ==
  ASSUME NEW c, NEW n
  PROVE  IsFiniteSet(Row(c, n)) /\ Cardinality(Row(c, n)) \in Nat
<1>1. IsFiniteSet(0..255)
  <2>1. 0 \in Int /\ 255 \in Int
    OBVIOUS
  <2> QED
    BY <2>1, FS_Interval
<1>2. Row(c, n) \in SUBSET (0..255)
  BY BytesAssumption DEF Row, Byte
<1> QED
  BY <1>1, <1>2, FS_Subset, FS_CardinalityType

\* CountUpToDate, in other words.
LEMMA CountInRows ==
  CountUpToDate <=> \A n \in 1..allocated :
                      count[n] = Cardinality(Row(children, n)) - (IF Counting(n) THEN 1 ELSE 0)
BY DEF CountUpToDate, Row

\* The store of count++ settles the debt of the store before it, for the count it loaded
\* is still there.
LEMMA CountKeepsCount ==
  ASSUME IInv, CountUpToDate, CountedIsCurrent, NEW t \in Threads, CountWrite(t)
  PROVE  CountUpToDate'
<1>1. pc[t] = "countWrite" /\ pc'[t] = "unlock" /\ node[t] \in 1..allocated
  BY StepFacts DEF IInv, TypeOK, CountWrite, Goto
<1>2. /\ node' = node /\ allocated' = allocated /\ children' = children
      /\ count' = [count EXCEPT ![node[t]] = counted[t] + 1]
      /\ \A u \in Threads : u # t => pc'[u] = pc[u]
  BY DEF CountWrite, walkVars, IInv, TypeOK, Goto
<1>3. \A u \in Threads : u # t /\ pc[u] \in WriteSection => node[u] # node[t]
  BY <1>1, NobodyElseWrites DEF WriteSection
<1>4. count \in [NodeIds -> Nat] /\ 1..allocated \subseteq NodeIds
  BY MaxNodesAssumption DEF IInv, TypeOK, NodeIds
<1>5. ASSUME NEW n \in 1..allocated
      PROVE  count'[n] = Cardinality(Row(children, n)) - (IF Counting(n)' THEN 1 ELSE 0)
  <2>1. /\ count[n] = Cardinality(Row(children, n)) - (IF Counting(n) THEN 1 ELSE 0)
        /\ Cardinality(Row(children, n)) \in Nat
    BY CountInRows, RowsFinite
  <2>2. CASE n = node[t]
    <3>1. Counting(n) /\ ~Counting(n)'
      BY <1>1, <1>2, <1>3, <2>2 DEF Counting, WriteSection
    <3>2. count'[n] = count[n] + 1
      BY <1>1, <1>2, <1>4, <2>2 DEF CountedIsCurrent
    <3> QED
      BY <2>1, <3>1, <3>2
  <2>3. CASE n # node[t]
    <3>1. Counting(n)' <=> Counting(n)
      BY <1>1, <1>2, <2>3 DEF Counting
    <3>2. count'[n] = count[n]
      BY <1>2, <1>4, <2>3
    <3> QED
      BY <2>1, <3>1, <3>2
  <2> QED
    BY <2>2, <2>3
<1> QED
  BY <1>2, <1>5 DEF CountUpToDate, Row

\* The store occupies exactly one slot of an old node; new nodes have one child and
\* the count 1 they were built with.
LEMMA PublishKeepsCount ==
  ASSUME IInv, CountUpToDate, NEW t \in Threads, Publish(t)
  PROVE  CountUpToDate'
<1>1. pc[t] = "publish" /\ pc' = [pc EXCEPT ![t] = "countRead"] /\ node' = node
  BY DEF Publish, Goto, walkVars
<1>2. pc'[t] = "countRead" /\ \A u \in Threads : u # t => pc'[u] = pc[u]
  BY <1>1 DEF IInv, TypeOK
<1>3. \A u \in Threads : u # t /\ pc[u] \in WriteSection => node[u] # node[t]
  BY <1>1, NobodyElseWrites DEF WriteSection
<1>4. /\ count \in [NodeIds -> Nat] /\ 1..allocated' \subseteq NodeIds
      /\ allocated \in Nat /\ node[t] \in 1..allocated /\ allocated' \in Nat
      /\ allocated <= allocated'
  <2>1. allocated' \in NodeIds /\ allocated <= allocated'
    BY PublishEffect
  <2>2. allocated' \in Nat /\ 1..allocated' \subseteq NodeIds
    BY <2>1, MaxNodesAssumption DEF NodeIds
  <2> QED
    BY <2>1, <2>2, ChainFacts DEF IInv, TypeOK
<1>5. count' = [n \in NodeIds |-> IF n \in (allocated + 1)..allocated' THEN 1 ELSE count[n]]
  BY DEF Publish
<1>6. ASSUME NEW n \in 1..allocated'
      PROVE  count'[n] = Cardinality(Row(children', n)) - (IF Counting(n)' THEN 1 ELSE 0)
  <2>1. CASE n > allocated
    <3>1. n \in (allocated + 1)..allocated' /\ n \in NodeIds /\ n # node[t]
      BY <1>4, <2>1
    <3>2. count'[n] = 1
      BY <1>5, <3>1
    <3>3. ~Counting(n)'
      <4>1. ASSUME NEW u \in Threads, node[u] = n PROVE FALSE
        <5>1. node[u] <= allocated
          BY DEF IInv, ThreadInv, WalkOnMadeNodes
        <5> QED
          BY <1>4, <2>1, <4>1, <5>1
      <4> QED
        BY <1>1, <4>1 DEF Counting
    <3>4. PICK i \in Chain(t) : n = SlotNode(t, i) /\ i # level[t]
      <4> DEFINE i == KeyLength(t) - (n - allocated)
      <4>1. /\ KeyLength(t) \in Nat /\ level[t] \in Nat
            /\ allocated' = allocated + KeyLength(t) - level[t] - 1
        BY ChainFacts
      <4>2. i \in Chain(t) /\ i # level[t] /\ n = allocated + KeyLength(t) - i
        BY <1>4, <3>1, <4>1 DEF Chain
      <4> HIDE DEF i
      <4>3. n = SlotNode(t, i)
        BY <4>2, ChainFacts
      <4> QED
        BY <4>2, <4>3
    <3>5. /\ children'[n][SlotByte(t, i)] = ChainNext(t, i) /\ SlotByte(t, i) \in Bytes
          /\ ChainNext(t, i) # Null
      <4>1. children'[n][SlotByte(t, i)] = ChainNext(t, i) /\ SlotByte(t, i) \in Bytes
        BY <3>4, ChainFacts, PublishSlots
      <4> QED
        BY <4>1, ChainNotNull
    <3>6. ASSUME NEW b \in Bytes, children'[n][b] # Null PROVE b = SlotByte(t, i)
      <4>1. children[n][b] = Null
        BY <2>1, <3>1 DEF IInv, SharedInv, FreeNodesBlank
      <4>2. PICK j \in Chain(t) : n = SlotNode(t, j) /\ b = SlotByte(t, j)
        BY <3>1, <3>6, <4>1, PublishSlots
      <4>3. j # level[t]
        BY <3>1, <4>2 DEF SlotNode
      <4>4. /\ n = allocated + KeyLength(t) - i /\ n = allocated + KeyLength(t) - j
            /\ i \in Nat /\ j \in Nat /\ KeyLength(t) \in Nat
        <5>1. n = allocated + KeyLength(t) - i
          BY <3>4, ChainFacts
        <5>2. n = allocated + KeyLength(t) - j
          BY <4>2, <4>3, ChainFacts
        <5> QED
          BY <5>1, <5>2, ChainFacts
      <4>5. i = j
        BY <1>4, <4>4
      <4> QED
        BY <4>2, <4>5
    <3>7. Row(children', n) = {SlotByte(t, i)}
      BY <3>5, <3>6 DEF Row
    <3>8. Cardinality(Row(children', n)) = 1
      BY <3>7, FS_Singleton
    <3> QED
      BY <3>2, <3>3, <3>8
  <2>2. CASE n = node[t]
    <3>1. n \in 1..allocated /\ n \in NodeIds /\ n \notin (allocated + 1)..allocated'
      BY <1>4, <2>2
    <3>2. /\ count[n] = Cardinality(Row(children, n)) - (IF Counting(n) THEN 1 ELSE 0)
          /\ IsFiniteSet(Row(children, n)) /\ Cardinality(Row(children, n)) \in Nat
      BY <3>1, CountInRows, RowsFinite
    <3>3. ~Counting(n) /\ Counting(n)'
      BY <1>1, <1>2, <1>3, <2>2 DEF Counting, WriteSection
    <3>4. count'[n] = count[n]
      BY <1>5, <3>1
    <3>5. /\ children[n][nodeKey(t)] = Null /\ nodeKey(t) \in Bytes
          /\ children'[n][nodeKey(t)] # Null
      <4>1. level[t] \in Chain(t) /\ SlotNode(t, level[t]) = n /\ SlotByte(t, level[t]) = nodeKey(t)
        BY <2>2, ChainFacts DEF Chain, SlotNode
      <4>2. children[n][nodeKey(t)] = Null /\ nodeKey(t) \in Bytes
            /\ children'[n][nodeKey(t)] = ChainNext(t, level[t])
        BY <4>1, ChainFacts, PublishSlots
      <4> QED
        BY <4>1, <4>2, ChainNotNull
    <3>6. ASSUME NEW b \in Bytes, b # nodeKey(t) PROVE children'[n][b] = children[n][b]
      <4>1. ~(n > allocated)
        BY <1>4, <3>1
      <4> QED
        BY <3>1, <3>6, <4>1, <2>2, PublishEffect
    <3>7. Row(children', n) = Row(children, n) \cup {nodeKey(t)} /\ nodeKey(t) \notin Row(children, n)
      BY <3>5, <3>6 DEF Row
    <3>8. Cardinality(Row(children', n)) = Cardinality(Row(children, n)) + 1
      BY <3>2, <3>7, FS_AddElement
    <3> QED
      BY <3>2, <3>3, <3>4, <3>8
  <2>3. CASE n <= allocated /\ n # node[t]
    <3>1. n \in 1..allocated /\ n \in NodeIds /\ n \notin (allocated + 1)..allocated'
      BY <1>4, <2>3
    <3>2. count[n] = Cardinality(Row(children, n)) - (IF Counting(n) THEN 1 ELSE 0)
      BY <3>1, CountInRows
    <3>3. count'[n] = count[n] /\ children'[n] = children[n]
      BY <1>5, <2>3, <3>1, PublishSlots
    <3>4. Counting(n)' <=> Counting(n)
      BY <1>1, <1>2, <2>3 DEF Counting
    <3> QED
      BY <3>2, <3>3, <3>4 DEF Row
  <2> QED
    BY <1>4, <2>1, <2>2, <2>3
<1> QED
  BY <1>6 DEF CountUpToDate, Row

\* Every step keeps a node's count equal to its children, up to the one insertion
\* whose count++ is still to come.
LEMMA StepKeepsCount ==
  ASSUME IInv, CountUpToDate, CountedIsCurrent, NEW t \in Threads, Step(t)
  PROVE  CountUpToDate'
<1>1. CASE ~Publish(t) /\ ~CountWrite(t)
  <2>1. children' = children /\ allocated' = allocated /\ count' = count
    BY <1>1, StepKeepsWords DEF SameWords
  <2>2. /\ pc'[t] \in {"countRead", "countWrite"} <=> pc[t] \in {"countRead", "countWrite"}
        /\ pc[t] \in {"countRead", "countWrite"} => node'[t] = node[t]
    <3>1. CASE CountRead(t)
      BY <3>1, StepMovesLabels DEF LabelsOf, CountRead, walkVars, IInv
    <3>2. CASE ~CountRead(t)
      BY <1>1, <3>2, StepMovesLabels DEF LabelsOf, IInv
    <3> QED
      BY <3>1, <3>2
  <2>3. \A u \in Threads : u # t => pc'[u] = pc[u] /\ node'[u] = node[u]
    BY StepKeepsLocals DEF SameLocals, IInv
  <2>4. ASSUME NEW n \in 1..allocated PROVE Counting(n)' <=> Counting(n)
    BY <2>2, <2>3 DEF Counting
  <2> QED
    BY <2>1, <2>4 DEF CountUpToDate
<1> QED
  BY <1>1, CountKeepsCount, PublishKeepsCount

\* Between the load and the store of a count++ nobody else stores the count of that
\* node: one who could would hold its lock too, and made nodes are others.
LEMMA StepKeepsCounted ==
  ASSUME IInv, CountedIsCurrent, NEW t \in Threads, Step(t)
  PROVE  CountedIsCurrent'
<1>1. SUFFICES ASSUME NEW u \in Threads, pc'[u] = "countWrite"
               PROVE  counted'[u] = count'[node'[u]]
  BY DEF CountedIsCurrent
<1>2. CASE u = t
  <2>1. CountRead(t)
    BY <1>1, <1>2, StepMovesLabels DEF LabelsOf, IInv
  <2>2. counted'[t] = count[node[t]] /\ count' = count /\ node' = node
    BY <2>1 DEF CountRead, nodeVars, walkVars, IInv, TypeOK
  <2> QED
    BY <1>2, <2>2
<1>3. CASE u # t
  <2>1. /\ pc[u] = "countWrite" /\ counted'[u] = counted[u] /\ node'[u] = node[u]
        /\ counted[u] = count[node[u]]
    BY <1>1, <1>3, StepKeepsLocals DEF SameLocals, CountedIsCurrent, IInv
  <2>2. /\ count \in [NodeIds -> Nat] /\ node[u] \in NodeIds /\ node[u] <= allocated
        /\ allocated \in NodeIds
    BY DEF IInv, TypeOK, ThreadInv, WalkOnMadeNodes
  <2>3. CASE Publish(t)
    <3>1. count' = [n \in NodeIds |-> IF n \in (allocated + 1)..allocated' THEN 1 ELSE count[n]]
      BY <2>3 DEF Publish
    <3>2. node[u] \notin (allocated + 1)..allocated'
      <4>1. allocated' \in NodeIds
        BY <2>3, PublishEffect
      <4>2. node[u] \in Int /\ allocated \in Int /\ allocated' \in Int
        BY <2>2, <4>1, MaxNodesAssumption DEF NodeIds
      <4> QED
        BY <2>2, <4>2
    <3> QED
      BY <2>1, <2>2, <3>1, <3>2
  <2>4. CASE CountWrite(t)
    <3>1. pc[t] = "countWrite" /\ count' = [count EXCEPT ![node[t]] = counted[t] + 1]
      BY <2>4 DEF CountWrite
    <3>2. node[u] # node[t]
      BY <1>3, <2>1, <3>1 DEF IInv, WriteLockExclusive, WriteSection
    <3> QED
      BY <2>1, <2>2, <3>1, <3>2
  <2>5. CASE ~Publish(t) /\ ~CountWrite(t)
    BY <2>1, <2>5, StepKeepsWords DEF SameWords
  <2> QED
    BY <2>3, <2>4, <2>5
<1> QED
  BY <1>2, <1>3

-----------------------------------------------------------------------------
(* Every literal id has one place. *)

LEMMA LeafIsId ==
  ASSUME NEW p \in Int
  PROVE  /\ isLeaf(p) => auxIndex(p) \in Nat /\ Leaf(auxIndex(p)) = p
         /\ \A id \in Nat : /\ isLeaf(Leaf(id)) /\ auxIndex(Leaf(id)) = id
                            /\ Leaf(id) # Null /\ Leaf(id) \in Int
                            /\ p = Leaf(id) <=> isLeaf(p) /\ auxIndex(p) = id
BY DEF isLeaf, auxIndex, Leaf, Null

\* A new id is in flight with its thread and in no leaf yet.
LEMMA NewTidKeepsIds ==
  ASSUME IInv, IdsPlaced, NEW t \in Threads, NewTid(t)
  PROVE  IdsPlaced'
<1>1. /\ pc[t] = "newTid" /\ pc'[t] = "emplace" /\ tid'[t] = unique_literal_cnt
      /\ unique_literal_cnt' = unique_literal_cnt + 1 /\ children' = children
      /\ \A u \in Threads : u # t => pc'[u] = pc[u] /\ tid'[u] = tid[u]
      /\ unique_literal_cnt \in Nat /\ children \in [NodeIds -> [Bytes -> Int]]
      /\ tid \in [Threads -> Nat]
  BY DEF NewTid, Goto, nodeVars, IInv, TypeOK, Pointer
<1>2. ~LeafIn(children, unique_literal_cnt)
  BY <1>1, LeafIsId DEF IdsPlaced, LeafIn
<1>3. \A id : LeafIn(children', id) <=> LeafIn(children, id)
  BY <1>1 DEF LeafIn
<1>4. InFlight(t)' /\ ~InFlight(t) /\ \A u \in Threads : u # t => (InFlight(u)' <=> InFlight(u))
  BY <1>1 DEF InFlight
<1>5. ASSUME NEW n \in NodeIds, NEW b \in Bytes, isLeaf(children'[n][b])
      PROVE  auxIndex(children'[n][b]) < unique_literal_cnt'
  <2>1. /\ isLeaf(children[n][b]) /\ children[n][b] \in Int
        /\ auxIndex(children'[n][b]) = auxIndex(children[n][b])
    BY <1>1, <1>5
  <2>2. auxIndex(children[n][b]) < unique_literal_cnt /\ auxIndex(children[n][b]) \in Int
    BY <2>1, LeafIsId DEF IdsPlaced
  <2> QED
    BY <1>1, <2>1, <2>2
<1>6. ASSUME NEW u \in Threads, InFlight(u)'
      PROVE  tid'[u] < unique_literal_cnt' /\ ~LeafIn(children', tid'[u])
  <2>1. CASE u = t
    BY <1>1, <1>2, <1>3, <2>1
  <2>2. CASE u # t
    <3>1. tid[u] < unique_literal_cnt /\ ~LeafIn(children, tid[u]) /\ tid[u] \in Nat /\ tid'[u] = tid[u]
      BY <1>1, <1>4, <1>6, <2>2 DEF IdsPlaced
    <3> QED
      BY <1>1, <1>3, <3>1
  <2> QED
    BY <2>1, <2>2
<1>7. ASSUME NEW u \in Threads, NEW w \in Threads, u # w, InFlight(u)', InFlight(w)'
      PROVE  tid'[u] # tid'[w]
  <2>1. \A x \in Threads : x # t /\ InFlight(x)' => tid'[x] < unique_literal_cnt /\ tid'[x] \in Nat
    BY <1>1, <1>4 DEF IdsPlaced
  <2>2. CASE u = t \/ w = t
    BY <1>1, <1>7, <2>1, <2>2
  <2>3. CASE u # t /\ w # t
    BY <1>1, <1>4, <1>7, <2>3 DEF IdsPlaced
  <2> QED
    BY <2>2, <2>3
<1>8. ASSUME NEW id \in 0..(unique_literal_cnt' - 1)
      PROVE  LeafIn(children', id) \/ \E u \in Threads : InFlight(u)' /\ tid'[u] = id
  <2>1. CASE id = unique_literal_cnt
    BY <1>1, <1>4, <2>1
  <2>2. CASE id # unique_literal_cnt
    <3>1. id \in 0..(unique_literal_cnt - 1)
      BY <1>1, <2>2
    <3>2. LeafIn(children, id) \/ \E u \in Threads : InFlight(u) /\ tid[u] = id
      BY <3>1 DEF IdsPlaced
    <3> QED
      BY <1>1, <1>3, <1>4, <3>2
  <2> QED
    BY <2>1, <2>2
<1> QED
  BY <1>5, <1>6, <1>7, <1>8 DEF IdsPlaced

\* The store moves an id from its thread into one leaf, and no other id moves.
LEMMA PublishKeepsIds ==
  ASSUME IInv, IdsPlaced, NEW t \in Threads, Publish(t)
  PROVE  IdsPlaced'
<1>1. /\ pc[t] = "publish" /\ pc' = [pc EXCEPT ![t] = "countRead"] /\ tid' = tid
      /\ unique_literal_cnt' = unique_literal_cnt
  BY DEF Publish, Goto, literalVars
<1>2. /\ pc'[t] = "countRead" /\ \A u \in Threads : u # t => pc'[u] = pc[u]
      /\ tid \in [Threads -> Nat] /\ unique_literal_cnt \in Nat
  BY <1>1 DEF IInv, TypeOK
<1>3. InFlight(t) /\ ~InFlight(t)' /\ \A u \in Threads : u # t => (InFlight(u)' <=> InFlight(u))
  BY <1>1, <1>2 DEF InFlight
<1>4. /\ children \in [NodeIds -> [Bytes -> Int]] /\ children' \in [NodeIds -> [Bytes -> Int]]
  BY PublishEffect DEF IInv, TypeOK, Pointer
<1>5. LeafIn(children', tid[t])
  <2>1. KeyLength(t) - 1 \in Chain(t)
    BY ChainFacts DEF Chain
  <2>2. children'[SlotNode(t, KeyLength(t) - 1)][SlotByte(t, KeyLength(t) - 1)] = Leaf(tid[t])
    BY <2>1, ChainFacts, PublishSlots
  <2> QED
    BY <2>1, <2>2, ChainFacts DEF LeafIn
<1>6. ASSUME NEW n \in NodeIds, NEW b \in Bytes, isLeaf(children'[n][b])
      PROVE  \/ isLeaf(children[n][b]) /\ children'[n][b] = children[n][b]
             \/ auxIndex(children'[n][b]) = tid[t] /\ children'[n][b] = Leaf(tid[t])
  <2>1. children'[n][b] \in Int /\ tid[t] \in Nat /\ ~isLeaf(Null)
    BY <1>2, <1>4 DEF isLeaf, Null
  <2>2. children'[n][b] = children[n][b] \/ auxIndex(children'[n][b]) = tid[t]
    BY <1>6, <2>1, PublishEffect
  <2> QED
    BY <1>6, <2>1, <2>2, LeafIsId
<1>7. ASSUME NEW id \in Nat
      PROVE  LeafIn(children', id) <=> LeafIn(children, id) \/ id = tid[t]
  <2>1. ASSUME NEW n \in NodeIds, NEW b \in Bytes, children[n][b] = Leaf(id)
        PROVE  children'[n][b] = Leaf(id)
    BY <2>1, LeafIsId, PublishEffect
  <2>2. ASSUME NEW n \in NodeIds, NEW b \in Bytes, children'[n][b] = Leaf(id)
        PROVE  children[n][b] = Leaf(id) \/ id = tid[t]
    BY <1>2, <1>6, <2>2, LeafIsId
  <2> QED
    BY <1>5, <2>1, <2>2 DEF LeafIn
<1>8. \A n \in NodeIds : \A b \in Bytes :
        isLeaf(children'[n][b]) => auxIndex(children'[n][b]) < unique_literal_cnt'
  BY <1>1, <1>3, <1>6 DEF IdsPlaced
<1>9. \A u \in Threads : InFlight(u)' => tid'[u] < unique_literal_cnt' /\ ~LeafIn(children', tid'[u])
  <2> SUFFICES ASSUME NEW u \in Threads, InFlight(u)'
               PROVE  tid'[u] < unique_literal_cnt' /\ ~LeafIn(children', tid'[u])
    OBVIOUS
  <2>1. u # t /\ InFlight(u)
    BY <1>3
  <2>2. /\ tid[u] < unique_literal_cnt /\ ~LeafIn(children, tid[u]) /\ tid[u] # tid[t]
        /\ tid[u] \in Nat
    BY <1>2, <1>3, <2>1 DEF IdsPlaced
  <2>3. ~LeafIn(children', tid[u])
    BY <1>1, <1>7, <2>2
  <2> QED
    BY <1>1, <2>2, <2>3
<1>10. \A u, w \in Threads : u # w /\ InFlight(u)' /\ InFlight(w)' => tid'[u] # tid'[w]
  BY <1>1, <1>3 DEF IdsPlaced
<1>11. ASSUME NEW id \in 0..(unique_literal_cnt' - 1)
       PROVE  LeafIn(children', id) \/ \E u \in Threads : InFlight(u)' /\ tid'[u] = id
  <2>1. id \in Nat /\ id \in 0..(unique_literal_cnt - 1)
    BY <1>1
  <2>2. LeafIn(children, id) \/ \E u \in Threads : InFlight(u) /\ tid[u] = id
    BY <2>1 DEF IdsPlaced
  <2> QED
    BY <1>1, <1>3, <1>7, <2>1, <2>2
<1> QED
  BY <1>8, <1>9, <1>10, <1>11 DEF IdsPlaced

\* Every step keeps each id in one place, a leaf or the thread that is inserting it.
LEMMA StepKeepsIds ==
  ASSUME IInv, IdsPlaced, NEW t \in Threads, Step(t)
  PROVE  IdsPlaced'
<1>1. CASE ~NewTid(t) /\ ~Publish(t)
  <2>1. children' = children /\ unique_literal_cnt' = unique_literal_cnt
    BY <1>1, StepKeepsWords DEF SameWords
  <2>2. InFlight(t)' <=> InFlight(t)
    BY <1>1, StepMovesLabels DEF LabelsOf, IInv, InFlight
  <2>3. InFlight(t) => tid'[t] = tid[t]
    BY <1>1, StepMovesLabels, StepKeepsLocals DEF LabelsOf, SameLocals, IInv, InFlight
  <2>4. \A u \in Threads : u # t => (InFlight(u)' <=> InFlight(u)) /\ tid'[u] = tid[u]
    BY StepKeepsLocals DEF SameLocals, IInv, InFlight
  <2>5. \A u \in Threads : (InFlight(u)' <=> InFlight(u)) /\ (InFlight(u) => tid'[u] = tid[u])
    BY <2>2, <2>3, <2>4
  <2>6. \A id : LeafIn(children', id) <=> LeafIn(children, id)
    BY <2>1 DEF LeafIn
  <2>7. \A u \in Threads : InFlight(u)' => tid'[u] < unique_literal_cnt' /\ ~LeafIn(children', tid'[u])
    BY <2>1, <2>5, <2>6 DEF IdsPlaced
  <2>8. \A u, w \in Threads : u # w /\ InFlight(u)' /\ InFlight(w)' => tid'[u] # tid'[w]
    BY <2>5 DEF IdsPlaced
  <2>9. \A id \in 0..(unique_literal_cnt' - 1) :
          LeafIn(children', id) \/ \E u \in Threads : InFlight(u)' /\ tid'[u] = id
    BY <2>1, <2>5, <2>6 DEF IdsPlaced
  <2> QED
    BY <2>1, <2>7, <2>8, <2>9 DEF IdsPlaced
<1> QED
  BY <1>1, NewTidKeepsIds, PublishKeepsIds

-----------------------------------------------------------------------------
(* The entries of the literal map. *)

Entry(t) == [literal_len |-> Len(keyword(t)), bitmap |-> {Jobs[t][job[t]].aux}]

\* Handing out an id does not touch the entries.
LEMMA NewTidKeepsEntries ==
  ASSUME IInv, EntriesPlaced, NEW t \in Threads, NewTid(t)
  PROVE  EntriesPlaced'
<1>1. /\ pc'[t] = "emplace" /\ tid'[t] = unique_literal_cnt /\ job' = job
      /\ unique_literal_cnt' = unique_literal_cnt + 1 /\ literal_map' = literal_map
      /\ \A u \in Threads : u # t => pc'[u] = pc[u] /\ tid'[u] = tid[u]
      /\ unique_literal_cnt \in Nat /\ DOMAIN literal_map \subseteq Nat
  BY DEF NewTid, Goto, IInv, TypeOK
<1>2. \A u \in Threads : keyword(u)' = keyword(u)
  BY <1>1 DEF keyword
<1>3. \A id \in DOMAIN literal_map' : id < unique_literal_cnt'
  BY <1>1 DEF EntriesPlaced
<1>4. \A u \in Threads : pc'[u] = "emplace" => tid'[u] \notin DOMAIN literal_map'
  BY <1>1 DEF EntriesPlaced
<1>5. \A u \in Threads : pc'[u] = "publish" =>
        literal_map'[tid'[u]] =
          [literal_len |-> Len(keyword(u)'), bitmap |-> {Jobs[u][job'[u]].aux}]
  BY <1>1, <1>2 DEF EntriesPlaced
<1> QED
  BY <1>3, <1>4, <1>5 DEF EntriesPlaced

\* What emplace does to the map: a new entry under the thread's id.
LEMMA EmplaceEffect ==
  ASSUME IInv, EntriesPlaced, NEW t \in Threads, Emplace(t)
  PROVE  /\ pc[t] = "emplace" /\ tid[t] \in Nat /\ tid[t] \notin DOMAIN literal_map
         /\ DOMAIN literal_map' = DOMAIN literal_map \cup {tid[t]}
         /\ literal_map'[tid[t]] = Entry(t)
         /\ \A id \in DOMAIN literal_map : literal_map'[id] = literal_map[id]
BY DEF Emplace, EntriesPlaced, Entry, IInv, TypeOK

\* The entry made is that of the thread's own id.
LEMMA EmplaceKeepsEntries ==
  ASSUME IInv, IdsPlaced, EntriesPlaced, NEW t \in Threads, Emplace(t)
  PROVE  EntriesPlaced'
<1>1. /\ pc[t] = "emplace" /\ pc'[t] = "publish" /\ tid' = tid /\ job' = job
      /\ unique_literal_cnt' = unique_literal_cnt
      /\ \A u \in Threads : u # t => pc'[u] = pc[u]
  BY DEF Emplace, Goto, IInv, TypeOK
<1>2. \A u \in Threads : keyword(u)' = keyword(u)
  BY <1>1 DEF keyword
<1>3. tid[t] < unique_literal_cnt /\ \A u \in Threads : u # t /\ InFlight(u) => tid[u] # tid[t]
  BY <1>1 DEF IdsPlaced, InFlight
<1>4. \A id \in DOMAIN literal_map' : id < unique_literal_cnt'
  <2>1. DOMAIN literal_map' = DOMAIN literal_map \cup {tid[t]}
    BY EmplaceEffect
  <2>2. \A id \in DOMAIN literal_map : id < unique_literal_cnt
    BY DEF EntriesPlaced
  <2> QED
    BY <1>1, <1>3, <2>1, <2>2
<1>5. \A u \in Threads : pc'[u] = "emplace" => tid'[u] \notin DOMAIN literal_map'
  <2> SUFFICES ASSUME NEW u \in Threads, pc'[u] = "emplace"
               PROVE  tid[u] \notin DOMAIN literal_map'
    BY <1>1
  <2>1. u # t /\ pc[u] = "emplace"
    BY <1>1
  <2>2. tid[u] \notin DOMAIN literal_map
    BY <2>1 DEF EntriesPlaced
  <2>3. tid[u] # tid[t]
    BY <1>3, <2>1 DEF InFlight
  <2>4. DOMAIN literal_map' = DOMAIN literal_map \cup {tid[t]}
    BY EmplaceEffect
  <2> QED
    BY <2>2, <2>3, <2>4
<1>6. ASSUME NEW u \in Threads, pc'[u] = "publish"
      PROVE  literal_map'[tid'[u]] =
               [literal_len |-> Len(keyword(u)'), bitmap |-> {Jobs[u][job'[u]].aux}]
  <2>1. CASE u = t
    BY <1>1, <1>2, <2>1, EmplaceEffect DEF Entry
  <2>2. CASE u # t
    <3>1. pc[u] = "publish" /\ tid[u] \in DOMAIN literal_map
      BY <1>1, <1>6, <2>2 DEF IInv, ThreadInv, HeldLiteralExists
    <3>2. literal_map'[tid[u]] = literal_map[tid[u]]
      BY <3>1, EmplaceEffect
    <3> QED
      BY <1>1, <1>2, <3>1, <3>2 DEF EntriesPlaced
  <2> QED
    BY <2>1, <2>2
<1> QED
  BY <1>4, <1>5, <1>6 DEF EntriesPlaced

\* What an upsert does to the map: one occurrence more under the leaf's id.
LEMMA UpsertWriteEffect ==
  ASSUME IInv, NEW t \in Threads, BitmapIsCurrent(t), UpsertWrite(t)
  PROVE  /\ pc[t] = "upsertWrite" /\ tid[t] \in Nat /\ tid[t] \in DOMAIN literal_map
         /\ children[node[t]][nodeKey(t)] = Leaf(tid[t])
         /\ LeafIn(children, tid[t])
         /\ DOMAIN literal_map' = DOMAIN literal_map
         /\ literal_map'[tid[t]].bitmap = literal_map[tid[t]].bitmap \cup {Jobs[t][job[t]].aux}
         /\ literal_map'[tid[t]].literal_len = literal_map[tid[t]].literal_len
         /\ \A id \in DOMAIN literal_map : id # tid[t] => literal_map'[id] = literal_map[id]
<1>1. pc[t] = "upsertWrite"
  BY DEF UpsertWrite
<1>2. /\ tid[t] \in DOMAIN literal_map /\ tid[t] \in Nat
      /\ literal_map \in [DOMAIN literal_map -> LiteralEntry]
      /\ node[t] \in NodeIds /\ nodeKey(t) \in Bytes
      /\ bitmap[t] = literal_map[tid[t]].bitmap
      /\ children[node[t]][nodeKey(t)] = Leaf(tid[t])
  <2>1. tid[t] \in DOMAIN literal_map
    BY <1>1 DEF IInv, ThreadInv, HeldLiteralExists
  <2>2. nodeKey(t) \in Bytes
    BY <1>1, StepFacts
  <2> QED
    BY <1>1, <2>1, <2>2 DEF IInv, TypeOK, BitmapIsCurrent
<1>3. literal_map' =
        [literal_map EXCEPT ![tid[t]].bitmap = bitmap[t] \cup {Jobs[t][job[t]].aux}]
  BY DEF UpsertWrite
<1>4. LeafIn(children, tid[t])
  BY <1>2 DEF LeafIn
<1>5. literal_map[tid[t]] \in LiteralEntry
  BY <1>2
<1>6. literal_map'[tid[t]] =
        [literal_map[tid[t]] EXCEPT !.bitmap = bitmap[t] \cup {Jobs[t][job[t]].aux}]
  BY <1>2, <1>3
<1>7. /\ DOMAIN literal_map' = DOMAIN literal_map
      /\ \A id \in DOMAIN literal_map : id # tid[t] => literal_map'[id] = literal_map[id]
  BY <1>2, <1>3
<1>8. /\ literal_map'[tid[t]].bitmap = bitmap[t] \cup {Jobs[t][job[t]].aux}
      /\ literal_map'[tid[t]].literal_len = literal_map[tid[t]].literal_len
  BY <1>5, <1>6 DEF LiteralEntry
<1> QED
  BY <1>1, <1>2, <1>4, <1>7, <1>8

\* Every step keeps the entries those of the ids that are out, with their lengths.
LEMMA StepKeepsEntries ==
  ASSUME IInv, IdsPlaced, EntriesPlaced, NEW t \in Threads, BitmapIsCurrent(t), Step(t)
  PROVE  EntriesPlaced'
<1>1. CASE ~NewTid(t) /\ ~Emplace(t)
  <2>1. unique_literal_cnt' = unique_literal_cnt
    BY <1>1, StepKeepsWords DEF SameWords
  <2>2. pc'[t] # "emplace" /\ pc'[t] # "publish"
    BY <1>1, StepMovesLabels DEF LabelsOf, IInv
  <2>3. \A u \in Threads : u # t => pc'[u] = pc[u] /\ tid'[u] = tid[u] /\ job'[u] = job[u]
    BY StepKeepsLocals DEF SameLocals, IInv
  <2>4. /\ DOMAIN literal_map' = DOMAIN literal_map
        /\ \A u \in Threads : u # t /\ pc[u] = "publish" =>
             literal_map'[tid[u]] = literal_map[tid[u]]
    <3>1. CASE ~UpsertWrite(t)
      BY <1>1, <3>1, StepKeepsWords DEF SameWords
    <3>2. CASE UpsertWrite(t)
      <4>1. ASSUME NEW u \in Threads, pc[u] = "publish" PROVE tid[u] # tid[t]
        BY <3>2, <4>1, UpsertWriteEffect DEF IdsPlaced, InFlight
      <4>2. \A u \in Threads : pc[u] = "publish" => tid[u] \in DOMAIN literal_map
        BY DEF IInv, ThreadInv, HeldLiteralExists
      <4> QED
        BY <3>2, <4>1, <4>2, UpsertWriteEffect
    <3> QED
      BY <3>1, <3>2
  <2>5. \A u \in Threads : u # t => keyword(u)' = keyword(u)
    BY <2>3 DEF keyword
  <2>6. \A u \in Threads : pc'[u] = "emplace" => tid'[u] \notin DOMAIN literal_map'
    BY <2>2, <2>3, <2>4 DEF EntriesPlaced
  <2>7. ASSUME NEW u \in Threads, pc'[u] = "publish"
        PROVE  literal_map'[tid'[u]] =
                 [literal_len |-> Len(keyword(u)'), bitmap |-> {Jobs[u][job'[u]].aux}]
    BY <2>2, <2>3, <2>4, <2>5, <2>7 DEF EntriesPlaced
  <2> QED
    BY <2>1, <2>4, <2>6, <2>7 DEF EntriesPlaced
<1> QED
  BY <1>1, NewTidKeepsEntries, EmplaceKeepsEntries

-----------------------------------------------------------------------------
(* The paths of the keywords. *)

LookupIn(c, k) == PathIn(c, k)[Len(k)]

\* A lookup in memory is LookupIn of the present slots, now and after a step.
LEMMA LookupIsLookupIn ==
  ASSUME NEW k
  PROVE  Lookup(k) = LookupIn(children, k) /\ Lookup(k)' = LookupIn(children', k)
BY DEF Lookup, Path, LookupIn, PathIn

\* Keys are non-empty byte sequences, and each job has one.
LEMMA KeysAreKeys ==
  /\ \A k \in Keys : k \in Seq(Bytes) /\ Len(k) \in Nat \ {0}
  /\ \A t \in Threads : \A i \in 1..Len(Jobs[t]) :
       Jobs[t][i] \in AllJobs /\ Key(Jobs[t][i].keyword) \in Keys
<1>1. ASSUME NEW j \in AllJobs PROVE IsKeyword(j.keyword)
  BY JobsAssumption DEF AllJobs, JobsOf, IsJob
<1> QED
  BY <1>1, KeyType DEF Keys, AllJobs, JobsOf

\* The key of the call a thread is in.
LEMMA KeyOfWalk ==
  ASSUME IInv, NEW t \in Threads, pc[t] # "done"
  PROVE  /\ Key(keyword(t)) \in Keys /\ Key(keyword(t)) \in Seq(Bytes)
         /\ job[t] \in 1..Len(Jobs[t]) /\ keyword(t) = Jobs[t][job[t]].keyword
BY StepFacts, KeysAreKeys DEF keyword

\* Distinct pointers and owned nodes make the slots a tree.
LEMMA TrieIsTree ==
  IInv /\ PointersDistinct /\ NodesOwned => SlotArray(children) /\ IsTree(children)
<1> SUFFICES ASSUME IInv, PointersDistinct, NodesOwned
             PROVE  SlotArray(children) /\ IsTree(children)
  OBVIOUS
<1>1. /\ allocated \in Nat /\ allocated <= MaxNodes /\ Root \in 1..allocated
      /\ children \in [NodeIds -> [Bytes -> Int]]
      /\ NodeIds = 1..MaxNodes /\ MaxNodes \in Nat
  BY MaxNodesAssumption DEF IInv, TypeOK, NodeIds, Pointer, Root
<1>2. ASSUME NEW n \in NodeIds, NEW b \in Bytes
      PROVE  children[n][b] <= MaxNodes /\ children[n][b] # Root
  <2>1. /\ children[n][b] <= allocated /\ children[n][b] \in Int
        /\ n > allocated => children[n][b] = Null
    BY <1>1 DEF IInv, SharedInv, FreeNodesBlank
  <2>2. children[n][b] # Root
    <3>1. CASE n > allocated
      BY <2>1, <3>1 DEF Root, Null
    <3>2. CASE n <= allocated
      <4>1. n \in 1..allocated
        BY <1>1, <3>2
      <4> QED
        BY <1>1, <4>1 DEF NodesOwned
    <3> QED
      BY <1>1, <3>1, <3>2
  <2> QED
    BY <1>1, <2>1, <2>2
<1>3. SlotArray(children)
  BY <1>1, <1>2 DEF SlotArray
<1>4. IsTree(children)
  BY <1>2 DEF IsTree, PointersDistinct
<1> QED
  BY <1>3, <1>4

\* Publish extends the path of its key down to the new leaf.
LEMMA PublishPath ==
  ASSUME IInv, NEW t \in Threads, OnPath(t), Publish(t),
         SlotArray(children), SlotArray(children')
  PROVE  /\ LookupIn(children', Key(keyword(t))) = Leaf(tid[t])
         /\ \A i \in Chain(t) : PathIn(children', Key(keyword(t)))[i] = SlotNode(t, i)
<1> DEFINE key == Key(keyword(t))
           at == PathIn(children', Key(keyword(t)))
           S == {i \in Nat : at[i] = IF i = KeyLength(t) THEN Leaf(tid[t])
                                     ELSE SlotNode(t, i)}
<1>1. pc[t] = "publish"
  BY DEF Publish
<1>2. /\ key \in Seq(Bytes) /\ Len(key) = KeyLength(t)
      /\ KeyLength(t) \in Nat \ {0} /\ level[t] \in Nat /\ level[t] < KeyLength(t)
      /\ node[t] \in NodeIds /\ node[t] # Null
  <2>1. node[t] \in NodeIds /\ node[t] # Null
    BY DEF IInv, TypeOK, NodeIds, Null
  <2>2. key \in Seq(Bytes)
    BY <1>1, KeyOfWalk
  <2> QED
    BY <2>1, <2>2, ChainFacts DEF KeyLength
<1>3. level[t] \in S
  <2>1. PathIn(children, key)[level[t]] = node[t]
    BY <1>1, PathIsPathIn DEF OnPath
  <2>2. level[t] \in 0..Len(key)
    BY <1>2
  <2>3. at[level[t]] = node[t]
    <3>1. \A n \in NodeIds : \A b \in Bytes :
            children[n][b] # Null => children'[n][b] = children[n][b]
      BY PublishEffect
    <3> QED
      BY <1>2, <2>1, <2>2, <3>1, PathGrows
  <2> QED
    BY <1>2, <2>3 DEF SlotNode
<1>4. ASSUME NEW i \in level[t]..(KeyLength(t) - 1), i \in S PROVE i + 1 \in S
  <2>1. i \in Chain(t) /\ i \in Nat /\ i + 1 \in 1..Len(key) /\ (i + 1) - 1 = i /\ i # KeyLength(t)
    BY <1>2 DEF Chain
  <2>2. at[i] = SlotNode(t, i) /\ SlotNode(t, i) \in NodeIds
    BY <1>4, <2>1, ChainFacts
  <2>3. at[i] > 0
    BY <2>2 DEF NodeIds
  <2>4. at[i + 1] = children'[at[i]][key[i + 1]]
    <3>1. Len(key) \in Nat
      BY <1>2
    <3>2. at[i + 1] = IF at[(i + 1) - 1] > 0 THEN children'[at[(i + 1) - 1]][key[i + 1]] ELSE Null
      BY <2>1, <3>1, PathSteps
    <3> HIDE DEF at, key
    <3> QED
      BY <2>1, <2>3, <3>2
  <2>5. at[i + 1] = ChainNext(t, i)
    BY <2>1, <2>2, <2>4, PublishSlots DEF SlotByte
  <2>6. CASE i = KeyLength(t) - 1
    BY <1>2, <2>1, <2>5, <2>6, ChainFacts
  <2>7. CASE i # KeyLength(t) - 1
    <3>1. i + 1 \in Chain(t) /\ i + 1 # level[t] /\ i + 1 # KeyLength(t)
      BY <1>2, <2>1, <2>7 DEF Chain
    <3>2. ChainNext(t, i) = allocated + KeyLength(t) - (i + 1)
      BY <2>1, <2>7, ChainFacts
    <3>3. SlotNode(t, i + 1) = allocated + KeyLength(t) - (i + 1)
      BY <3>1, ChainFacts
    <3> QED
      BY <2>1, <2>5, <3>1, <3>2, <3>3
  <2> QED
    BY <2>6, <2>7
<1>5. \A i \in level[t]..KeyLength(t) : i \in S
  <2> HIDE DEF S
  <2> QED
    BY <1>2, <1>3, <1>4, InductionUpTo
<1>6. \A i \in Chain(t) : at[i] = SlotNode(t, i)
  <2> SUFFICES ASSUME NEW i \in Chain(t) PROVE at[i] = SlotNode(t, i)
    OBVIOUS
  <2>1. i \in level[t]..KeyLength(t) /\ i # KeyLength(t)
    BY <1>2 DEF Chain
  <2> QED
    BY <1>5, <2>1
<1> QED
  BY <1>2, <1>5, <1>6 DEF LookupIn

\* What a step does to the keywords that are found: Publish finds its own.
LookupsAfter(t) ==
  /\ Publish(t) => LookupIn(children', Key(keyword(t))) = Leaf(tid[t])
  /\ \A k \in Keys :
       /\ isLeaf(LookupIn(children, k)) => LookupIn(children', k) = LookupIn(children, k)
       /\ isLeaf(LookupIn(children', k)) =>
            \/ LookupIn(children', k) = LookupIn(children, k)
            \/ Publish(t) /\ k = Key(keyword(t))

\* What a lookup finds stands in some slot.
LEMMA LeafOnPath ==
  ASSUME NEW c, SlotArray(c), NEW k \in Keys, LookupIn(c, k) # Null
  PROVE  \E n \in NodeIds : \E b \in Bytes : c[n][b] = LookupIn(c, k)
<1>1. k \in Seq(Bytes) /\ Len(k) \in 1..Len(k)
  BY KeysAreKeys
<1>2. /\ k[Len(k)] \in Bytes /\ PathIn(c, k)[Len(k) - 1] \in NodeIds
      /\ PathIn(c, k)[Len(k)] = c[PathIn(c, k)[Len(k) - 1]][k[Len(k)]]
  BY <1>1, PathBack DEF LookupIn
<1> QED
  BY <1>2 DEF LookupIn

\* What a step does to all lookups at once: they stay as they are, but for the key of a
\* thread that stores its chain, which is found from then on under that thread's id.
LEMMA StepLookups ==
  ASSUME IInv, IInv', PointersDistinct, NodesOwned, PointersDistinct', NodesOwned',
         IdsPlaced, LeavesHaveKeys, NEW t \in Threads, OnPath(t), Step(t)
  PROVE  LookupsAfter(t)
<1>1. SlotArray(children) /\ IsTree(children)
  BY TrieIsTree
<1>2. SlotArray(children') /\ IsTree(children')
  <2>1. (SlotArray(children) /\ IsTree(children))'
    BY TrieIsTree, PTL
  <2> QED
    BY <2>1
<1>3. CASE ~Publish(t)
  <2>1. children' = children
    BY <1>3, StepKeepsWords DEF SameWords
  <2> QED
    BY <1>3, <2>1 DEF LookupsAfter
<1>4. CASE Publish(t)
  <2>1. LookupIn(children', Key(keyword(t))) = Leaf(tid[t])
    BY <1>1, <1>2, <1>4, PublishPath
  <2>2. \A n \in NodeIds : \A b \in Bytes :
          children[n][b] # Null => children'[n][b] = children[n][b]
    BY <1>4, PublishEffect
  <2>3. ASSUME NEW k \in Keys, LookupIn(children, k) # Null
        PROVE  LookupIn(children', k) = LookupIn(children, k)
    <3>1. k \in Seq(Bytes) /\ Len(k) \in 0..Len(k)
      BY KeysAreKeys
    <3> QED
      BY <1>1, <1>2, <2>2, <2>3, <3>1, PathGrows DEF LookupIn
  <2>4. ASSUME NEW k \in Keys, isLeaf(LookupIn(children', k))
        PROVE  LookupIn(children', k) = LookupIn(children, k) \/ k = Key(keyword(t))
    <3>1. k \in Seq(Bytes) /\ LookupIn(children', k) # Null /\ ~isLeaf(Null)
      BY <2>4, KeysAreKeys DEF isLeaf, Null
    <3>2. PICK n \in NodeIds, b \in Bytes : children'[n][b] = LookupIn(children', k)
      BY <1>2, <3>1, LeafOnPath
    <3>3. CASE children'[n][b] = children[n][b]
      <4>1. PICK l \in Keys : Lookup(l) = children[n][b]
        BY <2>4, <3>2, <3>3 DEF LeavesHaveKeys
      <4>2. LookupIn(children, l) = children[n][b]
        BY <4>1, LookupIsLookupIn
      <4>3. LookupIn(children', l) = LookupIn(children', k)
        BY <2>3, <3>1, <3>2, <3>3, <4>2
      <4>4. l = k
        BY <1>2, <3>1, <4>3, KeysAreKeys, LookupInjective DEF LookupIn
      <4> QED
        BY <3>2, <3>3, <4>2, <4>4
    <3>4. CASE children'[n][b] # children[n][b]
      <4>1. isLeaf(children'[n][b]) /\ children'[n][b] # Null
        BY <2>4, <3>1, <3>2
      <4>2. auxIndex(children'[n][b]) = tid[t] /\ children'[n][b] \in Int
        BY <1>4, <3>4, <4>1, PublishEffect
      <4>3. tid[t] \in Nat
        BY DEF IInv, TypeOK
      <4>4. children'[n][b] = Leaf(tid[t])
        BY <4>1, <4>2, <4>3, LeafIsId
      <4>5. Key(keyword(t)) \in Seq(Bytes)
        BY <1>4, KeyOfWalk DEF Publish
      <4>6. k = Key(keyword(t))
        BY <1>2, <2>1, <3>1, <3>2, <4>4, <4>5, LookupInjective DEF LookupIn
      <4> QED
        BY <4>6
    <3> QED
      BY <3>3, <3>4
  <2>5. \A k \in Keys : isLeaf(LookupIn(children, k)) => LookupIn(children, k) # Null
    BY DEF isLeaf, Null
  <2> QED
    BY <1>4, <2>1, <2>3, <2>4, <2>5 DEF LookupsAfter
<1> QED
  BY <1>3, <1>4

-----------------------------------------------------------------------------
(* What a walk relies on stays true. *)

\* A step extends paths and changes none.
LEMMA StepGrows ==
  ASSUME IInv, SlotArray(children), SlotArray(children'), NEW t \in Threads, Step(t)
  PROVE  /\ \A n \in NodeIds : \A b \in Bytes :
              children[n][b] # Null => children'[n][b] = children[n][b]
         /\ \A k \in Keys : \A i \in 0..Len(k) :
              PathIn(children, k)[i] # Null =>
                PathIn(children', k)[i] = PathIn(children, k)[i]
<1>1. \A n \in NodeIds : \A b \in Bytes :
        children[n][b] # Null => children'[n][b] = children[n][b]
  <2>1. CASE ~Publish(t)
    <3>1. children' = children
      BY <2>1, StepKeepsWords DEF SameWords
    <3> QED
      BY <3>1
  <2>2. CASE Publish(t)
    BY <2>2, PublishEffect
  <2> QED
    BY <2>1, <2>2
<1>2. ASSUME NEW k \in Keys, NEW i \in 0..Len(k), PathIn(children, k)[i] # Null
      PROVE  PathIn(children', k)[i] = PathIn(children, k)[i]
  BY <1>1, <1>2, KeysAreKeys, PathGrows
<1> QED
  BY <1>1, <1>2

\* A walking thread stands on a node of the tree.
LEMMA NodeOfWalk ==
  ASSUME IInv, NEW t \in Threads
  PROVE  node[t] \in NodeIds /\ node[t] > 0 /\ node[t] # Null
<1>1. node[t] \in NodeIds
  BY DEF IInv, TypeOK
<1> QED
  BY <1>1 DEF NodeIds, Null

\* The next pointer on the path of a walk.
LEMMA PathOfWalk ==
  ASSUME IInv, SlotArray(children), NEW t \in Threads, OnPath(t), pc[t] # "done"
  PROVE  /\ level[t] \in 0..Len(Key(keyword(t))) /\ level[t] + 1 \in 1..Len(Key(keyword(t)))
         /\ PathIn(children, Key(keyword(t)))[level[t]] = node[t]
         /\ PathIn(children, Key(keyword(t)))[level[t] + 1] = children[node[t]][nodeKey(t)]
         /\ isLeaf(children[node[t]][nodeKey(t)]) =>
              LookupIn(children, Key(keyword(t))) = children[node[t]][nodeKey(t)]
<1> DEFINE key == Key(keyword(t))
           at == PathIn(children, Key(keyword(t)))
<1>1. /\ Len(key) \in Nat \ {0} /\ level[t] \in 0..(Len(key) - 1) /\ node[t] \in NodeIds
      /\ node[t] > 0 /\ nodeKey(t) \in Bytes /\ nodeKey(t) = key[level[t] + 1]
      /\ nodeKey(t) = NULL_TERMINATOR <=> level[t] = Len(key) - 1
  <2>1. nodeKey(t) = key[level[t] + 1]
    BY DEF nodeKey
  <2> QED
    BY <2>1, StepFacts, NodeOfWalk
<1>2. at[level[t]] = node[t]
  BY PathIsPathIn DEF OnPath
<1>3. level[t] + 1 \in 1..Len(key) /\ (level[t] + 1) - 1 = level[t] /\ level[t] \in 0..Len(key)
  BY <1>1
<1>4. at[level[t] + 1] =
        IF at[(level[t] + 1) - 1] > 0 THEN children[at[(level[t] + 1) - 1]][key[level[t] + 1]]
        ELSE Null
  BY <1>1, <1>3, PathSteps
<1>5. at[level[t] + 1] = children[node[t]][nodeKey(t)]
  <2> HIDE DEF at, key
  <2> QED
    BY <1>1, <1>2, <1>3, <1>4
<1>6. ASSUME isLeaf(children[node[t]][nodeKey(t)])
      PROVE  LookupIn(children, key) = children[node[t]][nodeKey(t)]
  <2>1. children[node[t]][nodeKey(t)] # Null
    BY <1>6 DEF isLeaf, Null
  <2>2. nodeKey(t) = NULL_TERMINATOR
    BY <1>1, <1>6, <2>1 DEF IInv, SharedInv, NulMeansLeaf
  <2>3. Len(key) = level[t] + 1
    BY <1>1, <2>2
  <2> QED
    BY <1>5, <2>3 DEF LookupIn
<1> QED
  BY <1>2, <1>3, <1>5, <1>6

\* A thread keeps standing on the path of its own key, whoever steps.
LEMMA StepKeepsOnPath ==
  ASSUME IInv, SlotArray(children), SlotArray(children'), NEW t \in Threads, Step(t),
         NEW u \in Threads, OnPath(u), ReadIsThere(u), JobInRange(u)', pc'[u] # "done"
  PROVE  OnPath(u)'
<1>1. SUFFICES PathIn(children', Key(Jobs[u][job'[u]].keyword))[level'[u]] = node'[u]
  BY PathIsPathIn DEF OnPath, keyword, Path, PathIn
<1>2. SameLocals(t) /\ LabelsOf(t)
  BY StepKeepsLocals, StepMovesLabels DEF IInv
<1>3. pc[u] # "done"
  BY <1>2 DEF SameLocals
<1>4. /\ Key(keyword(u)) \in Keys /\ keyword(u) = Jobs[u][job[u]].keyword
      /\ node[u] \in NodeIds /\ node[u] # Null /\ node[u] > 0
  BY <1>3, KeyOfWalk, NodeOfWalk
<1>5. CASE node'[u] = node[u] /\ level'[u] = level[u] /\ job'[u] = job[u]
  BY <1>3, <1>4, <1>5, PathOfWalk, StepGrows
<1>6. CASE u = t /\ (Restart(t) \/ Unlock(t))
  <2>1. node'[t] = Root /\ level'[t] = 0
    BY <1>6 DEF Restart, Unlock, FromRoot, IInv, TypeOK
  <2>2. job'[t] \in 1..Len(Jobs[t])
    <3>1. CASE Restart(t)
      BY <1>3, <1>6, <3>1, StepFacts DEF Restart
    <3>2. CASE Unlock(t)
      <4>1. job[t] \in 1..Len(Jobs[t]) /\ Len(Jobs[t]) \in Nat
        BY <1>3, <1>6, StepFacts
      <4>2. job[t] < Len(Jobs[t])
        BY <1>6, <3>2 DEF Unlock, Goto, IInv, TypeOK
      <4>3. job'[t] = job[t] + 1
        BY <3>2 DEF Unlock, IInv, TypeOK
      <4> QED
        BY <4>1, <4>2, <4>3
    <3> QED
      BY <1>6, <3>1, <3>2
  <2>3. Len(Key(Jobs[t][job'[t]].keyword)) \in Nat
    BY <2>2, KeysAreKeys
  <2> QED
    BY <1>6, <2>1, <2>3, PathSteps
<1>7. CASE u = t /\ CheckParent(t) /\ ~isLeaf(nextNode[t])
  <2>1. /\ pc[t] = "checkParent" /\ node'[t] = nextNode[t] /\ level'[t] = level[t] + 1
        /\ job' = job /\ children' = children
    BY <1>7 DEF CheckParent, walkVars, nodeVars, IInv, TypeOK
  <2>2. nextNode[t] # Null
    BY <2>1 DEF IInv, ThreadInv, ReadPointer
  <2>3. children[node[t]][nodeKey(t)] = nextNode[t]
    BY <1>7, <2>1, <2>2 DEF ReadIsThere, AfterRead
  <2> QED
    BY <1>3, <1>4, <1>7, <2>1, <2>3, PathOfWalk
<1>8. CASE u = t /\ CheckParent(t) /\ isLeaf(nextNode[t])
  <2>1. node' = node /\ level' = level /\ job' = job
    BY <1>8 DEF CheckParent, walkVars
  <2> QED
    BY <1>5, <2>1
<1>9. CASE u # t \/ ~(Restart(t) \/ Unlock(t) \/ CheckParent(t))
  BY <1>2, <1>5, <1>9 DEF SameLocals
<1> QED
  BY <1>6, <1>7, <1>8, <1>9

\* What a thread has read and still believes is still in its slot after any step.
LEMMA StepKeepsRead ==
  ASSUME IInv, SlotArray(children), SlotArray(children'), NEW t \in Threads, Step(t),
         NEW u \in Threads, ReadIsThere(u)
  PROVE  ReadIsThere(u)'
<1>1. SUFFICES ASSUME pc'[u] \in AfterRead \cup {"upsertRead"}, nextNode'[u] # Null
               PROVE  children'[node'[u]][nodeKey(u)'] = nextNode'[u]
  BY DEF ReadIsThere
<1>2. SameLocals(t) /\ LabelsOf(t)
  BY StepKeepsLocals, StepMovesLabels DEF IInv
<1>3. CASE u = t /\ ReadChild(t)
  BY <1>3 DEF ReadChild, nodeVars, IInv, TypeOK, nodeKey, keyword
<1>4. CASE ~(u = t /\ ReadChild(t))
  <2>1. pc[u] \in AfterRead \cup {"upsertRead"} /\ pc[u] # "done"
    BY <1>1, <1>2, <1>4 DEF SameLocals, LabelsOf, AfterRead
  <2>2. /\ node'[u] = node[u] /\ level'[u] = level[u] /\ job'[u] = job[u]
        /\ nextNode'[u] = nextNode[u]
    <3>1. CASE u # t
      BY <1>2, <3>1 DEF SameLocals
    <3>2. CASE u = t /\ CheckParent(t)
      <4>1. pc'[t] # "readLock" /\ pc \in [Threads -> Locals]
        BY <1>1, <3>2 DEF AfterRead, IInv, TypeOK
      <4> QED
        BY <3>2, <4>1 DEF CheckParent, Goto, walkVars
    <3>3. CASE u = t /\ ~CheckParent(t)
      BY <1>1, <1>2, <1>4, <3>3 DEF SameLocals, LabelsOf
    <3> QED
      BY <3>1, <3>2, <3>3
  <2>3. nodeKey(u)' = nodeKey(u)
    BY <2>2 DEF nodeKey, keyword
  <2>4. children[node[u]][nodeKey(u)] = nextNode[u] /\ nextNode[u] # Null
    BY <1>1, <2>1, <2>2 DEF ReadIsThere
  <2>5. node[u] \in NodeIds /\ nodeKey(u) \in Bytes
    BY <2>1, StepFacts DEF IInv, TypeOK
  <2>6. children'[node[u]][nodeKey(u)] = children[node[u]][nodeKey(u)]
    BY <2>4, <2>5, StepGrows
  <2> QED
    BY <2>2, <2>3, <2>4, <2>6
<1> QED
  BY <1>3, <1>4

\* Entries are kept, and occurrences in them.
EntriesGrow ==
  \A id \in DOMAIN literal_map :
    /\ id \in DOMAIN literal_map'
    /\ literal_map[id].bitmap \subseteq literal_map'[id].bitmap
    /\ literal_map'[id].literal_len = literal_map[id].literal_len

\* Entries grow only, and but for the bitmap of a leaf's writer they stay as they are.
LEMMA StepKeepsLiterals ==
  ASSUME IInv, EntriesPlaced, NEW t \in Threads, BitmapIsCurrent(t), Step(t)
  PROVE  /\ EntriesGrow
         /\ \A id \in DOMAIN literal_map :
              literal_map'[id] = literal_map[id] \/ (UpsertWrite(t) /\ id = tid[t])
<1>1. CASE ~Emplace(t) /\ ~UpsertWrite(t)
  BY <1>1, StepKeepsWords DEF SameWords, EntriesGrow
<1>2. CASE Emplace(t)
  BY <1>2, EmplaceEffect DEF EntriesGrow
<1>3. CASE UpsertWrite(t)
  <2>1. ASSUME NEW id \in DOMAIN literal_map
        PROVE  /\ id \in DOMAIN literal_map'
               /\ literal_map[id].bitmap \subseteq literal_map'[id].bitmap
               /\ literal_map'[id].literal_len = literal_map[id].literal_len
               /\ literal_map'[id] = literal_map[id] \/ (UpsertWrite(t) /\ id = tid[t])
    <3>1. CASE id = tid[t]
      BY <1>3, <3>1, UpsertWriteEffect
    <3>2. CASE id # tid[t]
      BY <1>3, <3>2, UpsertWriteEffect
    <3> QED
      BY <3>1, <3>2
  <2> QED
    BY <2>1 DEF EntriesGrow
<1> QED
  BY <1>1, <1>2, <1>3

\* A bitmap read under the lock is still the entry's when it is written back: nobody
\* else writes this entry meanwhile, since its leaf has one node and that node is locked.
LEMMA StepKeepsBitmap ==
  ASSUME IInv, SlotArray(children), SlotArray(children'), PointersDistinct, EntriesPlaced,
         NEW t \in Threads, Step(t), BitmapIsCurrent(t), ReadIsThere(t),
         NEW u \in Threads, BitmapIsCurrent(u)
  PROVE  BitmapIsCurrent(u)'
<1>1. SUFFICES ASSUME pc'[u] = "upsertWrite"
               PROVE  /\ children'[node'[u]][nodeKey(u)'] = Leaf(tid'[u])
                      /\ bitmap'[u] = literal_map'[tid'[u]].bitmap
  BY DEF BitmapIsCurrent
<1>2. SameLocals(t) /\ LabelsOf(t) /\ TypeOK
  BY StepKeepsLocals, StepMovesLabels DEF IInv
<1>3. CASE u = t
  <2>1. UpsertRead(t) /\ pc[t] = "upsertRead"
    BY <1>1, <1>2, <1>3 DEF LabelsOf, UpsertRead
  <2>2. /\ isLeaf(nextNode[t]) /\ nextNode[t] \in Int /\ nextNode[t] # Null
    BY <2>1, StepFacts DEF ThreadInv, ReadPointer, isLeaf, Null
  <2>3. children[node[t]][nodeKey(t)] = nextNode[t]
    BY <2>1, <2>2 DEF ReadIsThere
  <2>4. /\ tid'[t] = auxIndex(nextNode[t])
        /\ bitmap'[t] = literal_map[auxIndex(nextNode[t])].bitmap
        /\ literal_map' = literal_map /\ children' = children /\ node' = node
        /\ nodeKey(t)' = nodeKey(t)
    BY <1>2, <2>1 DEF UpsertRead, nodeVars, literalVars, walkVars, TypeOK, nodeKey, keyword
  <2>5. Leaf(tid'[t]) = nextNode[t]
    BY <2>2, <2>4, LeafIsId
  <2> QED
    BY <1>3, <2>3, <2>4, <2>5
<1>4. CASE u # t
  <2>1. /\ pc[u] = "upsertWrite" /\ node'[u] = node[u] /\ tid'[u] = tid[u]
        /\ bitmap'[u] = bitmap[u] /\ nodeKey(u)' = nodeKey(u)
    BY <1>1, <1>2, <1>4 DEF SameLocals, nodeKey, keyword
  <2>2. /\ children[node[u]][nodeKey(u)] = Leaf(tid[u])
        /\ bitmap[u] = literal_map[tid[u]].bitmap
    BY <2>1 DEF BitmapIsCurrent
  <2>3. /\ node[u] \in NodeIds /\ nodeKey(u) \in Bytes /\ tid[u] \in Nat
        /\ tid[u] \in DOMAIN literal_map
    BY <2>1, StepFacts, NodeOfWalk DEF ThreadInv, HeldLiteralExists
  <2>4. children[node[u]][nodeKey(u)] # Null
    BY <2>2, <2>3 DEF Leaf, Null
  <2>5. children'[node[u]][nodeKey(u)] = Leaf(tid[u])
    BY <2>2, <2>3, <2>4, StepGrows
  <2>6. ~(UpsertWrite(t) /\ tid[u] = tid[t])
    <3>1. SUFFICES ASSUME UpsertWrite(t), tid[u] = tid[t] PROVE FALSE
      OBVIOUS
    <3>2. pc[t] = "upsertWrite" /\ children[node[t]][nodeKey(t)] = Leaf(tid[t])
      BY <3>1 DEF UpsertWrite, BitmapIsCurrent
    <3>3. node[t] \in NodeIds /\ nodeKey(t) \in Bytes
      BY <3>2, StepFacts, NodeOfWalk
    <3>4. children[node[u]][nodeKey(u)] = children[node[t]][nodeKey(t)]
      BY <2>2, <3>1, <3>2
    <3>5. node[u] = node[t]
      BY <2>3, <2>4, <3>3, <3>4 DEF PointersDistinct
    <3> QED
      BY <1>4, <2>1, <3>2, <3>5 DEF IInv, WriteLockExclusive, WriteSection
  <2>7. literal_map'[tid[u]] = literal_map[tid[u]]
    BY <2>3, <2>6, StepKeepsLiterals
  <2> QED
    BY <2>1, <2>2, <2>5, <2>7
<1> QED
  BY <1>3, <1>4

\* Applied, for a call that is given by its place in the list.
LEMMA AppliedIn ==
  ASSUME NEW t \in Threads, NEW i
  PROVE  /\ Applied(t, i) <=>
              LET p == LookupIn(children, Key(Jobs[t][i].keyword))
              IN  /\ isLeaf(p) /\ auxIndex(p) \in DOMAIN literal_map
                  /\ Jobs[t][i].aux \in literal_map[auxIndex(p)].bitmap
         /\ Applied(t, i)' <=>
              LET p == LookupIn(children', Key(Jobs[t][i].keyword))
              IN  /\ isLeaf(p) /\ auxIndex(p) \in DOMAIN literal_map'
                  /\ Jobs[t][i].aux \in literal_map'[auxIndex(p)].bitmap
BY DEF Applied, LiteralOf, Lookup, Path, LookupIn, PathIn

\* A call that has taken effect keeps it.
LEMMA StepKeepsApplied ==
  ASSUME NEW t \in Threads, LookupsAfter(t), EntriesGrow,
         NEW u \in Threads, NEW i \in 1..Len(Jobs[u]), Applied(u, i)
  PROVE  Applied(u, i)'
<1> DEFINE k == Key(Jobs[u][i].keyword)
           p == LookupIn(children, k)
<1>1. k \in Keys
  BY KeysAreKeys
<1>2. /\ isLeaf(p) /\ auxIndex(p) \in DOMAIN literal_map
      /\ Jobs[u][i].aux \in literal_map[auxIndex(p)].bitmap
  BY AppliedIn
<1>3. LookupIn(children', k) = p
  BY <1>1, <1>2 DEF LookupsAfter
<1>4. auxIndex(p) \in DOMAIN literal_map' /\ Jobs[u][i].aux \in literal_map'[auxIndex(p)].bitmap
  BY <1>2 DEF EntriesGrow
<1> QED
  BY <1>2, <1>3, <1>4, AppliedIn

\* A thread that has reached its unlock has taken effect.
LEMMA StepKeepsAppliedBeforeUnlock ==
  ASSUME IInv, SlotArray(children), NEW t \in Threads, Step(t), LookupsAfter(t), EntriesGrow,
         EntriesPlaced, OnPath(t), BitmapIsCurrent(t), NEW u \in Threads, AppliedBeforeUnlock(u)
  PROVE  AppliedBeforeUnlock(u)'
<1>1. SUFFICES ASSUME pc'[u] \in {"countRead", "countWrite", "unlock"},
                      NEW i \in 1..Len(Jobs[u]), i = job'[u]
               PROVE  Applied(u, i)'
  BY DEF AppliedBeforeUnlock
<1>2. SameLocals(t) /\ LabelsOf(t)
  BY StepKeepsLocals, StepMovesLabels DEF IInv
<1>3. pc[u] # "done" /\ job'[u] = job[u]
  <2>1. CASE u # t
    BY <1>1, <1>2, <2>1 DEF SameLocals
  <2>2. CASE u = t /\ ~Unlock(t)
    BY <1>2, <2>2 DEF SameLocals
  <2>3. CASE u = t /\ Unlock(t)
    <3>1. pc'[t] \in {"readLock", "done"}
      BY <2>3 DEF Unlock, Goto, IInv, TypeOK
    <3> QED
      BY <1>1, <2>3, <3>1
  <2> QED
    BY <2>1, <2>2, <2>3
<1>4. CASE pc[u] \in {"countRead", "countWrite", "unlock"}
  BY <1>1, <1>3, <1>4, StepKeepsApplied DEF AppliedBeforeUnlock
<1>5. CASE pc[u] \notin {"countRead", "countWrite", "unlock"}
  <2>1. u = t /\ (Publish(t) \/ UpsertWrite(t))
    BY <1>1, <1>2, <1>5 DEF SameLocals, LabelsOf
  <2> DEFINE k == Key(Jobs[u][i].keyword)
             occurrence == Jobs[u][i].aux
  <2>2. /\ Key(keyword(t)) = k /\ Jobs[t][job[t]].aux = occurrence /\ tid[t] \in Nat
        /\ k \in Keys
    BY <1>1, <1>3, <2>1, KeysAreKeys DEF keyword, IInv, TypeOK
  <2> HIDE DEF k, occurrence
  <2>3. isLeaf(Leaf(tid[t])) /\ auxIndex(Leaf(tid[t])) = tid[t]
    BY <2>2 DEF Leaf, isLeaf, auxIndex
  <2>4. LookupIn(children', k) = Leaf(tid[t])
    <3>1. CASE Publish(t)
      BY <2>2, <3>1 DEF LookupsAfter
    <3>2. CASE UpsertWrite(t)
      <4>1. children[node[t]][nodeKey(t)] = Leaf(tid[t]) /\ pc[t] = "upsertWrite"
        BY <3>2, UpsertWriteEffect
      <4>2. LookupIn(children, k) = Leaf(tid[t])
        BY <2>2, <2>3, <4>1, PathOfWalk
      <4> QED
        BY <2>2, <2>3, <4>2 DEF LookupsAfter
    <3> QED
      BY <2>1, <3>1, <3>2
  <2>5. tid[t] \in DOMAIN literal_map' /\ occurrence \in literal_map'[tid[t]].bitmap
    <3>1. CASE Publish(t)
      <4>1. pc[t] = "publish" /\ literal_map' = literal_map
        BY <3>1 DEF Publish, literalVars
      <4>2. tid[t] \in DOMAIN literal_map /\ literal_map[tid[t]].bitmap = {occurrence}
        <5>1. tid[t] \in DOMAIN literal_map
          BY <4>1 DEF IInv, ThreadInv, HeldLiteralExists
        <5>2. literal_map[tid[t]] =
                [literal_len |-> Len(keyword(t)), bitmap |-> {Jobs[t][job[t]].aux}]
          BY <4>1 DEF EntriesPlaced
        <5> QED
          BY <2>2, <5>1, <5>2
      <4> QED
        BY <4>1, <4>2
    <3>2. CASE UpsertWrite(t)
      BY <2>2, <3>2, UpsertWriteEffect
    <3> QED
      BY <2>1, <3>1, <3>2
  <2> QED
    BY <2>3, <2>4, <2>5, AppliedIn DEF k, occurrence
<1> QED
  BY <1>4, <1>5

\* Calls are made in order and never taken back.
LEMMA StepKeepsJobs ==
  ASSUME IInv, NEW t \in Threads, Step(t), NEW u \in Threads, JobInRange(u)
  PROVE  JobInRange(u)' /\ job[u] <= job'[u]
<1>1. SameLocals(t) /\ job \in [Threads -> Nat] /\ Len(Jobs[u]) \in Nat
  BY StepKeepsLocals, JobsAssumption DEF IInv, TypeOK
<1>2. CASE u = t /\ Unlock(t)
  <2>1. pc[t] # "done" /\ job'[t] = job[t] + 1
    BY <1>1, <1>2 DEF SameLocals, Unlock
  <2>2. job[t] \in 1..Len(Jobs[t])
    BY <2>1, StepFacts
  <2> QED
    BY <1>1, <1>2, <2>1, <2>2 DEF JobInRange
<1>3. CASE ~(u = t /\ Unlock(t))
  <2>1. job'[u] = job[u]
    BY <1>1, <1>3 DEF SameLocals
  <2> QED
    BY <1>1, <2>1 DEF JobInRange
<1> QED
  BY <1>2, <1>3

\* What has been inserted and returned is found, with its occurrence, after any step.
LEMMA StepKeepsInserted ==
  ASSUME IInv, NEW t \in Threads, Step(t), LookupsAfter(t), EntriesGrow,
         \A u \in Threads : JobInRange(u), AppliedBeforeUnlock(t), InsertedStaysFound
  PROVE  InsertedStaysFound'
<1>1. SUFFICES ASSUME NEW u \in Threads, NEW i \in 1..(job'[u] - 1)
               PROVE  Applied(u, i)'
  BY DEF InsertedStaysFound, Applied
<1>2. /\ SameLocals(t) /\ job \in [Threads -> Nat] /\ Len(Jobs[u]) \in Nat
      /\ job[u] \in 1..(Len(Jobs[u]) + 1)
  BY StepKeepsLocals, JobsAssumption DEF IInv, TypeOK, JobInRange
<1>3. CASE i \in 1..(job[u] - 1)
  <2>1. Applied(u, i) /\ i \in 1..Len(Jobs[u])
    BY <1>2, <1>3 DEF InsertedStaysFound, Applied
  <2> QED
    BY <2>1, StepKeepsApplied
<1>4. CASE i \notin 1..(job[u] - 1)
  <2>1. u = t /\ Unlock(t)
    BY <1>1, <1>2, <1>4 DEF SameLocals
  <2>2. pc[t] = "unlock" /\ job'[t] = job[t] + 1
    BY <1>2, <2>1 DEF Unlock
  <2>3. i = job[t] /\ i \in 1..Len(Jobs[t])
    BY <1>1, <1>2, <1>4, <2>1, <2>2, StepFacts
  <2>4. Applied(t, i)
    BY <2>2, <2>3 DEF AppliedBeforeUnlock
  <2> QED
    BY <2>1, <2>3, <2>4, StepKeepsApplied
<1> QED
  BY <1>3, <1>4

\* The occurrences of a keyword that the calls begun so far account for.
Begun(k, occurrence) ==
  \E t \in Threads : \E i \in 1..Len(Jobs[t]) :
    i <= job[t] /\ Key(Jobs[t][i].keyword) = k /\ Jobs[t][i].aux = occurrence

ExactIn(c, m, k) ==
  isLeaf(LookupIn(c, k)) =>
    /\ auxIndex(LookupIn(c, k)) \in DOMAIN m
    /\ \E j \in AllJobs :
         Key(j.keyword) = k /\ m[auxIndex(LookupIn(c, k))].literal_len = Len(j.keyword)

\* OccurrencesExact, said of the slots and entries alone, key by key.
LEMMA OccurrencesExactIn ==
  OccurrencesExact <=>
    \A k \in Keys :
      /\ ExactIn(children, literal_map, k)
      /\ isLeaf(LookupIn(children, k)) =>
           \A occurrence \in literal_map[auxIndex(LookupIn(children, k))].bitmap :
             Begun(k, occurrence)
BY DEF OccurrencesExact, ExactIn, Begun, FoundKeys, LiteralOf, Lookup, Path, LookupIn, PathIn

\* No step adds an occurrence nobody asked for, nor a literal with the wrong length.
LEMMA StepKeepsExact ==
  ASSUME IInv, IInv', PointersDistinct, NodesOwned, NEW t \in Threads, Step(t),
         LookupsAfter(t), EntriesPlaced, OnPath(t), BitmapIsCurrent(t), OccurrencesExact,
         \A u \in Threads : JobInRange(u)
  PROVE  OccurrencesExact'
<1>1. \A k, occurrence : Begun(k, occurrence) => Begun(k, occurrence)'
  <2>1. \A u \in Threads : /\ job[u] \in Int /\ job'[u] \in Int /\ job[u] <= job'[u]
                           /\ Len(Jobs[u]) \in Nat
    <3> TAKE u \in Threads
    <3>1. JobInRange(u)' /\ job[u] <= job'[u]
      BY StepKeepsJobs
    <3>2. job \in [Threads -> Nat]
      BY DEF IInv, TypeOK
    <3>3. Len(Jobs[u]) \in Nat
      BY JobsAssumption
    <3> QED
      BY <3>1, <3>2, <3>3 DEF JobInRange
  <2> SUFFICES ASSUME NEW k, NEW occurrence, Begun(k, occurrence) PROVE Begun(k, occurrence)'
    OBVIOUS
  <2>2. PICK u \in Threads : \E i \in 1..Len(Jobs[u]) :
          i <= job[u] /\ Key(Jobs[u][i].keyword) = k /\ Jobs[u][i].aux = occurrence
    BY DEF Begun
  <2>3. PICK i \in 1..Len(Jobs[u]) :
          i <= job[u] /\ Key(Jobs[u][i].keyword) = k /\ Jobs[u][i].aux = occurrence
    BY <2>2
  <2>4. i <= job'[u]
    BY <2>1, <2>3
  <2> QED
    BY <2>3, <2>4 DEF Begun
<1>2. pc[t] # "done" /\ tid[t] \in Nat
  BY StepKeepsLocals DEF IInv, SameLocals, TypeOK
<1>3. Begun(Key(keyword(t)), Jobs[t][job[t]].aux)
  <2>1. job[t] \in 1..Len(Jobs[t]) /\ job[t] <= job[t]
    BY <1>2, StepFacts
  <2> QED
    BY <2>1 DEF Begun, keyword
<1>4. isLeaf(Leaf(tid[t])) /\ auxIndex(Leaf(tid[t])) = tid[t]
  BY <1>2 DEF Leaf, isLeaf, auxIndex
<1>5. ASSUME NEW k \in Keys, isLeaf(LookupIn(children', k))
      PROVE  /\ ExactIn(children', literal_map', k)
             /\ \A occurrence \in literal_map'[auxIndex(LookupIn(children', k))].bitmap :
                  Begun(k, occurrence)'
  <2> DEFINE id == auxIndex(LookupIn(children', k))
  <2>1. CASE LookupIn(children', k) = LookupIn(children, k)
    <3>1. /\ id \in DOMAIN literal_map
          /\ \A occurrence \in literal_map[id].bitmap : Begun(k, occurrence)
          /\ \E j \in AllJobs : Key(j.keyword) = k /\ literal_map[id].literal_len = Len(j.keyword)
      BY <1>5, <2>1, OccurrencesExactIn DEF ExactIn
    <3>2. id \in DOMAIN literal_map' /\ literal_map'[id].literal_len = literal_map[id].literal_len
      BY <3>1, StepKeepsLiterals DEF EntriesGrow
    <3>3. ExactIn(children', literal_map', k)
      BY <3>1, <3>2 DEF ExactIn
    <3>4. ASSUME NEW occurrence \in literal_map'[id].bitmap PROVE Begun(k, occurrence)'
      <4>1. CASE literal_map'[id] = literal_map[id]
        BY <1>1, <3>1, <3>4, <4>1
      <4>2. CASE UpsertWrite(t) /\ id = tid[t]
        <5>1. occurrence \in literal_map[id].bitmap \/ occurrence = Jobs[t][job[t]].aux
          BY <3>4, <4>2, UpsertWriteEffect
        <5>2. k = Key(keyword(t))
          <6>1. SlotArray(children) /\ IsTree(children)
            BY TrieIsTree
          <6>2. LookupIn(children, Key(keyword(t))) = Leaf(tid[t])
            BY <1>4, <4>2, <6>1, UpsertWriteEffect, PathOfWalk, <1>2
          <6>3. LookupIn(children, k) = Leaf(tid[t]) /\ LookupIn(children, k) # Null
            <7>1. isLeaf(LookupIn(children, k)) /\ auxIndex(LookupIn(children, k)) = tid[t]
              BY <1>5, <2>1, <4>2
            <7>2. LookupIn(children, k) \in Int
              BY <6>1, KeysAreKeys, PathType DEF LookupIn
            <7> QED
              BY <1>2, <7>1, <7>2, LeafIsId
          <6>4. k \in Seq(Bytes) /\ Key(keyword(t)) \in Seq(Bytes)
            BY <1>2, KeysAreKeys, KeyOfWalk
          <6> QED
            BY <6>1, <6>2, <6>3, <6>4, LookupInjective DEF LookupIn
        <5> QED
          BY <1>1, <1>3, <3>1, <5>1, <5>2
      <4> QED
        BY <3>1, <4>1, <4>2, StepKeepsLiterals
    <3> QED
      BY <3>3, <3>4
  <2>2. CASE LookupIn(children', k) # LookupIn(children, k)
    <3>1. Publish(t) /\ k = Key(keyword(t)) /\ LookupIn(children', k) = Leaf(tid[t]) /\ id = tid[t]
      BY <1>4, <1>5, <2>2 DEF LookupsAfter
    <3>2. pc[t] = "publish" /\ literal_map' = literal_map
      BY <3>1 DEF Publish, literalVars
    <3>3. tid[t] \in DOMAIN literal_map
      BY <3>2 DEF IInv, ThreadInv, HeldLiteralExists
    <3>4. literal_map[tid[t]] =
            [literal_len |-> Len(keyword(t)), bitmap |-> {Jobs[t][job[t]].aux}]
      BY <3>2 DEF EntriesPlaced
    <3>5. /\ literal_map'[tid[t]].literal_len = Len(keyword(t))
          /\ literal_map'[tid[t]].bitmap = {Jobs[t][job[t]].aux}
      BY <3>2, <3>4
    <3>6. Jobs[t][job[t]] \in AllJobs /\ keyword(t) = Jobs[t][job[t]].keyword
      BY <1>2, KeyOfWalk, KeysAreKeys
    <3>7. ExactIn(children', literal_map', k)
      BY <3>1, <3>2, <3>3, <3>5, <3>6 DEF ExactIn
    <3> QED
      BY <1>1, <1>3, <3>1, <3>5, <3>7
  <2> QED
    BY <2>1, <2>2
<1>6. \A k \in Keys :
        /\ ExactIn(children', literal_map', k)
        /\ isLeaf(LookupIn(children', k)) =>
             \A occurrence \in literal_map'[auxIndex(LookupIn(children', k))].bitmap :
               Begun(k, occurrence)'
  BY <1>5 DEF ExactIn
<1> QED
  BY <1>6 DEF OccurrencesExact, ExactIn, Begun, FoundKeys, LiteralOf, Lookup, Path, LookupIn,
    PathIn

\* Leaves that can be looked up stay so, and a new one can be by the key it was made for.
LEMMA StepKeepsKeys ==
  ASSUME IInv, LeavesHaveKeys, NEW t \in Threads, Step(t), LookupsAfter(t)
  PROVE  LeavesHaveKeys'
<1>1. SUFFICES ASSUME NEW n \in NodeIds, NEW b \in Bytes, isLeaf(children'[n][b])
               PROVE  \E k \in Keys : LookupIn(children', k) = children'[n][b]
  BY DEF LeavesHaveKeys, Lookup, Path, LookupIn, PathIn
<1>2. CASE children'[n][b] = children[n][b]
  <2>1. PICK k \in Keys : Lookup(k) = children[n][b]
    BY <1>1, <1>2 DEF LeavesHaveKeys
  <2>2. LookupIn(children, k) = children[n][b]
    BY <2>1, LookupIsLookupIn
  <2> QED
    BY <1>1, <1>2, <2>2 DEF LookupsAfter
<1>3. CASE children'[n][b] # children[n][b]
  <2>1. Publish(t) /\ pc[t] # "done"
    BY <1>3, StepKeepsWords DEF SameWords, Publish
  <2>2. children'[n][b] # Null
    BY <1>1 DEF isLeaf, Null
  <2>3. auxIndex(children'[n][b]) = tid[t] /\ children'[n][b] \in Int
    BY <1>1, <1>3, <2>1, <2>2, PublishEffect
  <2>4. tid[t] \in Nat
    BY DEF IInv, TypeOK
  <2>5. children'[n][b] = Leaf(tid[t])
    BY <1>1, <2>3, <2>4, LeafIsId
  <2>6. LookupIn(children', Key(keyword(t))) = Leaf(tid[t]) /\ Key(keyword(t)) \in Keys
    BY <2>1, KeyOfWalk DEF LookupsAfter
  <2> QED
    BY <2>5, <2>6
<1> QED
  BY <1>2, <1>3

-----------------------------------------------------------------------------
(* The nodes are those of the keywords that are in. *)

\* NodesOnKeys of one node, in slots and labels that are given.
OnKey(c, ends, n) ==
  \E k \in Keys : /\ isLeaf(LookupIn(c, k))
                  /\ \E i \in 1..(Len(k) - 1) :
                       PathIn(c, k)[i] = n /\ (ends[n] <=> isEndCodePoint(k, i))

\* NodesOnKeys, now and after a step.
LEMMA NodesOnKeysIn ==
  /\ NodesOnKeys <=> /\ isCodePointEnd[Root]
                     /\ \A n \in 1..allocated : n # Root => OnKey(children, isCodePointEnd, n)
  /\ NodesOnKeys' <=> /\ isCodePointEnd'[Root]
                      /\ \A n \in 1..allocated' : n # Root => OnKey(children', isCodePointEnd', n)
BY DEF NodesOnKeys, OnKey, FoundKeys, Lookup, Path, LookupIn, PathIn

\* Publish labels the nodes of its chain as its key has them, and no other.
LEMMA PublishLabels ==
  ASSUME IInv, NEW t \in Threads, Publish(t)
  PROVE  /\ \A n \in 1..allocated : isCodePointEnd'[n] = isCodePointEnd[n]
         /\ \A n \in (allocated + 1)..allocated' :
              isCodePointEnd'[n] = isEndCodePoint(Key(keyword(t)), KeyLength(t) - (n - allocated))
<1> DEFINE made == (allocated + 1)..(allocated + ChainLength(t))
<1>1. /\ isCodePointEnd' =
            [n \in NodeIds |-> IF n \in made THEN isEndCodePoint(Key(keyword(t)), ChainLevel(t, n))
                               ELSE isCodePointEnd[n]]
      /\ allocated' = allocated + ChainLength(t)
  BY DEF Publish
<1>2. /\ allocated \in Nat /\ allocated' \in NodeIds /\ allocated <= allocated'
      /\ NodeIds = 1..MaxNodes /\ MaxNodes \in Nat
  BY ChainFacts, PublishEffect, MaxNodesAssumption DEF NodeIds
<1>3. made = (allocated + 1)..allocated'
  BY <1>1
<1> HIDE DEF made
<1>4. \A n \in 1..allocated : n \in NodeIds /\ n \notin made
  BY <1>2, <1>3
<1>5. \A n \in made : n \in NodeIds
  BY <1>2, <1>3
<1>6. \A n \in made : ChainLevel(t, n) = KeyLength(t) - (n - allocated)
  BY DEF ChainLevel, KeyLength
<1> QED
  BY <1>1, <1>3, <1>4, <1>5, <1>6

\* The nodes of a chain appear with the leaf they lead to; those that were there keep
\* their keyword.
LEMMA StepKeepsNodes ==
  ASSUME IInv, NodesOnKeys, SlotArray(children), SlotArray(children'),
         NEW t \in Threads, OnPath(t), Step(t), LookupsAfter(t)
  PROVE  NodesOnKeys'
<1>1. /\ isCodePointEnd[Root]
      /\ \A n \in 1..allocated : n # Root => OnKey(children, isCodePointEnd, n)
  BY NodesOnKeysIn
<1>2. CASE ~Publish(t)
  <2>1. children' = children /\ allocated' = allocated /\ isCodePointEnd' = isCodePointEnd
    BY <1>2, StepKeepsWords DEF SameWords
  <2> QED
    BY <1>1, <2>1, NodesOnKeysIn
<1>3. CASE Publish(t)
  <2> DEFINE key == Key(keyword(t))
  <2>1. /\ KeyLength(t) \in Nat \ {0} /\ level[t] \in Nat /\ level[t] < KeyLength(t)
        /\ allocated \in Nat /\ allocated' = allocated + KeyLength(t) - level[t] - 1
        /\ Root \in 1..allocated
    <3>1. allocated \in NodeIds
      BY DEF IInv, TypeOK
    <3> QED
      BY <1>3, <3>1, ChainFacts DEF Root, NodeIds
  <2>2. isCodePointEnd'[Root]
    BY <1>1, <1>3, <2>1, PublishLabels
  <2>3. ASSUME NEW n \in 1..allocated, n # Root PROVE OnKey(children', isCodePointEnd', n)
    <3>1. PICK k \in Keys : /\ isLeaf(LookupIn(children, k))
                            /\ \E i \in 1..(Len(k) - 1) :
                                 /\ PathIn(children, k)[i] = n
                                 /\ isCodePointEnd[n] <=> isEndCodePoint(k, i)
      BY <1>1, <2>3 DEF OnKey
    <3>2. PICK i \in 1..(Len(k) - 1) : /\ PathIn(children, k)[i] = n
                                       /\ isCodePointEnd[n] <=> isEndCodePoint(k, i)
      BY <3>1
    <3>3. isLeaf(LookupIn(children', k))
      BY <3>1 DEF LookupsAfter
    <3>4. n # Null /\ i \in 0..Len(k)
      <4>1. Len(k) \in Nat
        BY KeysAreKeys
      <4> QED
        BY <4>1 DEF Null
    <3>5. PathIn(children', k)[i] = n
      BY <3>2, <3>4, StepGrows
    <3>6. isCodePointEnd'[n] = isCodePointEnd[n]
      BY <1>3, PublishLabels
    <3> QED
      BY <3>2, <3>3, <3>5, <3>6 DEF OnKey
  <2>4. ASSUME NEW n \in (allocated + 1)..allocated' PROVE OnKey(children', isCodePointEnd', n)
    <3> DEFINE idx == KeyLength(t) - (n - allocated)
    <3>1. /\ idx \in Chain(t) /\ idx # level[t] /\ idx \in 1..(KeyLength(t) - 1)
          /\ allocated + KeyLength(t) - idx = n
      BY <2>1 DEF Chain
    <3>2. /\ key \in Keys /\ KeyLength(t) = Len(key)
      BY <1>3, KeyOfWalk DEF Publish, KeyLength
    <3>3. isCodePointEnd'[n] = isEndCodePoint(key, idx)
      BY <1>3, PublishLabels
    <3> HIDE DEF idx
    <3>4. PathIn(children', key)[idx] = n
      BY <1>3, <3>1, PublishPath, ChainFacts
    <3>5. isLeaf(LookupIn(children', key))
      <4>1. LookupIn(children', key) = Leaf(tid[t]) /\ tid[t] \in Nat
        BY <1>3 DEF LookupsAfter, IInv, TypeOK
      <4> QED
        BY <4>1 DEF isLeaf, Leaf
    <3> HIDE DEF key
    <3> QED
      BY <3>1, <3>2, <3>3, <3>4, <3>5 DEF OnKey
  <2>5. \A n \in 1..allocated' : n # Root => n \in 1..allocated \/ n \in (allocated + 1)..allocated'
    BY <2>1
  <2> QED
    BY <2>2, <2>3, <2>4, <2>5, NodesOnKeysIn
<1> QED
  BY <1>2, <1>3

-----------------------------------------------------------------------------
(* The invariant, and the theorems. *)

LEMMA StepKeepsTree ==
  ASSUME IInv, TreeInv, IdsPlaced, NEW t \in Threads, Step(t)
  PROVE  TreeInv'
<1>1. CountUpToDate' /\ CountedIsCurrent'
  BY StepKeepsCount, StepKeepsCounted DEF TreeInv
<1>2. PointersDistinct' /\ NodesOwned'
  <2>1. CASE Publish(t)
    BY <2>1, PublishKeepsDistinct, PublishKeepsOwned DEF TreeInv
  <2>2. CASE ~Publish(t)
    <3>1. children' = children /\ allocated' = allocated
      BY <2>2, StepKeepsWords DEF SameWords
    <3> QED
      BY <3>1 DEF TreeInv, PointersDistinct, NodesOwned
  <2> QED
    BY <2>1, <2>2
<1> QED
  BY <1>1, <1>2 DEF TreeInv

\* IndexInv is inductive, given IInv before and after.
LEMMA StepKeepsIndex ==
  ASSUME IInv, IInv', IndexInv, NEW t \in Threads, Step(t)
  PROVE  IndexInv'
<1>1. /\ TreeInv /\ PointersDistinct /\ NodesOwned /\ IdsPlaced /\ EntriesPlaced
      /\ LeavesHaveKeys /\ InsertedStaysFound /\ OccurrencesExact
      /\ \A u \in Threads : /\ OnPath(u) /\ ReadIsThere(u) /\ BitmapIsCurrent(u)
                            /\ AppliedBeforeUnlock(u) /\ JobInRange(u)
  BY DEF IndexInv, TreeInv, WalkInv
<1>2. TreeInv' /\ PointersDistinct' /\ NodesOwned'
  BY <1>1, StepKeepsTree DEF TreeInv
<1>3. IdsPlaced' /\ EntriesPlaced'
  BY <1>1, StepKeepsIds, StepKeepsEntries
<1>4. SlotArray(children) /\ SlotArray(children')
  <2>1. SlotArray(children)
    BY <1>1, TrieIsTree
  <2>2. (SlotArray(children) /\ IsTree(children))'
    BY <1>2, TrieIsTree, PTL
  <2> QED
    BY <2>1, <2>2
<1>5. LookupsAfter(t) /\ EntriesGrow
  BY <1>1, <1>2, StepLookups, StepKeepsLiterals
<1>6. LeavesHaveKeys' /\ InsertedStaysFound' /\ OccurrencesExact'
  BY <1>1, <1>5, StepKeepsKeys, StepKeepsInserted, StepKeepsExact
<1>7. ASSUME NEW u \in Threads PROVE WalkInv(u)'
  <2>1. JobInRange(u)'
    BY <1>1, StepKeepsJobs
  <2>2. OnPath(u)'
    <3>1. CASE pc'[u] = "done"
      BY <3>1 DEF OnPath
    <3>2. CASE pc'[u] # "done"
      BY <1>1, <1>4, <2>1, <3>2, StepKeepsOnPath
    <3> QED
      BY <3>1, <3>2
  <2>3. ReadIsThere(u)' /\ BitmapIsCurrent(u)'
    BY <1>1, <1>4, StepKeepsRead, StepKeepsBitmap
  <2>4. AppliedBeforeUnlock(u)'
    BY <1>1, <1>4, <1>5, StepKeepsAppliedBeforeUnlock
  <2> QED
    BY <2>1, <2>2, <2>3, <2>4 DEF WalkInv
<1> QED
  BY <1>2, <1>3, <1>6, <1>7 DEF IndexInv

\* A step that changes nothing keeps IndexInv.
LEMMA StutterKeepsIndex ==
  ASSUME IndexInv, UNCHANGED vars
  PROVE  IndexInv'
<1>1. /\ children' = children /\ allocated' = allocated /\ count' = count
      /\ unique_literal_cnt' = unique_literal_cnt /\ literal_map' = literal_map
      /\ pc' = pc /\ job' = job /\ node' = node /\ nextNode' = nextNode /\ level' = level
      /\ tid' = tid /\ bitmap' = bitmap /\ counted' = counted
  BY DEF vars, nodeVars, literalVars, walkVars
<1>2. TreeInv'
  <2>1. PointersDistinct'
    BY <1>1 DEF IndexInv, TreeInv, PointersDistinct
  <2>2. NodesOwned'
    BY <1>1 DEF IndexInv, TreeInv, NodesOwned
  <2>3. CountUpToDate' /\ CountedIsCurrent'
    BY <1>1 DEF IndexInv, TreeInv, CountUpToDate, CountedIsCurrent, Counting
  <2> QED
    BY <2>1, <2>2, <2>3 DEF TreeInv
<1>3. IdsPlaced' /\ EntriesPlaced'
  BY <1>1 DEF IndexInv, IdsPlaced, EntriesPlaced, LeafIn, InFlight, keyword
<1>4. LeavesHaveKeys'
  BY <1>1 DEF IndexInv, LeavesHaveKeys, Lookup, Path
<1>5. ASSUME NEW t \in Threads, NEW i, Applied(t, i) PROVE Applied(t, i)'
  BY <1>1, <1>5, AppliedIn
<1>6. ASSUME NEW t \in Threads PROVE WalkInv(t)'
  <2>1. ReadIsThere(t)' /\ BitmapIsCurrent(t)' /\ JobInRange(t)'
    BY <1>1 DEF IndexInv, WalkInv, ReadIsThere, BitmapIsCurrent, JobInRange, keyword, nodeKey
  <2>2. AppliedBeforeUnlock(t)'
    BY <1>1, <1>5 DEF IndexInv, WalkInv, AppliedBeforeUnlock
  <2>3. OnPath(t)'
    <3>1. SUFFICES ASSUME pc'[t] # "done"
                   PROVE  PathIn(children', Key(Jobs[t][job'[t]].keyword))[level'[t]] = node'[t]
      BY DEF OnPath, keyword, Path, PathIn
    <3>2. PathIn(children, Key(Jobs[t][job[t]].keyword))[level[t]] = node[t]
      BY <1>1, <3>1, PathIsPathIn DEF IndexInv, WalkInv, OnPath, keyword
    <3> QED
      BY <1>1, <3>2
  <2> QED
    BY <2>1, <2>2, <2>3 DEF WalkInv
<1>7. InsertedStaysFound'
  <2>1. \A t \in Threads : \A i \in 1..(job[t] - 1) : Applied(t, i)
    BY DEF IndexInv, InsertedStaysFound, Applied
  <2>2. \A t \in Threads : \A i \in 1..(job'[t] - 1) : Applied(t, i)'
    BY <1>1, <1>5, <2>1
  <2> QED
    BY <2>2 DEF InsertedStaysFound, Applied
<1>8. OccurrencesExact'
  <2>1. \A k \in Keys :
          /\ ExactIn(children', literal_map', k)
          /\ isLeaf(LookupIn(children', k)) =>
               \A occurrence \in literal_map'[auxIndex(LookupIn(children', k))].bitmap :
                 Begun(k, occurrence)'
    BY <1>1, OccurrencesExactIn DEF IndexInv, Begun
  <2> QED
    BY <2>1 DEF OccurrencesExact, ExactIn, Begun, FoundKeys, LiteralOf, Lookup, Path, LookupIn,
      PathIn
<1> QED
  BY <1>2, <1>3, <1>4, <1>6, <1>7, <1>8 DEF IndexInv

\* The empty trie, no entry, and every thread before its first call.
LEMMA IndexInit ==
  ASSUME Init
  PROVE  IndexInv
<1>1. /\ \A n \in NodeIds : \A b \in Bytes : children[n][b] = Null
      /\ allocated = 1 /\ Root = 1 /\ Root \in NodeIds /\ ~isLeaf(Null) /\ Null = 0
      /\ unique_literal_cnt = 0 /\ DOMAIN literal_map = {}
      /\ \A t \in Threads : /\ pc[t] = "readLock" /\ job[t] = 1 /\ level[t] = 0
                            /\ node[t] = Root
  BY MaxNodesAssumption DEF Init, Root, NodeIds, isLeaf, Null
<1>2. TreeInv
  <2>1. PointersDistinct /\ NodesOwned
    BY <1>1 DEF PointersDistinct, NodesOwned
  <2>2. ASSUME NEW n \in 1..allocated
        PROVE  count[n] = Cardinality(Row(children, n)) - (IF Counting(n) THEN 1 ELSE 0)
    <3>1. n = Root /\ count[n] = 0 /\ ~Counting(n)
      BY <1>1 DEF Init, Counting
    <3>2. Row(children, n) = {}
      BY <1>1, <3>1 DEF Row
    <3> QED
      BY <3>1, <3>2, FS_EmptySet
  <2>3. CountedIsCurrent
    BY <1>1 DEF CountedIsCurrent
  <2> QED
    BY <2>1, <2>2, <2>3, CountInRows DEF TreeInv
<1>3. IdsPlaced /\ EntriesPlaced /\ LeavesHaveKeys
  BY <1>1 DEF IdsPlaced, EntriesPlaced, LeavesHaveKeys, InFlight
<1>4. SlotArray(children)
  BY <1>1, MaxNodesAssumption DEF Init, SlotArray, NodeIds
<1>5. ASSUME NEW t \in Threads PROVE WalkInv(t)
  <2>1. JobInRange(t) /\ job[t] \in 1..Len(Jobs[t])
    BY <1>1, JobsAssumption DEF JobInRange
  <2>2. PathIn(children, Key(keyword(t)))[0] = Root
    <3>1. Len(Key(keyword(t))) \in Nat
      BY <2>1, KeysAreKeys DEF keyword
    <3> QED
      BY <3>1, PathSteps
  <2>3. OnPath(t)
    BY <1>1, <2>2, PathIsPathIn DEF OnPath
  <2> QED
    BY <1>1, <2>1, <2>3 DEF WalkInv, ReadIsThere, BitmapIsCurrent, AppliedBeforeUnlock, AfterRead
<1>6. InsertedStaysFound
  BY <1>1 DEF InsertedStaysFound
<1>7. OccurrencesExact
  <2>1. ASSUME NEW k \in Keys, isLeaf(LookupIn(children, k)) PROVE FALSE
    <3>1. LookupIn(children, k) # Null
      BY <1>1, <2>1
    <3> QED
      BY <1>1, <1>4, <2>1, <3>1, LeafOnPath
  <2> QED
    BY <2>1, OccurrencesExactIn DEF ExactIn
<1> QED
  BY <1>2, <1>3, <1>5, <1>6, <1>7 DEF IndexInv

\* The trie, its labels and the literal map agree in every reachable state, with what
\* every thread inside Tree::insert and its callbacks relies on.
THEOREM FullInvariance == Spec => []FullInv
<1>1. Init => FullInv
  <2> SUFFICES ASSUME Init PROVE FullInv
    OBVIOUS
  <2>1. NodesOnKeys
    <3>1. isCodePointEnd = [n \in NodeIds |-> n = Root] /\ allocated = 1 /\ Root = 1 /\ Root \in NodeIds
      BY MaxNodesAssumption DEF Init, Root, NodeIds
    <3>2. \A n \in 1..allocated : n = Root
      BY <3>1
    <3> QED
      BY <3>1, <3>2 DEF NodesOnKeys
  <2> QED
    BY <2>1, InitHolds, IndexInit DEF FullInv
<1>2. FullInv /\ [Next]_vars => FullInv'
  <2> SUFFICES ASSUME IInv, IndexInv, NodesOnKeys, [Next]_vars PROVE FullInv'
    BY DEF FullInv
  <2>1. IInv'
    BY NextKeeps
  <2>2. IndexInv'
    BY <2>1, StepKeepsIndex, StutterKeepsIndex DEF Next, Terminating
  <2>3. NodesOnKeys'
    <3>1. CASE UNCHANGED vars
      <4>1. children' = children /\ allocated' = allocated /\ isCodePointEnd' = isCodePointEnd
        BY <3>1 DEF vars, nodeVars
      <4> QED
        BY <4>1, NodesOnKeysIn
    <3>2. ASSUME NEW t \in Threads, Step(t) PROVE NodesOnKeys'
      <4>1. /\ PointersDistinct /\ NodesOwned /\ IdsPlaced /\ LeavesHaveKeys /\ OnPath(t)
        BY DEF IndexInv, TreeInv, WalkInv
      <4>2. PointersDistinct' /\ NodesOwned'
        BY <2>2 DEF IndexInv, TreeInv
      <4>3. SlotArray(children)
        BY <4>1, TrieIsTree
      <4>4. SlotArray(children')
        <5>1. (SlotArray(children) /\ IsTree(children))'
          BY <2>1, <4>2, TrieIsTree, PTL
        <5> QED
          BY <5>1
      <4>5. LookupsAfter(t)
        BY <2>1, <3>2, <4>1, <4>2, StepLookups
      <4> QED
        BY <3>2, <4>1, <4>3, <4>4, <4>5, StepKeepsNodes
    <3> QED
      BY <3>1, <3>2 DEF Next, Terminating
  <2> QED
    BY <2>1, <2>2, <2>3 DEF FullInv
<1> QED
  BY <1>1, <1>2, PTL DEF Spec

\* What most of the theorems need of it.
LEMMA IndexInvariance == Spec => [](IInv /\ IndexInv)
<1>1. FullInv => IInv /\ IndexInv
  BY DEF FullInv
<1> QED
  BY <1>1, FullInvariance, PTL

\* Every node but the root hangs off one slot: ~Tree frees each node once.
THEOREM NodesOwnedOnce == Spec => []EveryNodeOwnedOnce
<1>1. IInv /\ IndexInv => EveryNodeOwnedOnce
  <2> SUFFICES ASSUME IInv, IndexInv, NEW n \in 1..allocated, n # Root
               PROVE  Cardinality({s \in (1..allocated) \X Bytes : children[s[1]][s[2]] = n}) = 1
    BY DEF EveryNodeOwnedOnce
  <2>1. 1..allocated \subseteq NodeIds /\ n # Null
    BY MaxNodesAssumption DEF IInv, TypeOK, NodeIds, Null
  <2>2. PICK m \in 1..allocated, b \in Bytes : children[m][b] = n
    BY DEF IndexInv, TreeInv, NodesOwned
  <2>3. ASSUME NEW s \in (1..allocated) \X Bytes, children[s[1]][s[2]] = n
        PROVE  s = <<m, b>>
    <3>1. s = <<s[1], s[2]>> /\ s[1] \in NodeIds /\ s[2] \in Bytes /\ m \in NodeIds
      BY <2>1
    <3>2. s[1] = m /\ s[2] = b
      BY <2>1, <2>2, <2>3, <3>1 DEF IndexInv, TreeInv, PointersDistinct
    <3> QED
      BY <3>1, <3>2
  <2>4. {s \in (1..allocated) \X Bytes : children[s[1]][s[2]] = n} = {<<m, b>>}
    BY <2>2, <2>3
  <2> QED
    BY <2>4, FS_Singleton
<1> QED
  BY <1>1, IndexInvariance, PTL

\* A node whose lock is free counts its children right (node.h, 112 and 120).
THEOREM CountsRight == Spec => []CountIsChildren
<1>1. IInv /\ IndexInv => CountIsChildren
  <2> SUFFICES ASSUME IInv, IndexInv, NEW n \in 1..allocated, ~isLocked(versionLock[n])
               PROVE  count[n] = Cardinality(Row(children, n))
    BY DEF CountIsChildren, Row
  <2>1. ~Counting(n)
    BY DEF Counting, IInv, ThreadInv, WriterHoldsLock, WriteSection
  <2>2. count[n] = Cardinality(Row(children, n)) - 0 /\ Cardinality(Row(children, n)) \in Nat
    BY <2>1, CountInRows, RowsFinite DEF IndexInv, TreeInv
  <2> QED
    BY <2>2
<1> QED
  BY <1>1, IndexInvariance, PTL

\* Once Insert has returned, its keyword and its occurrence are found for good,
\* whatever the other threads do (aho_corasick.h and tree.h, insert).
THEOREM NoInsertIsLost == Spec => []InsertedStaysFound
<1>1. IInv /\ IndexInv => InsertedStaysFound
  BY DEF IndexInv
<1> QED
  BY <1>1, IndexInvariance, PTL

\* What is found was inserted: every occurrence in a bitmap is that of a call
\* for this keyword that has begun.
THEOREM NothingIsInvented == Spec => []OccurrencesExact
<1>1. IInv /\ IndexInv => OccurrencesExact
  BY DEF IndexInv
<1> QED
  BY <1>1, IndexInvariance, PTL

-----------------------------------------------------------------------------
(* Counting the literal ids. *)

PublishedIds == {auxIndex(LookupIn(children, k)) : k \in FoundKeys}
InFlightThreads == {t \in Threads : pc[t] \in {"emplace", "publish"}}
IdsInFlight     == {tid[t] : t \in InFlightThreads}

\* A set that a function maps one to one onto another is as large as it.
LEMMA SameSize ==
  ASSUME NEW S, NEW T, IsFiniteSet(T), NEW f \in [S -> T],
         \A x, y \in S : f[x] = f[y] => x = y,
         \A z \in T : \E x \in S : f[x] = z
  PROVE  IsFiniteSet(S) /\ Cardinality(S) = Cardinality(T)
<1>1. f \in Injection(S, T)
  BY DEF Injection, IsInjective
<1>2. f \in Surjection(S, T)
  BY DEF Surjection
<1> QED
  BY <1>1, <1>2, FS_Injection

\* The ids handed out are split between leaves and threads, and there are as many
\* found keys as leaves' ids, and as many threads in flight as ids in flight.
LEMMA IdsCounted ==
  ASSUME IInv, IndexInv
  PROVE  /\ unique_literal_cnt \in Nat
         /\ PublishedIds \cup IdsInFlight = 0..(unique_literal_cnt - 1)
         /\ PublishedIds \cap IdsInFlight = {}
         /\ IsFiniteSet(PublishedIds) /\ IsFiniteSet(IdsInFlight)
         /\ IsFiniteSet(FoundKeys) /\ Cardinality(FoundKeys) = Cardinality(PublishedIds)
         /\ IsFiniteSet(InFlightThreads)
         /\ Cardinality(InFlightThreads) = Cardinality(IdsInFlight)
<1>1. /\ unique_literal_cnt \in Nat /\ tid \in [Threads -> Nat]
      /\ IdsPlaced /\ LeavesHaveKeys /\ SlotArray(children) /\ IsTree(children)
  BY TrieIsTree DEF IInv, TypeOK, IndexInv, TreeInv
<1>2. FoundKeys = {k \in Keys : isLeaf(LookupIn(children, k))}
  BY LookupIsLookupIn DEF FoundKeys
<1>3. ASSUME NEW k \in FoundKeys
      PROVE  /\ k \in Seq(Bytes) /\ LookupIn(children, k) \in Int
             /\ LookupIn(children, k) # Null /\ isLeaf(LookupIn(children, k))
             /\ auxIndex(LookupIn(children, k)) \in 0..(unique_literal_cnt - 1)
             /\ LeafIn(children, auxIndex(LookupIn(children, k)))
  <2>1. isLeaf(LookupIn(children, k)) /\ k \in Keys /\ LookupIn(children, k) # Null
    BY <1>2 DEF isLeaf, Null
  <2>2. k \in Seq(Bytes) /\ Len(k) \in 0..Len(k)
    BY <2>1, KeysAreKeys
  <2>3. LookupIn(children, k) \in Int
    BY <1>1, <2>2, PathType DEF LookupIn
  <2>4. PICK n \in NodeIds, b \in Bytes : children[n][b] = LookupIn(children, k)
    BY <1>1, <2>1, LeafOnPath
  <2>5. /\ auxIndex(LookupIn(children, k)) \in Nat
        /\ Leaf(auxIndex(LookupIn(children, k))) = LookupIn(children, k)
    BY <2>1, <2>3, LeafIsId
  <2>6. auxIndex(LookupIn(children, k)) < unique_literal_cnt
    BY <1>1, <2>1, <2>4 DEF IdsPlaced
  <2> QED
    BY <1>1, <2>1, <2>2, <2>3, <2>4, <2>5, <2>6 DEF LeafIn
<1>4. ASSUME NEW id \in Nat, LeafIn(children, id) PROVE id \in PublishedIds
  <2>1. PICK n \in NodeIds, b \in Bytes : children[n][b] = Leaf(id)
    BY <1>4 DEF LeafIn
  <2>2. isLeaf(Leaf(id)) /\ auxIndex(Leaf(id)) = id
    BY DEF Leaf, isLeaf, auxIndex
  <2>3. PICK k \in Keys : Lookup(k) = Leaf(id)
    BY <1>1, <2>1, <2>2 DEF LeavesHaveKeys
  <2>4. LookupIn(children, k) = Leaf(id) /\ k \in FoundKeys
    BY <1>2, <2>2, <2>3, LookupIsLookupIn
  <2> QED
    BY <2>2, <2>4 DEF PublishedIds
<1>5. \A t \in InFlightThreads :
        tid[t] \in 0..(unique_literal_cnt - 1) /\ ~LeafIn(children, tid[t])
  BY <1>1 DEF InFlightThreads, IdsPlaced, InFlight
<1>6. PublishedIds \cup IdsInFlight = 0..(unique_literal_cnt - 1)
  <2>1. PublishedIds \subseteq 0..(unique_literal_cnt - 1)
    BY <1>3 DEF PublishedIds
  <2>2. IdsInFlight \subseteq 0..(unique_literal_cnt - 1)
    BY <1>5 DEF IdsInFlight
  <2>3. ASSUME NEW id \in 0..(unique_literal_cnt - 1) PROVE id \in PublishedIds \cup IdsInFlight
    <3>1. id \in Nat /\ (LeafIn(children, id) \/ \E t \in Threads : InFlight(t) /\ tid[t] = id)
      BY <1>1 DEF IdsPlaced
    <3> QED
      BY <1>4, <3>1 DEF IdsInFlight, InFlightThreads, InFlight
  <2> QED
    BY <2>1, <2>2, <2>3
<1>7. PublishedIds \cap IdsInFlight = {}
  BY <1>3, <1>5 DEF PublishedIds, IdsInFlight
<1>8. IsFiniteSet(PublishedIds) /\ IsFiniteSet(IdsInFlight)
  <2>1. IsFiniteSet(0..(unique_literal_cnt - 1))
    <3>1. 0 \in Int /\ unique_literal_cnt - 1 \in Int
      BY <1>1
    <3> QED
      BY <3>1, FS_Interval
  <2>2. /\ PublishedIds \in SUBSET (0..(unique_literal_cnt - 1))
        /\ IdsInFlight \in SUBSET (0..(unique_literal_cnt - 1))
    BY <1>6
  <2> QED
    BY <2>1, <2>2, FS_Subset
<1>9. IsFiniteSet(FoundKeys) /\ Cardinality(FoundKeys) = Cardinality(PublishedIds)
  <2> DEFINE f == [k \in FoundKeys |-> auxIndex(LookupIn(children, k))]
  <2>1. f \in [FoundKeys -> PublishedIds] /\ \A z \in PublishedIds : \E k \in FoundKeys : f[k] = z
    BY DEF PublishedIds
  <2>2. ASSUME NEW k \in FoundKeys, NEW l \in FoundKeys, f[k] = f[l] PROVE k = l
    <3>1. auxIndex(LookupIn(children, k)) = auxIndex(LookupIn(children, l))
      BY <2>2
    <3>2. LookupIn(children, k) = LookupIn(children, l)
      BY <1>3, <3>1 DEF auxIndex
    <3> QED
      BY <1>1, <1>3, <3>2, LookupInjective DEF LookupIn
  <2> HIDE DEF f
  <2> QED
    BY <1>8, <2>1, <2>2, SameSize
<1>10. IsFiniteSet(InFlightThreads) /\ Cardinality(InFlightThreads) = Cardinality(IdsInFlight)
  <2> DEFINE f == [t \in InFlightThreads |-> tid[t]]
  <2>1. /\ f \in [InFlightThreads -> IdsInFlight]
        /\ \A z \in IdsInFlight : \E t \in InFlightThreads : f[t] = z
    BY DEF IdsInFlight
  <2>2. \A t, u \in InFlightThreads : f[t] = f[u] => t = u
    BY <1>1 DEF IdsPlaced, InFlight, InFlightThreads
  <2> HIDE DEF f
  <2> QED
    BY <1>8, <2>1, <2>2, SameSize
<1> QED
  BY <1>1, <1>6, <1>7, <1>8, <1>9, <1>10

\* Literal ids are dense and unique: no restart leaks one, none is given twice.
THEOREM IdsAreDense == Spec => []LiteralIdsDense
<1>1. IInv /\ IndexInv => LiteralIdsDense
  <2> SUFFICES ASSUME IInv, IndexInv PROVE LiteralIdsDense
    OBVIOUS
  <2>1. PublishedIds = {auxIndex(Lookup(k)) : k \in FoundKeys}
    BY LookupIsLookupIn DEF PublishedIds
  <2>2. /\ Cardinality(PublishedIds \cup IdsInFlight) =
             Cardinality(PublishedIds) + Cardinality(IdsInFlight)
               - Cardinality(PublishedIds \cap IdsInFlight)
        /\ Cardinality(PublishedIds) \in Nat /\ Cardinality(IdsInFlight) \in Nat
    BY IdsCounted, FS_Union, FS_CardinalityType
  <2>3. Cardinality(PublishedIds \cap IdsInFlight) = 0
    BY IdsCounted, FS_EmptySet
  <2>4. Cardinality(0..(unique_literal_cnt - 1)) = unique_literal_cnt
    <3>1. 0 \in Int /\ unique_literal_cnt - 1 \in Int /\ unique_literal_cnt \in Nat
      BY IdsCounted
    <3>2. Cardinality(0..(unique_literal_cnt - 1)) =
            IF 0 > unique_literal_cnt - 1 THEN 0 ELSE (unique_literal_cnt - 1) - 0 + 1
      BY <3>1, FS_Interval
    <3> QED
      BY <3>1, <3>2
  <2>5. unique_literal_cnt = Cardinality(FoundKeys) + Cardinality(InFlightThreads)
    <3>1. Cardinality(PublishedIds \cup IdsInFlight) = unique_literal_cnt
      BY <2>4, IdsCounted
    <3>2. Cardinality(PublishedIds) = Cardinality(FoundKeys)
      BY IdsCounted
    <3>3. Cardinality(IdsInFlight) = Cardinality(InFlightThreads)
      BY IdsCounted
    <3> QED
      BY <2>2, <2>3, <3>1, <3>2, <3>3
  <2> QED
    BY <2>1, <2>5, IdsCounted DEF LiteralIdsDense, IdsInFlight, InFlightThreads
<1> QED
  BY <1>1, IndexInvariance, PTL

-----------------------------------------------------------------------------
(* ArtTree implements LiteralIndex: concurrent insertion is linearizable.    *)
(* The store of Publish is ApplyNew, the store of UpsertWrite is ApplyKnown, *)
(* Unlock is Return, and every other step leaves the abstract index and      *)
(* calls alone.                                                              *)

\* The abstract index, in an array of slots and a literal map that are given.
IndexIn(c, m) ==
  [k \in {l \in Keys : isLeaf(LookupIn(c, l))} |->
     [id |-> auxIndex(LookupIn(c, k)),
      literal_len |-> m[auxIndex(LookupIn(c, k))].literal_len,
      bitmap |-> m[auxIndex(LookupIn(c, k))].bitmap]]

AppliedNow == [t \in Threads |-> pc[t] \in {"countRead", "countWrite", "unlock"}]

\* AbstractIndex is IndexIn, before a step and after it.
LEMMA AbstractIndexIn ==
  /\ AbstractIndex = IndexIn(children, literal_map)
  /\ AbstractIndex' = IndexIn(children', literal_map')
<1>1. AbstractIndex = IndexIn(children, literal_map)
  BY LookupIsLookupIn DEF AbstractIndex, IndexIn, FoundKeys, LiteralOf
<1>2. AbstractIndex' = IndexIn(children', literal_map')
  BY LookupIsLookupIn DEF AbstractIndex, IndexIn, FoundKeys, LiteralOf
<1> QED
  BY <1>1, <1>2

\* The calls of the abstract index are those of the threads.
LEMMA CallsOf ==
  ASSUME NEW t \in Threads
  PROVE  /\ Len(AbstractCalls[t]) = Len(Jobs[t])
         /\ \A i \in 1..Len(Jobs[t]) :
              AbstractCalls[t][i] =
                [key |-> Key(Jobs[t][i].keyword), literal_len |-> Len(Jobs[t][i].keyword),
                 aux |-> Jobs[t][i].aux]
<1>1. Len(Jobs[t]) \in Nat
  BY JobsAssumption
<1>2. AbstractCalls[t] =
        [i \in 1..Len(Jobs[t]) |->
           [key |-> Key(Jobs[t][i].keyword), literal_len |-> Len(Jobs[t][i].keyword),
            aux |-> Jobs[t][i].aux]]
  BY DEF AbstractCalls
<1> QED
  BY <1>1, <1>2

-----------------------------------------------------------------------------
(* There is an id for every keyword: the ids of LiteralIndex suffice. *)

\* A path that has reached null stays there.
LEMMA NullStays ==
  ASSUME NEW c, NEW k \in Seq(Bytes), NEW i \in 0..Len(k), PathIn(c, k)[i] = Null
  PROVE  \A j \in i..Len(k) : PathIn(c, k)[j] = Null
<1> DEFINE at == PathIn(c, k)
           S == {j \in i..Len(k) : at[j] = Null}
<1>1. Len(k) \in Nat /\ i \in Nat /\ i <= Len(k) /\ i \in S
  OBVIOUS
<1>2. \A j \in i..(Len(k) - 1) : j \in S => j + 1 \in S
  <2> SUFFICES ASSUME NEW j \in i..(Len(k) - 1), j \in S PROVE j + 1 \in S
    OBVIOUS
  <2>1. j + 1 \in i..Len(k) /\ j + 1 \in 1..Len(k) /\ (j + 1) - 1 = j /\ at[j] = Null
    BY <1>1
  <2>2. at[j + 1] = IF at[(j + 1) - 1] > 0 THEN c[at[(j + 1) - 1]][k[j + 1]] ELSE Null
    BY <1>1, <2>1, PathSteps
  <2> QED
    BY <2>1, <2>2 DEF Null
<1> HIDE DEF at
<1>3. \A j \in i..Len(k) : j \in S
  <2>1. Len(k) \in Nat /\ i \in Nat /\ i \in S
    BY <1>1
  <2> HIDE DEF S
  <2> QED
    BY <2>1, <1>2, InductionUpTo
<1> QED
  BY <1>3 DEF at

\* The set of keywords is finite.
LEMMA KeysFinite == IsFiniteSet(Keys)
<1>1. ASSUME NEW t \in Threads PROVE IsFiniteSet(JobsOf(t))
  <2> DEFINE f == [i \in 1..Len(Jobs[t]) |-> Jobs[t][i]]
  <2>1. IsFiniteSet(1..Len(Jobs[t]))
    BY JobsAssumption, FS_Interval
  <2>2. f \in Surjection(1..Len(Jobs[t]), JobsOf(t))
    BY DEF Surjection, JobsOf
  <2> HIDE DEF f
  <2> QED
    BY <2>1, <2>2, FS_Surjection
<1>2. IsFiniteSet(AllJobs)
  <2> DEFINE f == [t \in Threads |-> JobsOf(t)]
             T == {JobsOf(t) : t \in Threads}
  <2>1. f \in Surjection(Threads, T)
    BY DEF Surjection
  <2>2. IsFiniteSet(T)
    <3> HIDE DEF f, T
    <3> QED
      BY <2>1, ThreadsAssumption, FS_Surjection
  <2>3. \A S \in T : IsFiniteSet(S)
    BY <1>1
  <2>4. IsFiniteSet(UNION T)
    <3> HIDE DEF f, T
    <3> QED
      BY <2>2, <2>3, FS_UNION
  <2> QED
    BY <2>4 DEF AllJobs
<1> DEFINE f == [j \in AllJobs |-> Key(j.keyword)]
<1>3. f \in Surjection(AllJobs, Keys)
  BY DEF Surjection, Keys
<1> HIDE DEF f
<1> QED
  BY <1>2, <1>3, FS_Surjection

\* A keyword that is being inserted is not found, and is inserted by one thread.
LEMMA InsertingAlone ==
  ASSUME IInv, IndexInv, NEW t \in Threads, pc[t] \in Inserting
  PROVE  /\ Key(keyword(t)) \in Keys /\ LookupIn(children, Key(keyword(t))) = Null
         /\ \A u \in Threads : u # t /\ pc[u] \in Inserting => Key(keyword(u)) # Key(keyword(t))
<1>1. SlotArray(children)
  BY TrieIsTree DEF IndexInv, TreeInv
<1>2. ASSUME NEW u \in Threads, pc[u] \in Inserting
      PROVE  /\ Key(keyword(u)) \in Seq(Bytes) /\ Key(keyword(u)) \in Keys
             /\ level[u] \in 0..Len(Key(keyword(u))) /\ level[u] + 1 \in 1..Len(Key(keyword(u)))
             /\ PathIn(children, Key(keyword(u)))[level[u]] = node[u] /\ node[u] # Null
             /\ \A j \in (level[u] + 1)..Len(Key(keyword(u))) :
                  PathIn(children, Key(keyword(u)))[j] = Null
  <2>1. pc[u] # "done" /\ OnPath(u)
    BY <1>2 DEF Inserting, IndexInv, WalkInv
  <2>2. children[node[u]][nodeKey(u)] = Null
    BY <1>2 DEF IInv, ThreadInv, SlotStillFree
  <2>3. /\ Key(keyword(u)) \in Seq(Bytes) /\ Key(keyword(u)) \in Keys
        /\ level[u] \in 0..Len(Key(keyword(u))) /\ level[u] + 1 \in 1..Len(Key(keyword(u)))
        /\ PathIn(children, Key(keyword(u)))[level[u]] = node[u] /\ node[u] # Null
        /\ PathIn(children, Key(keyword(u)))[level[u] + 1] = Null
    BY <1>1, <2>1, <2>2, PathOfWalk, KeyOfWalk, NodeOfWalk
  <2>4. level[u] + 1 \in 0..Len(Key(keyword(u)))
    BY <2>3
  <2> QED
    BY <2>3, <2>4, NullStays
<1>3. Key(keyword(t)) \in Keys /\ LookupIn(children, Key(keyword(t))) = Null
  BY <1>2 DEF LookupIn
<1>4. ASSUME NEW u \in Threads, u # t, pc[u] \in Inserting, Key(keyword(u)) = Key(keyword(t))
      PROVE  FALSE
  <2>1. node[t] # node[u]
    BY <1>4 DEF IInv, WriteLockExclusive, Inserting, WriteSection
  <2>2. level[t] # level[u]
    BY <1>2, <1>4, <2>1
  <2>3. level[u] \in (level[t] + 1)..Len(Key(keyword(t))) \/
        level[t] \in (level[u] + 1)..Len(Key(keyword(u)))
    BY <1>2, <1>4, <2>2
  <2> QED
    BY <1>2, <1>4, <2>3
<1> QED
  BY <1>3, <1>4

\* The id that a thread is about to publish is one of those the abstract index
\* may give, and nobody else has it.
LEMMA FreshId ==
  ASSUME IInv, IndexInv, NEW t \in Threads, pc[t] = "publish"
  PROVE  tid[t] \in 0..(Cardinality(Keys) - 1) /\ tid[t] \notin PublishedIds
<1> DEFINE Ids == 0..(unique_literal_cnt - 1)
           Holds(k, id) == \/ k \in FoundKeys /\ auxIndex(LookupIn(children, k)) = id
                           \/ \E u \in InFlightThreads : tid[u] = id /\ k = Key(keyword(u))
           f == [id \in Ids |-> CHOOSE k \in Keys : Holds(k, id)]
<1>1. ASSUME NEW id \in Ids PROVE f[id] \in Keys /\ Holds(f[id], id)
  <2>1. id \in PublishedIds \/ id \in IdsInFlight
    BY IdsCounted
  <2>2. CASE id \in PublishedIds
    <3>1. \E k \in Keys : Holds(k, id)
      BY <2>2 DEF PublishedIds, FoundKeys
    <3> QED
      BY <3>1
  <2>3. CASE id \in IdsInFlight
    <3>1. PICK u \in InFlightThreads : tid[u] = id
      BY <2>3 DEF IdsInFlight
    <3>2. Key(keyword(u)) \in Keys
      BY <3>1, InsertingAlone DEF InFlightThreads, Inserting
    <3>3. \E k \in Keys : Holds(k, id)
      BY <3>1, <3>2
    <3> QED
      BY <3>3
  <2> QED
    BY <2>1, <2>2, <2>3
<1>2. ASSUME NEW u \in InFlightThreads
      PROVE  /\ Key(keyword(u)) \notin FoundKeys
             /\ \A w \in InFlightThreads : Key(keyword(w)) = Key(keyword(u)) => w = u
  <2>1. u \in Threads /\ pc[u] \in Inserting
    BY DEF InFlightThreads, Inserting
  <2>2. ~isLeaf(Lookup(Key(keyword(u))))
    BY <2>1, InsertingAlone, LookupIsLookupIn DEF isLeaf, Null
  <2> QED
    BY <2>1, <2>2, InsertingAlone DEF FoundKeys, InFlightThreads, Inserting
<1>3. ASSUME NEW i \in Ids, NEW j \in Ids, f[i] = f[j] PROVE i = j
  BY <1>1, <1>2, <1>3
<1>4. Cardinality(Ids) <= Cardinality(Keys) /\ Cardinality(Keys) \in Nat
  <2>1. f \in Injection(Ids, Keys)
    <3> HIDE DEF Holds
    <3>1. f \in [Ids -> Keys]
      BY <1>1
    <3> HIDE DEF f, Ids
    <3> QED
      BY <1>3, <3>1 DEF Injection, IsInjective
  <2> HIDE DEF f, Ids
  <2> QED
    BY <2>1, KeysFinite, FS_Injection, FS_CardinalityType
<1>5. Cardinality(Ids) = unique_literal_cnt /\ unique_literal_cnt \in Nat
  <2>1. unique_literal_cnt \in Nat /\ 0 \in Int /\ unique_literal_cnt - 1 \in Int
    BY IdsCounted
  <2>2. Cardinality(Ids) = IF 0 > unique_literal_cnt - 1 THEN 0 ELSE (unique_literal_cnt - 1) - 0 + 1
    BY <2>1, FS_Interval
  <2> QED
    BY <2>1, <2>2
<1>6. tid[t] \in IdsInFlight
  BY DEF IdsInFlight, InFlightThreads
<1>7. tid[t] \in Ids /\ tid[t] \notin PublishedIds
  BY <1>6, IdsCounted
<1> HIDE DEF f, Holds
<1> QED
  BY <1>4, <1>5, <1>7

-----------------------------------------------------------------------------
(* The steps. *)

\* The function of the calls that have taken effect changes at one thread.
LEMMA AppliedAfter ==
  ASSUME TypeOK, NEW t \in Threads, NEW label \in Locals, pc' = [pc EXCEPT ![t] = label]
  PROVE  AppliedNow' = [AppliedNow EXCEPT ![t] = label \in {"countRead", "countWrite", "unlock"}]
BY DEF AppliedNow, TypeOK

\* The store of Publish is the instant at which a call for a new keyword takes
\* effect: until then nobody finds the keyword, and then its id, its length and
\* this occurrence.
LEMMA PublishApplies ==
  ASSUME IInv, IInv', IndexInv, NEW t \in Threads, Publish(t), LookupsAfter(t)
  PROVE  LiteralIndex!ApplyNew(t)
<1> DEFINE key == Key(keyword(t))
           new == [id |-> tid[t], literal_len |-> Len(keyword(t)),
                   bitmap |-> {Jobs[t][job[t]].aux}]
<1>1. /\ pc[t] = "publish" /\ pc[t] # "done" /\ pc[t] \in Inserting
      /\ pc' = [pc EXCEPT ![t] = "countRead"] /\ literal_map' = literal_map /\ job' = job
  BY DEF Publish, Goto, literalVars, Inserting
<1>2. job[t] \in 1..Len(Jobs[t]) /\ keyword(t) = Jobs[t][job[t]].keyword /\ job[t] <= Len(Jobs[t])
  BY <1>1, KeyOfWalk
<1>3. key \in Keys /\ LookupIn(children, key) = Null
  BY <1>1, InsertingAlone
<1>4. ~isLeaf(LookupIn(children, key))
  BY <1>3 DEF isLeaf, Null
<1>5. tid[t] \in 0..(Cardinality(Keys) - 1) /\ tid[t] \notin PublishedIds /\ tid[t] \in Nat
  BY <1>1, FreshId DEF IInv, TypeOK
<1>6. LookupIn(children', key) = Leaf(tid[t]) /\ isLeaf(Leaf(tid[t])) /\ auxIndex(Leaf(tid[t])) = tid[t]
  BY <1>5, LeafIsId DEF LookupsAfter
<1>7. literal_map[tid[t]] = [literal_len |-> Len(keyword(t)), bitmap |-> {Jobs[t][job[t]].aux}]
  BY <1>1 DEF IndexInv, EntriesPlaced
<1>8. IndexIn(children', literal_map') =
        [k \in DOMAIN IndexIn(children, literal_map) \cup {key} |->
           IF k = key THEN new ELSE IndexIn(children, literal_map)[k]]
  <2>1. {k \in Keys : isLeaf(LookupIn(children', k))} =
          {k \in Keys : isLeaf(LookupIn(children, k))} \cup {key}
    BY <1>3, <1>6 DEF LookupsAfter
  <2>2. ASSUME NEW k \in Keys, isLeaf(LookupIn(children, k))
        PROVE  k # key /\ LookupIn(children', k) = LookupIn(children, k)
    BY <1>4, <2>2 DEF LookupsAfter
  <2>3. ASSUME NEW k \in Keys, isLeaf(LookupIn(children, k))
        PROVE  /\ k # key
               /\ IndexIn(children', literal_map')[k] = IndexIn(children, literal_map)[k]
    BY <1>1, <2>1, <2>2, <2>3 DEF IndexIn
  <2>4. IndexIn(children', literal_map')[key] = new
    <3>1. key \in {k \in Keys : isLeaf(LookupIn(children', k))}
      BY <2>1
    <3>2. /\ literal_map'[tid[t]].literal_len = Len(keyword(t))
          /\ literal_map'[tid[t]].bitmap = {Jobs[t][job[t]].aux}
      BY <1>1, <1>7
    <3>3. auxIndex(LookupIn(children', key)) = tid[t]
      BY <1>6
    <3> HIDE DEF key
    <3> QED
      BY <3>1, <3>2, <3>3 DEF IndexIn
  <2>5. /\ DOMAIN IndexIn(children, literal_map) = {k \in Keys : isLeaf(LookupIn(children, k))}
        /\ DOMAIN IndexIn(children', literal_map') = {k \in Keys : isLeaf(LookupIn(children', k))}
        /\ IndexIn(children', literal_map') =
             [k \in DOMAIN IndexIn(children', literal_map') |-> IndexIn(children', literal_map')[k]]
    BY DEF IndexIn
  <2> HIDE DEF key, new
  <2> QED
    BY <2>1, <2>3, <2>4, <2>5
<1>9. LiteralIndex!Running(t) /\ ~AppliedNow[t]
  BY <1>1, <1>2, CallsOf DEF LiteralIndex!Running, AppliedNow
<1>10. AbstractCalls[t][job[t]] =
         [key |-> key, literal_len |-> Len(keyword(t)), aux |-> Jobs[t][job[t]].aux]
  BY <1>2, CallsOf
<1>11. tid[t] \notin LiteralIndex!UsedIds
  <2>1. LiteralIndex!UsedIds = {AbstractIndex[k].id : k \in DOMAIN AbstractIndex}
    BY DEF LiteralIndex!UsedIds
  <2>2. LiteralIndex!UsedIds = PublishedIds
    BY <2>1, LookupIsLookupIn DEF AbstractIndex, PublishedIds
  <2> QED
    BY <1>5, <2>2
<1>12. AppliedNow' = [AppliedNow EXCEPT ![t] = TRUE]
  <2>1. "countRead" \in Locals /\ ("countRead" \in {"countRead", "countWrite", "unlock"}) = TRUE
    BY DEF Locals
  <2> QED
    BY <1>1, <2>1, AppliedAfter DEF IInv
<1>13. key \notin DOMAIN AbstractIndex
  BY <1>4, AbstractIndexIn DEF IndexIn
<1>14. AbstractIndex' = [k \in DOMAIN AbstractIndex \cup {key} |->
                           IF k = key THEN new ELSE AbstractIndex[k]]
  BY <1>8, AbstractIndexIn
<1> DEFINE c == AbstractCalls[t][job[t]]
<1>15. c.key = key /\ [id |-> tid[t], literal_len |-> c.literal_len, bitmap |-> {c.aux}] = new
  BY <1>10
<1>16. \E id \in 0..(Cardinality(Keys) - 1) \ LiteralIndex!UsedIds :
         AbstractIndex' =
           [k \in DOMAIN AbstractIndex \cup {c.key} |->
              IF k = c.key THEN [id |-> id, literal_len |-> c.literal_len, bitmap |-> {c.aux}]
              ELSE AbstractIndex[k]]
  <2> HIDE DEF key, new, c
  <2> QED
    BY <1>5, <1>11, <1>14, <1>15
<1>17. c.key \notin DOMAIN AbstractIndex
  BY <1>13, <1>15
<1> HIDE DEF key, new
<1> QED
  BY <1>1, <1>9, <1>12, <1>16, <1>17 DEF LiteralIndex!ApplyNew, AppliedNow

\* The write of upsert_fn is the instant at which a call for a known keyword
\* takes effect: it adds its occurrence to the bitmap as it is then.
LEMMA UpsertApplies ==
  ASSUME IInv, IInv', IndexInv, NEW t \in Threads, UpsertWrite(t)
  PROVE  LiteralIndex!ApplyKnown(t)
<1> DEFINE key == Key(keyword(t))
           aux == Jobs[t][job[t]].aux
           old == IndexIn(children, literal_map)
           found == {k \in Keys : isLeaf(LookupIn(children, k))}
<1>1. /\ pc[t] = "upsertWrite" /\ pc[t] # "done" /\ pc' = [pc EXCEPT ![t] = "unlock"]
      /\ children' = children /\ job' = job /\ BitmapIsCurrent(t) /\ OnPath(t)
      /\ SlotArray(children) /\ IsTree(children) /\ LeavesHaveLiterals
  BY TrieIsTree DEF UpsertWrite, Goto, nodeVars, IndexInv, WalkInv, TreeInv, IInv, SharedInv
<1>2. /\ job[t] \in 1..Len(Jobs[t]) /\ keyword(t) = Jobs[t][job[t]].keyword
      /\ job[t] <= Len(Jobs[t]) /\ key \in Keys
  BY <1>1, KeyOfWalk
<1>3. /\ tid[t] \in Nat /\ tid[t] \in DOMAIN literal_map
      /\ children[node[t]][nodeKey(t)] = Leaf(tid[t])
      /\ literal_map'[tid[t]].bitmap = literal_map[tid[t]].bitmap \cup {aux}
      /\ literal_map'[tid[t]].literal_len = literal_map[tid[t]].literal_len
      /\ \A id \in DOMAIN literal_map : id # tid[t] => literal_map'[id] = literal_map[id]
  BY <1>1, UpsertWriteEffect
<1>4. LookupIn(children, key) = Leaf(tid[t]) /\ isLeaf(Leaf(tid[t])) /\ auxIndex(Leaf(tid[t])) = tid[t]
  <2>1. isLeaf(Leaf(tid[t])) /\ auxIndex(Leaf(tid[t])) = tid[t]
    BY <1>3, LeafIsId
  <2> QED
    BY <1>1, <1>3, <2>1, PathOfWalk
<1>5. key \in found /\ LookupIn(children, key) # Null /\ key \in Seq(Bytes)
  BY <1>2, <1>4, KeysAreKeys DEF isLeaf, Null
<1>6. ASSUME NEW k \in found, k # key
      PROVE  /\ auxIndex(LookupIn(children, k)) \in DOMAIN literal_map
             /\ auxIndex(LookupIn(children, k)) # tid[t]
  <2>1. k \in Keys /\ k \in Seq(Bytes) /\ isLeaf(LookupIn(children, k)) /\ LookupIn(children, k) # Null
    BY KeysAreKeys DEF isLeaf, Null
  <2>2. LookupIn(children, k) # LookupIn(children, key)
    BY <1>1, <1>5, <1>6, <2>1, LookupInjective DEF LookupIn
  <2>3. PICK n \in NodeIds, b \in Bytes : children[n][b] = LookupIn(children, k)
    BY <1>1, <2>1, LeafOnPath
  <2>4. children[n][b] \in Int
    BY DEF IInv, TypeOK, Pointer
  <2>5. auxIndex(LookupIn(children, k)) # tid[t]
    BY <1>3, <1>4, <2>1, <2>2, <2>3, <2>4, LeafIsId
  <2> QED
    BY <1>1, <2>1, <2>3, <2>5 DEF LeavesHaveLiterals
<1>7. IndexIn(children', literal_map') = [old EXCEPT ![key].bitmap = @ \cup {aux}]
  <2> DEFINE new == IndexIn(children', literal_map')
  <2>1. /\ DOMAIN old = found /\ DOMAIN new = found
        /\ new = [k \in found |-> new[k]] /\ old = [k \in found |-> old[k]]
    BY <1>1 DEF IndexIn
  <2>2. ASSUME NEW k \in found, k # key PROVE new[k] = old[k]
    BY <1>1, <1>3, <1>6, <2>2 DEF IndexIn
  <2>3. /\ new[key] = [id |-> tid[t], literal_len |-> literal_map'[tid[t]].literal_len,
                       bitmap |-> literal_map'[tid[t]].bitmap]
        /\ old[key] = [id |-> tid[t], literal_len |-> literal_map[tid[t]].literal_len,
                       bitmap |-> literal_map[tid[t]].bitmap]
    BY <1>1, <1>4, <1>5 DEF IndexIn
  <2>4. new[key] = [old[key] EXCEPT !.bitmap = @ \cup {aux}]
    <3> HIDE DEF new, old, aux, key
    <3> QED
      BY <1>3, <2>3
  <2> HIDE DEF new, old, key, found, aux
  <2>5. new = [old EXCEPT ![key].bitmap = @ \cup {aux}]
    BY <1>5, <2>1, <2>2, <2>4
  <2> QED
    BY <2>5 DEF new
<1>8. LiteralIndex!Running(t) /\ ~AppliedNow[t]
  BY <1>1, <1>2, CallsOf DEF LiteralIndex!Running, AppliedNow
<1>9. AbstractCalls[t][job[t]].key = key /\ AbstractCalls[t][job[t]].aux = aux
  <2>1. AbstractCalls[t][job[t]] =
          [key |-> key, literal_len |-> Len(keyword(t)), aux |-> Jobs[t][job[t]].aux]
    BY <1>2, CallsOf
  <2> QED
    BY <2>1
<1>10. AppliedNow' = [AppliedNow EXCEPT ![t] = TRUE]
  <2>1. "unlock" \in Locals /\ ("unlock" \in {"countRead", "countWrite", "unlock"}) = TRUE
    BY DEF Locals
  <2> QED
    BY <1>1, <2>1, AppliedAfter DEF IInv
<1>11. key \in DOMAIN AbstractIndex
  BY <1>5, AbstractIndexIn DEF IndexIn
<1>12. AbstractIndex' = [AbstractIndex EXCEPT ![key].bitmap = @ \cup {aux}]
  BY <1>7, AbstractIndexIn
<1> HIDE DEF key, aux
<1> QED
  BY <1>1, <1>8, <1>9, <1>10, <1>11, <1>12 DEF LiteralIndex!ApplyKnown, AppliedNow

\* The release of the write lock is the return of the call.
LEMMA UnlockReturns ==
  ASSUME IInv, IndexInv, NEW t \in Threads, Unlock(t)
  PROVE  LiteralIndex!Return(t)
<1>1. /\ pc[t] = "unlock" /\ pc[t] # "done" /\ job' = [job EXCEPT ![t] = job[t] + 1]
      /\ children' = children /\ literal_map' = literal_map
  BY DEF Unlock, literalVars
<1>2. job[t] \in 1..Len(Jobs[t]) /\ job[t] <= Len(Jobs[t])
  BY <1>1, KeyOfWalk
<1>3. LiteralIndex!Running(t) /\ AppliedNow[t]
  BY <1>1, <1>2, CallsOf DEF LiteralIndex!Running, AppliedNow
<1>4. AbstractIndex' = AbstractIndex
  BY <1>1, AbstractIndexIn
<1>5. AppliedNow' = [AppliedNow EXCEPT ![t] = FALSE]
  <2>1. PICK label \in {"readLock", "done"} : pc' = [pc EXCEPT ![t] = label]
    BY DEF Unlock, Goto
  <2>2. label \in Locals /\ (label \in {"countRead", "countWrite", "unlock"}) = FALSE
    BY DEF Locals
  <2> QED
    BY <2>1, <2>2, AppliedAfter DEF IInv
<1>6. job' = [job EXCEPT ![t] = @ + 1]
  BY <1>1
<1> QED
  BY <1>3, <1>4, <1>5, <1>6 DEF LiteralIndex!Return, AppliedNow

\* Any other step is no step of the abstract index: a walk, a lock, a literal
\* that is filed before its leaf is in the trie.
LEMMA OthersStutter ==
  ASSUME IInv, IInv', IndexInv, NEW t \in Threads, Step(t), LookupsAfter(t),
         ~Publish(t), ~UpsertWrite(t), ~Unlock(t)
  PROVE  UNCHANGED LiteralIndex!vars
<1>1. children' = children /\ job' = job /\ EntriesPlaced /\ LeavesHaveLiterals /\ SlotArray(children)
  BY StepKeepsWords, StepKeepsLocals, TrieIsTree
     DEF SameWords, SameLocals, IInv, IndexInv, TreeInv, SharedInv
<1>2. ASSUME NEW k \in Keys, isLeaf(LookupIn(children, k))
      PROVE  literal_map'[auxIndex(LookupIn(children, k))] =
               literal_map[auxIndex(LookupIn(children, k))]
  <2>1. LookupIn(children, k) # Null
    BY <1>2 DEF isLeaf, Null
  <2>2. auxIndex(LookupIn(children, k)) \in DOMAIN literal_map
    BY <1>1, <1>2, <2>1, LeafOnPath DEF LeavesHaveLiterals
  <2>3. BitmapIsCurrent(t)
    BY DEF IndexInv, WalkInv
  <2> QED
    BY <1>1, <2>2, <2>3, StepKeepsLiterals
<1>3. AbstractIndex' = AbstractIndex
  <2>1. IndexIn(children', literal_map') = IndexIn(children, literal_map)
    BY <1>1, <1>2 DEF IndexIn
  <2> QED
    BY <2>1, AbstractIndexIn
<1>4. AppliedNow' = AppliedNow
  <2>1. ASSUME NEW u \in Threads
        PROVE  pc'[u] \in {"countRead", "countWrite", "unlock"}
                 <=> pc[u] \in {"countRead", "countWrite", "unlock"}
    <3>1. CASE u = t
      BY <3>1, StepMovesLabels DEF LabelsOf, IInv
    <3>2. CASE u # t
      BY <3>2, StepKeepsLocals DEF SameLocals, IInv
    <3> QED
      BY <3>1, <3>2
  <2> QED
    BY <2>1 DEF AppliedNow
<1> QED
  BY <1>1, <1>3, <1>4 DEF LiteralIndex!vars, AppliedNow

-----------------------------------------------------------------------------
(* The whole. *)

\* The initial states are those of the abstract index.
LEMMA InitRefines ==
  ASSUME Init, IInv
  PROVE  LiteralIndex!Init
<1>1. \A k \in Keys : ~isLeaf(LookupIn(children, k))
  <2> SUFFICES ASSUME NEW k \in Keys, isLeaf(LookupIn(children, k)) PROVE FALSE
    OBVIOUS
  <2>1. SlotArray(children)
    <3>1. children \in [NodeIds -> [Bytes -> Int]]
      BY DEF IInv, TypeOK, Pointer
    <3>2. \A n \in NodeIds : \A b \in Bytes : children[n][b] = 0
      BY DEF Init, Null
    <3> QED
      BY <3>1, <3>2, MaxNodesAssumption DEF SlotArray
  <2>2. LookupIn(children, k) # Null
    BY DEF isLeaf, Null
  <2>3. PICK n \in NodeIds, b \in Bytes : children[n][b] = LookupIn(children, k)
    BY <2>1, <2>2, LeafOnPath
  <2> QED
    BY <2>2, <2>3 DEF Init
<1>2. AbstractIndex = << >>
  <2>1. DOMAIN IndexIn(children, literal_map) = {}
    BY <1>1 DEF IndexIn
  <2>2. IndexIn(children, literal_map) = [k \in {} |-> IndexIn(children, literal_map)[k]]
    BY <1>1 DEF IndexIn
  <2> QED
    BY <2>1, <2>2, AbstractIndexIn
<1>3. AppliedNow = [t \in Threads |-> FALSE]
  <2>1. \A t \in Threads : (pc[t] \in {"countRead", "countWrite", "unlock"}) = FALSE
    BY DEF Init
  <2> QED
    BY <2>1, Zenon DEF AppliedNow
<1> QED
  BY <1>2, <1>3 DEF Init, LiteralIndex!Init, AppliedNow

\* Every step maps to a step of the abstract index or to a stutter.
LEMMA StepRefines ==
  ASSUME IInv, IInv', IndexInv, IndexInv', NEW t \in Threads, Step(t)
  PROVE  LiteralIndex!Next \/ UNCHANGED LiteralIndex!vars
<1>1. LookupsAfter(t)
  BY StepLookups DEF IndexInv, TreeInv, WalkInv
<1>2. CASE Publish(t)
  BY <1>1, <1>2, PublishApplies DEF LiteralIndex!Next
<1>3. CASE UpsertWrite(t)
  BY <1>3, UpsertApplies DEF LiteralIndex!Next
<1>4. CASE Unlock(t)
  BY <1>4, UnlockReturns DEF LiteralIndex!Next
<1> QED
  BY <1>1, <1>2, <1>3, <1>4, OthersStutter

\* A step that changes nothing changes nothing of the abstract index.
LEMMA StutterRefines ==
  ASSUME UNCHANGED vars
  PROVE  UNCHANGED LiteralIndex!vars
<1>1. children' = children /\ literal_map' = literal_map /\ pc' = pc /\ job' = job
  BY DEF vars, nodeVars, literalVars
<1>2. AbstractIndex' = AbstractIndex
  BY <1>1, AbstractIndexIn
<1>3. AppliedNow' = AppliedNow
  BY <1>1 DEF AppliedNow
<1> QED
  BY <1>1, <1>2, <1>3 DEF LiteralIndex!vars, AppliedNow

\* Concurrent insertion is linearizable: every behaviour of insert, upsert and
\* the optimistic locks is one of an index whose calls take effect at an instant.
THEOREM InsertIsLinearizable == Spec => ImplementsLiteralIndex
<1>1. Init /\ IInv => LiteralIndex!Init
  BY InitRefines
<1>2. /\ IInv /\ IndexInv /\ (IInv /\ IndexInv)' /\ [Next]_vars
      => [LiteralIndex!Next]_(LiteralIndex!vars)
  BY StepRefines, StutterRefines DEF Next, Terminating
<1> QED
  BY <1>1, <1>2, IndexInvariance, PTL DEF Spec, ImplementsLiteralIndex, LiteralIndex!Spec

-----------------------------------------------------------------------------
(* The nodes in memory are the trie of the keywords that are in. *)

\* A path depends on the bytes it follows alone.
LEMMA PathOfPrefix ==
  ASSUME NEW c, NEW k \in Seq(Bytes), NEW l \in Seq(Bytes), NEW n \in 0..Len(k), n <= Len(l),
         \A m \in 1..n : k[m] = l[m]
  PROVE  \A i \in 0..n : PathIn(c, k)[i] = PathIn(c, l)[i]
<1> DEFINE S == {i \in Nat : PathIn(c, k)[i] = PathIn(c, l)[i]}
<1>1. Len(k) \in Nat /\ Len(l) \in Nat /\ n \in Nat
  OBVIOUS
<1>2. 0 \in S
  BY <1>1, PathSteps
<1>3. ASSUME NEW i \in 0..(n - 1), i \in S PROVE i + 1 \in S
  <2>1. i + 1 \in 1..n /\ i + 1 \in 1..Len(k) /\ i + 1 \in 1..Len(l) /\ (i + 1) - 1 = i
    BY <1>1
  <2>2. /\ PathIn(c, k)[i + 1] = IF PathIn(c, k)[i] > 0 THEN c[PathIn(c, k)[i]][k[i + 1]] ELSE Null
        /\ PathIn(c, l)[i + 1] = IF PathIn(c, l)[i] > 0 THEN c[PathIn(c, l)[i]][l[i + 1]] ELSE Null
    BY <1>1, <2>1, PathSteps
  <2> QED
    BY <1>3, <2>1, <2>2
<1>4. \A i \in 0..n : i \in S
  <2> HIDE DEF S
  <2> QED
    BY <1>1, <1>2, <1>3, InductionUpTo
<1> QED
  BY <1>4

\* One more byte leads from a node to what its slot holds.
LEMMA PathOfAppend ==
  ASSUME NEW c, NEW s \in Seq(Bytes), NEW b \in Bytes, LookupIn(c, s) > 0
  PROVE  Append(s, b) \in Seq(Bytes) /\ LookupIn(c, Append(s, b)) = c[LookupIn(c, s)][b]
<1> DEFINE k == Append(s, b)
<1>1. /\ k \in Seq(Bytes) /\ Len(k) = Len(s) + 1 /\ Len(s) \in Nat /\ k[Len(k)] = b
      /\ \A m \in 1..Len(s) : k[m] = s[m]
  OBVIOUS
<1> HIDE DEF k
<1>2. Len(s) \in 0..Len(s) /\ Len(s) \in 0..Len(k) /\ Len(k) \in 1..Len(k) /\ Len(k) - 1 = Len(s)
      /\ Len(k) \in Nat /\ Len(s) <= Len(k)
  BY <1>1
<1>3. PathIn(c, k)[Len(s)] = PathIn(c, s)[Len(s)]
  BY <1>1, <1>2, PathOfPrefix
<1>4. PathIn(c, k)[Len(k)] =
        IF PathIn(c, k)[Len(k) - 1] > 0 THEN c[PathIn(c, k)[Len(k) - 1]][k[Len(k)]] ELSE Null
  BY <1>2, PathSteps
<1> QED
  BY <1>1, <1>2, <1>3, <1>4 DEF LookupIn, k

\* A string of bytes and the node it leads to.
Places(c, N) ==
  {r \in [string : Seq(Bytes), node : 1..N] : r.node = LookupIn(c, r.string)}
RootPlace == [string |-> << >>, node |-> Root]

\* One level of Reached more.
OneDeeper(c, N, R) ==
  R \cup UNION {{[string |-> Append(r.string, b), node |-> c[r.node][b]] :
                   b \in {d \in Bytes : c[r.node][d] \in 1..N}} : r \in R}

\* A child of a node that is reached is reached one level deeper.
LEMMA DeeperHas ==
  ASSUME NEW c, NEW N, NEW R, NEW r \in R, NEW b \in Bytes, c[r.node][b] \in 1..N
  PROVE  [string |-> Append(r.string, b), node |-> c[r.node][b]] \in OneDeeper(c, N, R)
<1> DEFINE next(q, d) == [string |-> Append(q.string, d), node |-> c[q.node][d]]
           slots(q) == {d \in Bytes : c[q.node][d] \in 1..N}
<1>1. OneDeeper(c, N, R) = R \cup UNION {{next(q, d) : d \in slots(q)} : q \in R}
  BY DEF OneDeeper
<1>2. b \in slots(r)
  OBVIOUS
<1> HIDE DEF next, slots
<1>3. next(r, b) \in {next(r, d) : d \in slots(r)}
  BY <1>2
<1>4. next(r, b) \in UNION {{next(q, d) : d \in slots(q)} : q \in R}
  BY <1>3
<1> QED
  BY <1>1, <1>4 DEF next

\* What is reached one level deeper is a place as well.
LEMMA DeeperIsPlaces ==
  ASSUME NEW c, NEW N \in Nat, NEW R \in SUBSET Places(c, N)
  PROVE  OneDeeper(c, N, R) \in SUBSET Places(c, N)
<1> SUFFICES ASSUME NEW r \in R, NEW b \in {d \in Bytes : c[r.node][d] \in 1..N}
             PROVE  [string |-> Append(r.string, b), node |-> c[r.node][b]] \in Places(c, N)
  BY DEF OneDeeper
<1>1. r.string \in Seq(Bytes) /\ r.node \in 1..N /\ r.node = LookupIn(c, r.string)
  BY DEF Places
<1>2. LookupIn(c, r.string) > 0
  BY <1>1
<1>3. Append(r.string, b) \in Seq(Bytes) /\ LookupIn(c, Append(r.string, b)) = c[r.node][b]
  BY <1>1, <1>2, PathOfAppend
<1> QED
  BY <1>3 DEF Places

\* Reached, level by level.
LEMMA ReachedByLevel ==
  ASSUME allocated \in Nat \ {0}
  PROVE  \E within \in [0..allocated -> SUBSET Places(children, allocated)] :
           /\ Reached = within[allocated] /\ within[0] = {RootPlace}
           /\ \A d \in 1..allocated : within[d] = OneDeeper(children, allocated, within[d - 1])
<1> DEFINE P == SUBSET Places(children, allocated)
           step == [d \in 1..allocated |-> [R \in P |-> OneDeeper(children, allocated, R)]]
           IsWithin(f) ==
             f = [d \in 0..allocated |->
                    IF d = 0 THEN {RootPlace} ELSE OneDeeper(children, allocated, f[d - 1])]
<1>1. {RootPlace} \in P
  <2>1. << >> \in Seq(Bytes) /\ Len(<< >>) = 0 /\ Len(<< >>) \in Nat /\ Root \in 1..allocated
    BY DEF Root
  <2>2. LookupIn(children, << >>) = Root
    BY <2>1, PathSteps DEF LookupIn
  <2> QED
    BY <2>1, <2>2 DEF Places, RootPlace
<1>2. step \in [1..allocated -> [P -> P]]
  BY DeeperIsPlaces
<1>3. PICK f \in [0..allocated -> P] :
        f[0] = {RootPlace} /\ \A d \in 1..allocated : f[d] = step[d][f[d - 1]]
  <2> DEFINE first == {RootPlace}
  <2>1. allocated \in Nat /\ first \in P
    BY <1>1
  <2> HIDE DEF P, step, IsWithin, first
  <2>2. \E f \in [0..allocated -> P] :
          f[0] = first /\ \A d \in 1..allocated : f[d] = step[d][f[d - 1]]
    BY ONLY <1>2, <2>1, Iteration
  <2> QED
    BY ONLY <2>2 DEF first
<1>4. \A d \in 1..allocated : f[d] = OneDeeper(children, allocated, f[d - 1])
  <2> SUFFICES ASSUME NEW d \in 1..allocated
               PROVE  f[d] = OneDeeper(children, allocated, f[d - 1])
    OBVIOUS
  <2>1. f[d - 1] \in P
    <3>1. d - 1 \in 0..allocated
      OBVIOUS
    <3> QED
      BY <3>1
  <2> QED
    BY <1>3, <2>1
<1>5. IsWithin(f)
  <2>1. \A d \in 0..allocated : d # 0 => d \in 1..allocated
    OBVIOUS
  <2>2. \A d \in 0..allocated :
          f[d] = IF d = 0 THEN {RootPlace} ELSE OneDeeper(children, allocated, f[d - 1])
    BY <1>3, <1>4, <2>1
  <2> HIDE DEF P
  <2> QED
    BY <2>2
<1>6. \A g : IsWithin(g) => g = f
  <2> SUFFICES ASSUME NEW g, IsWithin(g) PROVE g = f
    OBVIOUS
  <2> DEFINE S == {d \in Nat : g[d] = f[d]}
  <2>1. /\ g = [d \in 0..allocated |-> g[d]] /\ g[0] = {RootPlace}
        /\ \A d \in 1..allocated : g[d] = OneDeeper(children, allocated, g[d - 1])
    <3>1. \A d \in 1..allocated : d \in 0..allocated /\ d # 0
      OBVIOUS
    <3>2. 0 \in 0..allocated
      OBVIOUS
    <3>3. g = [d \in 0..allocated |->
                 IF d = 0 THEN {RootPlace} ELSE OneDeeper(children, allocated, g[d - 1])]
      OBVIOUS
    <3>4. \A d \in 0..allocated :
            g[d] = IF d = 0 THEN {RootPlace} ELSE OneDeeper(children, allocated, g[d - 1])
      BY ONLY <3>3
    <3>5. g = [d \in 0..allocated |-> g[d]]
      BY ONLY <3>3
    <3> QED
      BY ONLY <3>1, <3>2, <3>4, <3>5
  <2>2. 0 \in S
    BY <1>3, <2>1
  <2>3. ASSUME NEW d \in 0..(allocated - 1), d \in S PROVE d + 1 \in S
    <3>1. d + 1 \in 1..allocated /\ (d + 1) - 1 = d /\ d + 1 \in Nat
      OBVIOUS
    <3>2. g[d + 1] = OneDeeper(children, allocated, g[d])
      BY ONLY <2>1, <3>1
    <3>3. f[d + 1] = OneDeeper(children, allocated, f[d])
      BY ONLY <1>4, <3>1
    <3>4. g[d] = f[d]
      BY <2>3
    <3>5. g[d + 1] = f[d + 1]
      BY ONLY <3>2, <3>3, <3>4
    <3> HIDE DEF P, step, IsWithin
    <3> QED
      BY <3>1, <3>5
  <2>4. \A d \in 0..allocated : d \in S
    <3> HIDE DEF S, P, step, IsWithin
    <3> QED
      BY <2>2, <2>3, InductionUpTo
  <2> QED
    BY <1>3, <2>1, <2>4
<1>7. Reached = (CHOOSE g : IsWithin(g))[allocated]
  BY DEF Reached, OneDeeper, RootPlace
<1>8. (CHOOSE g : IsWithin(g)) = f
  <2> HIDE DEF IsWithin
  <2> QED
    BY <1>5, <1>6
<1> QED
  BY <1>3, <1>4, <1>7, <1>8

\* A path to a byte of a string is the lookup of what comes before it.
LEMMA LookupOfPrefix ==
  ASSUME NEW c, NEW k \in Seq(Bytes), NEW i \in 0..Len(k)
  PROVE  /\ SubSeq(k, 1, i) \in Seq(Bytes) /\ Len(SubSeq(k, 1, i)) = i
         /\ \A m \in 1..i : SubSeq(k, 1, i)[m] = k[m]
         /\ LookupIn(c, SubSeq(k, 1, i)) = PathIn(c, k)[i]
<1> DEFINE s == SubSeq(k, 1, i)
<1>1. /\ s \in Seq(Bytes) /\ Len(s) = i /\ i \in Nat
      /\ \A m \in 1..i : s[m] = k[m]
  OBVIOUS
<1> HIDE DEF s
<1>2. i \in 0..Len(s) /\ i \in 0..i /\ i <= Len(k)
  BY <1>1
<1>3. PathIn(c, s)[i] = PathIn(c, k)[i]
  BY <1>1, <1>2, PathOfPrefix
<1> QED
  BY <1>1, <1>3 DEF LookupIn, s

\* The place on the path of a string behind its first i bytes.
PlaceOf(c, k, i) == [string |-> SubSeq(k, 1, i), node |-> PathIn(c, k)[i]]

\* A keyword that is found leads from node to node, all of them made and no two the
\* same, so that it is no longer than there are nodes.
LEMMA FoundPath ==
  ASSUME IInv, SlotArray(children), IsTree(children), NEW k \in Seq(Bytes),
         Len(k) # 0, LookupIn(children, k) # Null
  PROVE  /\ \A i \in 0..(Len(k) - 1) : PathIn(children, k)[i] \in 1..allocated
         /\ Len(k) - 1 <= allocated
<1> DEFINE at == PathIn(children, k)
           S == {i \in Nat : i <= Len(k) => at[Len(k) - i] # Null}
<1>1. /\ Len(k) \in Nat \ {0} /\ allocated \in Nat \ {0} /\ NodeIds = 1..MaxNodes
      /\ MaxNodes \in Nat /\ Root \in 1..allocated
      /\ \A n \in NodeIds : \A b \in Bytes : children[n][b] <= allocated
  BY MaxNodesAssumption DEF IInv, TypeOK, NodeIds, SharedInv, FreeNodesBlank, Root
<1>2. 0 \in S
  BY <1>1 DEF LookupIn
<1>3. ASSUME NEW i \in 0..(Len(k) - 1), i \in S PROVE i + 1 \in S
  <2>1. Len(k) - i \in 1..Len(k) /\ (Len(k) - i) - 1 = Len(k) - (i + 1) /\ at[Len(k) - i] # Null
    BY <1>1, <1>3
  <2>2. at[(Len(k) - i) - 1] # Null
    BY <2>1, PathBack
  <2> HIDE DEF at
  <2> QED
    BY <2>1, <2>2
<1>4. \A i \in 0..Len(k) : i \in S
  <2> HIDE DEF S
  <2> QED
    BY <1>1, <1>2, <1>3, InductionUpTo
<1>5. ASSUME NEW i \in 0..Len(k) PROVE at[i] # Null
  <2>1. Len(k) - i \in 0..Len(k) /\ Len(k) - (Len(k) - i) = i
    BY <1>1
  <2>2. Len(k) - i \in S /\ Len(k) - i <= Len(k)
    BY <1>4, <2>1
  <2> HIDE DEF at
  <2> QED
    BY <2>1, <2>2
<1>6. ASSUME NEW i \in 0..(Len(k) - 1) PROVE at[i] \in 1..allocated
  <2>1. i + 1 \in 1..Len(k) /\ i + 1 \in 0..Len(k) /\ (i + 1) - 1 = i
    BY <1>1
  <2>2. at[i] \in NodeIds
    BY <1>5, <2>1, PathBack
  <2>3. CASE i = 0
    <3>1. at[0] = Root
      BY <1>1, PathSteps
    <3> QED
      BY <1>1, <2>3, <3>1
  <2>4. CASE i # 0
    <3>1. i \in 1..Len(k) /\ i \in 0..Len(k)
      BY <1>1, <2>4
    <3>2. /\ at[i - 1] \in NodeIds /\ k[i] \in Bytes
          /\ at[i] = children[at[i - 1]][k[i]]
      BY <1>5, <3>1, PathBack
    <3> HIDE DEF at
    <3> QED
      BY <1>1, <2>2, <3>2
  <2> QED
    BY <2>3, <2>4
<1>7. Len(k) - 1 <= allocated
  <2> SUFFICES ASSUME allocated < Len(k) PROVE FALSE
    BY <1>1
  <2> DEFINE f == [i \in 0..(Len(k) - 1) |-> at[i]]
  <2>1. f \in [0..(Len(k) - 1) -> 1..allocated]
    BY <1>6
  <2>2. /\ IsFiniteSet(0..(Len(k) - 1)) /\ Cardinality(0..(Len(k) - 1)) = Len(k)
        /\ IsFiniteSet(1..allocated) /\ Cardinality(1..allocated) = allocated
    <3>1. 0 \in Int /\ 1 \in Int /\ Len(k) - 1 \in Int /\ allocated \in Int
      BY <1>1
    <3>2. /\ IsFiniteSet(0..(Len(k) - 1)) /\ IsFiniteSet(1..allocated)
          /\ Cardinality(0..(Len(k) - 1)) = IF 0 > Len(k) - 1 THEN 0 ELSE (Len(k) - 1) - 0 + 1
          /\ Cardinality(1..allocated) = IF 1 > allocated THEN 0 ELSE allocated - 1 + 1
      BY <3>1, FS_Interval
    <3> QED
      BY <1>1, <3>2
  <2>3. \E i, j \in 0..(Len(k) - 1) : i # j /\ f[i] = f[j]
    <3> HIDE DEF f
    <3> QED
      BY <2>1, <2>2, FS_PigeonHole
  <2>4. PICK i, j \in 0..(Len(k) - 1) : i # j /\ at[i] = at[j]
    BY <2>3
  <2>5. i \in 0..Len(k) /\ j \in 0..Len(k)
    BY <1>1
  <2> QED
    BY <1>5, <2>4, <2>5, OneWay
<1> QED
  BY <1>6, <1>7

\* In every state that keeps FullInv the slots are a tree.
LEMMA TreeOfFull ==
  ASSUME FullInv
  PROVE  allocated \in Nat \ {0} /\ IInv /\ SlotArray(children) /\ IsTree(children)
<1>1. IInv /\ PointersDistinct /\ NodesOwned
  BY DEF FullInv, IndexInv, TreeInv
<1>2. allocated \in Nat \ {0}
  BY <1>1 DEF IInv, TypeOK, NodeIds
<1> QED
  BY <1>1, <1>2, TrieIsTree

\* Every place on the path of a keyword that is found is reached.
LEMMA PlacesAreReached ==
  ASSUME FullInv
  PROVE  /\ RootPlace \in Reached
         /\ \A k \in FoundKeys : \A i \in 0..(Len(k) - 1) : PlaceOf(children, k, i) \in Reached
<1>1. /\ allocated \in Nat \ {0} /\ IInv /\ SlotArray(children) /\ IsTree(children)
  BY TreeOfFull
<1>2. PICK within \in [0..allocated -> SUBSET Places(children, allocated)] :
        /\ Reached = within[allocated] /\ within[0] = {RootPlace}
        /\ \A d \in 1..allocated : within[d] = OneDeeper(children, allocated, within[d - 1])
  BY <1>1, ReachedByLevel
<1>3. ASSUME NEW r, NEW low \in 0..allocated, r \in within[low] PROVE r \in Reached
  <2> DEFINE S == {d \in Nat : r \in within[d]}
  <2>1. low \in S /\ low \in Nat /\ allocated \in Nat
    BY <1>1, <1>3
  <2>2. ASSUME NEW d \in low..(allocated - 1), d \in S PROVE d + 1 \in S
    <3>1. d + 1 \in 1..allocated /\ (d + 1) - 1 = d /\ d + 1 \in Nat
      BY <1>1
    <3> QED
      BY <1>2, <2>2, <3>1 DEF OneDeeper
  <2>3. \A d \in low..allocated : d \in S
    <3> HIDE DEF S
    <3> QED
      BY <2>1, <2>2, InductionUpTo
  <2>4. allocated \in low..allocated
    BY <1>1
  <2> QED
    BY <1>2, <2>3, <2>4
<1>4. RootPlace \in Reached
  <2>1. 0 \in 0..allocated
    BY <1>1
  <2> QED
    BY <1>2, <1>3, <2>1
<1>5. ASSUME NEW k \in FoundKeys, NEW n \in 0..(Len(k) - 1)
      PROVE  PlaceOf(children, k, n) \in Reached
  <2> DEFINE at == PathIn(children, k)
             S == {i \in Nat : PlaceOf(children, k, i) \in within[i]}
  <2>1. /\ k \in Seq(Bytes) /\ Len(k) \in Nat \ {0} /\ LookupIn(children, k) # Null
    BY KeysAreKeys, LookupIsLookupIn DEF FoundKeys, isLeaf, Null
  <2>2. /\ \A i \in 0..(Len(k) - 1) : at[i] \in 1..allocated
        /\ Len(k) - 1 <= allocated
    BY <1>1, <2>1, FoundPath
  <2>3. 0 \in S
    <3>1. PlaceOf(children, k, 0) = RootPlace
      <4>1. at[0] = Root
        BY <2>1, PathSteps
      <4>2. SubSeq(k, 1, 0) = << >>
        BY <2>1
      <4> QED
        BY <4>1, <4>2 DEF PlaceOf, RootPlace
    <3> QED
      BY <1>2, <3>1
  <2>4. ASSUME NEW i \in 0..(n - 1), i \in S PROVE i + 1 \in S
    <3> DEFINE r == PlaceOf(children, k, i)
               b == k[i + 1]
    <3>1. /\ i + 1 \in 1..allocated /\ (i + 1) - 1 = i /\ i + 1 \in Nat /\ i + 1 \in 1..Len(k)
          /\ i \in 0..(Len(k) - 1) /\ i + 1 \in 0..(Len(k) - 1) /\ i \in Nat
      BY <1>1, <2>1, <2>2
    <3>2. b \in Bytes
      BY <2>1, <3>1
    <3>3. at[i + 1] = children[at[i]][b]
      <4>1. at[i] > 0
        BY <2>2, <3>1
      <4>2. at[i + 1] = IF at[(i + 1) - 1] > 0 THEN children[at[(i + 1) - 1]][k[i + 1]] ELSE Null
        BY <2>1, <3>1, PathSteps
      <4> QED
        BY <3>1, <4>1, <4>2
    <3>4. children[r.node][b] \in 1..allocated
      <4>1. r.node = at[i]
        BY DEF PlaceOf
      <4> QED
        BY <2>2, <3>1, <3>3, <4>1
    <3>5. PlaceOf(children, k, i + 1) = [string |-> Append(r.string, b), node |-> children[r.node][b]]
      <4>1. SubSeq(k, 1, i + 1) = Append(SubSeq(k, 1, i), k[i + 1])
        BY <2>1, <3>1
      <4> QED
        BY <3>3, <4>1 DEF PlaceOf
    <3>6. r \in within[i]
      BY <2>4
    <3> HIDE DEF r, b
    <3>7. PlaceOf(children, k, i + 1) \in OneDeeper(children, allocated, within[i])
      <4> HIDE DEF PlaceOf
      <4> QED
        BY <3>2, <3>4, <3>5, <3>6, DeeperHas
    <3> QED
      BY <1>2, <3>1, <3>7
  <2>5. n \in Nat /\ n \in 0..n /\ n \in 0..allocated
    BY <1>1, <2>1, <2>2
  <2>6. n \in S
    <3>1. \A i \in 0..n : i \in S
      <4> HIDE DEF S
      <4> QED
        BY <2>3, <2>4, <2>5, InductionUpTo
    <3> QED
      BY <2>5, <3>1
  <2>7. PlaceOf(children, k, n) \in within[n]
    BY <2>6
  <2> QED
    BY <1>3, <2>5, <2>7
<1> QED
  BY <1>4, <1>5

\* And nothing else is reached; each node is labelled as a keyword through it has it.
LEMMA ReachedArePlaces ==
  ASSUME FullInv, NEW r \in Reached
  PROVE  /\ r.string \in Seq(Bytes) /\ r.node \in 1..allocated
         /\ r.node = LookupIn(children, r.string)
         /\ \/ r = RootPlace
            \/ \E k \in FoundKeys : \E i \in 1..(Len(k) - 1) :
                 /\ r = PlaceOf(children, k, i)
                 /\ isCodePointEnd[r.node] <=> isEndCodePoint(k, i)
<1>1. /\ allocated \in Nat \ {0} /\ IInv /\ SlotArray(children) /\ IsTree(children)
  BY TreeOfFull
<1>2. r \in Places(children, allocated)
  <2>1. PICK within \in [0..allocated -> SUBSET Places(children, allocated)] :
          Reached = within[allocated]
    BY <1>1, ReachedByLevel
  <2>2. allocated \in 0..allocated
    BY <1>1
  <2> QED
    BY <2>1, <2>2
<1>3. /\ r = [string |-> r.string, node |-> r.node]
      /\ r.string \in Seq(Bytes) /\ r.node \in 1..allocated /\ r.node = LookupIn(children, r.string)
  BY <1>2 DEF Places
<1>4. Len(r.string) \in Nat /\ r.node # Null
  BY <1>3 DEF Null
<1>5. CASE r.node = Root
  <2>1. << >> \in Seq(Bytes) /\ Len(<< >>) = 0 /\ 0 \in 0..0 /\ 0 \in Nat
    OBVIOUS
  <2>2. PathIn(children, << >>)[0] = Root
    BY <2>1, PathSteps
  <2>3. Len(r.string) \in 0..Len(r.string) /\ PathIn(children, r.string)[Len(r.string)] = Root
    BY <1>3, <1>4, <1>5 DEF LookupIn
  <2>4. Len(r.string) = 0
    <3> DEFINE s == r.string
               l == << >>
    <3>1. /\ s \in Seq(Bytes) /\ Len(s) \in 0..Len(s) /\ l \in Seq(Bytes) /\ 0 \in 0..Len(l)
          /\ PathIn(children, s)[Len(s)] = PathIn(children, l)[0]
          /\ PathIn(children, s)[Len(s)] # Null
      BY <1>3, <1>4, <1>5, <2>1, <2>2, <2>3
    <3> HIDE DEF s, l
    <3>2. Len(s) = 0
      BY <1>1, <3>1, OneWay
    <3> QED
      BY <3>2 DEF s
  <2>5. r.string = << >>
    BY <1>3, <2>4
  <2> QED
    BY <1>3, <1>5, <2>5 DEF RootPlace
<1>6. CASE r.node # Root
  <2>1. PICK k \in FoundKeys : \E i \in 1..(Len(k) - 1) :
          Path(k)[i] = r.node /\ (isCodePointEnd[r.node] <=> isEndCodePoint(k, i))
    BY <1>3, <1>6 DEF FullInv, NodesOnKeys
  <2>2. PICK i \in 1..(Len(k) - 1) :
          Path(k)[i] = r.node /\ (isCodePointEnd[r.node] <=> isEndCodePoint(k, i))
    BY <2>1
  <2>3. k \in Seq(Bytes) /\ Len(k) \in Nat
    BY KeysAreKeys DEF FoundKeys
  <2>4. PathIn(children, k)[i] = r.node /\ i \in 0..Len(k)
    BY <2>2, <2>3, PathIsPathIn
  <2>5. /\ Len(r.string) \in 0..Len(r.string)
        /\ PathIn(children, r.string)[Len(r.string)] = r.node
    BY <1>3, <1>4 DEF LookupIn
  <2>6. Len(r.string) = i /\ \A m \in 1..i : r.string[m] = k[m]
    <3> DEFINE s == r.string
    <3>1. s \in Seq(Bytes) /\ Len(s) \in 0..Len(s)
      BY <1>3, <2>5
    <3>2. PathIn(children, s)[Len(s)] = PathIn(children, k)[i] /\ PathIn(children, s)[Len(s)] # Null
      BY <1>4, <2>4, <2>5
    <3> HIDE DEF s
    <3>3. Len(s) = i /\ \A m \in 1..Len(s) : s[m] = k[m]
      BY <1>1, <2>3, <2>4, <3>1, <3>2, OneWay
    <3> QED
      BY <3>3 DEF s
  <2>7. r.string = SubSeq(k, 1, i)
    <3>1. /\ SubSeq(k, 1, i) \in Seq(Bytes) /\ Len(SubSeq(k, 1, i)) = i
          /\ \A m \in 1..i : SubSeq(k, 1, i)[m] = k[m]
      BY <2>3, <2>4, LookupOfPrefix
    <3> QED
      BY <1>3, <2>6, <3>1, SeqEqual
  <2>8. r = PlaceOf(children, k, i)
    BY <1>3, <2>4, <2>7 DEF PlaceOf
  <2> QED
    BY <1>3, <2>2, <2>8
<1> QED
  BY <1>3, <1>5, <1>6

\* A key is a keyword in front of a NUL, and labelled as the keyword is.
LEMMA FrontOfKey ==
  ASSUME NEW k \in Keys
  PROVE  /\ Front(k) \in Seq(Bytes) /\ Front(k) \in Seq(Byte)
         /\ Len(Front(k)) = Len(k) - 1 /\ k[Len(k)] = NULL_TERMINATOR
         /\ k = Append(Front(k), NULL_TERMINATOR)
         /\ \A i \in 0..(Len(k) - 1) : SubSeq(Front(k), 1, i) = SubSeq(k, 1, i)
         /\ \A i \in 0..(Len(k) - 1) : isEndCodePoint(k, i) <=> i \in CodePointStarts(Front(k))
<1> DEFINE w == Front(k)
           c == << NULL_TERMINATOR >>
<1>1. k \in Seq(Bytes) /\ Len(k) \in Nat \ {0} /\ k[Len(k)] = NULL_TERMINATOR
  <2>1. PICK j \in AllJobs : k = Key(j.keyword)
    BY DEF Keys
  <2>2. IsKeyword(j.keyword)
    BY JobsAssumption DEF AllJobs, JobsOf, IsJob
  <2> QED
    BY <2>1, <2>2, KeyType
<1>2. /\ w \in Seq(Bytes) /\ Len(w) = Len(k) - 1
      /\ \A i \in 1..(Len(k) - 1) : w[i] = k[i]
  <2>1. Len(k) - 1 \in 0..Len(k)
    BY <1>1
  <2> QED
    BY <1>1, <2>1, LookupOfPrefix DEF Front
<1>3. w \in Seq(Byte)
  BY <1>2, BytesAssumption
<1> HIDE DEF w
<1>4. k = Append(w, NULL_TERMINATOR)
  <2> DEFINE l == Append(w, NULL_TERMINATOR)
  <2>1. /\ l \in Seq(Bytes) /\ Len(l) = Len(k) /\ l[Len(k)] = NULL_TERMINATOR
        /\ \A i \in 1..(Len(k) - 1) : l[i] = k[i]
    BY <1>1, <1>2, BytesAssumption
  <2>2. \A i \in 1..Len(k) : i = Len(k) \/ i \in 1..(Len(k) - 1)
    BY <1>1
  <2> HIDE DEF l
  <2>3. k = l
    BY <1>1, <2>1, <2>2, SeqEqual
  <2> QED
    BY <2>3 DEF l
<1>5. k = w \o c
  BY <1>2, <1>4
<1>6. ASSUME NEW i \in 0..(Len(k) - 1) PROVE SubSeq(w, 1, i) = SubSeq(k, 1, i)
  <2>1. i \in 0..Len(w) /\ i \in 0..Len(k) /\ \A m \in 1..i : m \in 1..(Len(k) - 1)
    BY <1>1, <1>2
  <2>2. /\ SubSeq(w, 1, i) \in Seq(Bytes) /\ Len(SubSeq(w, 1, i)) = i
        /\ \A m \in 1..i : SubSeq(w, 1, i)[m] = w[m]
        /\ SubSeq(k, 1, i) \in Seq(Bytes) /\ Len(SubSeq(k, 1, i)) = i
        /\ \A m \in 1..i : SubSeq(k, 1, i)[m] = k[m]
    BY <1>1, <1>2, <2>1, LookupOfPrefix
  <2> QED
    BY <1>2, <2>1, <2>2, SeqEqual
<1>7. IsCodePoint(c)
  BY DEF IsCodePoint, CodePointLength, NULL_TERMINATOR, Byte
<1>8. WholeCodePoints(w)
  BY KeywordsAssumption DEF w
<1>9. CodePointStarts(k) = CodePointStarts(w) \cup {Len(k)}
  <2>1. CodePointStarts(w \o c) = CodePointStarts(w) \cup {Len(w) + Len(c)}
    BY <1>3, <1>7, <1>8, WholeJoin
  <2>2. Len(w) + Len(c) = Len(k)
    BY <1>1, <1>2
  <2> HIDE DEF c
  <2> QED
    BY <1>5, <2>1, <2>2
<1>10. ASSUME NEW i \in 0..(Len(k) - 1) PROVE isEndCodePoint(k, i) <=> i \in CodePointStarts(w)
  <2>1. i # Len(k)
    BY <1>1
  <2> QED
    BY <1>9, <2>1 DEF isEndCodePoint
<1> QED
  BY <1>1, <1>2, <1>3, <1>4, <1>6, <1>10 DEF w

\* A code point that ends on the common part of two keywords ends there in both.
LEMMA SharedLabel ==
  ASSUME NEW k \in Keys, NEW l \in Keys,
         NEW i \in 0..(Len(k) - 1), i <= Len(l) - 1, SubSeq(k, 1, i) = SubSeq(l, 1, i),
         isEndCodePoint(k, i)
  PROVE  isEndCodePoint(l, i)
<1> DEFINE m == SubSeq(Front(k), 1, i)
<1>1. /\ k \in Seq(Bytes) /\ l \in Seq(Bytes) /\ Len(k) \in Nat \ {0} /\ Len(l) \in Nat \ {0}
      /\ i \in 0..(Len(l) - 1)
  BY KeysAreKeys
<1>2. /\ Front(k) \in Seq(Byte) /\ Front(l) \in Seq(Byte)
      /\ Len(Front(k)) = Len(k) - 1 /\ Len(Front(l)) = Len(l) - 1
      /\ WholeCodePoints(Front(k)) /\ i \in CodePointStarts(Front(k))
      /\ SubSeq(Front(k), 1, i) = SubSeq(Front(l), 1, i)
  BY <1>1, FrontOfKey, KeywordsAssumption
<1>3. WholeCodePoints(m)
  BY <1>2, WholePrefix
<1>4. /\ m \in Seq(Byte) /\ Len(m) = i /\ Len(m) \in Nat /\ Len(m) <= Len(Front(l))
      /\ \A j \in 1..Len(m) : Front(l)[j] = m[j]
  <2>1. i \in 0..Len(Front(k)) /\ i \in 0..Len(Front(l))
    BY <1>1, <1>2
  <2>2. /\ m \in Seq(Byte) /\ Len(m) = i
        /\ \A j \in 1..i : SubSeq(Front(l), 1, i)[j] = Front(l)[j]
    BY <1>2, <2>1, Cut
  <2> QED
    BY <1>1, <1>2, <2>2
<1> HIDE DEF m
<1>5. i \in CodePointStarts(m)
  BY <1>4, StartsAre
<1>6. CodePointStarts(m) \subseteq CodePointStarts(Front(l))
  BY <1>2, <1>3, <1>4, StartsOfLonger
<1> QED
  BY <1>1, <1>5, <1>6, FrontOfKey

\* The nodes are the prefixes of the keywords.
LEMMA HeapNodes ==
  ASSUME FullInv
  PROVE  HeapTrie.nodes = TrieOf({Front(k) : k \in FoundKeys}).nodes
<1> DEFINE Nodes == {r.string : r \in Reached}
           K == {Front(k) : k \in FoundKeys}
           Of == {<< >>} \cup UNION {Prefixes(w) : w \in K}
<1>1. ASSUME NEW r \in Reached PROVE r.string \in Of
  <2>1. CASE r = RootPlace
    BY <2>1 DEF RootPlace
  <2>2. ASSUME NEW k \in FoundKeys, NEW i \in 1..(Len(k) - 1), r = PlaceOf(children, k, i)
        PROVE  r.string \in Of
    <3>1. k \in Keys /\ Len(k) \in Nat /\ i \in 0..(Len(k) - 1)
      BY KeysAreKeys DEF FoundKeys
    <3>2. r.string = SubSeq(Front(k), 1, i) /\ i \in 0..Len(Front(k))
      BY <2>2, <3>1, FrontOfKey DEF PlaceOf
    <3>3. r.string \in Prefixes(Front(k)) /\ Front(k) \in K
      BY <3>2 DEF Prefixes
    <3> QED
      BY <3>3
  <2> QED
    BY <2>1, <2>2, ReachedArePlaces
<1>2. << >> \in Nodes
  <2>1. RootPlace \in Reached /\ RootPlace.string = << >>
    BY PlacesAreReached DEF RootPlace
  <2> QED
    BY <2>1
<1>3. ASSUME NEW k \in FoundKeys, NEW s \in Prefixes(Front(k)) PROVE s \in Nodes
  <2>1. PICK i \in 0..Len(Front(k)) : s = SubSeq(Front(k), 1, i)
    BY DEF Prefixes
  <2>2. k \in Keys
    BY DEF FoundKeys
  <2>3. i \in 0..(Len(k) - 1) /\ s = SubSeq(k, 1, i)
    BY <2>1, <2>2, FrontOfKey
  <2>4. PlaceOf(children, k, i) \in Reached /\ PlaceOf(children, k, i).string = s
    BY <2>3, PlacesAreReached DEF PlaceOf
  <2> QED
    BY <2>4
<1>4. Nodes = Of
  BY <1>1, <1>2, <1>3
<1> QED
  BY <1>4 DEF HeapTrie, TrieOf

\* The nodes with a leaf are the keywords.
LEMMA HeapKeywords ==
  ASSUME FullInv
  PROVE  HeapTrie.keywords = TrieOf({Front(k) : k \in FoundKeys}).keywords
<1> DEFINE Ended == {q \in Reached : isLeaf(children[q.node][NULL_TERMINATOR])}
<1>1. /\ allocated \in Nat \ {0} /\ allocated <= MaxNodes /\ SlotArray(children) /\ IsTree(children)
  BY TreeOfFull DEF FullInv, IInv, TypeOK, NodeIds
<1>2. ASSUME NEW r \in Ended PROVE \E k \in FoundKeys : r.string = Front(k)
  <2> DEFINE s == r.string
             p == children[r.node][NULL_TERMINATOR]
             l == Append(s, NULL_TERMINATOR)
  <2>1. /\ s \in Seq(Bytes) /\ r.node \in 1..allocated /\ r.node = LookupIn(children, s)
        /\ NULL_TERMINATOR \in Bytes /\ isLeaf(p)
    BY ReachedArePlaces, BytesAssumption
  <2>2. r.node \in NodeIds /\ r.node > 0
    BY <1>1, <2>1, MaxNodesAssumption DEF NodeIds
  <2>3. PICK k \in Keys : Lookup(k) = p
    BY <2>1, <2>2 DEF FullInv, IndexInv, LeavesHaveKeys
  <2>4. k \in FoundKeys
    BY <2>1, <2>3 DEF FoundKeys
  <2>5. l \in Seq(Bytes) /\ LookupIn(children, l) = p
    BY <2>1, <2>2, PathOfAppend
  <2>6. k \in Seq(Bytes) /\ LookupIn(children, k) = p /\ p # Null
    BY <2>1, <2>3, KeysAreKeys, LookupIsLookupIn DEF isLeaf, Null
  <2>7. k = l
    <3> HIDE DEF l, p
    <3> QED
      BY <1>1, <2>5, <2>6, LookupInjective DEF LookupIn
  <2>8. Front(l) = s
    BY <2>1, SeqEqual DEF Front
  <2> QED
    BY <2>4, <2>7, <2>8
<1>3. ASSUME NEW k \in FoundKeys PROVE \E r \in Ended : r.string = Front(k)
  <2> DEFINE i == Len(k) - 1
             r == PlaceOf(children, k, i)
  <2>1. k \in Keys /\ k \in Seq(Bytes) /\ Len(k) \in Nat \ {0} /\ isLeaf(LookupIn(children, k))
    BY KeysAreKeys, LookupIsLookupIn DEF FoundKeys
  <2>2. r \in Reached
    BY <2>1, PlacesAreReached
  <2>3. r.string = Front(k)
    BY DEF PlaceOf, Front
  <2>4. LookupIn(children, k) = children[r.node][NULL_TERMINATOR]
    <3>1. Len(k) \in 1..Len(k) /\ PathIn(children, k)[Len(k)] # Null
      BY <2>1 DEF LookupIn, isLeaf, Null
    <3>2. PathIn(children, k)[Len(k)] = children[PathIn(children, k)[Len(k) - 1]][k[Len(k)]]
      BY <1>1, <2>1, <3>1, PathBack
    <3>3. k[Len(k)] = NULL_TERMINATOR
      BY <2>1, FrontOfKey
    <3> QED
      BY <3>2, <3>3 DEF LookupIn, PlaceOf
  <2> HIDE DEF r
  <2> QED
    BY <2>1, <2>2, <2>3, <2>4
<1>4. {r.string : r \in Ended} = {Front(k) : k \in FoundKeys}
  <2> HIDE DEF Ended
  <2> QED
    BY <1>2, <1>3
<1> QED
  BY <1>4 DEF HeapTrie, TrieOf

\* The nodes labelled are the ends of the keywords' code points.
LEMMA HeapEnds ==
  ASSUME FullInv
  PROVE  HeapTrie.ends = TrieOf({Front(k) : k \in FoundKeys}).ends
<1> DEFINE Labelled == {q \in Reached : isCodePointEnd[q.node]}
           K == {Front(k) : k \in FoundKeys}
           Offsets == UNION {{w} \X CodePointStarts(w) : w \in K}
           Of == {<< >>} \cup {SubSeq(wo[1], 1, wo[2]) : wo \in Offsets}
<1>1. ASSUME NEW r \in Labelled PROVE r.string \in Of
  <2>1. CASE r = RootPlace
    BY <2>1 DEF RootPlace
  <2>2. ASSUME NEW k \in FoundKeys, NEW i \in 1..(Len(k) - 1), r = PlaceOf(children, k, i),
               isCodePointEnd[r.node] <=> isEndCodePoint(k, i)
        PROVE  r.string \in Of
    <3>1. k \in Keys /\ Len(k) \in Nat /\ i \in 0..(Len(k) - 1)
      BY KeysAreKeys DEF FoundKeys
    <3>2. r.string = SubSeq(Front(k), 1, i) /\ i \in CodePointStarts(Front(k))
      BY <2>2, <3>1, FrontOfKey DEF PlaceOf
    <3>3. <<Front(k), i>> \in Offsets
      BY <3>2
    <3> HIDE DEF Offsets
    <3> QED
      BY <3>2, <3>3
  <2> QED
    BY <2>1, <2>2, ReachedArePlaces
<1>2. << >> \in {r.string : r \in Labelled}
  <2>1. RootPlace \in Labelled /\ RootPlace.string = << >>
    BY PlacesAreReached DEF RootPlace, FullInv, NodesOnKeys
  <2> HIDE DEF Labelled
  <2> QED
    BY <2>1
<1>3. ASSUME NEW k \in FoundKeys, NEW o \in CodePointStarts(Front(k))
      PROVE  \E r \in Labelled : r.string = SubSeq(Front(k), 1, o)
  <2> DEFINE r == PlaceOf(children, k, o)
  <2>1. /\ k \in Keys /\ k \in Seq(Bytes) /\ Len(k) \in Nat \ {0}
        /\ Len(Front(k)) = Len(k) - 1
    BY KeysAreKeys, FrontOfKey DEF FoundKeys
  <2>2. o \in 0..(Len(k) - 1)
    <3>1. Len(Front(k)) \in Nat
      BY <2>1
    <3> QED
      BY <2>1, <3>1, StartsAre
  <2>3. r \in Reached /\ r.string = SubSeq(Front(k), 1, o)
    BY <2>1, <2>2, PlacesAreReached, FrontOfKey DEF PlaceOf
  <2>4. isEndCodePoint(k, o)
    BY <2>1, <2>2, FrontOfKey
  <2>5. isCodePointEnd[r.node]
    <3>1. CASE r = RootPlace
      BY <3>1 DEF RootPlace, FullInv, NodesOnKeys
    <3>2. ASSUME NEW l \in FoundKeys, NEW i \in 1..(Len(l) - 1), r = PlaceOf(children, l, i),
                 isCodePointEnd[r.node] <=> isEndCodePoint(l, i)
          PROVE  isCodePointEnd[r.node]
      <4>1. l \in Keys /\ l \in Seq(Bytes) /\ Len(l) \in Nat \ {0} /\ i \in 0..Len(l) /\ o \in 0..Len(k)
        BY <2>1, <2>2, KeysAreKeys DEF FoundKeys
      <4>2. SubSeq(k, 1, o) = SubSeq(l, 1, i)
        BY <3>2 DEF PlaceOf
      <4>3. o = i
        BY <2>1, <4>1, <4>2, LookupOfPrefix
      <4>4. isEndCodePoint(l, i)
        BY <2>1, <2>2, <2>4, <4>1, <4>2, <4>3, SharedLabel
      <4> QED
        BY <3>2, <4>4
    <3> QED
      BY <2>3, <3>1, <3>2, ReachedArePlaces
  <2> HIDE DEF r
  <2> QED
    BY <2>3, <2>5
<1>4. ASSUME NEW wo \in Offsets PROVE \E r \in Labelled : r.string = SubSeq(wo[1], 1, wo[2])
  <2>1. PICK k \in FoundKeys : wo \in {Front(k)} \X CodePointStarts(Front(k))
    OBVIOUS
  <2>2. wo[1] = Front(k) /\ wo[2] \in CodePointStarts(Front(k))
    BY <2>1
  <2> QED
    BY <1>3, <2>2
<1>5. {r.string : r \in Labelled} = Of
  <2> HIDE DEF Labelled, Offsets
  <2> QED
    BY <1>1, <1>2, <1>4
<1> QED
  BY <1>5 DEF HeapTrie, TrieOf

\* What a reader finds in memory is always the trie of the keywords that are in, with
\* all its labels and nothing else: BuildSuffixLink and the probe may rely on it.
THEOREM HeapMatchesTrie == Spec => []HeapIsTrie
<1>1. FullInv => HeapIsTrie
  <2> SUFFICES ASSUME FullInv PROVE HeapTrie = TrieOf({Front(k) : k \in FoundKeys})
    BY DEF HeapIsTrie
  <2>1. /\ HeapTrie.nodes = TrieOf({Front(k) : k \in FoundKeys}).nodes
        /\ HeapTrie.keywords = TrieOf({Front(k) : k \in FoundKeys}).keywords
        /\ HeapTrie.ends = TrieOf({Front(k) : k \in FoundKeys}).ends
    BY HeapNodes, HeapKeywords, HeapEnds
  <2> QED
    BY <2>1 DEF HeapTrie, TrieOf
<1> QED
  BY <1>1, FullInvariance, PTL

-----------------------------------------------------------------------------
(* ~Tree frees every node and every leaf once.  The walk keeps DestroyInv    *)
(* because the slots form a tree (TreeInv): what it comes to next hangs in   *)
(* one slot only, and was not visited through another.                       *)

FrameType == [node : 1..allocated, slots : SUBSET Bytes]

\* The nodes' words, the ids and the threads as a step of the destructor leaves them.
SameTrie ==
  children' = children /\ allocated' = allocated /\ pc' = pc
  /\ unique_literal_cnt' = unique_literal_cnt

\* A stack with one element more.
LEMMA Push ==
  ASSUME NEW S, NEW s \in Seq(S), NEW e \in S
  PROVE  /\ Append(s, e) \in Seq(S) /\ Len(Append(s, e)) = Len(s) + 1
         /\ \A i \in 1..Len(s) : Append(s, e)[i] = s[i]
         /\ Append(s, e)[Len(s) + 1] = e
OBVIOUS

\* And with one less.
LEMMA Pop ==
  ASSUME NEW S, NEW s \in Seq(S), s # << >>
  PROVE  /\ SubSeq(s, 1, Len(s) - 1) \in Seq(S) /\ Len(SubSeq(s, 1, Len(s) - 1)) = Len(s) - 1
         /\ \A i \in 1..(Len(s) - 1) : SubSeq(s, 1, Len(s) - 1)[i] = s[i]
<1>1. Len(s) \in Nat \ {0} /\ s \in [1..Len(s) -> S]
  OBVIOUS
<1>2. \A i \in 1..(Len(s) - 1) : s[i] \in S
  BY <1>1
<1>3. SubSeq(s, 1, Len(s) - 1) = [i \in 1..(Len(s) - 1) |-> s[i]]
  BY <1>1
<1>4. /\ [i \in 1..(Len(s) - 1) |-> s[i]] \in Seq(S)
      /\ Len([i \in 1..(Len(s) - 1) |-> s[i]]) = Len(s) - 1
  BY <1>1, <1>2
<1> QED
  BY <1>3, <1>4

\* As long as threads insert, a behaviour with a destructor is one of ArtTree.
LEMMA LifetimeIsSpec == LifetimeSpec => Spec
<1>1. LifetimeInit => Init
  BY DEF LifetimeInit
<1>2. [LifetimeNext]_lifetimeVars => [Next]_vars
  <2> SUFFICES ASSUME [LifetimeNext]_lifetimeVars PROVE Next \/ UNCHANGED vars
    OBVIOUS
  <2>1. CASE UNCHANGED lifetimeVars
    BY <2>1 DEF lifetimeVars
  <2>2. CASE LifetimeNext
    <3>1. Insert => Next
      BY DEF Insert, Next
    <3>2. Destroy \/ DeleteChild \/ DeleteNode => UNCHANGED vars
      BY DEF Destroy, DeleteChild, DeleteNode
    <3> QED
      BY <2>2, <3>1, <3>2 DEF LifetimeNext, lifetimeVars
  <2> QED
    BY <2>1, <2>2
<1> QED
  BY <1>1, <1>2, PTL DEF LifetimeSpec, Spec

\* The trie as the destructor finds it: a pointer hangs in one slot, no node hangs in
\* itself, and what is in a slot is a node that was made or a leaf with an id.
Found ==
  /\ allocated \in Nat \ {0} /\ Root \in 1..allocated
  /\ \A m, n \in 1..allocated : \A b, d \in Bytes :
       Child(m, b) /\ children[m][b] = children[n][d] => m = n /\ b = d
  /\ \A n \in 1..allocated : \A b \in Bytes :
       /\ children[n][b] \in Int /\ children[n][b] # Root
       /\ Child(n, b) =>
            IF isLeaf(children[n][b]) THEN auxIndex(children[n][b]) < unique_literal_cnt
            ELSE children[n][b] \in 1..allocated

\* What the threads leave is such a trie.
LEMMA TrieFound ==
  ASSUME FullInv
  PROVE  Found
<1>1. /\ allocated \in Nat \ {0} /\ allocated <= MaxNodes /\ MaxNodes \in Nat /\ NodeIds = 1..MaxNodes
      /\ IInv /\ SlotArray(children) /\ IsTree(children)
  <2>1. allocated \in NodeIds
    BY DEF FullInv, IInv, TypeOK
  <2> QED
    BY <2>1, TreeOfFull, MaxNodesAssumption DEF NodeIds
<1>2. \A n \in 1..allocated : n \in NodeIds
  BY <1>1
<1>3. ASSUME NEW n \in 1..allocated, NEW b \in Bytes
      PROVE  /\ children[n][b] \in Int /\ children[n][b] # Root
             /\ Child(n, b) =>
                  IF isLeaf(children[n][b]) THEN auxIndex(children[n][b]) < unique_literal_cnt
                  ELSE children[n][b] \in 1..allocated
  <2>1. children[n][b] \in Int /\ children[n][b] # Root
    BY <1>1, <1>2 DEF SlotArray, IsTree
  <2>2. children[n][b] <= allocated
    BY <1>1, <1>2 DEF IInv, SharedInv, FreeNodesBlank
  <2>3. isLeaf(children[n][b]) => auxIndex(children[n][b]) < unique_literal_cnt
    BY <1>2 DEF FullInv, IndexInv, IdsPlaced
  <2> QED
    BY <1>1, <2>1, <2>2, <2>3 DEF Child, isLeaf, Null
<1>4. \A m, n \in 1..allocated : \A b, d \in Bytes :
        Child(m, b) /\ children[m][b] = children[n][d] => m = n /\ b = d
  BY <1>1, <1>2 DEF IsTree, Child
<1> QED
  BY <1>1, <1>3, <1>4 DEF Found, Root

\* What is freed next is behind what was freed before.
LEMMA GoneGrows ==
  ASSUME freed \in Seq(Int), NEW p \in Int, freed' = Append(freed, p), p \notin Gone,
         \A i, j \in 1..Len(freed) : freed[i] = freed[j] => i = j
  PROVE  /\ Gone' = Gone \cup {p} /\ freed' \in Seq(Int) /\ freed' # << >>
         /\ \A i, j \in 1..Len(freed') : freed'[i] = freed'[j] => i = j
<1>1. /\ freed' \in Seq(Int) /\ Len(freed') = Len(freed) + 1 /\ Len(freed) \in Nat
      /\ freed'[Len(freed) + 1] = p /\ \A i \in 1..Len(freed) : freed'[i] = freed[i]
  OBVIOUS
<1>2. \A i \in 1..Len(freed') : i \in 1..Len(freed) \/ i = Len(freed) + 1
  BY <1>1
<1>3. \A i \in 1..Len(freed) : freed[i] # p
  BY DEF Gone
<1>4. Gone' = Gone \cup {p}
  <2>1. Len(freed) + 1 \in 1..Len(freed') /\ \A i \in 1..Len(freed) : i \in 1..Len(freed')
    BY <1>1
  <2>2. Gone' = {freed'[i] : i \in 1..Len(freed')}
    BY DEF Gone
  <2> QED
    BY <1>1, <1>2, <2>1, <2>2 DEF Gone
<1>5. \A i, j \in 1..Len(freed') : freed'[i] = freed'[j] => i = j
  BY <1>1, <1>2, <1>3
<1> QED
  BY <1>1, <1>4, <1>5

\* The loop of the innermost call is one slot further on.
LEMMA RestOf ==
  ASSUME frames \in Seq(FrameType), frames # << >>, NEW b
  PROVE  LET rest == [frames EXCEPT ![Len(frames)].slots = @ \ {b}]
         IN  /\ rest \in Seq(FrameType) /\ Len(rest) = Len(frames)
             /\ \A i \in 1..Len(frames) :
                  /\ rest[i].node = frames[i].node
                  /\ rest[i].slots = IF i = Len(frames) THEN frames[i].slots \ {b}
                                     ELSE frames[i].slots
<1> DEFINE rest == [frames EXCEPT ![Len(frames)].slots = @ \ {b}]
<1>1. /\ Len(frames) \in Nat \ {0} /\ Len(frames) \in 1..Len(frames)
      /\ \A i \in 1..Len(frames) : frames[i] \in FrameType
  OBVIOUS
<1>2. frames \in [1..Len(frames) -> FrameType]
  OBVIOUS
<1>3. ASSUME NEW i \in 1..Len(frames)
      PROVE  /\ rest[i] \in FrameType /\ rest[i].node = frames[i].node
             /\ rest[i].slots = IF i = Len(frames) THEN frames[i].slots \ {b} ELSE frames[i].slots
  <2>1. CASE i = Len(frames)
    <3>1. rest[i] = [frames[i] EXCEPT !.slots = @ \ {b}]
      BY <1>1, <1>2, <2>1
    <3>2. frames[i].node \in 1..allocated /\ frames[i].slots \in SUBSET Bytes
      BY <1>1 DEF FrameType
    <3>3. frames[i] = [node |-> frames[i].node, slots |-> frames[i].slots]
      BY <1>1 DEF FrameType
    <3>4. rest[i] = [node |-> frames[i].node, slots |-> frames[i].slots \ {b}]
      BY <3>1, <3>3
    <3> HIDE DEF rest
    <3> QED
      BY <2>1, <3>2, <3>4 DEF FrameType
  <2>2. CASE i # Len(frames)
    <3>1. rest[i] = frames[i]
      BY <1>1, <1>2, <2>2
    <3> HIDE DEF rest
    <3> QED
      BY <1>1, <2>2, <3>1
  <2> QED
    BY <2>1, <2>2
<1>4. rest \in Seq(FrameType) /\ Len(rest) = Len(frames)
  <2>1. DOMAIN rest = 1..Len(frames)
    BY <1>1
  <2>2. rest \in [1..Len(frames) -> FrameType]
    <3>1. rest = [i \in 1..Len(frames) |-> rest[i]]
      BY <2>1
    <3> HIDE DEF rest
    <3> QED
      BY <1>3, <3>1
  <2> HIDE DEF rest
  <2> QED
    BY <1>1, <2>2
<1> QED
  BY <1>3, <1>4

\* The frames are nodes that were made.
LEMMA FrameFacts ==
  ASSUME DestroyTypes
  PROVE  /\ frames \in Seq(FrameType) /\ Len(frames) \in Nat
         /\ \A i \in 1..Len(frames) : frames[i].node \in 1..allocated /\ frames[i].slots \subseteq Bytes
         /\ \A n \in OnStack : n \in 1..allocated
<1>1. frames \in Seq(FrameType)
  BY DEF DestroyTypes, FrameType
<1>2. \A i \in 1..Len(frames) : frames[i] \in FrameType
  BY <1>1
<1> QED
  BY <1>1, <1>2 DEF FrameType, OnStack

\* The destructor starts at the root, with everything below it still to come to.
LEMMA DestroyKeeps ==
  ASSUME Found, DestroyInv, Destroy
  PROVE  DestroyInv'
<1>1. /\ SameTrie /\ AllDone /\ freed = << >> /\ freed' = << >> /\ frames' = << Frame(Root) >>
      /\ frames = << >>
  BY DEF Destroy, SameTrie, vars, nodeVars, literalVars
<1>2. /\ frames'[1].node = Root /\ Len(frames') = 1 /\ frames' # << >>
      /\ frames'[1].slots = {b \in Bytes : Child(Root, b)}
      /\ frames' \in Seq([node : 1..allocated, slots : SUBSET Bytes])
  <2>1. Frame(Root) \in [node : 1..allocated, slots : SUBSET Bytes]
    BY DEF Frame, Found
  <2> QED
    BY <1>1, <2>1 DEF Frame, Child
<1>3. Gone' = {} /\ OnStack' = {Root} /\ Visited' = {Root}
  <2>1. Gone' = {freed'[i] : i \in 1..Len(freed')} /\ OnStack' = {frames'[i].node : i \in 1..Len(frames')}
    BY DEF Gone, OnStack
  <2>2. \A i \in 1..Len(frames') : i = 1
    BY <1>2
  <2>3. 1 \in 1..Len(frames')
    BY <1>2
  <2>4. Gone' = {}
    BY <1>1, <2>1
  <2>5. OnStack' = {Root}
    BY <1>2, <2>1, <2>2, <2>3
  <2> QED
    BY <2>4, <2>5 DEF Visited
<1>4. DestroyTypes'
  BY <1>1, <1>2, <1>3 DEF DestroyTypes, SameTrie, AllDone
<1>5. VisitedOnce'
  BY <1>1, <1>2, <1>3 DEF VisitedOnce
<1>6. GoneIsMade' /\ GoneBelow'
  BY <1>3 DEF GoneIsMade, GoneBelow
<1>7. FrameSplits'
  <2> SUFFICES ASSUME NEW i \in 1..Len(frames'), NEW b \in Bytes
               PROVE  LET child == children[frames'[i].node][b]
                      IN  IF b \in frames'[i].slots THEN child # Null /\ child \notin {Root}
                          ELSE child = Null
    BY <1>1, <1>3 DEF FrameSplits, SameTrie
  <2>1. i = 1
    BY <1>2
  <2> QED
    BY <1>2, <2>1 DEF Found, Child
<1>8. UnvisitedBelow'
  BY <1>1, <1>3 DEF UnvisitedBelow, SameTrie, Found, Child
<1> QED
  BY <1>4, <1>5, <1>6, <1>7, <1>8 DEF DestroyInv

\* A leaf that the loop comes to is freed at once.
LEMMA DeleteLeafKeeps ==
  ASSUME Found, DestroyInv, SameTrie, frames # << >>, NEW b \in frames[Len(frames)].slots,
         isLeaf(children[frames[Len(frames)].node][b]),
         frames' = [frames EXCEPT ![Len(frames)].slots = @ \ {b}],
         freed' = Append(freed, children[frames[Len(frames)].node][b])
  PROVE  DestroyInv'
<1> DEFINE L == Len(frames)
           top == frames[L].node
           child == children[top][b]
<1>1. /\ frames \in Seq(FrameType) /\ L \in Nat \ {0} /\ L \in 1..L
      /\ top \in 1..allocated /\ b \in Bytes
      /\ \A i \in 1..L : frames[i].node \in 1..allocated /\ frames[i].slots \subseteq Bytes
      /\ \A n \in OnStack : n \in 1..allocated
  BY FrameFacts DEF DestroyInv
<1>2. /\ frames' \in Seq(FrameType) /\ Len(frames') = L
      /\ \A i \in 1..L : /\ frames'[i].node = frames[i].node
                         /\ frames'[i].slots = IF i = L THEN frames[i].slots \ {b} ELSE frames[i].slots
  BY <1>1, RestOf
<1>3. child # Null /\ child \notin Visited /\ child \in Int /\ child < 0
  BY <1>1 DEF DestroyInv, FrameSplits, Found, isLeaf
<1>4. /\ Gone' = Gone \cup {child} /\ freed' \in Seq(Int) /\ freed' # << >>
      /\ \A i, j \in 1..Len(freed') : freed'[i] = freed'[j] => i = j
  BY <1>3, GoneGrows DEF DestroyInv, DestroyTypes, VisitedOnce, Visited
<1>5. OnStack' = OnStack
  BY <1>2 DEF OnStack
<1>6. Visited' = Visited \cup {child} /\ top \in Visited
  BY <1>1, <1>4, <1>5 DEF Visited, OnStack
<1>7. ASSUME NEW n \in 1..allocated, NEW d \in Bytes, Child(n, d), children[n][d] = child
      PROVE  n = top /\ d = b
  BY <1>1, <1>7 DEF Found
<1> HIDE DEF L, top, child
<1>8. DestroyTypes'
  BY <1>2, <1>4, <1>6 DEF DestroyInv, DestroyTypes, SameTrie, AllDone, FrameType, Started
<1>9. VisitedOnce'
  <2>1. child \notin OnStack
    BY <1>3 DEF Visited
  <2>2. \A i, j \in 1..Len(frames') : frames'[i].node = frames'[j].node => i = j
    BY <1>2 DEF DestroyInv, VisitedOnce, L
  <2>3. Gone' \cap OnStack' = {}
    BY <1>4, <1>5, <2>1 DEF DestroyInv, VisitedOnce
  <2> QED
    BY <1>4, <2>2, <2>3 DEF VisitedOnce
<1>10. GoneIsMade'
  <2>1. auxIndex(child) < unique_literal_cnt /\ isLeaf(child)
    BY <1>1, <1>3 DEF Found, isLeaf, Child, child, top, L
  <2> QED
    BY <1>4, <2>1 DEF DestroyInv, GoneIsMade, SameTrie
<1>11. GoneBelow'
  BY <1>3, <1>4 DEF DestroyInv, GoneBelow, SameTrie, isLeaf, Child
<1>12. FrameSplits'
  <2> SUFFICES ASSUME NEW i \in 1..L, NEW d \in Bytes
               PROVE  LET c == children[frames[i].node][d]
                      IN  IF d \in frames'[i].slots THEN c # Null /\ c \notin Visited'
                          ELSE c # Null => \/ c \in Gone'
                                           \/ i < L /\ frames'[i + 1].node = c
    BY <1>2 DEF FrameSplits, SameTrie
  <2> DEFINE c == children[frames[i].node][d]
  <2>1. IF d \in frames[i].slots THEN c # Null /\ c \notin Visited
        ELSE c # Null => c \in Gone \/ (i < L /\ frames[i + 1].node = c)
    BY DEF DestroyInv, FrameSplits, L
  <2>2. CASE d \in frames'[i].slots
    <3>1. d \in frames[i].slots /\ ~(i = L /\ d = b)
      BY <1>2, <2>2
    <3>2. c # child
      <4> SUFFICES ASSUME c = child PROVE FALSE
        OBVIOUS
      <4>1. frames[i].node = top /\ d = b
        BY <1>1, <1>7, <2>1, <3>1 DEF Child
      <4>2. i = L
        BY <1>1, <4>1 DEF DestroyInv, VisitedOnce, L, top
      <4> QED
        BY <3>1, <4>1, <4>2
    <3> QED
      BY <1>6, <2>1, <2>2, <3>1, <3>2
  <2>3. CASE d \notin frames'[i].slots
    <3>1. CASE i = L /\ d = b
      BY <1>4, <2>3, <3>1 DEF top, child
    <3>2. CASE ~(i = L /\ d = b)
      <4>1. d \notin frames[i].slots
        BY <1>2, <2>3, <3>2
      <4>2. i < L => frames'[i + 1].node = frames[i + 1].node
        <5>1. i < L => i + 1 \in 1..L
          BY <1>1
        <5> QED
          BY <1>2, <5>1
      <4> QED
        BY <1>4, <2>1, <2>3, <4>1, <4>2
    <3> QED
      BY <3>1, <3>2
  <2> QED
    BY <2>2, <2>3
<1>13. UnvisitedBelow'
  <2> SUFFICES ASSUME NEW n \in 1..allocated, n \notin Visited', NEW d \in Bytes, Child(n, d)
               PROVE  children[n][d] \notin Visited'
    BY DEF UnvisitedBelow, SameTrie, Child
  <2>1. n # top /\ n \notin Visited
    BY <1>6
  <2>2. children[n][d] \notin Visited
    BY <2>1 DEF DestroyInv, UnvisitedBelow
  <2> QED
    BY <1>6, <1>7, <2>1, <2>2
<1> QED
  BY <1>8, <1>9, <1>10, <1>11, <1>12, <1>13 DEF DestroyInv

\* A node that the loop comes to is entered, with everything below it to come.
LEMMA DescendKeeps ==
  ASSUME Found, DestroyInv, SameTrie, frames # << >>, NEW b \in frames[Len(frames)].slots,
         ~isLeaf(children[frames[Len(frames)].node][b]),
         frames' = Append([frames EXCEPT ![Len(frames)].slots = @ \ {b}],
                          Frame(children[frames[Len(frames)].node][b])),
         freed' = freed
  PROVE  DestroyInv'
<1> DEFINE L == Len(frames)
           top == frames[L].node
           child == children[top][b]
           rest == [frames EXCEPT ![Len(frames)].slots = @ \ {b}]
<1>1. /\ frames \in Seq(FrameType) /\ L \in Nat \ {0} /\ L \in 1..L
      /\ top \in 1..allocated /\ b \in Bytes
      /\ \A i \in 1..L : frames[i].node \in 1..allocated /\ frames[i].slots \subseteq Bytes
      /\ \A n \in OnStack : n \in 1..allocated
  BY FrameFacts DEF DestroyInv
<1>2. child # Null /\ child \notin Visited
  BY <1>1 DEF DestroyInv, FrameSplits
<1>3. child \in 1..allocated
  BY <1>1, <1>2 DEF Found, Child
<1>4. Frame(child) \in FrameType /\ Frame(child).node = child
      /\ Frame(child).slots = {d \in Bytes : Child(child, d)}
  BY <1>3 DEF Frame, FrameType, Child
<1>5. /\ rest \in Seq(FrameType) /\ Len(rest) = L
      /\ \A i \in 1..L : /\ rest[i].node = frames[i].node
                         /\ rest[i].slots = IF i = L THEN frames[i].slots \ {b} ELSE frames[i].slots
  BY <1>1, RestOf
<1>6. /\ frames' \in Seq(FrameType) /\ Len(frames') = L + 1 /\ frames' # << >>
      /\ \A i \in 1..L : frames'[i] = rest[i]
      /\ frames'[L + 1] = Frame(child)
  <2> DEFINE f == Frame(child)
  <2>1. frames' = Append(rest, f) /\ f \in FrameType
    BY <1>4
  <2> HIDE DEF rest, f
  <2>2. /\ frames' \in Seq(FrameType) /\ Len(frames') = L + 1 /\ frames' # << >>
        /\ \A i \in 1..L : frames'[i] = rest[i]
        /\ frames'[L + 1] = f
    <3>1. /\ Append(rest, f) \in Seq(FrameType) /\ Len(Append(rest, f)) = Len(rest) + 1
          /\ \A i \in 1..Len(rest) : Append(rest, f)[i] = rest[i]
          /\ Append(rest, f)[Len(rest) + 1] = f
      BY <1>5, <2>1, Push
    <3>2. Len(frames') = L + 1
      BY ONLY <1>5, <2>1, <3>1
    <3>3. frames' # << >>
      BY ONLY <1>1, <3>2
    <3> QED
      BY ONLY <1>5, <2>1, <3>1, <3>2, <3>3
  <2> QED
    BY <2>2 DEF f
<1>7. ASSUME NEW n \in 1..allocated, NEW d \in Bytes, Child(n, d), children[n][d] = child
      PROVE  n = top /\ d = b
  BY <1>1, <1>7 DEF Found
<1>8. top \in Visited /\ top # child
  BY <1>1, <1>2 DEF Visited, OnStack
<1> HIDE DEF L, top, child, rest
<1>9. /\ \A i \in 1..L : i \in 1..Len(frames')
      /\ L + 1 \in 1..Len(frames') /\ ~(L + 1 \in 1..L)
      /\ \A i \in 1..Len(frames') : i \in 1..L \/ i = L + 1
  BY <1>1, <1>6
<1>10. Gone' = Gone /\ OnStack' = OnStack \cup {child} /\ Visited' = Visited \cup {child}
  <2>1. Gone' = Gone
    BY DEF Gone
  <2>2. OnStack' = {frames'[i].node : i \in 1..Len(frames')}
    BY DEF OnStack
  <2>3. \A i \in 1..L : frames'[i].node = frames[i].node
    BY <1>5, <1>6
  <2>4. OnStack' = OnStack \cup {child}
    BY <1>4, <1>6, <1>9, <2>2, <2>3 DEF OnStack, L
  <2> QED
    BY <2>1, <2>4 DEF Visited
<1>11. DestroyTypes'
  BY <1>6, <1>10 DEF DestroyInv, DestroyTypes, SameTrie, AllDone, FrameType, Started
<1>12. VisitedOnce'
  <2>1. ASSUME NEW i \in 1..Len(frames'), NEW j \in 1..Len(frames'), frames'[i].node = frames'[j].node
        PROVE  i = j
    <3>1. \A m \in 1..L : frames'[m].node = frames[m].node /\ frames[m].node # child
      BY <1>2, <1>5, <1>6 DEF Visited, OnStack, L
    <3>2. frames'[L + 1].node = child
      BY <1>4, <1>6
    <3> QED
      BY <1>9, <2>1, <3>1, <3>2 DEF DestroyInv, VisitedOnce, L
  <2>2. Gone' \cap OnStack' = {}
    BY <1>2, <1>10 DEF DestroyInv, VisitedOnce, Visited
  <2>3. \A i, j \in 1..Len(freed') : freed'[i] = freed'[j] => i = j
    BY DEF DestroyInv, VisitedOnce
  <2> QED
    BY <2>1, <2>2, <2>3 DEF VisitedOnce
<1>13. GoneIsMade' /\ GoneBelow'
  BY <1>10 DEF DestroyInv, GoneIsMade, GoneBelow, SameTrie, Child
<1>14. FrameSplits'
  <2> SUFFICES ASSUME NEW i \in 1..Len(frames'), NEW d \in Bytes
               PROVE  LET c == children[frames'[i].node][d]
                      IN  IF d \in frames'[i].slots THEN c # Null /\ c \notin Visited'
                          ELSE c # Null => \/ c \in Gone'
                                           \/ i < Len(frames') /\ frames'[i + 1].node = c
    BY DEF FrameSplits, SameTrie
  <2>1. CASE i = L + 1
    <3>1. frames'[i].node = child /\ frames'[i].slots = {e \in Bytes : Child(child, e)}
      BY <1>4, <1>6, <2>1
    <3>2. ASSUME Child(child, d) PROVE children[child][d] \notin Visited'
      <4>1. children[child][d] \notin Visited
        BY <1>2, <1>3, <3>2 DEF DestroyInv, UnvisitedBelow
      <4>2. children[child][d] # child
        BY <1>3, <1>7, <1>8, <3>2
      <4> QED
        BY <1>10, <4>1, <4>2
    <3> QED
      BY <3>1, <3>2 DEF Child
  <2>2. CASE i \in 1..L
    <3> DEFINE c == children[frames[i].node][d]
    <3>1. IF d \in frames[i].slots THEN c # Null /\ c \notin Visited
          ELSE c # Null => c \in Gone \/ (i < L /\ frames[i + 1].node = c)
      BY <2>2 DEF DestroyInv, FrameSplits, L
    <3>2. /\ frames'[i].node = frames[i].node
          /\ frames'[i].slots = IF i = L THEN frames[i].slots \ {b} ELSE frames[i].slots
      BY <1>5, <1>6, <2>2
    <3>3. CASE d \in frames'[i].slots
      <4>1. d \in frames[i].slots /\ ~(i = L /\ d = b)
        BY <3>2, <3>3
      <4>2. c # child
        <5> SUFFICES ASSUME c = child PROVE FALSE
          OBVIOUS
        <5>1. frames[i].node = top /\ d = b
          BY <1>1, <1>7, <2>2, <3>1, <4>1 DEF Child, L
        <5>2. i = L
          BY <1>1, <2>2, <5>1 DEF DestroyInv, VisitedOnce, L, top
        <5> QED
          BY <4>1, <5>1, <5>2
      <4> QED
        BY <1>10, <3>1, <3>2, <3>3, <4>1, <4>2
    <3>4. CASE d \notin frames'[i].slots
      <4>1. CASE i = L /\ d = b
        <5>1. i < Len(frames') /\ frames'[i + 1].node = child
          BY <1>1, <1>4, <1>6, <4>1
        <5> QED
          BY <3>2, <3>4, <4>1, <5>1 DEF top, child
      <4>2. CASE ~(i = L /\ d = b)
        <5>1. d \notin frames[i].slots
          BY <3>2, <3>4, <4>2
        <5>2. i < L => i < Len(frames') /\ frames'[i + 1].node = frames[i + 1].node
          <6>1. i < L => i + 1 \in 1..L /\ i < Len(frames')
            BY <1>1, <1>6, <2>2
          <6> QED
            BY <1>5, <1>6, <6>1
        <5> QED
          BY <1>10, <3>1, <3>2, <3>4, <5>1, <5>2
      <4> QED
        BY <4>1, <4>2
    <3> QED
      BY <3>3, <3>4
  <2> QED
    BY <1>9, <2>1, <2>2
<1>15. UnvisitedBelow'
  <2> SUFFICES ASSUME NEW n \in 1..allocated, n \notin Visited', NEW d \in Bytes, Child(n, d)
               PROVE  children[n][d] \notin Visited'
    BY DEF UnvisitedBelow, SameTrie, Child
  <2>1. n # top /\ n \notin Visited
    BY <1>8, <1>10
  <2>2. children[n][d] \notin Visited
    BY <2>1 DEF DestroyInv, UnvisitedBelow
  <2> QED
    BY <1>7, <1>10, <2>1, <2>2
<1> QED
  BY <1>11, <1>12, <1>13, <1>14, <1>15 DEF DestroyInv

\* A node whose loop is over is freed, and everything below it has been.
LEMMA DeleteNodeKeeps ==
  ASSUME Found, DestroyInv, DeleteNode
  PROVE  DestroyInv'
<1> DEFINE L == Len(frames)
           top == frames[L].node
<1>1. /\ SameTrie /\ frames # << >> /\ frames[L].slots = {}
      /\ freed' = Append(freed, top) /\ frames' = SubSeq(frames, 1, L - 1)
  BY DEF DeleteNode, deleteNode, Last, Front, SameTrie, vars, nodeVars, literalVars
<1>2. /\ frames \in Seq(FrameType) /\ L \in Nat \ {0} /\ L \in 1..L
      /\ top \in 1..allocated
      /\ \A i \in 1..L : frames[i].node \in 1..allocated
  BY <1>1, FrameFacts DEF DestroyInv
<1>3. /\ frames' \in Seq(FrameType) /\ Len(frames') = L - 1
      /\ \A i \in 1..(L - 1) : frames'[i] = frames[i] /\ i \in 1..L
  <2>1. \A i \in 1..(L - 1) : i \in 1..L
    BY <1>2
  <2> QED
    BY <1>1, <1>2, <2>1, Pop
<1>4. top \in OnStack /\ top \notin Gone /\ top \in Int
  BY <1>2 DEF DestroyInv, VisitedOnce, OnStack
<1>5. /\ Gone' = Gone \cup {top} /\ freed' \in Seq(Int) /\ freed' # << >>
      /\ \A i, j \in 1..Len(freed') : freed'[i] = freed'[j] => i = j
  BY <1>1, <1>4, GoneGrows DEF DestroyInv, DestroyTypes, VisitedOnce
<1>6. ASSUME NEW b \in Bytes, Child(top, b) PROVE children[top][b] \in Gone
  BY <1>1, <1>2, <1>6 DEF DestroyInv, FrameSplits, Child
<1>7. ASSUME NEW i \in 1..L, NEW j \in 1..L, frames[i].node = frames[j].node PROVE i = j
  BY <1>7 DEF DestroyInv, VisitedOnce
<1> HIDE DEF L, top
<1>8. OnStack' = OnStack \ {top}
  <2>1. OnStack' = {frames'[i].node : i \in 1..(L - 1)}
    BY <1>3 DEF OnStack
  <2>2. OnStack = {frames[i].node : i \in 1..L}
    BY DEF OnStack, L
  <2>3. \A i \in 1..L : i = L \/ i \in 1..(L - 1)
    BY <1>2
  <2>4. \A i \in 1..(L - 1) : frames[i].node # top
    <3> SUFFICES ASSUME NEW i \in 1..(L - 1), frames[i].node = top PROVE FALSE
      OBVIOUS
    <3>1. i = L
      BY <1>2, <1>3, <1>7 DEF top
    <3> QED
      BY <1>2, <3>1
  <2>5. \A i \in 1..(L - 1) : frames'[i].node = frames[i].node
    BY <1>3
  <2> QED
    BY <1>3, <2>1, <2>2, <2>3, <2>4, <2>5 DEF top
<1>9. Visited' = Visited
  BY <1>4, <1>5, <1>8 DEF Visited
<1>10. DestroyTypes'
  BY <1>1, <1>3, <1>5, <1>9 DEF DestroyInv, DestroyTypes, SameTrie, AllDone, FrameType, Started
<1>11. VisitedOnce'
  <2>1. \A i, j \in 1..Len(frames') : frames'[i].node = frames'[j].node => i = j
    BY <1>3, <1>7
  <2>2. Gone' \cap OnStack' = {}
    BY <1>5, <1>8 DEF DestroyInv, VisitedOnce
  <2> QED
    BY <1>5, <2>1, <2>2 DEF VisitedOnce
<1>12. GoneIsMade'
  <2>1. ~isLeaf(top)
    BY <1>2 DEF isLeaf
  <2> QED
    BY <1>1, <1>2, <1>5, <2>1 DEF DestroyInv, GoneIsMade, SameTrie
<1>13. GoneBelow'
  BY <1>1, <1>5, <1>6 DEF DestroyInv, GoneBelow, SameTrie, Child
<1>14. FrameSplits'
  <2> SUFFICES ASSUME NEW i \in 1..(L - 1), NEW d \in Bytes
               PROVE  LET c == children[frames[i].node][d]
                      IN  IF d \in frames[i].slots THEN c # Null /\ c \notin Visited
                          ELSE c # Null => \/ c \in Gone'
                                           \/ i < L - 1 /\ frames'[i + 1].node = c
    BY <1>1, <1>3, <1>9 DEF FrameSplits, SameTrie
  <2> DEFINE c == children[frames[i].node][d]
  <2>1. IF d \in frames[i].slots THEN c # Null /\ c \notin Visited
        ELSE c # Null => c \in Gone \/ (i < L /\ frames[i + 1].node = c)
    BY <1>3 DEF DestroyInv, FrameSplits, L
  <2>2. CASE i = L - 1
    <3>1. frames[i + 1].node = top
      BY <1>2, <2>2 DEF top
    <3> QED
      BY <1>5, <2>1, <3>1
  <2>3. CASE i # L - 1
    <3>1. i < L - 1 /\ i + 1 \in 1..(L - 1)
      BY <1>2, <2>3
    <3> QED
      BY <1>3, <1>5, <2>1, <3>1
  <2> QED
    BY <2>2, <2>3
<1>15. UnvisitedBelow'
  BY <1>1, <1>9 DEF DestroyInv, UnvisitedBelow, SameTrie, Child
<1> QED
  BY <1>10, <1>11, <1>12, <1>13, <1>14, <1>15 DEF DestroyInv

\* While threads insert, nothing is on the stack and nothing is freed.
LEMMA InsertKeeps ==
  ASSUME FullInv, DestroyInv, Insert, allocated' \in Nat
  PROVE  DestroyInv'
<1>1. PICK t \in Threads : Step(t)
  BY DEF Insert
<1>2. pc[t] # "done"
  BY <1>1 DEF Step, Restart, MustRestart, ReadLock, ReadChild, Validate, CheckParent,
    InsertCheckParent, InsertLock, NewTid, Emplace, Publish, CountRead, CountWrite, UpsertLock,
    UpsertRead, UpsertWrite, Unlock
<1>3. frames = << >> /\ freed = << >> /\ frames' = << >> /\ freed' = << >>
  BY <1>2 DEF DestroyInv, DestroyTypes, Started, AllDone, Insert
<1>4. Gone' = {} /\ OnStack' = {} /\ Visited' = {}
  BY <1>3 DEF Gone, OnStack, Visited
<1>5. DestroyTypes' /\ VisitedOnce'
  BY <1>3, <1>4 DEF DestroyTypes, Started, VisitedOnce
<1>6. GoneIsMade' /\ GoneBelow' /\ FrameSplits' /\ UnvisitedBelow'
  BY <1>3, <1>4 DEF GoneIsMade, GoneBelow, FrameSplits, UnvisitedBelow
<1> QED
  BY <1>5, <1>6 DEF DestroyInv

\* The loop comes to a leaf or to a node.
LEMMA DeleteChildKeeps ==
  ASSUME Found, DestroyInv, DeleteChild
  PROVE  DestroyInv'
<1>1. SameTrie /\ frames # << >>
  BY DEF DeleteChild, SameTrie, vars, nodeVars, literalVars
<1>2. PICK b \in frames[Len(frames)].slots :
        LET child == children[frames[Len(frames)].node][b]
            rest  == [frames EXCEPT ![Len(frames)].slots = @ \ {b}]
        IN  IF isLeaf(child) THEN frames' = rest /\ freed' = Append(freed, child)
            ELSE frames' = Append(rest, Frame(child)) /\ freed' = freed
  BY DEF DeleteChild, Last, deleteNode
<1>3. CASE isLeaf(children[frames[Len(frames)].node][b])
  BY <1>1, <1>2, <1>3, DeleteLeafKeeps
<1>4. CASE ~isLeaf(children[frames[Len(frames)].node][b])
  BY <1>1, <1>2, <1>4, DescendKeeps
<1> QED
  BY <1>3, <1>4

\* A step that changes nothing keeps DestroyInv.
LEMMA RestKeeps ==
  ASSUME DestroyInv, UNCHANGED lifetimeVars
  PROVE  DestroyInv'
<1>1. /\ frames' = frames /\ freed' = freed /\ children' = children /\ allocated' = allocated
      /\ pc' = pc /\ unique_literal_cnt' = unique_literal_cnt
  BY DEF lifetimeVars, vars, nodeVars, literalVars
<1>2. Gone' = Gone /\ OnStack' = OnStack /\ Visited' = Visited
  BY <1>1 DEF Gone, OnStack, Visited
<1>3. DestroyTypes' /\ VisitedOnce' /\ GoneIsMade'
  BY <1>1, <1>2 DEF DestroyInv, DestroyTypes, Started, AllDone, VisitedOnce, GoneIsMade
<1>4. GoneBelow' /\ FrameSplits' /\ UnvisitedBelow'
  BY <1>1, <1>2 DEF DestroyInv, GoneBelow, FrameSplits, UnvisitedBelow, Child
<1> QED
  BY <1>3, <1>4 DEF DestroyInv

\* In every state of a trie's life, what the destructor has come to is freed from below
\* and nothing twice (deleteChildren), and the trie is as the threads have left it.
THEOREM LifetimeInvariance == LifetimeSpec => []LifetimeInv
<1>1. LifetimeInit => DestroyInv
  <2> SUFFICES ASSUME LifetimeInit PROVE DestroyInv
    OBVIOUS
  <2>1. frames = << >> /\ freed = << >>
    BY DEF LifetimeInit
  <2>2. Gone = {} /\ OnStack = {} /\ Visited = {}
    BY <2>1 DEF Gone, OnStack, Visited
  <2> QED
    BY <2>1, <2>2 DEF DestroyInv, DestroyTypes, Started, VisitedOnce, GoneIsMade, GoneBelow,
      FrameSplits, UnvisitedBelow
<1>2. FullInv /\ FullInv' /\ DestroyInv /\ [LifetimeNext]_lifetimeVars => DestroyInv'
  <2> SUFFICES ASSUME FullInv, FullInv', DestroyInv, [LifetimeNext]_lifetimeVars
               PROVE  DestroyInv'
    OBVIOUS
  <2>1. Found
    BY TrieFound
  <2>2. allocated' \in Nat
    BY MaxNodesAssumption DEF FullInv, IInv, TypeOK, NodeIds
  <2>3. CASE Insert
    BY <2>2, <2>3, InsertKeeps
  <2>4. CASE Destroy
    BY <2>1, <2>4, DestroyKeeps
  <2>5. CASE DeleteChild
    BY <2>1, <2>5, DeleteChildKeeps
  <2>6. CASE DeleteNode
    BY <2>1, <2>6, DeleteNodeKeeps
  <2>7. CASE UNCHANGED lifetimeVars
    BY <2>7, RestKeeps
  <2> QED
    BY <2>3, <2>4, <2>5, <2>6, <2>7 DEF LifetimeNext
<1>3. FullInv /\ DestroyInv => LifetimeInv
  BY DEF LifetimeInv
<1>4. LifetimeSpec => []FullInv
  BY LifetimeIsSpec, FullInvariance, PTL
<1> QED
  BY <1>1, <1>2, <1>3, <1>4, PTL DEF LifetimeSpec

\* A keyword leads to every node, so that the walk has come to all when it is over.
LEMMA AllGone ==
  ASSUME LifetimeInv, Destroyed
  PROVE  /\ \A n \in 1..allocated : n \in Gone
         /\ \A id \in 0..(unique_literal_cnt - 1) : Leaf(id) \in Gone
<1>1. /\ allocated \in Nat \ {0} /\ IInv /\ SlotArray(children) /\ IsTree(children)
      /\ FullInv /\ DestroyInv
  BY TreeOfFull DEF LifetimeInv
<1>2. Root \in Gone /\ AllDone
  <2>1. OnStack = {}
    BY DEF OnStack, Destroyed
  <2> QED
    BY <1>1, <2>1 DEF DestroyInv, DestroyTypes, Started, Destroyed, Visited
<1>3. ASSUME NEW n \in 1..allocated PROVE n \in Gone
  <2>1. CASE n = Root
    BY <1>2, <2>1
  <2>2. CASE n # Root
    <3>1. PICK k \in FoundKeys : \E i \in 1..(Len(k) - 1) : Path(k)[i] = n
      BY <1>1, <2>2 DEF FullInv, NodesOnKeys
    <3>2. PICK i \in 1..(Len(k) - 1) : PathIn(children, k)[i] = n
      BY <3>1, PathIsPathIn
    <3>3. /\ k \in Seq(Bytes) /\ Len(k) \in Nat \ {0} /\ LookupIn(children, k) # Null
      BY KeysAreKeys, LookupIsLookupIn DEF FoundKeys, isLeaf, Null
    <3>4. \A j \in 0..(Len(k) - 1) : PathIn(children, k)[j] \in 1..allocated
      BY <1>1, <3>3, FoundPath
    <3> DEFINE S == {j \in Nat : PathIn(children, k)[j] \in Gone}
    <3>5. 0 \in S
      BY <1>2, <3>3, PathSteps
    <3>6. ASSUME NEW j \in 0..(i - 1), j \in S PROVE j + 1 \in S
      <4>1. /\ j + 1 \in 1..Len(k) /\ (j + 1) - 1 = j /\ j + 1 \in 0..(Len(k) - 1)
            /\ j \in 0..(Len(k) - 1) /\ j + 1 \in Nat
        BY <3>3
      <4> DEFINE m == PathIn(children, k)[j]
                 p == PathIn(children, k)[j + 1]
      <4>2. m \in Gone /\ m \in 1..allocated /\ p \in 1..allocated
        BY <3>4, <3>6, <4>1
      <4>3. p # Null /\ ~isLeaf(m)
        BY <4>2 DEF Null, isLeaf
      <4>4. k[j + 1] \in Bytes /\ p = children[m][k[j + 1]]
        BY <1>1, <3>3, <4>1, <4>3, PathBack
      <4> HIDE DEF m, p
      <4>5. p \in Gone
        BY <1>1, <4>2, <4>3, <4>4 DEF DestroyInv, GoneBelow, Child
      <4> QED
        BY <4>1, <4>5 DEF p
    <3>7. i \in Nat /\ i \in 0..i
      BY <3>3
    <3>8. \A j \in 0..i : j \in S
      <4> HIDE DEF S
      <4> QED
        BY <3>5, <3>6, <3>7, InductionUpTo
    <3> QED
      BY <3>2, <3>7, <3>8
  <2> QED
    BY <2>1, <2>2
<1>4. ASSUME NEW id \in 0..(unique_literal_cnt - 1) PROVE Leaf(id) \in Gone
  <2>1. LeafIn(children, id)
    <3>1. \A t \in Threads : ~InFlight(t)
      BY <1>2 DEF AllDone, InFlight
    <3> QED
      BY <1>1, <3>1 DEF FullInv, IndexInv, IdsPlaced
  <2>2. PICK n \in NodeIds, b \in Bytes : children[n][b] = Leaf(id)
    BY <2>1 DEF LeafIn
  <2>3. Leaf(id) # Null
    <3>1. id \in Nat
      BY <1>1 DEF IInv, TypeOK
    <3> QED
      BY <3>1 DEF Leaf, Null
  <2>4. n \in 1..allocated
    BY <1>1, <2>2, <2>3, MaxNodesAssumption DEF IInv, SharedInv, FreeNodesBlank, NodeIds
  <2>5. n \in Gone /\ ~isLeaf(n)
    BY <1>3, <2>4 DEF isLeaf
  <2> QED
    BY <1>1, <2>2, <2>3, <2>5 DEF DestroyInv, GoneBelow, Child
<1> QED
  BY <1>3, <1>4

\* Whatever the threads did to each other, ~Tree frees every node and every leaf once,
\* for any number of threads, any calls and any number of nodes.
THEOREM NothingFreedTwiceOrLeft == LifetimeSpec => []FreedExactlyOnce
<1>1. LifetimeInv => FreedExactlyOnce
  <2> SUFFICES ASSUME LifetimeInv PROVE FreedExactlyOnce
    OBVIOUS
  <2> DEFINE ids == 0..(unique_literal_cnt - 1)
             pointers == (1..allocated) \cup {-1 - id : id \in ids}
  <2>1. unique_literal_cnt \in Nat /\ freed \in Seq(Int) /\ Len(freed) \in Nat /\ DestroyInv
    BY DEF LifetimeInv, FullInv, IInv, TypeOK, DestroyInv, DestroyTypes
  <2>2. Cardinality(Gone) = Len(freed)
    <3> DEFINE f == [i \in 1..Len(freed) |-> freed[i]]
    <3>1. f \in [1..Len(freed) -> Gone] /\ \A p \in Gone : \E i \in 1..Len(freed) : f[i] = p
      BY DEF Gone
    <3>2. \A i, j \in 1..Len(freed) : f[i] = f[j] => i = j
      BY <2>1 DEF DestroyInv, VisitedOnce
    <3>3. IsFiniteSet(1..Len(freed)) /\ Cardinality(1..Len(freed)) = Len(freed)
      <4>1. 1 \in Int /\ Len(freed) \in Int
        BY <2>1
      <4>2. /\ IsFiniteSet(1..Len(freed))
            /\ Cardinality(1..Len(freed)) = IF 1 > Len(freed) THEN 0 ELSE Len(freed) - 1 + 1
        BY <4>1, FS_Interval
      <4>3. (IF 1 > Len(freed) THEN 0 ELSE Len(freed) - 1 + 1) = Len(freed)
        BY <2>1
      <4> QED
        BY <4>2, <4>3
    <3> HIDE DEF f
    <3>4. f \in Surjection(1..Len(freed), Gone)
      BY <3>1 DEF Surjection
    <3>5. IsFiniteSet(Gone)
      BY <3>3, <3>4, FS_Surjection
    <3> QED
      BY <3>1, <3>2, <3>3, <3>5, SameSize
  <2>3. \A i \in 1..Len(frames) : frames[i].node \notin Gone
    BY <2>1 DEF DestroyInv, VisitedOnce, OnStack
  <2>4. Gone \subseteq pointers
    <3> SUFFICES ASSUME NEW p \in Gone PROVE p \in pointers
      OBVIOUS
    <3>1. p \in Int
      BY <2>1 DEF Gone
    <3>2. CASE isLeaf(p)
      <4>1. auxIndex(p) \in ids /\ p = -1 - auxIndex(p)
        BY <2>1, <3>1, <3>2 DEF DestroyInv, GoneIsMade, isLeaf, auxIndex
      <4> HIDE DEF ids
      <4> QED
        BY <4>1
    <3>3. CASE ~isLeaf(p)
      BY <2>1, <3>3 DEF DestroyInv, GoneIsMade
    <3> QED
      BY <3>2, <3>3
  <2>5. ASSUME Destroyed PROVE Gone = pointers
    <3>1. \A id \in ids : -1 - id \in Gone
      <4>1. \A id \in ids : Leaf(id) \in Gone /\ Leaf(id) = -1 - id
        BY <2>1, <2>5, AllGone DEF Leaf
      <4> QED
        BY <4>1
    <3>2. \A n \in 1..allocated : n \in Gone
      BY <2>5, AllGone
    <3> HIDE DEF ids
    <3> QED
      BY <2>4, <3>1, <3>2
  <2> QED
    BY <2>2, <2>3, <2>4, <2>5 DEF FreedExactlyOnce, Gone
<1> QED
  BY <1>1, LifetimeInvariance, PTL
=============================================================================
