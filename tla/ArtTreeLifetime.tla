-------------------------- MODULE ArtTreeLifetime --------------------------
(***************************************************************************)
(* The whole life of a trie: ArtTree's concurrent inserts and then, when   *)
(* all threads have joined, ~Tree, which walks the trie and frees every    *)
(* node and every leaf it reaches.  The recursion of deleteChildren is a   *)
(* stack of frames: a node, and the slots its loop has not come to yet.    *)
(***************************************************************************)
EXTENDS ArtTreeInductive, SequencesExt

VARIABLES
  frames,   \* deleteChildren's stack, innermost last
  freed     \* the pointers freed, in their order

lifetimeVars == <<vars, frames, freed>>

Frame(n) == [node |-> n, slots |-> {b \in Bytes : children[n][b] # Null}]

LifetimeInit == Init /\ frames = << >> /\ freed = << >>

Insert == (\E t \in Threads : Step(t)) /\ UNCHANGED <<frames, freed>>

\* ~Tree runs when nobody else uses the trie.
Destroy ==
  /\ AllDone /\ frames = << >> /\ freed = << >>
  /\ frames' = << Frame(Root) >>
  /\ UNCHANGED <<vars, freed>>

\* Mistake: only nodes are freed, not what a tagged pointer leads to.
deleteNodeUntagged(p) == IF isLeaf(p) THEN freed ELSE Append(freed, p)

deleteNode(p) == Append(freed, p)

\* The next slot that is not null: a leaf has no children and is freed at once,
\* a node's children come first.
DeleteChild ==
  /\ frames # << >> /\ Last(frames).slots # {}
  /\ \E b \in Last(frames).slots :
       /\ \A other \in Last(frames).slots : b <= other
       /\ LET child == children[Last(frames).node][b]
              rest  == [frames EXCEPT ![Len(frames)].slots = @ \ {b}]
          IN  IF isLeaf(child) THEN frames' = rest /\ freed' = deleteNode(child)
              ELSE frames' = Append(rest, Frame(child)) /\ UNCHANGED freed
  /\ UNCHANGED vars

\* The loop is over: the call returns, and the caller frees the node.
DeleteNode ==
  /\ frames # << >> /\ Last(frames).slots = {}
  /\ freed' = deleteNode(Last(frames).node)
  /\ frames' = Front(frames)
  /\ UNCHANGED vars

Destroyed == frames = << >> /\ freed # << >>

LifetimeNext ==
  \/ Insert \/ Destroy \/ DeleteChild \/ DeleteNode
  \/ Destroyed /\ UNCHANGED lifetimeVars

LifetimeSpec == LifetimeInit /\ [][LifetimeNext]_lifetimeVars

\* As FairSpec: a thread that can take a step takes one.
LifetimeFairSpec ==
  LifetimeSpec /\ \A t \in Threads : WF_vars(Step(t) /\ UNCHANGED <<frames, freed>>)

-----------------------------------------------------------------------------

\* Whatever the inserting threads did to each other, the destructor frees every
\* node and every literal's leaf exactly once, never looks into one it has freed,
\* and leaves none behind.
FreedExactlyOnce ==
  LET pointers == (1..allocated) \cup {-1 - id : id \in 0..unique_literal_cnt - 1}
      gone     == {freed[i] : i \in 1..Len(freed)}
  IN  /\ Cardinality(gone) = Len(freed)
      /\ \A i \in 1..Len(frames) : frames[i].node \notin gone
      /\ gone \subseteq pointers
      /\ Destroyed => gone = pointers

-----------------------------------------------------------------------------
(* Why that is so: what the destructor has come to is freed from below.    *)

Gone       == {freed[i] : i \in 1..Len(freed)}
OnStack    == {frames[i].node : i \in 1..Len(frames)}
Visited    == Gone \cup OnStack
Started    == frames # << >> \/ freed # << >>
Child(n, b) == children[n][b] # Null

DestroyTypes ==
  /\ frames \in Seq([node : 1..allocated, slots : SUBSET Bytes])
  /\ freed \in Seq(Int)
  /\ Started => AllDone /\ Root \in Visited

\* No pointer is visited twice.
VisitedOnce ==
  /\ \A i, j \in 1..Len(freed) : freed[i] = freed[j] => i = j
  /\ \A i, j \in 1..Len(frames) : frames[i].node = frames[j].node => i = j
  /\ Gone \cap OnStack = {}

\* Only pointers of the trie are freed.
GoneIsMade ==
  \A p \in Gone : IF isLeaf(p) THEN auxIndex(p) < unique_literal_cnt ELSE p \in 1..allocated

\* What was freed has nothing left below it, ...
GoneBelow ==
  \A n \in Gone : ~isLeaf(n) => \A b \in Bytes : Child(n, b) => children[n][b] \in Gone

\* ... a frame has the children its loop is still to come to, with all the others
\* freed but for the one it is in, ...
FrameSplits ==
  \A i \in 1..Len(frames) : \A b \in Bytes :
    LET child == children[frames[i].node][b]
    IN  IF b \in frames[i].slots THEN child # Null /\ child \notin Visited
        ELSE child # Null => \/ child \in Gone
                             \/ i < Len(frames) /\ frames[i + 1].node = child

\* ... and nothing is visited before the node above it.
UnvisitedBelow ==
  \A n \in 1..allocated : n \notin Visited =>
    \A b \in Bytes : Child(n, b) => children[n][b] \notin Visited

DestroyInv ==
  DestroyTypes /\ VisitedOnce /\ GoneIsMade /\ GoneBelow /\ FrameSplits /\ UnvisitedBelow

\* Inductive, with what holds of the trie as long as threads insert.
LifetimeInv == FullInv /\ DestroyInv
=============================================================================
