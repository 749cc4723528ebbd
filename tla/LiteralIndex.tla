---------------------------- MODULE LiteralIndex ----------------------------
(***************************************************************************)
(* What AhoCorasick::Insert promises its callers, with no trie, no lock    *)
(* and no version in sight: an index from keywords to literals in which    *)
(* every call takes effect at one instant between its start and its        *)
(* return.  The first call for a keyword gives it an id nobody has; every  *)
(* call adds its occurrence to the keyword's literal.  ArtTree implements  *)
(* this specification.                                                     *)
(***************************************************************************)
EXTENDS Integers, Sequences

CONSTANTS
  Threads,   \* the threads that call Insert
  Calls,     \* Calls[t]: the calls of t, a sequence of [key, literal_len, aux]
  Ids        \* the ids literals may get

VARIABLES
  index,     \* key -> [id, literal_len, bitmap]
  call,      \* call[t]: which of its calls t is in
  applied    \* applied[t]: has this call taken effect

vars == <<index, call, applied>>

Init ==
  /\ index = << >>
  /\ call = [t \in Threads |-> 1]
  /\ applied = [t \in Threads |-> FALSE]

Running(t) == call[t] <= Len(Calls[t])
UsedIds    == {index[k].id : k \in DOMAIN index}

\* The keyword is new: it gets an unused id, and this occurrence alone.
ApplyNew(t) ==
  LET c == Calls[t][call[t]]
  IN  /\ Running(t) /\ ~applied[t]
      /\ c.key \notin DOMAIN index
      /\ \E id \in Ids \ UsedIds :
           index' = [k \in DOMAIN index \cup {c.key} |->
                       IF k = c.key
                       THEN [id |-> id, literal_len |-> c.literal_len, bitmap |-> {c.aux}]
                       ELSE index[k]]
      /\ applied' = [applied EXCEPT ![t] = TRUE]
      /\ UNCHANGED call

\* The keyword is known: its id and length stay, one occurrence is added.
ApplyKnown(t) ==
  LET c == Calls[t][call[t]]
  IN  /\ Running(t) /\ ~applied[t]
      /\ c.key \in DOMAIN index
      /\ index' = [index EXCEPT ![c.key].bitmap = @ \cup {c.aux}]
      /\ applied' = [applied EXCEPT ![t] = TRUE]
      /\ UNCHANGED call

Return(t) ==
  /\ Running(t) /\ applied[t]
  /\ call' = [call EXCEPT ![t] = @ + 1]
  /\ applied' = [applied EXCEPT ![t] = FALSE]
  /\ UNCHANGED index

Next == \E t \in Threads : ApplyNew(t) \/ ApplyKnown(t) \/ Return(t)

Spec == Init /\ [][Next]_vars
=============================================================================
