------------------------------ MODULE AtomicMax ------------------------------
(***************************************************************************)
(* UpdateMax of common/util.cc: threads raise a shared atomic to the       *)
(* largest of their values with a compare-and-exchange loop.  UpdateMin is *)
(* the same with the order reversed.                                       *)
(***************************************************************************)
EXTENDS Integers

CONSTANTS
  Threads,
  Value,     \* Value[t]: what t calls UpdateMax with
  Initial    \* what the atomic holds before

ASSUME ValuesAssumption == Initial \in Int /\ \A t \in Threads : Value[t] \in Int

VARIABLES
  atomic_val,
  pc,
  prev_value   \* prev_value[t]: what t last saw there

vars == <<atomic_val, pc, prev_value>>

Init ==
  /\ atomic_val = Initial
  /\ pc = [t \in Threads |-> "load"]
  /\ prev_value = [t \in Threads |-> Initial]

Load(t) ==
  /\ pc[t] = "load"
  /\ prev_value' = [prev_value EXCEPT ![t] = atomic_val]
  /\ pc' = [pc EXCEPT ![t] = "test"]
  /\ UNCHANGED atomic_val

\* The first half of the loop's condition: there is nothing to raise.
Return(t) ==
  /\ pc[t] = "test"
  /\ prev_value[t] >= Value[t]
  /\ pc' = [pc EXCEPT ![t] = "done"]
  /\ UNCHANGED <<atomic_val, prev_value>>

\* Mistake: a store in place of the compare and exchange.
SeenIgnored(t) == TRUE
Seen(t)        == atomic_val = prev_value[t]

\* compare_exchange_weak, when it succeeds.
Exchange(t) ==
  /\ pc[t] = "test"
  /\ prev_value[t] < Value[t]
  /\ Seen(t)
  /\ atomic_val' = Value[t]
  /\ pc' = [pc EXCEPT ![t] = "done"]
  /\ UNCHANGED prev_value

\* And when it fails: for no reason, or because the value has moved.  It has
\* loaded the value again either way.
Retry(t) ==
  /\ pc[t] = "test"
  /\ prev_value[t] < Value[t]
  /\ prev_value' = [prev_value EXCEPT ![t] = atomic_val]
  /\ UNCHANGED <<atomic_val, pc>>

Step(t) == Load(t) \/ Return(t) \/ Exchange(t) \/ Retry(t)

AllDone == \A t \in Threads : pc[t] = "done"

Next == (\E t \in Threads : Step(t)) \/ (AllDone /\ UNCHANGED vars)

Spec == Init /\ [][Next]_vars

-----------------------------------------------------------------------------
TypeOK ==
  /\ atomic_val \in Int
  /\ pc \in [Threads -> {"load", "test", "done"}]
  /\ prev_value \in [Threads -> Int]

\* No update is lost: once UpdateMax has returned to a thread, the value is at
\* least what that thread has asked for, whatever the others do.
ReturnedIsCounted == \A t \in Threads : pc[t] = "done" => atomic_val >= Value[t]

\* What a thread has seen is never more than what is there: the inductive part.
SeenIsOld == \A t \in Threads : pc[t] # "load" => prev_value[t] <= atomic_val

\* The value is always one that was there or that a thread has asked for.
Candidates == {Initial} \cup {Value[t] : t \in Threads}
OnlyCandidates == atomic_val \in Candidates

\* When all have returned, the value is the largest of all that were ever there
\* or asked for.
LargestRemains ==
  AllDone => atomic_val \in Candidates /\ \A x \in Candidates : x <= atomic_val

\* It is never less than what it started from.
AtLeastInitial == Initial <= atomic_val

\* The value never goes down.
NeverLowered == [][atomic_val' >= atomic_val]_vars
=============================================================================
