------------------------------ MODULE MapSpec ------------------------------
(***************************************************************************)
(* What a hash map promises: a partial function from keys to values.       *)
(* "limit" is the number of entries it has room for, "reply" the last call *)
(* and what it returned.                                                   *)
(***************************************************************************)
EXTENDS Integers, FiniteSets, Functions

CONSTANTS Keys, Values

VARIABLES map, limit, reply

vars == <<map, limit, reply>>

Present(key) == key \in DOMAIN map
Put(key, value) ==
  [k \in DOMAIN map \cup {key} |-> IF k = key THEN value ELSE map[k]]
Full == Cardinality(DOMAIN map) >= limit

Init == map = << >> /\ limit \in Nat /\ reply = [call |-> "none"]

\* An insertion keeps what is there and returns the value the key has now.
Insert(key, value) ==
  /\ reply' = [call |-> "insert", key |-> key, new |-> ~Present(key),
               value |-> IF Present(key) THEN map[key] ELSE value]
  /\ Present(key) \/ ~Full
  /\ map' = IF Present(key) THEN map ELSE Put(key, value)

Assign(key, value) ==
  /\ reply' = [call |-> "assign", key |-> key, new |-> ~Present(key), value |-> value]
  /\ Present(key) \/ ~Full
  /\ map' = Put(key, value)

\* Only a full map turns a new key away, and then nothing has changed.
Overflow(key) ==
  /\ reply' = [call |-> "overflow", key |-> key]
  /\ ~Present(key) /\ Full
  /\ UNCHANGED map

Erase(keys) ==
  /\ reply' = [call |-> "erase", keys |-> keys, count |-> Cardinality(DOMAIN map \cap keys)]
  /\ map' = Restrict(map, DOMAIN map \ keys)

Extract(key) ==
  /\ reply' = [call |-> "extract", key |-> key, value |-> {map[k] : k \in DOMAIN map \cap {key}}]
  /\ map' = Restrict(map, DOMAIN map \ {key})

Rekey(old, new) ==
  /\ reply' = [call |-> "rekey", old |-> old, key |-> new, new |-> ~Present(new)]
  /\ Present(old)
  /\ map' = IF Present(new) THEN map
            ELSE [k \in (DOMAIN map \ {old}) \cup {new} |-> map[IF k = new THEN old ELSE k]]

\* Whatever was there is gone; of two entries for a key, either may stay.
Replace(entries) ==
  /\ reply' = [call |-> "replace", entries |-> entries]
  /\ DOMAIN map' = {e.key : e \in entries}
  /\ \A e \in entries : [key |-> e.key, value |-> map'[e.key]] \in entries

\* Reserving, rehashing and copying do not show; a copy is equal to its source.
Reorganize == reply' = [call |-> "reorganize", equal |-> TRUE] /\ UNCHANGED map

Next ==
  /\ UNCHANGED limit
  /\ \/ \E key \in Keys, value \in Values : Insert(key, value) \/ Assign(key, value)
     \/ \E key \in Keys : Overflow(key) \/ Extract(key)
     \/ \E keys \in SUBSET Keys : Erase(keys)
     \/ \E old, new \in Keys : Rekey(old, new)
     \/ Reorganize
     \/ \E entries \in SUBSET [key : Keys, value : Values] : Replace(entries)

Spec == Init /\ [][Next]_vars
=============================================================================
