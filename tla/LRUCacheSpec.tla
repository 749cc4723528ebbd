---------------------------- MODULE LRUCacheSpec ----------------------------
(***************************************************************************)
(* What a matcher expects of its cache: the calls of LRUCache on one list  *)
(* of entries, the most recent one first.                                  *)
(***************************************************************************)
EXTENDS LRUCache

CONSTANTS Offsets, Alignments, Capacities

VARIABLES cache, reply

vars == <<cache, reply>>

Init == \E max_size \in Capacities : cache = NewCache(max_size) /\ reply = << >>

CallUpsert(key, value) ==
  /\ reply' = <<"Upsert", key, value>>
  /\ cache' = Upsert(cache, key, value)

CallGetAndRemove(key) ==
  /\ Contain(cache, key)
  /\ reply' = <<"GetAndRemove", key, ValueOf(cache, key)>>
  /\ cache' = GetAndRemove(cache, key)

CallReset(max_size) ==
  /\ reply' = <<"Reset", max_size>>
  /\ cache' = NewCache(max_size)

Next ==
  \/ \E key \in Offsets, value \in Alignments : CallUpsert(key, value)
  \/ \E key \in Offsets : CallGetAndRemove(key)
  \/ \E max_size \in Capacities : CallReset(max_size)

Spec == Init /\ [][Next]_vars
=============================================================================
