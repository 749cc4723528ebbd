------------------------------ MODULE LRUCache ------------------------------
(***************************************************************************)
(* The cache of common/lrucache.h, in which a matcher keeps its alignments.*)
(* item_list_ is the sequence of entries, the most recent one first;       *)
(* item_map_ holds the same keys and is left out.                          *)
(***************************************************************************)
EXTENDS Integers, Sequences, SequencesExt

NewCache(max_size) == [items |-> << >>, max_size |-> max_size]

CachedKeys(cache)   == {cache.items[i].key : i \in 1..Len(cache.items)}
Contain(cache, key) == key \in CachedKeys(cache)
PositionOf(cache, key) == CHOOSE i \in 1..Len(cache.items) : cache.items[i].key = key
ValueOf(cache, key) == cache.items[PositionOf(cache, key)].value

Without(cache, key) ==
  IF Contain(cache, key) THEN [cache EXCEPT !.items = RemoveAt(@, PositionOf(cache, key))]
  ELSE cache

\* GetAndRemove, the removal.
GetAndRemove(cache, key) == Without(cache, key)

\* The new entry goes to the front, one with the same key is dropped, and if
\* there are too many the last one goes.
Upsert(cache, key, value) ==
  LET items == << [key |-> key, value |-> value] >> \o Without(cache, key).items
  IN  [cache EXCEPT !.items = IF Len(items) > cache.max_size THEN Front(items) ELSE items]
=============================================================================
