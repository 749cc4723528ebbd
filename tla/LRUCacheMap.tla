---------------------------- MODULE LRUCacheMap ----------------------------
(***************************************************************************)
(* LRUCache of common/lrucache.h as it is built: a linked list of entries, *)
(* and a hash map from a key to the list's iterator of its entry.          *)
(*                                                                         *)
(* An iterator is the number of a list node.  A number is free again when  *)
(* its node is erased, as an address is, so that an iterator kept too long *)
(* may lead to another entry.  "answer" is read by no step.                *)
(***************************************************************************)
EXTENDS FlatTable, FiniteSets

CONSTANTS
  Offsets,      \* the keys
  Hashes,       \* the template arguments of item_map_
  CacheEntries, \* what Upsert is given: records [key, value]
  Capacities    \* what Reset is given

VARIABLES item_list_, item_map_, max_size_, answer

cacheVars == <<item_list_, item_map_, max_size_, answer>>

ASSUME OffsetsAssumption ==
  /\ \A type \in Hashes : TypeArguments(type) /\ DOMAIN type.hash = Offsets
  /\ \A e \in CacheEntries : e.key \in Offsets
\* A map of 2^32 buckets has room for one entry more than is kept of a row.
ASSUME CapacitiesAssumption ==
  \A c \in Capacities : c \in Nat /\ \A type \in Hashes : c < type.max_bucket_count

Node(iterator, key, value) == [iterator |-> iterator, key |-> key, value |-> value]
IteratorsOf(list) == {list[i].iterator : i \in 1..Len(list)}
FreeIterator(list) == Min((1..Len(list) + 1) \ IteratorsOf(list))
PlaceOf(list, iterator) == CHOOSE i \in 1..Len(list) : list[i].iterator = iterator
Deref(list, iterator) == list[PlaceOf(list, iterator)]
ListErase(list, iterator) == RemoveAt(list, PlaceOf(list, iterator))

\* item_map_.find: the iterator of a key's entry, and whether there is one.
Contain(key) == do_find(item_map_, key)
Found(key) == ValueFound(item_map_, key)
\* item_map_.erase of the place where the key was found.
EraseFound(map, key) ==
  EraseAt(map, Bucket(map, key, ProbeEnd(map, key)).m_value_idx)

CacheInit ==
  /\ item_list_ = << >>
  /\ \E type \in Hashes : item_map_ = NewTable(type, 0)
  /\ max_size_ \in Capacities
  /\ answer = << >>

\* Mistake: the entry there was stays in the list.
PushedOnly(key, value) == << Node(FreeIterator(item_list_), key, value) >> \o item_list_

\* What there is of the key goes, behind the new entry.
Pushed(key, value) ==
  LET pushed == << Node(FreeIterator(item_list_), key, value) >> \o item_list_
  IN  IF Contain(key) THEN ListErase(pushed, Found(key)) ELSE pushed

Mapped(key, list) ==
  LET without == IF Contain(key) THEN EraseFound(item_map_, key) ELSE item_map_
  IN  IndexAssign(without, key, Head(list).iterator)

\* Mistake: the most recent entry is evicted.
VictimFront(list) == Head(list)

\* Who has to go if there is one too many.
Victim(list) == Last(list)

Upsert(key, value) ==
  /\ LET list == Pushed(key, value)
         map  == Mapped(key, list)
         last == Victim(list)
     IN  IF size(map) > max_size_
         THEN /\ item_map_' = do_erase_key(map, last.key)
              /\ item_list_' = ListErase(list, last.iterator)
         ELSE /\ item_map_' = map
              /\ item_list_' = list
  /\ answer' = <<"Upsert", key, value>>
  /\ UNCHANGED max_size_

\* Asserts that the key is there.
GetAndRemove(key) ==
  /\ Contain(key)
  /\ item_list_' = ListErase(item_list_, Found(key))
  /\ item_map_' = EraseFound(item_map_, key)
  /\ answer' = <<"GetAndRemove", key, Deref(item_list_, Found(key)).value>>
  /\ UNCHANGED max_size_

\* Keeps the buckets the map has grown to.
Reset(max_size) ==
  /\ item_list_' = << >>
  /\ item_map_' = clear(item_map_)
  /\ max_size_' = max_size
  /\ answer' = <<"Reset", max_size>>

CacheNext ==
  \/ \E e \in CacheEntries : Upsert(e.key, e.value)
  \/ \E key \in Offsets : GetAndRemove(key)
  \/ \E max_size \in Capacities : Reset(max_size)

CacheSpec == CacheInit /\ [][CacheNext]_cacheVars

-----------------------------------------------------------------------------

\* After any history of calls the map leads from every key to the list node with
\* that key and from no key to a node that is gone, and no node is left that the
\* map does not know: list and map are changed separately, four times in Upsert.
IteratorsValid ==
  /\ Len(item_list_) = size(item_map_)
  /\ Len(item_list_) <= max_size_
  /\ Cardinality(IteratorsOf(item_list_)) = Len(item_list_)
  /\ \A i \in 1..Len(item_list_) :
       /\ Contain(item_list_[i].key)
       /\ Found(item_list_[i].key) = item_list_[i].iterator

\* The list and the map together are the cache the matchers are checked with:
\* what is kept, what is returned and what is evicted is the same.
AbstractCache ==
  INSTANCE LRUCacheSpec WITH
    Alignments <- {e.value : e \in CacheEntries},
    cache <- [items |-> [i \in 1..Len(item_list_) |->
                           [key |-> item_list_[i].key, value |-> item_list_[i].value]],
              max_size |-> max_size_],
    reply <- answer
ImplementsCache == AbstractCache!Spec
=============================================================================
