------------------------------ MODULE FlatMap ------------------------------
(***************************************************************************)
(* The public calls of ankerl::unordered_dense::map, one after the other   *)
(* on one map.  "reply" records the last call and what it returned; no     *)
(* step reads it.                                                          *)
(***************************************************************************)
EXTENDS FlatTable, Functions

CONSTANTS
  Types,        \* the hash functions and sizes: records [hash, max_bucket_count]
  Entries,      \* what is inserted: records [key, value]
  Containers,   \* what replace is given: sequences of entries
  Predicates,   \* what erase_if is asked to erase: sets of keys
  Counts,       \* what reserve, rehash and the constructor are given
  LoadFactors   \* in percent

ASSUME TypesAssumption == \A type \in Types : TypeArguments(type)
ASSUME EntriesAssumption == \A e \in Entries : e = Entry(e.key, e.value)
ASSUME ContainersAssumption == Containers \subseteq Seq(Entries)
ASSUME PredicatesAssumption ==
  \A keys \in Predicates : keys \subseteq UNION {DOMAIN type.hash : type \in Types}
ASSUME CountsAssumption == Counts \subseteq Nat
\* A bucket has to be left empty for every value that is placed.
ASSUME LoadFactorsAssumption == LoadFactors \subseteq 1..100

VARIABLES table, reply

vars == <<table, reply>>

Keys == DOMAIN table.type.hash
Inputs == {e \in Entries : e.key \in Keys}
Iterators == 0..size(table) - 1
Places == 0..bucket_count(table) - 1

\* The map a table stands for.
MapOf(t) ==
  [k \in KeysOf(t) |-> t.m_values[CHOOSE i \in 1..size(t) : t.m_values[i].key = k].value]

Init ==
  /\ \E type \in Types, count \in Counts :
       /\ Fits(Blank(type), count)
       /\ table = NewTable(type, count)
  /\ reply = [call |-> "none"]

-----------------------------------------------------------------------------

\* A call that adds an entry, or throws if there is no room for it.
Added(call, key, after) ==
  /\ table' = after
  /\ reply' = IF Present(after, key)
              THEN [call |-> call, key |-> key, new |-> size(after) # size(table),
                    value |-> ValueFound(after, key)]
              ELSE [call |-> "overflow", key |-> key]

TryEmplace ==
  \E e \in Inputs : Added("insert", e.key, do_try_emplace(table, e.key, e.value))
Emplace ==
  \E e \in Inputs : Added("insert", e.key, emplace(table, e.key, e.value))
InsertOrAssign ==
  \E e \in Inputs : Added("assign", e.key, do_insert_or_assign(table, e.key, e.value))
Index ==
  \E e \in Inputs : Added("assign", e.key, IndexAssign(table, e.key, e.value))

Erased(keys, after) ==
  /\ table' = after
  /\ reply' = [call |-> "erase", keys |-> keys, count |-> size(table) - size(after)]

EraseKey == \E key \in Keys : Erased({key}, do_erase_key(table, key))
EraseIterator == \E i \in Iterators : Erased({KeyAt(table, i)}, EraseAt(table, i))
EraseIterators ==
  \E first \in Iterators : \E last \in first + 1..size(table) :
     Erased({KeyAt(table, i) : i \in first..last - 1}, EraseRange(table, first, last))
EraseWhere ==
  \E keys \in Predicates : Erased(keys, EraseIf(table, keys))
Clear == Erased(Keys, clear(table))

Extract ==
  \E key \in Keys :
     /\ table' = do_erase_key(table, key)
     /\ reply' = [call |-> "extract", key |-> key,
                  value |-> IF do_find(table, key) THEN {ValueFound(table, key)} ELSE {}]

ReplaceKey ==
  \E i \in Iterators, new_key \in Keys :
     /\ table' = replace_key(table, i, new_key)
     /\ reply' = [call |-> "rekey", old |-> KeyAt(table, i), key |-> new_key,
                  new |-> ~Present(table, new_key)]

Replace ==
  \E container \in Containers :
     /\ Range(container) \subseteq Inputs
     /\ Fits(table, Len(container))
     /\ table' = replace(table, container)
     /\ reply' = [call |-> "replace", entries |-> Range(container)]

Reorganized(after) ==
  /\ table' = after
  /\ reply' = [call |-> "reorganize", equal |-> Equal(after, table) /\ Equal(table, after)]

Reserve ==
  \E count \in Counts : /\ Fits(table, Max2(count, size(table)))
                        /\ Reorganized(reserve(table, count))
Rehash ==
  \E count \in Counts : /\ Fits(table, Max2(count, size(table)))
                        /\ Reorganized(rehash(table, count))
SetLoadFactor == \E ml \in LoadFactors : Reorganized(max_load_factor(table, ml))

\* Going on with a copy, or with what a move has left behind.
Copy == Reorganized(CopyOf(table))
MoveFrom == Erased(Keys, MovedFrom(table))

Next ==
  \/ TryEmplace \/ Emplace \/ InsertOrAssign \/ Index
  \/ EraseKey \/ EraseIterator \/ EraseIterators \/ EraseWhere \/ Clear
  \/ Extract \/ ReplaceKey \/ Replace
  \/ Reserve \/ Rehash \/ SetLoadFactor \/ Copy \/ MoveFrom

Spec == Init /\ [][Next]_vars

-----------------------------------------------------------------------------

\* The fields have their types; the number of buckets is the one m_shifts asks
\* for, also in a table that was moved from, and no table is ever without any.
TypeOK ==
  /\ table.m_values \in Seq([key : Keys, value : {e.value : e \in Entries}])
  /\ bucket_count(table) = calc_num_buckets(table, table.m_shifts)
  /\ \A i \in Places :
       at(table, i) \in [m_dist_and_fingerprint : Nat, m_value_idx : Nat]
  /\ table.m_max_bucket_capacity <= bucket_count(table)
  /\ table.m_max_load_factor \in LoadFactors \cup {default_max_load_factor}

\* Buckets and values tell the same story after any history of calls: every
\* value has exactly one bucket, which carries its index, its fingerprint and its
\* true distance from home.  erase keeps it although the last value has moved.
BucketsIndexValues ==
  /\ \A idx \in Iterators :
       Cardinality({i \in Places :
                      ~IsEmpty(at(table, i)) /\ at(table, i).m_value_idx = idx}) = 1
  /\ \A i \in Places : ~IsEmpty(at(table, i)) =>
       /\ at(table, i).m_value_idx \in Iterators
       /\ \E n \in Steps(table) :
            LET key == KeyAt(table, at(table, i).m_value_idx)
            IN  Place(table, key, n) = i /\ SameDistance(table, key, n)

\* A probe may stop at the first bucket nearer to its home: a bucket is at most
\* one step farther from its home than the one before it, so that no key is ever
\* behind the place where a search for it ends.
ProbeMayStop ==
  \A i \in Places :
     LET bucket == at(table, i)
         after  == at(table, next(table, i, 1))
     IN  after.m_dist_and_fingerprint <
           IF IsEmpty(bucket) THEN 2 * dist_inc ELSE bucket.m_dist_and_fingerprint + dist_inc + 1

\* Every key is found if it is there, with its value, and never otherwise, by the
\* unrolled search of find and by the loop of the insertions alike.
FindExact ==
  \A key \in Keys :
     /\ do_find(table, key) <=> key \in KeysOf(table)
     /\ Present(table, key) <=> key \in KeysOf(table)
     /\ do_find(table, key) => ValueFound(table, key) = MapOf(table)[key]

Abstract ==
  INSTANCE MapSpec WITH map <- MapOf(table), limit <- table.type.max_bucket_count,
                        Keys <- UNION {DOMAIN type.hash : type \in Types},
                        Values <- {e.value : e \in Entries}

\* The table is a map: every call does to the entries, and returns, what it would
\* on a partial function, and only a table at its largest turns a key away.
ImplementsMap == Abstract!Spec
=============================================================================
