----------------------------- MODULE FlatTable -----------------------------
(***************************************************************************)
(* ankerl::unordered_dense::map of common/flat_map.h, on which LRUCache    *)
(* and Skeleton::Segment keep their entries: Robin Hood hashing with       *)
(* backward-shift deletion over a dense vector of values.                  *)
(*                                                                         *)
(* A table is a record of the fields of detail::table, and an operation is *)
(* an operator from a table to a table.  "type" stands for the template's  *)
(* arguments: hash gives every key the high bits its home bucket is taken  *)
(* from and the low bits that are its fingerprint, and max_bucket_count is *)
(* 2^32 in the code and small here.  The load factor is in percent.        *)
(***************************************************************************)
EXTENDS Integers, Sequences, SequencesExt, FiniteSetsExt

CONSTANT HighBits   \* how many bits of a hash are not fingerprint: 56 in the code

ASSUME HighBitsAssumption == HighBits \in 2..56

\* 1 shifted left.
Pow2[n \in 0..56] == IF n = 0 THEN 1 ELSE 2 * Pow2[n - 1]

\* The number of buckets is a power of two, and a hash has its bits.
TypeArguments(type) ==
  /\ \E b \in 2..HighBits : type.max_bucket_count = Pow2[b]
  /\ \A k \in DOMAIN type.hash :
       type.hash[k].high \in 0..Pow2[HighBits] - 1 /\ type.hash[k].low \in 0..255

dist_inc == 256
initial_shifts == 62
default_max_load_factor == 80

Empty == [m_dist_and_fingerprint |-> 0, m_value_idx |-> 0]
IsEmpty(bucket) == bucket.m_dist_and_fingerprint = 0

bucket_count(t) == Cardinality(DOMAIN t.m_buckets)
at(t, i) == t.m_buckets[i]
size(t) == Len(t.m_values)
Max2(a, b) == IF a < b THEN b ELSE a
Min2(a, b) == IF a < b THEN a ELSE b

\* The key of a value, by its index from 0.
KeyAt(t, value_idx) == t.m_values[value_idx + 1].key
KeysOf(t) == {KeyAt(t, i) : i \in 0..size(t) - 1}

-----------------------------------------------------------------------------
(* Probing.  A probe for a key is at its n-th step n buckets behind the    *)
(* key's home, with the distance n + 1 above the fingerprint.              *)

next(t, i, n) == (i + n) % bucket_count(t)
bucket_idx_from_hash(t, key) ==
  t.type.hash[key].high \div Pow2[HighBits - (64 - t.m_shifts)]
dist_and_fingerprint(t, key, n) == dist_inc * (n + 1) + t.type.hash[key].low

Place(t, key, n) == next(t, bucket_idx_from_hash(t, key), n)
Bucket(t, key, n) == at(t, Place(t, key, n))
SameDistance(t, key, n) ==
  dist_and_fingerprint(t, key, n) = Bucket(t, key, n).m_dist_and_fingerprint
Holds(t, key, n) ==
  SameDistance(t, key, n) /\ KeyAt(t, Bucket(t, key, n).m_value_idx) = key
Richer(t, key, n) ==
  dist_and_fingerprint(t, key, n) > Bucket(t, key, n).m_dist_and_fingerprint

\* A probe that has gone round is farther from home than any bucket can be.
Steps(t) == 0..bucket_count(t)
First(t, Stop(_)) == CHOOSE n \in Steps(t) : Stop(n) /\ \A m \in 0..n - 1 : ~Stop(m)

\* The first step that does not meet a bucket farther from its home.
next_while_less(t, key) ==
  First(t, LAMBDA n : SameDistance(t, key, n) \/ Richer(t, key, n))

\* Where try_emplace, emplace, replace and replace_key stop looking.
ProbeEnd(t, key) == First(t, LAMBDA n : Holds(t, key, n) \/ Richer(t, key, n))

\* The first two steps of do_find are unrolled and do not look at the distance.
do_find(t, key) ==
  IF size(t) = 0 THEN FALSE
  ELSE Holds(t, key, First(t, LAMBDA n : \/ Holds(t, key, n)
                                         \/ n >= 2 /\ Richer(t, key, n)))
ValueFound(t, key) ==
  t.m_values[Bucket(t, key, CHOOSE n \in Steps(t) : Holds(t, key, n)).m_value_idx + 1].value

\* The bucket of a value, looked for by the value's index.
BucketOf(t, key, value_idx) ==
  Place(t, key, First(t, LAMBDA n : Bucket(t, key, n).m_value_idx = value_idx))

-----------------------------------------------------------------------------
(* Buckets.                                                                *)

Moved(bucket, by) == [bucket EXCEPT !.m_dist_and_fingerprint = @ + by]

\* Mistake: what moves up keeps its distance.
place_and_shift_upSameDistance(t, bucket, place) ==
  LET run     == First(t, LAMBDA n : IsEmpty(at(t, next(t, place, n))))
      shifted == {next(t, place, n) : n \in 1..run}
      Previous(i) == at(t, next(t, i, bucket_count(t) - 1))
  IN  [t EXCEPT !.m_buckets =
         [i \in DOMAIN @ |-> IF i = place THEN bucket
                             ELSE IF i \in shifted THEN Previous(i) ELSE @[i]]]

\* The bucket goes to its place, and the run it lands in moves up by one.
place_and_shift_up(t, bucket, place) ==
  LET run     == First(t, LAMBDA n : IsEmpty(at(t, next(t, place, n))))
      shifted == {next(t, place, n) : n \in 1..run}
      Previous(i) == at(t, next(t, i, bucket_count(t) - 1))
  IN  [t EXCEPT !.m_buckets =
         [i \in DOMAIN @ |-> IF i = place THEN bucket
                             ELSE IF i \in shifted THEN Moved(Previous(i), dist_inc)
                             ELSE @[i]]]

\* Mistake: the last of the run is left where it was.
erase_and_shift_downShort(t, place) ==
  LET run     == First(t, LAMBDA n :
                   n > 0 /\ at(t, next(t, place, n)).m_dist_and_fingerprint < 3 * dist_inc)
      shifted == {next(t, place, n) : n \in 0..run - 2}
  IN  [t EXCEPT !.m_buckets =
         [i \in DOMAIN @ |-> IF i \in shifted THEN Moved(at(t, next(t, i, 1)), -dist_inc)
                             ELSE IF i = next(t, place, run - 1) THEN Empty
                             ELSE @[i]]]

\* What follows moves down by one, up to a bucket that is empty or at home.
\* (A full table has one: the walk ends where it began at the latest.)
erase_and_shift_down(t, place) ==
  LET run     == First(t, LAMBDA n :
                   n > 0 /\ at(t, next(t, place, n)).m_dist_and_fingerprint < 2 * dist_inc)
      shifted == {next(t, place, n) : n \in 0..run - 2}
  IN  [t EXCEPT !.m_buckets =
         [i \in DOMAIN @ |-> IF i \in shifted THEN Moved(at(t, next(t, i, 1)), -dist_inc)
                             ELSE IF i = next(t, place, run - 1) THEN Empty
                             ELSE @[i]]]

calc_num_buckets(t, shifts) == Min2(t.type.max_bucket_count, Pow2[64 - shifts])
MaxLoad(t, num_buckets) == (num_buckets * t.m_max_load_factor) \div 100

\* Whether so many values can be held under the load factor: beyond that
\* calc_shifts_for_size has no answer.
Fits(t, s) == s <= MaxLoad(t, t.type.max_bucket_count)
calc_shifts_for_size(t, s) ==
  Max({shifts \in 64 - HighBits..initial_shifts : s <= MaxLoad(t, calc_num_buckets(t, shifts))})

is_full(t) == size(t) > t.m_max_bucket_capacity

\* allocate_buckets_from_shift, then clear_buckets.
Allocated(t, shifts) ==
  LET num_buckets == calc_num_buckets(t, shifts)
  IN  [t EXCEPT !.m_shifts = shifts,
                !.m_buckets = [i \in 0..num_buckets - 1 |-> Empty],
                !.m_max_bucket_capacity =
                   IF num_buckets = t.type.max_bucket_count THEN num_buckets
                   ELSE MaxLoad(t, num_buckets)]
clear_buckets(t) == [t EXCEPT !.m_buckets = [i \in DOMAIN @ |-> Empty]]

NewBucket(t, key, n, value_idx) ==
  [m_dist_and_fingerprint |-> dist_and_fingerprint(t, key, n), m_value_idx |-> value_idx]
PlaceValue(t, value_idx) ==
  LET key == KeyAt(t, value_idx)
      n   == next_while_less(t, key)
  IN  place_and_shift_up(t, NewBucket(t, key, n, value_idx), Place(t, key, n))
clear_and_fill_buckets_from_values(t) ==
  LET filled[n \in 0..size(t)] ==
        IF n = 0 THEN clear_buckets(t) ELSE PlaceValue(filled[n - 1], n - 1)
  IN  filled[size(t)]
Refilled(t, shifts) == clear_and_fill_buckets_from_values(Allocated(t, shifts))

pop_back(t) == [t EXCEPT !.m_values = Front(@)]

\* A table that cannot grow gives the new value back, and the call throws.
AtMaximum(t) == t.m_max_bucket_capacity = t.type.max_bucket_count
increase_size(t) == IF AtMaximum(t) THEN pop_back(t) ELSE Refilled(t, t.m_shifts - 1)

-----------------------------------------------------------------------------
(* Construction, copies and moves.                                         *)

reserve(t, capa) ==
  LET wanted == Max2(Min2(capa, t.type.max_bucket_count), size(t))
      shifts == calc_shifts_for_size(t, wanted)
  IN  IF bucket_count(t) = 0 \/ shifts < t.m_shifts THEN Refilled(t, shifts) ELSE t
rehash(t, count) ==
  LET wanted == Max2(Min2(count, t.type.max_bucket_count), size(t))
      shifts == calc_shifts_for_size(t, wanted)
  IN  IF shifts # t.m_shifts THEN Refilled(t, shifts) ELSE t

Blank(type) ==
  [m_values |-> << >>, m_buckets |-> << >>, m_max_bucket_capacity |-> 0,
   m_max_load_factor |-> default_max_load_factor, m_shifts |-> initial_shifts, type |-> type]
NewTable(type, count) ==
  IF count = 0 THEN Allocated(Blank(type), initial_shifts) ELSE reserve(Blank(type), count)

\* The copy constructor and the copy assignment: the buckets are copied as they
\* are, unless there is nothing in them.
CopyOf(other) ==
  LET values == [Blank(other.type) EXCEPT !.m_values = other.m_values,
                                          !.m_max_load_factor = other.m_max_load_factor]
  IN  IF size(other) = 0 THEN Allocated(values, initial_shifts)
      ELSE [Allocated(values, other.m_shifts) EXCEPT !.m_buckets = other.m_buckets]

\* Mistake: no buckets for what was moved from.
MovedFromBare(other) == Blank(other.type)

\* What a move leaves behind; what it makes is the table as it was.
MovedFrom(other) == Allocated(Blank(other.type), initial_shifts)

max_load_factor(t, ml) ==
  LET set == [t EXCEPT !.m_max_load_factor = ml]
  IN  IF bucket_count(t) = t.type.max_bucket_count THEN set
      ELSE [set EXCEPT !.m_max_bucket_capacity = MaxLoad(set, bucket_count(t))]

clear(t) == clear_buckets([t EXCEPT !.m_values = << >>])

\* operator==: the same keys with the same values, in any order.
Equal(a, b) ==
  /\ size(a) = size(b)
  /\ \A i \in 1..size(b) : /\ do_find(a, b.m_values[i].key)
                           /\ ValueFound(a, b.m_values[i].key) = b.m_values[i].value

-----------------------------------------------------------------------------
(* Insertion.                                                              *)

Entry(key, value) == [key |-> key, value |-> value]

Present(t, key) == Holds(t, key, ProbeEnd(t, key))
Appended(t, key, value) == [t EXCEPT !.m_values = Append(@, Entry(key, value))]

\* The value appended gets its bucket, unless all have to move.
Indexed(t, key, n) ==
  IF is_full(t) THEN increase_size(t)
  ELSE place_and_shift_up(t, NewBucket(t, key, n, size(t) - 1), Place(t, key, n))

do_place_element(t, key, value, n) == Indexed(Appended(t, key, value), key, n)
do_try_emplace(t, key, value) ==
  IF Present(t, key) THEN t ELSE do_place_element(t, key, value, ProbeEnd(t, key))

\* Mistake: the value appended is not taken back.
emplaceKeepsCopy(t, key, value) ==
  LET grown == Appended(t, key, value)
      n     == ProbeEnd(grown, key)
  IN  IF Holds(grown, key, n) THEN grown ELSE Indexed(grown, key, n)

\* emplace appends first, and takes the value back if the key was there.
emplace(t, key, value) ==
  LET grown == Appended(t, key, value)
      n     == ProbeEnd(grown, key)
  IN  IF Holds(grown, key, n) THEN pop_back(grown) ELSE Indexed(grown, key, n)

Assign(t, key, value) ==
  LET idx == Bucket(t, key, ProbeEnd(t, key)).m_value_idx
  IN  [t EXCEPT !.m_values[idx + 1].value = value]
do_insert_or_assign(t, key, value) ==
  IF Present(t, key) THEN Assign(t, key, value) ELSE do_try_emplace(t, key, value)

\* map[key] = value: whether the entry is new or not, the value is assigned.
IndexAssign(t, key, value) ==
  LET placed == do_try_emplace(t, key, value)
  IN  IF Present(placed, key) THEN Assign(placed, key, value) ELSE placed

\* The container's elements in place of the table's; one whose key is already
\* there is overwritten by the last one.
ReplaceOne(s) ==
  LET t   == s.table
      idx == s.value_idx
      key == KeyAt(t, idx)
      n   == ProbeEnd(t, key)
      withBack == [t EXCEPT !.m_values[idx + 1] = Last(t.m_values)]
  IN  IF Holds(t, key, n) THEN [s EXCEPT !.table = pop_back(withBack)]
      ELSE [table |-> place_and_shift_up(t, NewBucket(t, key, n, idx), Place(t, key, n)),
            value_idx |-> idx + 1]
replace(t, container) ==
  LET shifts  == calc_shifts_for_size(t, Len(container))
      cleared == IF shifts < t.m_shifts THEN Allocated(t, shifts) ELSE clear_buckets(t)
      start   == [table |-> [cleared EXCEPT !.m_values = container], value_idx |-> 0]
      replaced[n \in 0..Len(container)] ==
        IF n = 0 THEN start ELSE ReplaceOne(replaced[n - 1])
  IN  replaced[Len(container)].table

\* The entry at value_idx gets another key, unless that key is there already.
replace_key(t, value_idx, new_key) ==
  LET old_key == KeyAt(t, value_idx)
      erased  == erase_and_shift_down(t, BucketOf(t, old_key, value_idx))
      renamed == [erased EXCEPT !.m_values[value_idx + 1].key = new_key]
  IN  IF Present(t, new_key) THEN t ELSE PlaceValue(renamed, value_idx)

-----------------------------------------------------------------------------
(* Removal.                                                                *)

\* Mistake: the moved value's bucket keeps its old index.
do_eraseStaleIndex(t, place) ==
  LET value_idx == at(t, place).m_value_idx
      shifted   == erase_and_shift_down(t, place)
  IN  pop_back([shifted EXCEPT !.m_values[value_idx + 1] = Last(t.m_values)])

\* The last value moves into the hole, and its bucket is told.
do_erase(t, place) ==
  LET value_idx == at(t, place).m_value_idx
      back      == size(t) - 1
      shifted   == erase_and_shift_down(t, place)
      moved     == BucketOf(shifted, KeyAt(t, back), back)
      filled    == [shifted EXCEPT !.m_values[value_idx + 1] = Last(t.m_values),
                                   !.m_buckets[moved].m_value_idx = value_idx]
  IN  pop_back(IF value_idx = back THEN shifted ELSE filled)

\* erase(key) and extract(key).
do_erase_key(t, key) ==
  LET less == next_while_less(t, key)
      n    == First(t, LAMBDA m :
                m >= less /\ (Holds(t, key, m) \/ ~SameDistance(t, key, m)))
  IN  IF size(t) > 0 /\ Holds(t, key, n) THEN do_erase(t, Place(t, key, n)) ELSE t

\* erase(it) and extract(it).
EraseAt(t, value_idx) == do_erase(t, BucketOf(t, KeyAt(t, value_idx), value_idx))

\* erase(first, last): from the left as long as the end can fill the hole, then
\* from the right.
EraseRange(t, idx_first, idx_last) ==
  LET left   == Min2(idx_last - idx_first, size(t) - idx_last)
      Nth(n) == IF n <= left THEN idx_first + n - 1 ELSE idx_last - (n - left)
      erased[n \in 0..idx_last - idx_first] ==
        IF n = 0 THEN t ELSE EraseAt(erased[n - 1], Nth(n))
  IN  erased[idx_last - idx_first]

\* std::erase_if, back to front; the predicate is one of the key.
EraseIf(t, keys) ==
  LET EraseIfAt(u, idx) == IF KeyAt(u, idx) \in keys THEN EraseAt(u, idx) ELSE u
      erased[n \in 0..size(t)] ==
        IF n = 0 THEN t ELSE EraseIfAt(erased[n - 1], size(t) - n)
  IN  erased[size(t)]
=============================================================================
