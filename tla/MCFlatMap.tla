----------------------------- MODULE MCFlatMap -----------------------------
(* Hash functions under which keys get into each other's way. *)
EXTENDS FlatMap

\* The n-th of a list of <<high bits, low bits>> is the hash of key n.
Type(hashes, max) ==
  [hash |-> [k \in 1..Len(hashes) |-> [high |-> hashes[k][1], low |-> hashes[k][2]]],
   max_bucket_count |-> max]

\* 4 keys that 4 buckets are too few for, under the default load factor: two
\* alike in the last bucket, where they run across the end; two homes, side by side.
Growing ==
  {Type(<< <<7, 0>>, <<7, 0>>, <<0, 255>>, <<7, 255>> >>, 8),
   Type(<< <<6, 0>>, <<7, 255>>, <<6, 255>>, <<7, 0>> >>, 8)}

\* 5 keys for the 4 buckets there can be.
Filling == {Type(<< <<7, 0>>, <<7, 0>>, <<1, 1>>, <<3, 0>>, <<3, 255>> >>, 4)}

Colliding == Growing \cup Filling

TwoForOne ==
  {[key |-> 1, value |-> "b"]} \cup {[key |-> k, value |-> "a"] : k \in 1..5}

Pair(k) == [key |-> k, value |-> "a"]
SomeContainers ==
  { << >>,
    << Pair(1), Pair(2), [key |-> 1, value |-> "b"], Pair(3), Pair(2) >>,
    << Pair(2), Pair(2), Pair(2) >>,
    << Pair(4), Pair(3), Pair(2), Pair(1) >> }

\* The last reply is read by no step.
View == table
=============================================================================
