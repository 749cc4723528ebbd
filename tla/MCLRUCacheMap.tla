--------------------------- MODULE MCLRUCacheMap ---------------------------
(* Offsets whose hashes collide, so that entries move between buckets. *)
EXTENDS LRUCacheMap

Type(hashes, max) ==
  [hash |-> [k \in 1..Len(hashes) |-> [high |-> hashes[k][1], low |-> hashes[k][2]]],
   max_bucket_count |-> max]

\* Two alike, one with another fingerprint, and the bucket they run into; and
\* homes side by side across the end.
Colliding ==
  {Type(<< <<7, 0>>, <<7, 0>>, <<0, 255>>, <<7, 255>> >>, 8),
   Type(<< <<6, 0>>, <<7, 255>>, <<0, 255>>, <<7, 0>> >>, 8)}

TwoForOne ==
  {[key |-> k, value |-> k % 3] : k \in 1..4} \cup {[key |-> 1, value |-> 2]}

\* The last answer is read by no step.
View == <<item_list_, item_map_, max_size_>>
=============================================================================
