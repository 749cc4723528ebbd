---------------------------- MODULE FlatMapProofs ----------------------------
(***************************************************************************)
(* Theorems about FlatMap and LRUCacheMap, for every hash function and     *)
(* size, all entries and every history of calls.  The buckets are a ring;  *)
(* what an operation does to it is said first for a ring of buckets with   *)
(* given homes and fingerprints (Ring), by how many steps a bucket is      *)
(* behind the place where the operation begins, then for a table of        *)
(* FlatTable, and last for the steps of the map, and for those of the      *)
(* cache, whose list and table are changed by separate operations.         *)
(***************************************************************************)
EXTENDS FlatMap, LRUCacheMap, CommonLemmas

Bucket0 == [m_dist_and_fingerprint : Nat, m_value_idx : Nat]

\* n buckets behind i.
Behind(N, i, n) == IF i + n < N THEN i + n ELSE i + n - N
Dist(l, n) == 256 * (n + 1) + l
D(B, i) == B[i].m_dist_and_fingerprint
V(B, i) == B[i].m_value_idx

RingTypes(N, B, home, low, I) ==
  /\ N \in Nat /\ N >= 2
  /\ B \in [0..(N - 1) -> Bucket0]
  /\ I \subseteq Nat
  /\ \A v \in I : home[v] \in 0..(N - 1) /\ low[v] \in 0..255

\* A bucket has its true distance from the home of its value, ...
AtDistance(N, B, home, low, I) ==
  \A i \in 0..(N - 1) : D(B, i) # 0 =>
    /\ V(B, i) \in I
    /\ \E n \in 0..(N - 1) : /\ Behind(N, home[V(B, i)], n) = i
                             /\ D(B, i) = Dist(low[V(B, i)], n)

\* ... every value has one, ...
Indexing(N, B, I) ==
  /\ \A v \in I : \E i \in 0..(N - 1) : D(B, i) # 0 /\ V(B, i) = v
  /\ \A i, j \in 0..(N - 1) : D(B, i) # 0 /\ D(B, j) # 0 /\ V(B, i) = V(B, j) => i = j

\* ... a probe may stop at a richer one, and a backward shift ends.
Ordered(N, B) ==
  \A i \in 0..(N - 1) :
    D(B, Behind(N, i, 1)) < IF D(B, i) = 0 THEN 512 ELSE D(B, i) + 257
SomeoneHome(N, B) == \E i \in 0..(N - 1) : D(B, i) < 512

Ring(N, B, home, low, I) ==
  /\ RingTypes(N, B, home, low, I) /\ AtDistance(N, B, home, low, I)
  /\ Indexing(N, B, I) /\ Ordered(N, B) /\ SomeoneHome(N, B)

-----------------------------------------------------------------------------
(* Steps round the ring. *)

\* A step round the ring ends on it, and two make one.
LEMMA BehindIs ==
  ASSUME NEW N \in Nat, NEW i \in 0..(N - 1), NEW n \in 0..N
  PROVE  /\ Behind(N, i, n) \in 0..(N - 1)
         /\ Behind(N, i, 0) = i /\ Behind(N, i, N) = i
         /\ \A m \in 0..N : m + n <= N => Behind(N, Behind(N, i, m), n) = Behind(N, i, m + n)
BY DEF Behind

\* Round the ring but for one bucket is one bucket back.
LEMMA BehindOneLess ==
  ASSUME NEW N \in Nat, NEW p \in 0..(N - 1), NEW k \in 1..(N - 1)
  PROVE  Behind(N, Behind(N, p, k), N - 1) = Behind(N, p, k - 1)
BY DEF Behind

\* One step more is a distance more.
LEMMA DistIs ==
  ASSUME NEW l \in 0..255, NEW n \in Nat
  PROVE  /\ Dist(l, n) \in Nat /\ Dist(l, n) >= 256
         /\ Dist(l, n + 1) = Dist(l, n) + 256
BY DEF Dist

\* Every bucket is some steps behind a given one, in one way.
LEMMA BehindCovers ==
  ASSUME NEW N \in Nat, NEW p \in 0..(N - 1)
  PROVE  /\ \A i \in 0..(N - 1) : \E m \in 0..(N - 1) : Behind(N, p, m) = i
         /\ \A m, n \in 0..(N - 1) : Behind(N, p, m) = Behind(N, p, n) => m = n
<1>1. ASSUME NEW i \in 0..(N - 1) PROVE \E m \in 0..(N - 1) : Behind(N, p, m) = i
  <2>1. CASE i >= p
    <3>1. i - p \in 0..(N - 1) /\ Behind(N, p, i - p) = i
      BY <2>1 DEF Behind
    <3> QED
      BY <3>1
  <2>2. CASE i < p
    <3>1. i - p + N \in 0..(N - 1) /\ Behind(N, p, i - p + N) = i
      BY <2>2 DEF Behind
    <3> QED
      BY <3>1
  <2> QED
    BY <2>1, <2>2
<1> QED
  BY <1>1 DEF Behind

\* What a bucket is made of.
LEMMA BucketFields ==
  ASSUME NEW N, NEW B \in [0..(N - 1) -> Bucket0], NEW i \in 0..(N - 1)
  PROVE  D(B, i) \in Nat /\ V(B, i) \in Nat /\ B[i] \in Bucket0
BY DEF D, V, Bucket0

\* A bucket that is not empty is one step from home at least, counted from one.
LEMMA NotEmptyIsFar ==
  ASSUME NEW N, NEW B, NEW home, NEW low, NEW I, Ring(N, B, home, low, I),
         NEW i \in 0..(N - 1), D(B, i) # 0
  PROVE  D(B, i) >= 256
<1>1. V(B, i) \in I /\ \E n \in 0..(N - 1) : D(B, i) = Dist(low[V(B, i)], n)
  BY DEF Ring, AtDistance
<1>2. low[V(B, i)] \in 0..255 /\ N \in Nat
  BY <1>1 DEF Ring, RingTypes
<1> QED
  BY <1>1, <1>2 DEF Dist

\* Between the home of a value and its bucket every bucket is at least as far from
\* its home as a probe for the value is.
LEMMA NobodyRicherBefore ==
  ASSUME NEW N, NEW B, NEW home, NEW low, NEW I, Ring(N, B, home, low, I),
         NEW h \in 0..(N - 1), NEW l \in 0..255, NEW n \in 0..(N - 1),
         D(B, Behind(N, h, n)) >= Dist(l, n), NEW m \in 0..n
  PROVE  D(B, Behind(N, h, m)) >= Dist(l, m)
<1> DEFINE S == {k \in Nat : k <= n => D(B, Behind(N, h, n - k)) >= Dist(l, n - k)}
<1>1. N \in Nat /\ B \in [0..(N - 1) -> Bucket0]
  BY DEF Ring, RingTypes
<1>2. 0 \in S
  OBVIOUS
<1>3. ASSUME NEW k \in Nat, k \in S PROVE k + 1 \in S
  <2> SUFFICES ASSUME k + 1 <= n PROVE D(B, Behind(N, h, n - (k + 1))) >= Dist(l, n - (k + 1))
    OBVIOUS
  <2> DEFINE i == Behind(N, h, n - (k + 1))
  <2>1. i \in 0..(N - 1) /\ Behind(N, i, 1) = Behind(N, h, n - k)
    BY <1>1 DEF Behind
  <2>2. D(B, Behind(N, i, 1)) >= Dist(l, n - k)
    BY <1>3, <2>1
  <2>3. D(B, Behind(N, i, 1)) < IF D(B, i) = 0 THEN 512 ELSE D(B, i) + 257
    BY <2>1 DEF Ring, Ordered
  <2>4. D(B, i) \in Nat /\ D(B, Behind(N, i, 1)) \in Nat
    <3>1. Behind(N, i, 1) \in 0..(N - 1)
      BY <1>1, <2>1, BehindIs
    <3> QED
      BY <1>1, <2>1, <3>1, BucketFields
  <2> HIDE DEF i
  <2>5. D(B, i) >= Dist(l, n - (k + 1))
    BY <2>2, <2>3, <2>4 DEF Dist
  <2> QED
    BY <2>5 DEF i
<1> HIDE DEF S
<1>4. \A k \in Nat : k \in S
  BY <1>2, <1>3, Induction
<1>5. n - m \in S /\ n - (n - m) = m /\ n - m <= n
  BY <1>4
<1> QED
  BY <1>5 DEF S

\* With an empty bucket somewhere no bucket is as far from its home as it is round.
LEMMA NotAllRound ==
  ASSUME NEW N, NEW B, NEW home, NEW low, NEW I, Ring(N, B, home, low, I),
         NEW h \in 0..(N - 1), NEW l \in 0..255, NEW n \in 0..(N - 1),
         D(B, Behind(N, h, n)) >= Dist(l, n),
         NEW e \in 0..(N - 1), D(B, e) = 0
  PROVE  n < N - 1
<1>1. N \in Nat
  BY DEF Ring, RingTypes
<1>2. SUFFICES ASSUME n = N - 1 PROVE FALSE
  BY <1>1
<1>3. PICK m \in 0..(N - 1) : Behind(N, h, m) = e
  BY <1>1, BehindCovers
<1>4. D(B, e) >= Dist(l, m)
  BY <1>2, <1>3, NobodyRicherBefore
<1> QED
  BY <1>4 DEF Dist

\* The buckets after a new one was placed and those behind it moved up.
Shifted(N, B, C, p, run, bucket) ==
  /\ C \in [0..(N - 1) -> Bucket0]
  /\ C[p] = bucket
  /\ \A m \in 1..run :
       LET from == Behind(N, p, m - 1)
           to   == Behind(N, p, m)
       IN  D(C, to) = D(B, from) + 256 /\ V(C, to) = V(B, from)
  /\ \A m \in (run + 1)..(N - 1) : C[Behind(N, p, m)] = B[Behind(N, p, m)]

\* Where a new value goes: a probe from its home may not stop before, and the run
\* that starts there ends in an empty bucket.
Placing(N, B, h, l, n, run) ==
  LET p == Behind(N, h, n)
  IN  /\ h \in 0..(N - 1) /\ l \in 0..255 /\ n \in 0..(N - 1) /\ run \in 0..(N - 1)
      /\ Dist(l, n) >= D(B, p)
      /\ n > 0 => D(B, Behind(N, h, n - 1)) >= Dist(l, n - 1)
      /\ D(B, Behind(N, p, run)) = 0
      /\ \A m \in 0..(run - 1) : D(B, Behind(N, p, m)) # 0

\* The run as a position sees it.
LEMMA PlacedOrdered ==
  ASSUME NEW N, NEW B, NEW C, NEW home, NEW low, NEW I, Ring(N, B, home, low, I),
         NEW h, NEW l, NEW n, NEW run, NEW v \in Nat, Placing(N, B, h, l, n, run),
         Shifted(N, B, C, Behind(N, h, n), run,
                 [m_dist_and_fingerprint |-> Dist(l, n), m_value_idx |-> v])
  PROVE  Ordered(N, C) /\ SomeoneHome(N, C)
<1> DEFINE p == Behind(N, h, n)
           At(m) == Behind(N, p, m)
<1>1. /\ N \in Nat /\ N >= 2 /\ B \in [0..(N - 1) -> Bucket0] /\ C \in [0..(N - 1) -> Bucket0]
      /\ h \in 0..(N - 1) /\ l \in 0..255 /\ n \in 0..(N - 1) /\ run \in 0..(N - 1)
      /\ p \in 0..(N - 1)
  <2>1. /\ N \in Nat /\ N >= 2 /\ B \in [0..(N - 1) -> Bucket0]
    BY DEF Ring, RingTypes
  <2>2. C \in [0..(N - 1) -> Bucket0]
    BY DEF Shifted
  <2>3. h \in 0..(N - 1) /\ l \in 0..255 /\ n \in 0..(N - 1) /\ run \in 0..(N - 1)
    BY DEF Placing
  <2>4. p \in 0..(N - 1)
    BY <2>1, <2>3 DEF Behind
  <2> QED
    BY <2>1, <2>2, <2>3, <2>4
<1>2. \A m \in 0..N : /\ At(m) \in 0..(N - 1) /\ D(B, At(m)) \in Nat /\ D(C, At(m)) \in Nat
                      /\ m < N => Behind(N, At(m), 1) = At(m + 1)
  <2> SUFFICES ASSUME NEW m \in 0..N
               PROVE  /\ At(m) \in 0..(N - 1) /\ D(B, At(m)) \in Nat /\ D(C, At(m)) \in Nat
                      /\ m < N => Behind(N, At(m), 1) = At(m + 1)
    OBVIOUS
  <2>1. At(m) \in 0..(N - 1) /\ (m < N => Behind(N, At(m), 1) = At(m + 1))
    BY <1>1 DEF Behind
  <2> QED
    BY <1>1, <2>1, BucketFields
<1>3. At(0) = p /\ At(N) = p
  BY <1>1, BehindIs
<1>4. /\ D(C, At(0)) = Dist(l, n)
      /\ \A m \in 1..run : D(C, At(m)) = D(B, At(m - 1)) + 256
      /\ \A m \in (run + 1)..(N - 1) : D(C, At(m)) = D(B, At(m))
  BY <1>3 DEF Shifted, D
<1>5. \A m \in 0..(N - 1) : /\ D(B, At(m)) = 0 => D(B, At(m + 1)) < 512
                            /\ D(B, At(m)) # 0 => D(B, At(m + 1)) < D(B, At(m)) + 257
  <2> SUFFICES ASSUME NEW m \in 0..(N - 1)
               PROVE  /\ D(B, At(m)) = 0 => D(B, At(m + 1)) < 512
                      /\ D(B, At(m)) # 0 => D(B, At(m + 1)) < D(B, At(m)) + 257
    OBVIOUS
  <2>1. At(m) \in 0..(N - 1) /\ Behind(N, At(m), 1) = At(m + 1)
    <3>1. m \in 0..N /\ m < N
      BY <1>1
    <3> QED
      BY <1>2, <3>1
  <2>2. D(B, Behind(N, At(m), 1)) < IF D(B, At(m)) = 0 THEN 512 ELSE D(B, At(m)) + 257
    BY <2>1 DEF Ring, Ordered
  <2> QED
    BY <2>1, <2>2
<1>6. /\ D(B, At(0)) <= Dist(l, n) /\ D(B, At(run)) = 0
      /\ \A m \in 0..(run - 1) : D(B, At(m)) # 0
  BY <1>3 DEF Placing
<1>7. n > 0 => D(B, At(N - 1)) >= Dist(l, n - 1)
  <2>1. n > 0 => At(N - 1) = Behind(N, h, n - 1)
    BY <1>1 DEF Behind
  <2> QED
    BY <2>1 DEF Placing
<1>8. run = N - 1 => n = 0
  BY <1>1, <1>6, <1>7 DEF Dist
<1> HIDE DEF p, At
<1>9. ASSUME NEW m \in 0..(N - 1)
      PROVE  /\ D(C, At(m)) = 0 => D(C, At(m + 1)) < 512
             /\ D(C, At(m)) # 0 => D(C, At(m + 1)) < D(C, At(m)) + 257
  <2>0. /\ m \in Nat /\ m + 1 \in 0..N /\ m \in 0..N /\ Dist(l, n) \in Nat /\ Dist(l, n) >= 256
        /\ D(B, At(m)) \in Nat /\ D(C, At(m)) \in Nat
        /\ D(B, At(m + 1)) \in Nat /\ D(C, At(m + 1)) \in Nat
    <3>1. m \in Nat /\ m + 1 \in 0..N /\ m \in 0..N
      BY <1>1
    <3>2. Dist(l, n) \in Nat /\ Dist(l, n) >= 256
      BY <1>1 DEF Dist
    <3> QED
      BY <1>2, <3>1, <3>2
  <2>1. CASE m = N - 1 /\ run = N - 1
    <3>1. D(C, At(m)) = D(B, At(m - 1)) + 256 /\ D(B, At(m - 1)) \in Nat
      BY <1>1, <1>2, <1>4, <2>1
    <3>2. D(C, At(m + 1)) = Dist(l, 0)
      BY <1>1, <1>3, <1>4, <1>8, <2>1
    <3> QED
      BY <1>1, <2>0, <3>1, <3>2, SMTT(30) DEF Dist
  <2>2. CASE m = N - 1 /\ run < N - 1
    <3>1. D(C, At(m)) = D(B, At(N - 1)) /\ D(C, At(m + 1)) = Dist(l, n)
      BY <1>1, <1>3, <1>4, <2>2
    <3>2. CASE n = 0
      <4>1. D(B, At(N - 1)) # 0 => D(B, At(N - 1)) >= 256
        <5>1. N - 1 \in 0..N
          BY <1>1
        <5> QED
          BY <1>2, <5>1, NotEmptyIsFar
      <4> QED
        BY <1>1, <2>0, <3>1, <3>2, <4>1 DEF Dist
    <3>3. CASE n > 0
      BY <1>1, <1>7, <2>0, <2>2, <3>1, <3>3 DEF Dist
    <3> QED
      BY <1>1, <3>2, <3>3
  <2>3. CASE m < N - 1 /\ m > run
    <3>1. D(C, At(m)) = D(B, At(m)) /\ D(C, At(m + 1)) = D(B, At(m + 1))
      BY <1>1, <1>4, <2>3
    <3> QED
      BY <1>5, <3>1
  <2>4. CASE m < N - 1 /\ m = run
    <3>1. D(C, At(m + 1)) = D(B, At(m + 1)) /\ D(B, At(m + 1)) < 512
      BY <1>1, <1>4, <1>5, <1>6, <2>4
    <3>2. D(C, At(m)) >= 256
      <4>1. CASE m = 0
        BY <1>4, <2>0, <4>1
      <4>2. CASE m > 0
        <5>1. m - 1 \in 0..N /\ D(C, At(m)) = D(B, At(m - 1)) + 256
          BY <1>1, <1>4, <2>4, <4>2
        <5> QED
          BY <1>2, <5>1
      <4> QED
        BY <2>0, <4>1, <4>2
    <3> QED
      BY <2>0, <3>1, <3>2
  <2>5. CASE m < N - 1 /\ m < run /\ m > 0
    <3>1. /\ D(C, At(m + 1)) = D(B, At(m)) + 256 /\ D(C, At(m)) = D(B, At(m - 1)) + 256
          /\ D(B, At(m - 1)) # 0 /\ m - 1 \in 0..(N - 1) /\ (m - 1) + 1 = m
      <4>1. m \in 1..run /\ m + 1 \in 1..run /\ (m + 1) - 1 = m /\ m - 1 \in 0..(run - 1)
        BY <1>1, <2>5
      <4> QED
        BY <1>1, <1>4, <1>6, <4>1
    <3>2. D(B, At(m)) < D(B, At(m - 1)) + 257 /\ D(B, At(m - 1)) \in Nat
      BY <1>1, <1>2, <1>5, <3>1
    <3> QED
      BY <2>0, <3>1, <3>2
  <2>6. CASE m < N - 1 /\ m < run /\ m = 0
    <3>1. D(C, At(m + 1)) = D(B, At(0)) + 256 /\ D(C, At(m)) = Dist(l, n)
      <4>1. 1 \in 1..run
        BY <1>1, <2>6
      <4> QED
        BY <1>4, <2>6, <4>1
    <3> QED
      BY <1>6, <2>0, <2>6, <3>1
  <2> QED
    BY <1>1, <2>1, <2>2, <2>3, <2>4, <2>5, <2>6
<1>10. Ordered(N, C)
  <2> SUFFICES ASSUME NEW i \in 0..(N - 1)
               PROVE  D(C, Behind(N, i, 1)) < IF D(C, i) = 0 THEN 512 ELSE D(C, i) + 257
    BY DEF Ordered
  <2>1. PICK m \in 0..(N - 1) : At(m) = i
    BY <1>1, BehindCovers DEF At
  <2>2. Behind(N, i, 1) = At(m + 1)
    BY <1>1, <1>2, <2>1
  <2> QED
    BY <1>9, <2>1, <2>2
<1>11. SomeoneHome(N, C)
  <2>1. CASE run = N - 1
    <3>1. D(C, At(0)) < 512 /\ At(0) \in 0..(N - 1)
      BY <1>1, <1>2, <1>4, <1>8, <2>1 DEF Dist
    <3> QED
      BY <3>1 DEF SomeoneHome
  <2>2. CASE run < N - 1
    <3>1. D(C, At(run + 1)) < 512 /\ At(run + 1) \in 0..(N - 1)
      BY <1>1, <1>2, <1>4, <1>5, <1>6, <2>2
    <3> QED
      BY <3>1 DEF SomeoneHome
  <2> QED
    BY <1>1, <2>1, <2>2
<1> QED
  BY <1>10, <1>11

\* Placing a value in the ring keeps it one, with the value in it.
LEMMA PlacedRing ==
  ASSUME NEW N, NEW B, NEW C, NEW home, NEW low, NEW I, Ring(N, B, home, low, I),
         NEW h, NEW l, NEW n, NEW run, NEW v \in Nat, v \notin I, Placing(N, B, h, l, n, run),
         Shifted(N, B, C, Behind(N, h, n), run,
                 [m_dist_and_fingerprint |-> Dist(l, n), m_value_idx |-> v]),
         NEW home2, NEW low2, home2[v] = h, low2[v] = l,
         \A w \in I : home2[w] = home[w] /\ low2[w] = low[w]
  PROVE  Ring(N, C, home2, low2, I \cup {v})
<1> DEFINE p == Behind(N, h, n)
           At(m) == Behind(N, p, m)
<1>1. /\ N \in Nat /\ N >= 2 /\ B \in [0..(N - 1) -> Bucket0] /\ C \in [0..(N - 1) -> Bucket0]
      /\ h \in 0..(N - 1) /\ l \in 0..255 /\ n \in 0..(N - 1) /\ run \in 0..(N - 1)
  BY DEF Ring, RingTypes, Placing, Shifted
<1>2. p \in 0..(N - 1) /\ \A m \in 0..(N - 1) : At(m) \in 0..(N - 1)
  BY <1>1 DEF Behind
<1>3. \A i \in 0..(N - 1) : \E m \in 0..(N - 1) : At(m) = i
  BY <1>1, <1>2, BehindCovers
<1>4. \A m, k \in 0..(N - 1) : At(m) = At(k) => m = k
  BY <1>1, <1>2, BehindCovers
<1>5. At(0) = p
  BY <1>1, <1>2, BehindIs
<1>6. RingTypes(N, C, home2, low2, I \cup {v})
  BY <1>1 DEF Ring, RingTypes
\* What each bucket has now: the new value, what was before it, or what was there.
<1>7. /\ D(C, At(0)) = Dist(l, n) /\ V(C, At(0)) = v
      /\ \A m \in 1..run : D(C, At(m)) = D(B, At(m - 1)) + 256 /\ V(C, At(m)) = V(B, At(m - 1))
      /\ \A m \in (run + 1)..(N - 1) : D(C, At(m)) = D(B, At(m)) /\ V(C, At(m)) = V(B, At(m))
  BY <1>5 DEF Shifted, D, V
<1>8. D(B, At(run)) = 0 /\ \A m \in 0..(run - 1) : D(B, At(m)) # 0
  BY <1>5 DEF Placing
<1> HIDE DEF At, p
<1>9. AtDistance(N, C, home2, low2, I \cup {v})
  <2> SUFFICES ASSUME NEW m \in 0..(N - 1), D(C, At(m)) # 0
               PROVE  /\ V(C, At(m)) \in I \cup {v}
                      /\ \E k \in 0..(N - 1) : /\ Behind(N, home2[V(C, At(m))], k) = At(m)
                                               /\ D(C, At(m)) = Dist(low2[V(C, At(m))], k)
    BY <1>3 DEF AtDistance
  <2>1. CASE m = 0
    BY <1>1, <1>5, <1>7, <2>1 DEF p
  <2>2. CASE m \in 1..run
    <3> DEFINE w == V(B, At(m - 1))
    <3>1. m - 1 \in 0..(N - 1) /\ m - 1 \in 0..(run - 1)
      BY <1>1, <2>2
    <3>2. /\ w \in I
          /\ \E k \in 0..(N - 1) : /\ Behind(N, home[w], k) = At(m - 1)
                                   /\ D(B, At(m - 1)) = Dist(low[w], k)
      BY <1>2, <1>8, <3>1 DEF Ring, AtDistance
    <3>3. PICK k \in 0..(N - 1) : /\ Behind(N, home[w], k) = At(m - 1)
                                  /\ D(B, At(m - 1)) = Dist(low[w], k)
      BY <3>2
    <3>4. home[w] \in 0..(N - 1) /\ low[w] \in 0..255
      BY <3>2 DEF Ring, RingTypes
    <3>9. V(C, At(m)) = w /\ D(C, At(m)) = D(B, At(m - 1)) + 256
      BY <1>7, <2>2
    <3> HIDE DEF w
    <3>5. Dist(low[w], k) \in Nat /\ Dist(low[w], k) + 256 = Dist(low[w], k + 1)
      <4>1. k \in Nat
        BY <1>1
      <4> QED
        BY <3>4, <4>1, DistIs, ZenonT(60)
    <3>6. k < N - 1
      <4>1. D(B, Behind(N, home[w], k)) >= Dist(low[w], k)
        BY <3>3, <3>5
      <4> QED
        BY <1>1, <1>2, <1>8, <3>4, <4>1, NotAllRound
    <3>7. k + 1 \in 0..(N - 1) /\ Behind(N, home[w], k + 1) = At(m)
      <4>1. k + 1 \in 0..(N - 1)
        BY <1>1, <3>6
      <4>2. Behind(N, home[w], k + 1) = Behind(N, At(m - 1), 1)
        <5>1. k \in 0..N /\ 1 \in 0..N /\ k + 1 <= N
          BY <1>1, <4>1
        <5>2. \A i \in 0..(N - 1) : Behind(N, Behind(N, i, k), 1) = Behind(N, i, k + 1)
          BY <1>1, <5>1, BehindIs
        <5> QED
          BY <3>3, <3>4, <5>2
      <4>3. Behind(N, At(m - 1), 1) = At(m)
        BY <1>1, <1>2, <2>2 DEF At, Behind
      <4> QED
        BY <4>1, <4>2, <4>3
    <3>8. D(C, At(m)) = Dist(low[w], k + 1) /\ V(C, At(m)) = w
      BY <3>3, <3>5, <3>9
    <3> QED
      BY <3>2, <3>7, <3>8
  <2>3. CASE m \in (run + 1)..(N - 1)
    <3>1. D(C, At(m)) = D(B, At(m)) /\ V(C, At(m)) = V(B, At(m))
      BY <1>7, <2>3
    <3> QED
      BY <1>2, <3>1 DEF Ring, AtDistance
  <2> QED
    BY <1>1, <2>1, <2>2, <2>3
<1>10. Indexing(N, C, I \cup {v})
  <2>1. ASSUME NEW w \in I PROVE \E i \in 0..(N - 1) : D(C, i) # 0 /\ V(C, i) = w
    <3>1. PICK i \in 0..(N - 1) : D(B, i) # 0 /\ V(B, i) = w
      BY DEF Ring, Indexing
    <3>2. PICK m \in 0..(N - 1) : At(m) = i
      BY <1>3
    <3>3. CASE m < run
      <4>1. m + 1 \in 1..run /\ m + 1 \in 0..(N - 1) /\ (m + 1) - 1 = m
        BY <1>1, <3>3
      <4>2. D(C, At(m + 1)) = D(B, At(m)) + 256 /\ V(C, At(m + 1)) = w
        BY <1>7, <3>1, <3>2, <4>1
      <4>3. D(C, At(m + 1)) # 0
        <5>1. D(B, At(m)) \in Nat
          BY <1>1, <1>2, BucketFields
        <5> QED
          BY <4>2, <5>1
      <4> QED
        BY <1>2, <4>1, <4>2, <4>3
    <3>4. CASE m > run
      BY <1>1, <1>2, <1>7, <3>1, <3>2, <3>4
    <3> QED
      BY <1>1, <1>8, <3>1, <3>2, <3>3, <3>4
  <2>2. Dist(l, n) # 0
    BY <1>1 DEF Dist
  <2>3. \E i \in 0..(N - 1) : D(C, i) # 0 /\ V(C, i) = v
    BY <1>1, <1>2, <1>7, <2>2
  \* The bucket a value came from.
  <2> DEFINE from(m) == IF m <= run THEN m - 1 ELSE m
  <2>4. ASSUME NEW m \in 1..(N - 1), D(C, At(m)) # 0
        PROVE  /\ from(m) \in 0..(N - 1) /\ D(B, At(from(m))) # 0
               /\ V(C, At(m)) = V(B, At(from(m))) /\ V(C, At(m)) \in I
    <3>1. CASE m <= run
      <4>1. m \in 1..run /\ m - 1 \in 0..(run - 1) /\ m - 1 \in 0..(N - 1)
        BY <1>1, <3>1
      <4> QED
        BY <1>2, <1>7, <1>8, <3>1, <4>1 DEF Ring, AtDistance
    <3>2. CASE ~(m <= run)
      <4>1. m \in (run + 1)..(N - 1) /\ m \in 0..(N - 1)
        BY <1>1, <3>2
      <4> QED
        BY <1>2, <1>7, <2>4, <3>2, <4>1 DEF Ring, AtDistance
    <3> QED
      BY <3>1, <3>2
  <2>5. \A m, k \in 1..(N - 1) :
          from(m) = from(k) /\ D(C, At(m)) # 0 /\ D(C, At(k)) # 0 => m = k
    <3> SUFFICES ASSUME NEW m \in 1..(N - 1), NEW k \in 1..(N - 1), from(m) = from(k), m # k,
                        D(C, At(m)) # 0, D(C, At(k)) # 0
                 PROVE  FALSE
      OBVIOUS
    <3>1. from(m) = run
      BY <1>1
    <3>2. D(B, At(run)) # 0
      BY <2>4, <3>1
    <3> QED
      BY <1>8, <3>2
  <2> HIDE DEF from
  <2>6. ASSUME NEW m \in 0..(N - 1), NEW k \in 0..(N - 1),
               D(C, At(m)) # 0, D(C, At(k)) # 0, V(C, At(m)) = V(C, At(k))
        PROVE  At(m) = At(k)
    <3>1. CASE m = 0 \/ k = 0
      <4>1. \A q \in 0..(N - 1) : q # 0 => q \in 1..(N - 1)
        BY <1>1
      <4> QED
        BY <1>7, <2>4, <2>6, <3>1, <4>1
    <3>2. CASE m # 0 /\ k # 0
      <4>1. m \in 1..(N - 1) /\ k \in 1..(N - 1)
        BY <1>1, <3>2
      <4>2. At(from(m)) = At(from(k))
        BY <1>2, <2>4, <2>6, <4>1 DEF Ring, Indexing
      <4> QED
        BY <1>4, <2>4, <2>5, <2>6, <4>1, <4>2
    <3> QED
      BY <3>1, <3>2
  <2>7. \A i, j \in 0..(N - 1) : D(C, i) # 0 /\ D(C, j) # 0 /\ V(C, i) = V(C, j) => i = j
    BY <1>3, <2>6
  <2> QED
    BY <2>1, <2>3, <2>7 DEF Indexing
<1>11. Ordered(N, C) /\ SomeoneHome(N, C)
  BY PlacedOrdered
<1> QED
  BY <1>6, <1>9, <1>10, <1>11 DEF Ring

\* The buckets after one was emptied and those behind it moved down.
Unshifted(N, B, C, p, run) ==
  /\ C \in [0..(N - 1) -> Bucket0]
  /\ \A m \in 0..(run - 2) :
       LET from == Behind(N, p, m + 1)
           to   == Behind(N, p, m)
       IN  D(C, to) = D(B, from) - 256 /\ V(C, to) = V(B, from)
  /\ D(C, Behind(N, p, run - 1)) = 0
  /\ \A m \in run..(N - 1) : C[Behind(N, p, m)] = B[Behind(N, p, m)]

\* How far: up to a bucket that is empty or at home.
Emptying(N, B, p, run) ==
  /\ p \in 0..(N - 1) /\ D(B, p) # 0 /\ run \in 1..N
  /\ D(B, Behind(N, p, run)) < 512
  /\ \A m \in 1..(run - 1) : D(B, Behind(N, p, m)) >= 512

\* Emptying a bucket keeps the order.
LEMMA ErasedOrdered ==
  ASSUME NEW N, NEW B, NEW C, NEW home, NEW low, NEW I, Ring(N, B, home, low, I),
         NEW p, NEW run, Emptying(N, B, p, run), Unshifted(N, B, C, p, run)
  PROVE  Ordered(N, C) /\ SomeoneHome(N, C)
<1> DEFINE At(m) == Behind(N, p, m)
<1>1. /\ N \in Nat /\ N >= 2 /\ B \in [0..(N - 1) -> Bucket0] /\ C \in [0..(N - 1) -> Bucket0]
      /\ p \in 0..(N - 1) /\ run \in 1..N
  BY DEF Ring, RingTypes, Emptying, Unshifted
<1>2. \A m \in 0..N : /\ At(m) \in 0..(N - 1) /\ D(B, At(m)) \in Nat /\ D(C, At(m)) \in Nat
                      /\ m < N => Behind(N, At(m), 1) = At(m + 1)
  <2> SUFFICES ASSUME NEW m \in 0..N
               PROVE  /\ At(m) \in 0..(N - 1) /\ D(B, At(m)) \in Nat /\ D(C, At(m)) \in Nat
                      /\ m < N => Behind(N, At(m), 1) = At(m + 1)
    OBVIOUS
  <2>1. At(m) \in 0..(N - 1) /\ (m < N => Behind(N, At(m), 1) = At(m + 1))
    BY <1>1 DEF Behind
  <2> QED
    BY <1>1, <2>1, BucketFields
<1>3. At(0) = p /\ At(N) = p
  BY <1>1, BehindIs
<1>4. /\ \A m \in 0..(run - 2) : D(C, At(m)) = D(B, At(m + 1)) - 256
      /\ D(C, At(run - 1)) = 0
      /\ \A m \in run..(N - 1) : D(C, At(m)) = D(B, At(m))
  BY DEF Unshifted, D
<1>5. \A m \in 0..(N - 1) : /\ D(B, At(m)) = 0 => D(B, At(m + 1)) < 512
                            /\ D(B, At(m)) # 0 => D(B, At(m + 1)) < D(B, At(m)) + 257
  <2> SUFFICES ASSUME NEW m \in 0..(N - 1)
               PROVE  /\ D(B, At(m)) = 0 => D(B, At(m + 1)) < 512
                      /\ D(B, At(m)) # 0 => D(B, At(m + 1)) < D(B, At(m)) + 257
    OBVIOUS
  <2>1. At(m) \in 0..(N - 1) /\ Behind(N, At(m), 1) = At(m + 1)
    <3>1. m \in 0..N /\ m < N
      BY <1>1
    <3> QED
      BY <1>2, <3>1
  <2>2. D(B, Behind(N, At(m), 1)) < IF D(B, At(m)) = 0 THEN 512 ELSE D(B, At(m)) + 257
    BY <2>1 DEF Ring, Ordered
  <2> QED
    BY <2>1, <2>2
<1>6. /\ D(B, At(0)) # 0 /\ D(B, At(run)) < 512
      /\ \A m \in 1..(run - 1) : D(B, At(m)) >= 512
  BY <1>3 DEF Emptying
<1> HIDE DEF At
\* What is first now is no farther than what was: it was one step farther at most.
<1>7. D(C, At(0)) <= D(B, At(0))
  <2>1. CASE run = 1
    <3>1. D(C, At(0)) = 0 /\ 0 \in 0..N
      BY <1>1, <1>4, <2>1
    <3> QED
      BY <1>2, <3>1
  <2>2. CASE run > 1
    <3>1. D(C, At(0)) = D(B, At(1)) - 256 /\ D(B, At(1)) < D(B, At(0)) + 257
      <4>1. 0 \in 0..(run - 2) /\ 0 \in 0..(N - 1) /\ 0 + 1 = 1
        BY <1>1, <2>2
      <4> QED
        BY <1>4, <1>5, <1>6, <4>1
    <3>2. 0 \in 0..N /\ 1 \in 0..N
      BY <1>1
    <3> QED
      BY <1>2, <3>1, <3>2
  <2> QED
    BY <1>1, <2>1, <2>2
<1>9. ASSUME NEW m \in 0..(N - 1)
      PROVE  /\ D(C, At(m)) = 0 => D(C, At(m + 1)) < 512
             /\ D(C, At(m)) # 0 => D(C, At(m + 1)) < D(C, At(m)) + 257
  <2>0. /\ m \in Nat /\ m + 1 \in 0..N /\ m \in 0..N
        /\ D(B, At(m)) \in Nat /\ D(C, At(m)) \in Nat
        /\ D(B, At(m + 1)) \in Nat /\ D(C, At(m + 1)) \in Nat
        /\ D(B, At(0)) \in Nat /\ D(C, At(0)) \in Nat
    <3>1. m \in Nat /\ m + 1 \in 0..N /\ m \in 0..N /\ 0 \in 0..N
      BY <1>1
    <3> QED
      BY <1>2, <3>1
  <2>1. CASE m + 1 <= run - 2
    <3>1. /\ D(C, At(m)) = D(B, At(m + 1)) - 256 /\ D(C, At(m + 1)) = D(B, At(m + 2)) - 256
          /\ D(B, At(m + 1)) >= 512 /\ D(B, At(m + 2)) \in Nat
          /\ D(B, At(m + 2)) < D(B, At(m + 1)) + 257
      <4>1. /\ m \in 0..(run - 2) /\ m + 1 \in 0..(run - 2) /\ (m + 1) + 1 = m + 2
            /\ m + 1 \in 1..(run - 1) /\ m + 1 \in 0..(N - 1) /\ m + 2 \in 0..N
        BY <1>1, <2>1
      <4>2. D(C, At(m)) = D(B, At(m + 1)) - 256 /\ D(C, At(m + 1)) = D(B, At((m + 1) + 1)) - 256
        BY <1>4, <4>1
      <4>3. D(B, At(m + 1)) >= 512
        BY <1>6, <4>1
      <4>4. D(B, At((m + 1) + 1)) < D(B, At(m + 1)) + 257
        BY <1>5, <2>0, <4>1, <4>3
      <4> QED
        BY <1>2, <4>1, <4>2, <4>3, <4>4
    <3> QED
      BY <2>0, <3>1
  <2>2. CASE m + 1 = run - 1
    <3>1. D(C, At(m + 1)) = 0
      BY <1>4, <2>2
    <3> QED
      BY <2>0, <3>1
  <2>3. CASE m = run - 1
    <3>1. D(C, At(m)) = 0
      BY <1>4, <2>3
    <3>2. CASE run < N
      <4>1. run \in run..(N - 1) /\ m + 1 = run
        BY <1>1, <2>3, <3>2
      <4>2. D(C, At(m + 1)) = D(B, At(run))
        BY <1>4, <4>1
      <4> QED
        BY <1>6, <3>1, <4>2
    <3>3. CASE run = N
      <4>1. D(C, At(m + 1)) = D(C, At(0)) /\ D(B, At(run)) = D(B, At(0))
        BY <1>1, <1>3, <2>3, <3>3
      <4> QED
        BY <1>6, <1>7, <2>0, <3>1, <4>1
    <3> QED
      BY <1>1, <3>2, <3>3
  <2>4. CASE m >= run /\ m < N - 1
    <3>1. m \in run..(N - 1) /\ m + 1 \in run..(N - 1)
      BY <1>1, <2>4
    <3>2. D(C, At(m)) = D(B, At(m)) /\ D(C, At(m + 1)) = D(B, At(m + 1))
      BY <1>4, <3>1
    <3> QED
      BY <1>5, <3>2
  <2>5. CASE m >= run /\ m = N - 1
    <3>1. D(C, At(m)) = D(B, At(m)) /\ At(m + 1) = At(0)
      <4>1. m \in run..(N - 1) /\ m + 1 = N
        BY <1>1, <2>5
      <4> QED
        BY <1>3, <1>4, <4>1
    <3> QED
      BY <1>5, <1>7, <2>0, <3>1
  <2> QED
    BY <1>1, <2>1, <2>2, <2>3, <2>4, <2>5
<1>10. Ordered(N, C)
  <2> SUFFICES ASSUME NEW i \in 0..(N - 1)
               PROVE  D(C, Behind(N, i, 1)) < IF D(C, i) = 0 THEN 512 ELSE D(C, i) + 257
    BY DEF Ordered
  <2>1. PICK m \in 0..(N - 1) : At(m) = i
    BY <1>1, BehindCovers DEF At
  <2>2. Behind(N, i, 1) = At(m + 1)
    BY <1>1, <1>2, <2>1
  <2> QED
    BY <1>9, <2>1, <2>2
<1>11. SomeoneHome(N, C)
  <2>1. run - 1 \in 0..N
    BY <1>1
  <2> QED
    BY <1>2, <1>4, <2>1 DEF SomeoneHome
<1> QED
  BY <1>10, <1>11

\* Emptying a bucket keeps the ring, with every other value in it.
LEMMA ErasedRing ==
  ASSUME NEW N, NEW B, NEW C, NEW home, NEW low, NEW I, Ring(N, B, home, low, I),
         NEW p, NEW run, Emptying(N, B, p, run), Unshifted(N, B, C, p, run)
  PROVE  Ring(N, C, home, low, I \ {V(B, p)})
<1> DEFINE At(m) == Behind(N, p, m)
<1>1. /\ N \in Nat /\ N >= 2 /\ B \in [0..(N - 1) -> Bucket0] /\ C \in [0..(N - 1) -> Bucket0]
      /\ p \in 0..(N - 1) /\ run \in 1..N
  BY DEF Ring, RingTypes, Emptying, Unshifted
<1>2. \A m \in 0..N : At(m) \in 0..(N - 1)
  BY <1>1 DEF Behind
<1>3. At(0) = p /\ At(N) = p
  BY <1>1, BehindIs
<1>4. \A i \in 0..(N - 1) : \E m \in 0..(N - 1) : At(m) = i
  BY <1>1, BehindCovers
<1>5. \A m, k \in 0..(N - 1) : At(m) = At(k) => m = k
  BY <1>1, BehindCovers
<1>6. /\ \A m \in 0..(run - 2) : D(C, At(m)) = D(B, At(m + 1)) - 256 /\ V(C, At(m)) = V(B, At(m + 1))
      /\ D(C, At(run - 1)) = 0
      /\ \A m \in run..(N - 1) : D(C, At(m)) = D(B, At(m)) /\ V(C, At(m)) = V(B, At(m))
  BY DEF Unshifted, D, V
<1>7. D(B, At(0)) # 0 /\ \A m \in 1..(run - 1) : D(B, At(m)) >= 512
  BY <1>3 DEF Emptying
<1> HIDE DEF At
\* The bucket a value came from.
<1> DEFINE from(m) == IF m < run THEN m + 1 ELSE m
<1>8. ASSUME NEW m \in 0..(N - 1), D(C, At(m)) # 0
      PROVE  /\ from(m) \in 1..(N - 1) /\ D(B, At(from(m))) # 0
             /\ V(C, At(m)) = V(B, At(from(m)))
             /\ \/ m < run - 1 /\ D(B, At(from(m))) >= 512 /\ D(C, At(m)) = D(B, At(from(m))) - 256
                \/ m >= run /\ D(C, At(m)) = D(B, At(from(m)))
  <2>1. m # run - 1
    BY <1>6, <1>8
  <2>2. CASE m < run
    <3>1. m \in 0..(run - 2) /\ m + 1 \in 1..(run - 1) /\ m + 1 \in 1..(N - 1) /\ m < run - 1
      BY <1>1, <2>1, <2>2
    <3>2. D(B, At(m + 1)) \in Nat
      <4>1. m + 1 \in 0..N
        BY <1>1, <3>1
      <4> QED
        BY <1>1, <1>2, <4>1, BucketFields
    <3> QED
      BY <1>6, <1>7, <2>2, <3>1, <3>2
  <2>3. CASE m >= run
    <3>1. m \in run..(N - 1) /\ m \in 1..(N - 1) /\ ~(m < run)
      BY <1>1, <2>3
    <3> QED
      BY <1>6, <1>8, <2>3, <3>1
  <2> QED
    BY <1>1, <2>2, <2>3
<1>9. \A m, k \in 0..(N - 1) : from(m) = from(k) /\ D(C, At(m)) # 0 /\ D(C, At(k)) # 0 => m = k
  <2> SUFFICES ASSUME NEW m \in 0..(N - 1), NEW k \in 0..(N - 1), from(m) = from(k), m < k,
                      D(C, At(m)) # 0, D(C, At(k)) # 0
               PROVE  FALSE
    <3>1. \A m, k \in 0..(N - 1) : m # k => m < k \/ k < m
      BY <1>1
    <3> QED
      BY <3>1
  <2>1. m = run - 1
    BY <1>1
  <2> QED
    BY <1>6, <2>1
<1> DEFINE J == I \ {V(B, p)}
<1>10. ASSUME NEW m \in 0..(N - 1), D(C, At(m)) # 0
       PROVE  V(C, At(m)) \in J
  <2>1. from(m) \in 0..(N - 1) /\ D(B, At(from(m))) # 0 /\ V(C, At(m)) = V(B, At(from(m)))
    BY <1>1, <1>8, <1>10
  <2> HIDE DEF from
  <2>2. V(B, At(from(m))) \in I
    <3>1. At(from(m)) \in 0..(N - 1)
      BY <1>1, <1>2, <2>1
    <3>2. \A i \in 0..(N - 1) : D(B, i) # 0 => V(B, i) \in I
      BY DEF Ring, AtDistance
    <3> QED
      BY <2>1, <3>1, <3>2
  <2>3. V(B, At(from(m))) # V(B, p)
    <3>1. SUFFICES ASSUME V(B, At(from(m))) = V(B, p) PROVE FALSE
      OBVIOUS
    <3>2. from(m) \in 0..N /\ 0 \in 0..(N - 1)
      BY <1>1, <2>1
    <3>3. At(from(m)) = At(0)
      BY <1>1, <1>2, <1>3, <1>7, <2>1, <3>1, <3>2 DEF Ring, Indexing
    <3>4. from(m) = 0
      BY <1>5, <2>1, <3>2, <3>3
    <3>5. from(m) \in 1..(N - 1)
      BY <1>8, <1>10
    <3> QED
      BY <3>4, <3>5
  <2> QED
    BY <2>1, <2>2, <2>3
<1>11. AtDistance(N, C, home, low, J)
  <2> SUFFICES ASSUME NEW m \in 0..(N - 1), D(C, At(m)) # 0
               PROVE  \E k \in 0..(N - 1) : /\ Behind(N, home[V(C, At(m))], k) = At(m)
                                            /\ D(C, At(m)) = Dist(low[V(C, At(m))], k)
    BY <1>4, <1>10 DEF AtDistance
  <2> DEFINE w == V(C, At(m))
             j == At(from(m))
  <2>1. j \in 0..(N - 1) /\ D(B, j) # 0 /\ w = V(B, j) /\ from(m) \in 1..(N - 1)
    <3>1. from(m) \in 1..(N - 1) /\ from(m) \in 0..N
      BY <1>1, <1>8
    <3> QED
      BY <1>2, <1>8, <3>1
  <2>2. /\ w \in I
        /\ \E k \in 0..(N - 1) : Behind(N, home[w], k) = j /\ D(B, j) = Dist(low[w], k)
    BY <2>1 DEF Ring, AtDistance
  <2>3. PICK k \in 0..(N - 1) : Behind(N, home[w], k) = j /\ D(B, j) = Dist(low[w], k)
    BY <2>2
  <2>4. home[w] \in 0..(N - 1) /\ low[w] \in 0..255
    BY <2>2 DEF Ring, RingTypes
  <2>5. CASE m >= run
    BY <1>1, <1>8, <2>3, <2>5
  <2>6. CASE m < run - 1
    <3>1. D(B, j) >= 512 /\ D(C, At(m)) = D(B, j) - 256 /\ j = At(m + 1)
      BY <1>1, <1>8, <2>6
    <3> HIDE DEF w, j
    <3>2. k # 0
      <4>1. Dist(low[w], 0) < 512
        BY <2>4 DEF Dist
      <4>2. Dist(low[w], 0) \in Nat
        BY <2>4, DistIs
      <4> QED
        BY <2>3, <3>1, <4>1, <4>2
    <3>3. k - 1 \in 0..(N - 1) /\ k - 1 \in Nat /\ (k - 1) + 1 = k
      BY <1>1, <3>2
    <3>4. Dist(low[w], k) = Dist(low[w], k - 1) + 256 /\ Dist(low[w], k - 1) \in Nat
      <4>1. \A n \in Nat : Dist(low[w], n) \in Nat /\ Dist(low[w], n + 1) = Dist(low[w], n) + 256
        BY <2>4, DistIs
      <4> QED
        BY <3>3, <4>1
    <3>5. D(C, At(m)) = Dist(low[w], k - 1)
      BY <2>3, <3>1, <3>4
    <3>6. Behind(N, home[w], k - 1) = At(m)
      <4>1. Behind(N, home[w], k) = Behind(N, p, m + 1)
        BY <2>3, <3>1 DEF At
      <4>2. \A h \in 0..(N - 1) : Behind(N, h, k) = Behind(N, p, m + 1) =>
                                    Behind(N, h, k - 1) = Behind(N, p, m)
        BY <1>1, <2>6, <3>3 DEF Behind
      <4> QED
        BY <2>4, <4>1, <4>2 DEF At
    <3> QED
      BY <3>3, <3>5, <3>6 DEF w
  <2>7. m >= run \/ m < run - 1
    BY <1>8
  <2> QED
    BY <2>5, <2>6, <2>7
<1>12. Indexing(N, C, J)
  <2>1. ASSUME NEW w \in J PROVE \E i \in 0..(N - 1) : D(C, i) # 0 /\ V(C, i) = w
    <3>1. PICK i \in 0..(N - 1) : D(B, i) # 0 /\ V(B, i) = w
      BY DEF Ring, Indexing
    <3>2. PICK m \in 0..(N - 1) : At(m) = i
      BY <1>4
    <3>3. m # 0
      BY <1>3, <3>1, <3>2
    <3>4. CASE m < run
      <4>1. /\ m \in 1..(run - 1) /\ m - 1 \in 0..(run - 2) /\ (m - 1) + 1 = m
            /\ m - 1 \in 0..(N - 1) /\ m - 1 \in 0..N
        BY <1>1, <3>3, <3>4
      <4>2. D(C, At(m - 1)) = D(B, At(m)) - 256 /\ V(C, At(m - 1)) = w /\ D(B, At(m)) >= 512
        BY <1>6, <1>7, <3>1, <3>2, <4>1
      <4>3. D(B, At(m)) \in Nat
        BY <1>1, <3>2, BucketFields
      <4>4. D(C, At(m - 1)) # 0
        BY <4>2, <4>3
      <4> QED
        BY <1>2, <4>1, <4>2, <4>4
    <3>5. CASE m >= run
      <4>1. m \in run..(N - 1)
        BY <1>1, <3>5
      <4> QED
        BY <1>6, <3>1, <3>2, <4>1
    <3> QED
      BY <1>1, <3>4, <3>5
  <2>2. ASSUME NEW m \in 0..(N - 1), NEW k \in 0..(N - 1),
               D(C, At(m)) # 0, D(C, At(k)) # 0, V(C, At(m)) = V(C, At(k))
        PROVE  At(m) = At(k)
    <3>1. /\ from(m) \in 0..(N - 1) /\ from(k) \in 0..(N - 1)
          /\ from(m) \in 0..N /\ from(k) \in 0..N
          /\ D(B, At(from(m))) # 0 /\ D(B, At(from(k))) # 0
          /\ V(B, At(from(m))) = V(B, At(from(k)))
      BY <1>1, <1>8, <2>2
    <3>2. At(from(m)) = At(from(k))
      BY <1>2, <3>1 DEF Ring, Indexing
    <3>3. from(m) = from(k)
      BY <1>5, <3>1, <3>2
    <3> QED
      BY <1>9, <2>2, <3>3
  <2> QED
    BY <1>4, <2>1, <2>2 DEF Indexing
<1>13. Ordered(N, C) /\ SomeoneHome(N, C)
  BY ErasedOrdered
<1>14. RingTypes(N, C, home, low, J)
  BY <1>1 DEF Ring, RingTypes
<1> QED
  BY <1>11, <1>12, <1>13, <1>14 DEF Ring

\* The bucket at p with another index, and the homes of the values by their new indexes.
Renamed(N, B, C, p, v, w) ==
  /\ p \in 0..(N - 1) /\ D(B, p) # 0 /\ v = V(B, p) /\ w \in Nat
  /\ C \in [0..(N - 1) -> Bucket0] /\ D(C, p) = D(B, p) /\ V(C, p) = w
  /\ \A i \in 0..(N - 1) : i # p => C[i] = B[i]
Rehomed(home, low, home2, low2, I, v, w) ==
  /\ w \notin I \ {v} /\ home2[w] = home[v] /\ low2[w] = low[v]
  /\ \A u \in I \ {v} : home2[u] = home[u] /\ low2[u] = low[u]

\* A bucket is told the new index of its value.
LEMMA RenamedRing ==
  ASSUME NEW N, NEW B, NEW home, NEW low, NEW I, Ring(N, B, home, low, I),
         NEW C, NEW p, NEW v, NEW w, Renamed(N, B, C, p, v, w),
         NEW home2, NEW low2, Rehomed(home, low, home2, low2, I, v, w)
  PROVE  Ring(N, C, home2, low2, (I \ {v}) \cup {w})
<1> DEFINE J == (I \ {v}) \cup {w}
<1>0. /\ p \in 0..(N - 1) /\ D(B, p) # 0 /\ v = V(B, p) /\ w \in Nat
      /\ C \in [0..(N - 1) -> Bucket0] /\ D(C, p) = D(B, p) /\ V(C, p) = w
      /\ \A i \in 0..(N - 1) : i # p => C[i] = B[i]
      /\ w \notin I \ {v} /\ home2[w] = home[v] /\ low2[w] = low[v]
      /\ \A u \in I \ {v} : home2[u] = home[u] /\ low2[u] = low[u]
  BY DEF Renamed, Rehomed
<1>1. /\ N \in Nat /\ N >= 2 /\ B \in [0..(N - 1) -> Bucket0] /\ I \subseteq Nat
      /\ \A u \in I : home[u] \in 0..(N - 1) /\ low[u] \in 0..255
  BY <1>0 DEF Ring, RingTypes
<1>2. v \in I
  BY <1>0 DEF Ring, AtDistance
<1>3. \A i \in 0..(N - 1) : D(C, i) = D(B, i) /\ (i # p => V(C, i) = V(B, i))
  BY <1>0 DEF D, V
<1>4. \A i \in 0..(N - 1) : i # p /\ D(B, i) # 0 => V(B, i) \in I \ {v}
  BY <1>0 DEF Ring, AtDistance, Indexing
<1>5. RingTypes(N, C, home2, low2, J)
  <2>1. ASSUME NEW u \in J PROVE home2[u] \in 0..(N - 1) /\ low2[u] \in 0..255
    <3>1. CASE u = w
      BY <1>0, <1>1, <1>2, <3>1
    <3>2. CASE u # w
      <4>1. u \in I \ {v}
        BY <1>0, <3>2
      <4> QED
        BY <1>0, <1>1, <4>1
    <3> QED
      BY <1>0, <3>1, <3>2
  <2>2. J \subseteq Nat
    BY <1>0, <1>1
  <2> QED
    BY <1>0, <1>1, <2>1, <2>2 DEF RingTypes
<1>6. AtDistance(N, C, home2, low2, J)
  <2> SUFFICES ASSUME NEW i \in 0..(N - 1), D(C, i) # 0
               PROVE  /\ V(C, i) \in J
                      /\ \E n \in 0..(N - 1) : /\ Behind(N, home2[V(C, i)], n) = i
                                               /\ D(C, i) = Dist(low2[V(C, i)], n)
    BY <1>0 DEF AtDistance
  <2>1. \E n \in 0..(N - 1) : Behind(N, home[V(B, i)], n) = i /\ D(B, i) = Dist(low[V(B, i)], n)
    BY <1>0, <1>3 DEF Ring, AtDistance
  <2>2. CASE i = p
    BY <1>0, <1>3, <2>1, <2>2
  <2>3. CASE i # p
    BY <1>0, <1>3, <1>4, <2>1, <2>3
  <2> QED
    BY <1>0, <2>2, <2>3
<1>7. Indexing(N, C, J)
  <2>1. ASSUME NEW u \in J PROVE \E i \in 0..(N - 1) : D(C, i) # 0 /\ V(C, i) = u
    <3>1. CASE u = w
      BY <1>0, <1>3, <3>1
    <3>2. CASE u # w
      <4>1. u \in I /\ u # v
        BY <1>0, <3>2
      <4>2. PICK i \in 0..(N - 1) : D(B, i) # 0 /\ V(B, i) = u
        BY <1>0, <4>1 DEF Ring, Indexing
      <4> QED
        BY <1>0, <1>3, <4>1, <4>2
    <3> QED
      BY <1>0, <3>1, <3>2
  <2>2. ASSUME NEW i \in 0..(N - 1), NEW j \in 0..(N - 1),
               D(C, i) # 0, D(C, j) # 0, V(C, i) = V(C, j)
        PROVE  i = j
    <3>1. CASE i = p \/ j = p
      BY <1>0, <1>3, <1>4, <2>2, <3>1
    <3>2. CASE i # p /\ j # p
      BY <1>0, <1>3, <2>2, <3>2 DEF Ring, Indexing
    <3> QED
      BY <1>0, <3>1, <3>2
  <2> QED
    BY <1>0, <2>1, <2>2 DEF Indexing
<1>8. Ordered(N, C) /\ SomeoneHome(N, C)
  <2>1. \A i \in 0..(N - 1) : Behind(N, i, 1) \in 0..(N - 1)
    BY <1>0, <1>1 DEF Behind
  <2>2. Ordered(N, B) /\ SomeoneHome(N, B)
    BY <1>0 DEF Ring
  <2> QED
    BY <1>0, <1>3, <2>1, <2>2 DEF Ordered, SomeoneHome
<1> QED
  BY <1>0, <1>5, <1>6, <1>7, <1>8 DEF Ring

\* Only what is known of the values in the ring matters.
LEMMA RingAgain ==
  ASSUME NEW N, NEW B, NEW home, NEW low, NEW I, Ring(N, B, home, low, I),
         NEW home2, NEW low2, \A v \in I : home2[v] = home[v] /\ low2[v] = low[v]
  PROVE  Ring(N, B, home2, low2, I)
<1>1. RingTypes(N, B, home2, low2, I)
  BY DEF Ring, RingTypes
<1>2. AtDistance(N, B, home2, low2, I)
  BY DEF Ring, AtDistance
<1> QED
  BY <1>1, <1>2 DEF Ring

\* Empty buckets are a ring.
LEMMA EmptyRing ==
  ASSUME NEW N \in Nat, N >= 2, NEW B \in [0..(N - 1) -> Bucket0],
         \A i \in 0..(N - 1) : D(B, i) = 0, NEW home, NEW low
  PROVE  Ring(N, B, home, low, {})
<1>1. \A i \in 0..(N - 1) : Behind(N, i, 1) \in 0..(N - 1)
  BY DEF Behind
<1>2. 0 \in 0..(N - 1)
  OBVIOUS
<1> QED
  BY <1>1, <1>2 DEF Ring, RingTypes, AtDistance, Indexing, Ordered, SomeoneHome

\* More buckets than values: one is empty.
LEMMA SomeEmpty ==
  ASSUME NEW N, NEW B, NEW home, NEW low, NEW I, Ring(N, B, home, low, I),
         IsFiniteSet(I), Cardinality(I) < N
  PROVE  \E i \in 0..(N - 1) : D(B, i) = 0
<1> SUFFICES ASSUME \A i \in 0..(N - 1) : D(B, i) # 0 PROVE FALSE
  OBVIOUS
<1> DEFINE f == [i \in 0..(N - 1) |-> V(B, i)]
<1>1. N \in Nat /\ f \in [0..(N - 1) -> I]
  BY DEF Ring, RingTypes, AtDistance
<1>2. \A i, j \in 0..(N - 1) : f[i] = f[j] => i = j
  BY DEF Ring, Indexing
<1>3. f \in Injection(0..(N - 1), I)
  BY <1>1, <1>2 DEF Injection, IsInjective
<1>4. IsFiniteSet(0..(N - 1)) /\ Cardinality(0..(N - 1)) = N
  <2>1. 0 \in Int /\ N - 1 \in Int
    BY <1>1
  <2>2. /\ IsFiniteSet(0..(N - 1))
        /\ Cardinality(0..(N - 1)) = IF 0 > N - 1 THEN 0 ELSE (N - 1) - 0 + 1
    BY <2>1, FS_Interval
  <2> QED
    BY <1>1, <2>2
<1>5. Cardinality(0..(N - 1)) <= Cardinality(I)
  BY <1>3, FS_Injection
<1>6. Cardinality(I) \in Nat
  BY FS_CardinalityType
<1> QED
  BY <1>1, <1>4, <1>5, <1>6

-----------------------------------------------------------------------------
(* Powers of two. *)

\* Pow2 is what its recursive definition says.
LEMMA Pow2Is ==
  /\ Pow2[0] = 1
  /\ \A n \in 1..56 : Pow2[n] = 2 * Pow2[n - 1]
  /\ \A n \in 0..56 : Pow2[n] \in Nat \ {0}
<1> DEFINE S == Nat \ {0}
           step == [n \in 1..56 |-> [x \in S |-> 2 * x]]
           Doubles(f) == f = [n \in 0..56 |-> IF n = 0 THEN 1 ELSE 2 * f[n - 1]]
<1>1. PICK f \in [0..56 -> S] : f[0] = 1 /\ \A n \in 1..56 : f[n] = step[n][f[n - 1]]
  <2> DEFINE N == 56
             base == 1
  <2>1. base \in S /\ N \in Nat /\ step \in [1..N -> [S -> S]]
    OBVIOUS
  <2>2. \E f \in [0..N -> S] : f[0] = base /\ \A n \in 1..N : f[n] = step[n][f[n - 1]]
    <3> HIDE DEF step, S, N, base
    <3> QED
      BY <2>1, Iteration
  <2> QED
    BY <2>2
<1>2. Doubles(f)
  <2>1. \A n \in 1..56 : f[n] = 2 * f[n - 1]
    <3> SUFFICES ASSUME NEW n \in 1..56 PROVE f[n] = 2 * f[n - 1]
      OBVIOUS
    <3>1. n - 1 \in 0..56
      OBVIOUS
    <3> QED
      BY <1>1, <3>1
  <2>2. f = [n \in 0..56 |-> f[n]]
    BY <1>1
  <2>3. \A n \in 0..56 : n = 0 \/ n \in 1..56
    OBVIOUS
  <2> QED
    BY <1>1, <2>1, <2>2, <2>3
<1>3. Pow2 = CHOOSE g : Doubles(g)
  BY DEF Pow2
<1>4. Doubles(Pow2)
  <2> HIDE DEF Doubles
  <2> QED
    BY <1>2, <1>3
<1>5. Pow2[0] = 1 /\ \A n \in 1..56 : Pow2[n] = 2 * Pow2[n - 1]
  <2>1. \A n \in 1..56 : n \in 0..56 /\ n # 0
    OBVIOUS
  <2>2. \A n \in 0..56 : Pow2[n] = IF n = 0 THEN 1 ELSE 2 * Pow2[n - 1]
    BY <1>4
  <2> QED
    BY <2>1, <2>2
<1>6. \A n \in 0..56 : Pow2[n] \in S
  <2> DEFINE T == {n \in 0..56 : Pow2[n] \in S}
  <2>1. 0 \in T /\ 0 \in Nat /\ 56 \in Nat
    BY <1>5
  <2>2. ASSUME NEW n \in 0..(56 - 1), n \in T PROVE n + 1 \in T
    <3>1. n + 1 \in 1..56 /\ (n + 1) - 1 = n
      OBVIOUS
    <3>2. Pow2[n + 1] = 2 * Pow2[n]
      BY <1>5, <3>1
    <3> QED
      BY <2>2, <3>1, <3>2
  <2> HIDE DEF T
  <2>3. \A n \in 0..56 : n \in T
    BY <2>1, <2>2, InductionUpTo
  <2> QED
    BY <2>3 DEF T
<1> QED
  BY <1>5, <1>6

\* More bits, more values; a number of a + b bits is one of a bits and one of b bits.
LEMMA Pow2Grows ==
  ASSUME NEW a \in 0..56, NEW b \in 0..56, a + b <= 56
  PROVE  Pow2[a + b] = Pow2[a] * Pow2[b] /\ Pow2[a] <= Pow2[a + b]
         /\ (b > 0 => 2 * Pow2[a] <= Pow2[a + b])
<1> DEFINE T == {n \in 0..(56 - a) : /\ Pow2[a + n] = Pow2[a] * Pow2[n]
                                     /\ Pow2[a] <= Pow2[a + n]
                                     /\ n > 0 => 2 * Pow2[a] <= Pow2[a + n]}
<1>1. 0 \in T
  <2>1. Pow2[a] \in Nat /\ Pow2[0] = 1 /\ a + 0 = a
    BY Pow2Is, SMTT(30)
  <2> QED
    BY <2>1
<1>2. ASSUME NEW n \in 0..((56 - a) - 1), n \in T PROVE n + 1 \in T
  <2>1. /\ Pow2[a + n + 1] = 2 * Pow2[a + n] /\ Pow2[n + 1] = 2 * Pow2[n]
        /\ Pow2[a] \in Nat /\ Pow2[n] \in Nat /\ Pow2[a + n] \in Nat
    <3>1. /\ a + n + 1 \in 1..56 /\ (a + n + 1) - 1 = a + n /\ n + 1 \in 1..56 /\ (n + 1) - 1 = n
          /\ n \in 0..56 /\ a + n \in 0..56
      OBVIOUS
    <3> QED
      BY <3>1, Pow2Is
  <2>2. Pow2[a + n] = Pow2[a] * Pow2[n] /\ Pow2[a] <= Pow2[a + n]
    BY <1>2
  <2>3. n + 1 \in 0..(56 - a) /\ a + (n + 1) = a + n + 1
    OBVIOUS
  <2>4. Pow2[a] * Pow2[n + 1] = 2 * (Pow2[a] * Pow2[n])
    <3>1. \A x, y \in Nat : x * (2 * y) = 2 * (x * y)
      OBVIOUS
    <3> QED
      BY <2>1, <3>1
  <2> QED
    BY <2>1, <2>2, <2>3, <2>4
<1>3. \A n \in 0..(56 - a) : n \in T
  <2>1. 56 - a \in Nat /\ 0 \in Nat
    OBVIOUS
  <2> HIDE DEF T
  <2> QED
    BY <1>1, <1>2, <2>1, InductionUpTo
<1>4. b \in T
  BY <1>3
<1> QED
  BY <1>4

-----------------------------------------------------------------------------
(* Tables.  X is what the keys lead to, and I has the indexes of the values   *)
(* that have their bucket: in the middle of an operation not all have.       *)

Fields == {"m_values", "m_buckets", "m_max_bucket_capacity", "m_max_load_factor", "m_shifts", "type"}

\* As many buckets as m_shifts asks for, which are not more than there can be.
Sizes(t) ==
  /\ \E b \in 2..HighBits : /\ t.type.max_bucket_count = Pow2[b]
                            /\ t.m_shifts \in (64 - b)..initial_shifts
  /\ bucket_count(t) = Pow2[64 - t.m_shifts]
  /\ t.m_max_bucket_capacity \in 0..bucket_count(t)
  /\ AtMaximum(t) = (bucket_count(t) = t.type.max_bucket_count)

\* What is left when the buckets are not looked at.
ValuesTyped(t, X) ==
  /\ DOMAIN t = Fields
  /\ TypeArguments(t.type)
  /\ t.m_max_load_factor \in 1..100
  /\ t.m_values \in Seq([key : DOMAIN t.type.hash, value : X])

Homes(t, I) == [v \in I |-> bucket_idx_from_hash(t, KeyAt(t, v))]
Lows(t, I) == [v \in I |-> t.type.hash[KeyAt(t, v)].low]

DistinctKeys(t, I) == \A v, w \in I : KeyAt(t, v) = KeyAt(t, w) => v = w

Good(t, X, I) ==
  /\ ValuesTyped(t, X)
  /\ Sizes(t)
  /\ I \subseteq 0..(size(t) - 1)
  /\ DistinctKeys(t, I)
  /\ Ring(bucket_count(t), t.m_buckets, Homes(t, I), Lows(t, I), I)

Indexes(t) == 0..(size(t) - 1)
Whole(t, X) == Good(t, X, Indexes(t)) /\ size(t) <= bucket_count(t)

\* A number of the high bits' width has a home among as many buckets as there are.
LEMMA Quotient ==
  ASSUME NEW a \in Nat, NEW c \in Nat \ {0}, NEW x \in 0..(a * c - 1)
  PROVE  x \div c \in 0..(a - 1)
BY SMT

\* What the first bits of a hash make of it: a bucket, and a fingerprint.
LEMMA HomeIs ==
  ASSUME NEW t, TypeArguments(t.type), Sizes(t), NEW key \in DOMAIN t.type.hash
  PROVE  /\ bucket_idx_from_hash(t, key) \in 0..(bucket_count(t) - 1)
         /\ t.type.hash[key].low \in 0..255
<1>1. PICK b \in 2..HighBits : t.m_shifts \in (64 - b)..initial_shifts
  BY DEF Sizes
<1> DEFINE a == 64 - t.m_shifts
           c == HighBits - a
           x == t.type.hash[key].high
<1>2. a \in 0..56 /\ c \in 0..56 /\ a + c = HighBits /\ a + c <= 56
  <2>1. HighBits \in Int /\ HighBits <= 56 /\ b \in Int /\ 2 <= b /\ b <= HighBits
    BY HighBitsAssumption
  <2>2. t.m_shifts \in Int /\ 64 - b <= t.m_shifts /\ t.m_shifts <= 62
    BY <1>1, <2>1 DEF initial_shifts
  <2> QED
    BY <2>1, <2>2
<1>3. x \in 0..(Pow2[HighBits] - 1) /\ t.type.hash[key].low \in 0..255
  BY DEF TypeArguments
<1>4. bucket_count(t) = Pow2[a]
  BY DEF Sizes
<1>5. Pow2[a] \in Nat /\ Pow2[c] \in Nat \ {0}
  BY <1>2, Pow2Is
<1> HIDE DEF a, c, x
<1>6. Pow2[HighBits] = Pow2[a] * Pow2[c]
  BY <1>2, Pow2Grows
<1>7. x \div Pow2[c] \in 0..(Pow2[a] - 1)
  BY <1>3, <1>5, <1>6, Quotient
<1> QED
  BY <1>3, <1>4, <1>7 DEF bucket_idx_from_hash, a, c, x

\* n buckets on, round the end.
LEMMA Remainder ==
  ASSUME NEW N \in Nat \ {0}, NEW i \in 0..(N - 1), NEW n \in 0..N
  PROVE  (i + n) % N = IF i + n < N THEN i + n ELSE i + n - N
BY SMT

\* The probing of a table is the ring's.
LEMMA Probing ==
  ASSUME NEW t, NEW X, NEW I, Good(t, X, I), NEW N, N = bucket_count(t)
  PROVE  /\ N \in Nat /\ N >= 2 /\ Steps(t) = 0..N /\ DOMAIN t.m_buckets = 0..(N - 1)
         /\ t.m_buckets \in [0..(N - 1) -> Bucket0]
         /\ \A i \in 0..(N - 1), n \in 0..N : next(t, i, n) = Behind(N, i, n)
         /\ \A key \in DOMAIN t.type.hash :
              /\ bucket_idx_from_hash(t, key) \in 0..(N - 1) /\ t.type.hash[key].low \in 0..255
              /\ \A n \in 0..N : Place(t, key, n) = Behind(N, bucket_idx_from_hash(t, key), n)
<1>1. N \in Nat /\ N >= 2 /\ t.m_buckets \in [0..(N - 1) -> Bucket0]
  BY DEF Good, Ring, RingTypes
<1>2. \A i \in 0..(N - 1), n \in 0..N : next(t, i, n) = Behind(N, i, n)
  <2>1. N \in Nat \ {0}
    BY <1>1
  <2> QED
    BY <2>1, Remainder DEF next, Behind
<1>3. \A key \in DOMAIN t.type.hash :
        bucket_idx_from_hash(t, key) \in 0..(N - 1) /\ t.type.hash[key].low \in 0..255
  BY HomeIs DEF Good, ValuesTyped
<1> QED
  BY <1>1, <1>2, <1>3 DEF Steps, Place

\* The entries have keys and values of their kinds.
LEMMA KeyIs ==
  ASSUME NEW t, NEW X, ValuesTyped(t, X), NEW v \in Indexes(t)
  PROVE  /\ v + 1 \in 1..Len(t.m_values) /\ t.m_values[v + 1] \in [key : DOMAIN t.type.hash, value : X]
         /\ KeyAt(t, v) \in DOMAIN t.type.hash
         /\ KeyAt(t, v) \in KeysOf(t)
<1>1. t.m_values \in Seq([key : DOMAIN t.type.hash, value : X]) /\ v \in 0..(Len(t.m_values) - 1)
  BY DEF ValuesTyped, Indexes, size
<1>2. v + 1 \in 1..Len(t.m_values) /\ t.m_values[v + 1] \in [key : DOMAIN t.type.hash, value : X]
  <2> DEFINE Pairs == [key : DOMAIN t.type.hash, value : X]
             s == t.m_values
  <2>1. s \in Seq(Pairs) /\ v \in 0..(Len(s) - 1)
    BY <1>1
  <2> HIDE DEF Pairs, s
  <2>2. v + 1 \in 1..Len(s) /\ s[v + 1] \in Pairs
    BY <2>1
  <2> QED
    BY <2>2 DEF Pairs, s
<1> QED
  BY <1>2 DEF KeyAt, KeysOf, Indexes

\* What a step of a probe looks at, in the ring.
LEMMA ProbeStep ==
  ASSUME NEW t, NEW X, NEW I, Good(t, X, I), NEW key \in DOMAIN t.type.hash, NEW n \in Steps(t),
         NEW N, N = bucket_count(t), NEW h, h = bucket_idx_from_hash(t, key),
         NEW l, l = t.type.hash[key].low
  PROVE  /\ h \in 0..(N - 1) /\ l \in 0..255
         /\ Behind(N, h, n) \in 0..(N - 1)
         /\ SameDistance(t, key, n) <=> (Dist(l, n) = D(t.m_buckets, Behind(N, h, n)))
         /\ Richer(t, key, n) <=> (Dist(l, n) > D(t.m_buckets, Behind(N, h, n)))
         /\ Bucket(t, key, n) = t.m_buckets[Behind(N, h, n)]
         /\ dist_and_fingerprint(t, key, n) = Dist(l, n)
         /\ D(t.m_buckets, Behind(N, h, n)) \in Nat /\ Dist(l, n) \in Nat /\ Dist(l, n) >= 256
<1>1. /\ N \in Nat /\ Steps(t) = 0..N /\ t.m_buckets \in [0..(N - 1) -> Bucket0]
      /\ h \in 0..(N - 1) /\ l \in 0..255
      /\ Place(t, key, n) = Behind(N, h, n)
  BY Probing, SMTT(30)
<1>2. n \in 0..N /\ Behind(N, h, n) \in 0..(N - 1)
  BY <1>1, BehindIs
<1>3. Bucket(t, key, n) = t.m_buckets[Behind(N, h, n)]
  BY <1>1 DEF Bucket, at
<1>4. dist_and_fingerprint(t, key, n) = Dist(l, n)
  BY DEF dist_and_fingerprint, dist_inc, Dist
<1>5. D(t.m_buckets, Behind(N, h, n)) \in Nat
  BY <1>1, <1>2, BucketFields
<1>6. Dist(l, n) \in Nat /\ Dist(l, n) >= 256
  <2>1. n \in Nat
    BY <1>1, <1>2
  <2> QED
    BY <1>1, <2>1, DistIs
<1> QED
  BY <1>1, <1>2, <1>3, <1>4, <1>5, <1>6 DEF SameDistance, Richer, D

\* Where a probe stands, on its own.
LEMMA PlaceIs ==
  ASSUME NEW t, NEW X, NEW I, Good(t, X, I), NEW key \in DOMAIN t.type.hash, NEW n \in Steps(t)
  PROVE  /\ bucket_idx_from_hash(t, key) \in 0..(bucket_count(t) - 1)
         /\ t.type.hash[key].low \in 0..255
         /\ Place(t, key, n) = Behind(bucket_count(t), bucket_idx_from_hash(t, key), n)
<1> DEFINE N == bucket_count(t)
<1>1. Steps(t) = 0..N
  BY Probing
<1>2. /\ bucket_idx_from_hash(t, key) \in 0..(N - 1) /\ t.type.hash[key].low \in 0..255
      /\ \A m \in 0..N : Place(t, key, m) = Behind(N, bucket_idx_from_hash(t, key), m)
  BY Probing
<1> QED
  BY <1>1, <1>2

\* A value in the ring is met by a probe for its key, before that meets a richer bucket.
LEMMA Holder ==
  ASSUME NEW t, NEW X, NEW I, Good(t, X, I), NEW v \in I
  PROVE  LET key == KeyAt(t, v)
         IN  \E n \in Steps(t) :
               /\ n < bucket_count(t)
               /\ Holds(t, key, n) /\ Bucket(t, key, n).m_value_idx = v
               /\ Place(t, key, n) \in 0..(bucket_count(t) - 1)
               /\ D(t.m_buckets, Place(t, key, n)) # 0 /\ V(t.m_buckets, Place(t, key, n)) = v
               /\ \A m \in 0..n : ~Richer(t, key, m)
<1> DEFINE key == KeyAt(t, v)
           N == bucket_count(t)
           B == t.m_buckets
           h == bucket_idx_from_hash(t, key)
           l == t.type.hash[key].low
<1>1. /\ N \in Nat /\ Steps(t) = 0..N /\ B \in [0..(N - 1) -> Bucket0]
  BY Probing
<1>2. /\ Ring(N, B, Homes(t, I), Lows(t, I), I) /\ Homes(t, I)[v] = h /\ Lows(t, I)[v] = l
      /\ v \in Indexes(t) /\ key \in DOMAIN t.type.hash
  <2>1. v \in Indexes(t) /\ ValuesTyped(t, X)
    BY DEF Good, Indexes
  <2> QED
    BY <2>1, KeyIs DEF Good, Homes, Lows
<1> HIDE DEF key, h, l, N, B
<1>3. PICK i \in 0..(N - 1) : D(B, i) # 0 /\ V(B, i) = v
  BY <1>2 DEF Ring, Indexing
<1>4. PICK n \in 0..(N - 1) : Behind(N, h, n) = i /\ D(B, i) = Dist(l, n)
  BY <1>2, <1>3 DEF Ring, AtDistance
<1>5. n \in Steps(t) /\ n \in 0..N /\ n < N /\ \A m \in 0..n : m \in Steps(t) /\ m \in 0..(N - 1)
  BY <1>1
<1>6. /\ h \in 0..(N - 1) /\ l \in 0..255
      /\ SameDistance(t, key, n) <=> (Dist(l, n) = D(B, Behind(N, h, n)))
      /\ Bucket(t, key, n) = B[Behind(N, h, n)]
  BY <1>2, <1>5, ProbeStep DEF N, B, h, l
<1>7. SameDistance(t, key, n) /\ Bucket(t, key, n).m_value_idx = v /\ Holds(t, key, n)
  <2>1. SameDistance(t, key, n) /\ Bucket(t, key, n).m_value_idx = v
    BY <1>3, <1>4, <1>6 DEF V
  <2> QED
    BY <2>1 DEF Holds, key
<1>8. ASSUME NEW m \in 0..n PROVE ~Richer(t, key, m)
  <2>1. /\ Richer(t, key, m) <=> (Dist(l, m) > D(B, Behind(N, h, m)))
        /\ D(B, Behind(N, h, m)) \in Nat /\ Dist(l, m) \in Nat
    BY <1>2, <1>5, ProbeStep DEF N, B, h, l
  <2>2. D(B, Behind(N, h, m)) >= Dist(l, m)
    <3>1. D(B, Behind(N, h, n)) >= Dist(l, n)
      <4>1. D(B, i) \in Nat
        BY <1>1, BucketFields
      <4> QED
        BY <1>4, <4>1
    <3> QED
      BY <1>2, <1>6, <3>1, NobodyRicherBefore
  <2> QED
    BY <2>1, <2>2
<1>9. Place(t, key, n) = i
  BY <1>2, <1>4, <1>5, Probing DEF N, h
<1>10. \E k \in Steps(t) :
               /\ k < N
               /\ Holds(t, key, k) /\ Bucket(t, key, k).m_value_idx = v
               /\ Place(t, key, k) \in 0..(N - 1)
               /\ D(B, Place(t, key, k)) # 0 /\ V(B, Place(t, key, k)) = v
               /\ \A m \in 0..k : ~Richer(t, key, m)
  BY <1>3, <1>5, <1>7, <1>8, <1>9
<1> QED
  BY <1>10 DEF key, N, B

\* What a probe takes for the key's bucket is the bucket of a value with that key.
LEMMA HoldsIs ==
  ASSUME NEW t, NEW X, NEW I, Good(t, X, I), NEW key \in DOMAIN t.type.hash, NEW n \in Steps(t),
         Holds(t, key, n)
  PROVE  LET v == Bucket(t, key, n).m_value_idx
         IN  v \in I /\ KeyAt(t, v) = key
<1> DEFINE N == bucket_count(t)
           h == bucket_idx_from_hash(t, key)
           l == t.type.hash[key].low
           i == Behind(N, h, n)
<1>1. /\ i \in 0..(N - 1)
      /\ SameDistance(t, key, n) <=> (Dist(l, n) = D(t.m_buckets, i))
      /\ Bucket(t, key, n) = t.m_buckets[i] /\ Dist(l, n) \in Nat /\ Dist(l, n) >= 256
  BY ProbeStep
<1> HIDE DEF i, l
<1>2. D(t.m_buckets, i) # 0
  BY <1>1 DEF Holds
<1>3. V(t.m_buckets, i) \in I
  BY <1>1, <1>2 DEF Good, Ring, AtDistance
<1> QED
  BY <1>1, <1>3 DEF Holds, V

\* One value, one step at which a probe for its key meets it.
LEMMA HoldsOnce ==
  ASSUME NEW t, NEW X, NEW I, Good(t, X, I), NEW key \in DOMAIN t.type.hash,
         NEW m \in Steps(t), NEW n \in Steps(t), Holds(t, key, m), Holds(t, key, n)
  PROVE  m = n
<1> DEFINE l == t.type.hash[key].low
           h == bucket_idx_from_hash(t, key)
           N == bucket_count(t)
           i == Behind(N, h, m)
           j == Behind(N, h, n)
<1>1. /\ i \in 0..(N - 1)
      /\ SameDistance(t, key, m) <=> (Dist(l, m) = D(t.m_buckets, i))
      /\ Bucket(t, key, m) = t.m_buckets[i] /\ Dist(l, m) >= 256
      /\ j \in 0..(N - 1)
      /\ SameDistance(t, key, n) <=> (Dist(l, n) = D(t.m_buckets, j))
      /\ Bucket(t, key, n) = t.m_buckets[j] /\ Dist(l, n) >= 256
      /\ l \in 0..255
  BY ProbeStep
<1>2. m \in Nat /\ n \in Nat
  BY Probing
<1> HIDE DEF i, j, l
<1>3. V(t.m_buckets, i) \in I /\ V(t.m_buckets, j) \in I
      /\ KeyAt(t, V(t.m_buckets, i)) = KeyAt(t, V(t.m_buckets, j))
  BY <1>1, HoldsIs DEF V
<1>4. D(t.m_buckets, i) = Dist(l, m) /\ D(t.m_buckets, j) = Dist(l, n)
  <2>1. SameDistance(t, key, m) /\ SameDistance(t, key, n)
    BY DEF Holds
  <2> QED
    BY <1>1, <2>1
<1>5. i = j
  <2>1. V(t.m_buckets, i) = V(t.m_buckets, j)
    BY <1>3 DEF Good, DistinctKeys
  <2>2. D(t.m_buckets, i) # 0 /\ D(t.m_buckets, j) # 0
    <3>1. Dist(l, m) # 0 /\ Dist(l, n) # 0
      BY <1>1
    <3> QED
      BY <1>4, <3>1
  <2> QED
    BY <1>1, <2>1, <2>2 DEF Good, Ring, Indexing
<1> QED
  BY <1>1, <1>2, <1>4, <1>5 DEF Dist

\* A probe that has gone round is farther from its home than any bucket.
LEMMA RicherAtEnd ==
  ASSUME NEW t, NEW X, NEW I, Good(t, X, I), NEW key \in DOMAIN t.type.hash
  PROVE  bucket_count(t) \in Steps(t) /\ Richer(t, key, bucket_count(t))
<1> DEFINE N == bucket_count(t)
           B == t.m_buckets
           h == bucket_idx_from_hash(t, key)
           l == t.type.hash[key].low
           i == Behind(N, h, N)
<1>1. N \in Nat /\ N \in Steps(t) /\ Ring(N, B, Homes(t, I), Lows(t, I), I)
  <2>1. N \in Nat /\ Steps(t) = 0..N
    BY Probing
  <2> QED
    BY <2>1 DEF Good
<1>2. /\ i \in 0..(N - 1) /\ l \in 0..255
      /\ Richer(t, key, N) <=> (Dist(l, N) > D(B, i))
      /\ D(B, i) \in Nat /\ Dist(l, N) \in Nat
  BY <1>1, ProbeStep
<1> HIDE DEF i, l, N, B
<1>3. CASE D(B, i) = 0
  <2>1. Dist(l, N) > D(B, i)
    BY <1>1, <1>2, <1>3 DEF Dist
  <2> QED
    BY <1>1, <1>2, <2>1 DEF N
<1>4. CASE D(B, i) # 0
  <2>1. PICK n \in 0..(N - 1) : D(B, i) = Dist(Lows(t, I)[V(B, i)], n)
    BY <1>1, <1>2, <1>4 DEF Ring, AtDistance
  <2>2. Lows(t, I)[V(B, i)] \in 0..255
    BY <1>1, <1>2, <1>4 DEF Ring, RingTypes, AtDistance
  <2>3. Dist(l, N) > Dist(Lows(t, I)[V(B, i)], n)
    <3> DEFINE x == Lows(t, I)[V(B, i)]
    <3>1. x \in 0..255
      BY <2>2
    <3> HIDE DEF x
    <3>2. Dist(l, N) > Dist(x, n)
      BY <1>1, <1>2, <3>1 DEF Dist
    <3> QED
      BY <3>2 DEF x
  <2> QED
    BY <1>1, <1>2, <2>1, <2>3 DEF N
<1> QED
  BY <1>1, <1>3, <1>4 DEF N

\* Of the steps at which a probe may stop one is the first.
LEMMA FirstStep ==
  ASSUME NEW t, bucket_count(t) \in Nat, NEW S, S \subseteq Steps(t), S # {}
  PROVE  \E n \in S : \A m \in 0..(n - 1) : m \notin S
<1>1. S \subseteq Nat
  BY DEF Steps
<1>2. PICK n \in S : \A m \in S : n <= m
  BY <1>1, LeastElement
<1>3. \A m \in 0..(n - 1) : m \notin S
  BY <1>1, <1>2
<1> QED
  BY <1>3

\* Where the insertions stop looking: at the key's bucket if it has one.
LEMMA ProbeEndIs ==
  ASSUME NEW t, NEW X, NEW I, Good(t, X, I), NEW key \in DOMAIN t.type.hash,
         NEW n, n = ProbeEnd(t, key)
  PROVE  /\ n \in Steps(t)
         /\ Holds(t, key, n) \/ Richer(t, key, n)
         /\ \A m \in 0..(n - 1) : ~Holds(t, key, m) /\ ~Richer(t, key, m)
         /\ Holds(t, key, n) <=> \E v \in I : KeyAt(t, v) = key
         /\ \A v \in I : KeyAt(t, v) = key => Bucket(t, key, n).m_value_idx = v
<1> DEFINE S == {k \in Steps(t) : Holds(t, key, k) \/ Richer(t, key, k)}
<1>1. bucket_count(t) \in Nat /\ Steps(t) = 0..bucket_count(t)
  BY Probing
<1>2. S \subseteq Steps(t) /\ S # {}
  BY RicherAtEnd
<1>3. PICK k \in S : \A m \in 0..(k - 1) : m \notin S
  <2> HIDE DEF S
  <2> QED
    BY <1>1, <1>2, FirstStep
<1>4. \A m \in 0..(k - 1) : m \in Steps(t)
  BY <1>1
<1>5. n = CHOOSE x \in Steps(t) : /\ Holds(t, key, x) \/ Richer(t, key, x)
                                  /\ \A m \in 0..(x - 1) : ~(Holds(t, key, m) \/ Richer(t, key, m))
  BY DEF ProbeEnd, First
<1>6. /\ n \in Steps(t) /\ (Holds(t, key, n) \/ Richer(t, key, n))
      /\ \A m \in 0..(n - 1) : ~(Holds(t, key, m) \/ Richer(t, key, m))
  BY <1>3, <1>4, <1>5
<1>7. ASSUME NEW v \in I, KeyAt(t, v) = key PROVE Holds(t, key, n)
  <2>1. PICK x \in Steps(t) : Holds(t, key, x) /\ \A m \in 0..x : ~Richer(t, key, m)
    BY <1>7, Holder
  <2>2. n <= x
    BY <1>1, <1>6, <2>1
  <2> QED
    BY <1>1, <1>6, <2>1, <2>2
<1>8. Holds(t, key, n) => \E v \in I : KeyAt(t, v) = key /\ v = Bucket(t, key, n).m_value_idx
  BY <1>6, HoldsIs
<1>9. ASSUME NEW v \in I, KeyAt(t, v) = key PROVE Bucket(t, key, n).m_value_idx = v
  <2>1. PICK w \in I : KeyAt(t, w) = key /\ w = Bucket(t, key, n).m_value_idx
    BY <1>7, <1>8, <1>9
  <2> QED
    BY <1>9, <2>1 DEF Good, DistinctKeys
<1> QED
  BY <1>6, <1>7, <1>8, <1>9

\* Where a probe has not passed a bucket as near to its home as it is.
LEMMA WhileLessIs ==
  ASSUME NEW t, NEW X, NEW I, Good(t, X, I), NEW key \in DOMAIN t.type.hash,
         NEW n, n = next_while_less(t, key)
  PROVE  /\ n \in Steps(t)
         /\ SameDistance(t, key, n) \/ Richer(t, key, n)
         /\ \A m \in 0..(n - 1) : ~SameDistance(t, key, m) /\ ~Richer(t, key, m)
<1> DEFINE S == {k \in Steps(t) : SameDistance(t, key, k) \/ Richer(t, key, k)}
<1>1. bucket_count(t) \in Nat /\ Steps(t) = 0..bucket_count(t)
  BY Probing
<1>2. S \subseteq Steps(t) /\ S # {}
  BY RicherAtEnd
<1>3. PICK k \in S : \A m \in 0..(k - 1) : m \notin S
  <2> HIDE DEF S
  <2> QED
    BY <1>1, <1>2, FirstStep
<1>4. \A m \in 0..(k - 1) : m \in Steps(t)
  BY <1>1
<1>5. n = CHOOSE x \in Steps(t) :
        /\ SameDistance(t, key, x) \/ Richer(t, key, x)
        /\ \A m \in 0..(x - 1) : ~(SameDistance(t, key, m) \/ Richer(t, key, m))
  BY DEF next_while_less, First
<1> QED
  BY <1>3, <1>4, <1>5

\* find says whether there is a value with the key, and which.
LEMMA FindIs ==
  ASSUME NEW t, NEW X, NEW I, Good(t, X, I), NEW key \in DOMAIN t.type.hash
  PROVE  /\ do_find(t, key) <=> \E v \in I : KeyAt(t, v) = key
         /\ Present(t, key) <=> \E v \in I : KeyAt(t, v) = key
         /\ \A v \in I : KeyAt(t, v) = key => ValueFound(t, key) = t.m_values[v + 1].value
<1>1. /\ bucket_count(t) \in Nat /\ bucket_count(t) >= 2 /\ Steps(t) = 0..bucket_count(t)
  BY Probing
<1>2. do_find(t, key) <=> \E v \in I : KeyAt(t, v) = key
  <2>1. CASE size(t) = 0
    <3>1. I = {}
      <4>1. I \subseteq 0..(0 - 1)
        BY <2>1 DEF Good
      <4> QED
        BY <4>1
    <3> QED
      BY <2>1, <3>1 DEF do_find
  <2>2. CASE size(t) # 0
    <3> DEFINE S == {k \in Steps(t) : Holds(t, key, k) \/ (k >= 2 /\ Richer(t, key, k))}
               n == First(t, LAMBDA k : Holds(t, key, k) \/ (k >= 2 /\ Richer(t, key, k)))
    <3>1. S \subseteq Steps(t) /\ S # {}
      BY <1>1, RicherAtEnd
    <3>2. PICK k \in S : \A m \in 0..(k - 1) : m \notin S
      <4> HIDE DEF S
      <4> QED
        BY <1>1, <3>1, FirstStep
    <3>3. \A m \in 0..(k - 1) : m \in Steps(t)
      BY <1>1
    <3>4. n = CHOOSE x \in Steps(t) :
                /\ Holds(t, key, x) \/ (x >= 2 /\ Richer(t, key, x))
                /\ \A m \in 0..(x - 1) : ~(Holds(t, key, m) \/ (m >= 2 /\ Richer(t, key, m)))
      BY DEF First
    <3>5. do_find(t, key) <=> Holds(t, key, n)
      BY <2>2 DEF do_find, First
    <3> HIDE DEF n
    <3>6. /\ n \in Steps(t) /\ (Holds(t, key, n) \/ (n >= 2 /\ Richer(t, key, n)))
          /\ \A m \in 0..(n - 1) : ~(Holds(t, key, m) \/ (m >= 2 /\ Richer(t, key, m)))
      BY <3>2, <3>3, <3>4
    <3>7. ASSUME NEW v \in I, KeyAt(t, v) = key PROVE Holds(t, key, n)
      <4>1. PICK x \in Steps(t) : Holds(t, key, x) /\ \A m \in 0..x : ~Richer(t, key, m)
        BY <3>7, Holder
      <4>2. n <= x
        <5>1. \A m \in 0..(n - 1) : ~Holds(t, key, m)
          BY <3>6
        <5> QED
          BY <1>1, <3>6, <4>1, <5>1
      <4> QED
        BY <1>1, <3>6, <4>1, <4>2
    <3>8. Holds(t, key, n) => \E v \in I : KeyAt(t, v) = key
      BY <3>6, HoldsIs
    <3> QED
      BY <3>5, <3>7, <3>8
  <2> QED
    BY <2>1, <2>2
<1>3. Present(t, key) <=> \E v \in I : KeyAt(t, v) = key
  BY ProbeEndIs DEF Present
<1>4. ASSUME NEW v \in I, KeyAt(t, v) = key PROVE ValueFound(t, key) = t.m_values[v + 1].value
  <2> DEFINE n == CHOOSE n \in Steps(t) : Holds(t, key, n)
  <2>1. \E k \in Steps(t) : Holds(t, key, k)
    BY <1>4, Holder
  <2>2. n \in Steps(t) /\ Holds(t, key, n)
    BY <2>1
  <2>3. ValueFound(t, key) = t.m_values[Bucket(t, key, n).m_value_idx + 1].value
    BY DEF ValueFound
  <2> HIDE DEF n
  <2>4. Bucket(t, key, n).m_value_idx \in I /\ KeyAt(t, Bucket(t, key, n).m_value_idx) = key
    BY <2>2, HoldsIs
  <2>5. Bucket(t, key, n).m_value_idx = v
    BY <1>4, <2>4 DEF Good, DistinctKeys
  <2> QED
    BY <2>3, <2>5
<1> QED
  BY <1>2, <1>3, <1>4

\* The bucket looked for by a value's index is found, although an empty one may
\* carry the same index: between a value's home and its bucket there is none.
LEMMA BucketOfIs ==
  ASSUME NEW t, NEW X, NEW I, Good(t, X, I), NEW v \in I,
         NEW p, p = BucketOf(t, KeyAt(t, v), v)
  PROVE  p \in 0..(bucket_count(t) - 1) /\ D(t.m_buckets, p) # 0 /\ V(t.m_buckets, p) = v
<1> DEFINE key == KeyAt(t, v)
           N == bucket_count(t)
           B == t.m_buckets
           h == bucket_idx_from_hash(t, key)
           l == t.type.hash[key].low
           S == {k \in Steps(t) : Bucket(t, key, k).m_value_idx = v}
           n == First(t, LAMBDA k : Bucket(t, key, k).m_value_idx = v)
<1>1. N \in Nat /\ Steps(t) = 0..N
  BY Probing
<1>2. key \in DOMAIN t.type.hash
  <2>1. v \in Indexes(t) /\ ValuesTyped(t, X)
    BY DEF Good, Indexes
  <2> QED
    BY <2>1, KeyIs
<1>3. PICK x \in Steps(t) : /\ x < N /\ Bucket(t, key, x).m_value_idx = v
                            /\ Place(t, key, x) \in 0..(N - 1)
                            /\ V(B, Place(t, key, x)) = v
                            /\ \A m \in 0..x : ~Richer(t, key, m)
  BY Holder
<1>4. PICK k \in S : \A m \in 0..(k - 1) : m \notin S
  <2>1. S \subseteq Steps(t) /\ S # {}
    BY <1>3
  <2> HIDE DEF S
  <2> QED
    BY <1>1, <2>1, FirstStep
<1>5. \A m \in 0..(k - 1) : m \in Steps(t)
  BY <1>1
<1>6. n = CHOOSE y \in Steps(t) : /\ Bucket(t, key, y).m_value_idx = v
                                  /\ \A m \in 0..(y - 1) : ~(Bucket(t, key, m).m_value_idx = v)
  BY DEF First
<1>7. p = Place(t, key, n)
  BY DEF BucketOf
<1> HIDE DEF n
<1>8. /\ n \in Steps(t) /\ Bucket(t, key, n).m_value_idx = v
      /\ \A m \in 0..(n - 1) : Bucket(t, key, m).m_value_idx # v
  BY <1>4, <1>5, <1>6
<1> HIDE DEF key, N, h, l, B
<1>9. n \in 0..x /\ n \in 0..N
  BY <1>1, <1>3, <1>8
<1>10. ~Richer(t, key, n)
  BY <1>3, <1>9
<1>11. /\ Behind(N, h, n) \in 0..(N - 1)
       /\ Bucket(t, key, n) = B[Behind(N, h, n)]
       /\ D(B, Behind(N, h, n)) >= 256
  <2>1. /\ Behind(N, h, n) \in 0..(N - 1)
        /\ Bucket(t, key, n) = B[Behind(N, h, n)]
        /\ Richer(t, key, n) <=> (Dist(l, n) > D(B, Behind(N, h, n)))
        /\ D(B, Behind(N, h, n)) \in Nat /\ Dist(l, n) \in Nat /\ Dist(l, n) >= 256
    BY <1>2, <1>8, ProbeStep DEF N, h, l, B
  <2> QED
    BY <1>10, <2>1
<1>12. p = Behind(N, h, n)
  BY <1>2, <1>7, <1>9, Probing DEF N, h
<1> QED
  BY <1>8, <1>11, <1>12 DEF N, B, V

-----------------------------------------------------------------------------
(* Buckets placed and erased in a table. *)

\* Two tables with the same numbers, and two alike but for their buckets.
SameSizes(t, u) ==
  /\ DOMAIN u = Fields
  /\ u.type = t.type /\ u.m_shifts = t.m_shifts
  /\ u.m_max_load_factor = t.m_max_load_factor
  /\ u.m_max_bucket_capacity = t.m_max_bucket_capacity
  /\ bucket_count(u) = bucket_count(t)
Alike(t, u) == SameSizes(t, u) /\ u.m_values = t.m_values

\* A table with other buckets, as many, is alike.
LEMMA AlikeIs ==
  ASSUME NEW t, DOMAIN t = Fields, NEW B, DOMAIN B = DOMAIN t.m_buckets,
         NEW u, u = [t EXCEPT !.m_buckets = B]
  PROVE  Alike(t, u) /\ u.m_buckets = B
BY DEF Fields, Alike, SameSizes, bucket_count

\* New values and buckets make a table as good as their ring is.
LEMMA GoodIf ==
  ASSUME NEW t, NEW X, Sizes(t), NEW u, ValuesTyped(u, X), SameSizes(t, u), NEW J,
         J \subseteq Indexes(u), DistinctKeys(u, J),
         Ring(bucket_count(t), u.m_buckets, Homes(u, J), Lows(u, J), J)
  PROVE  Good(u, X, J)
<1>1. Sizes(u)
  BY DEF Sizes, SameSizes, AtMaximum
<1> QED
  BY <1>1 DEF Good, SameSizes, Indexes

\* New buckets do.
LEMMA GoodAgain ==
  ASSUME NEW t, NEW X, ValuesTyped(t, X), Sizes(t), NEW u, Alike(t, u), NEW J,
         J \subseteq Indexes(t), DistinctKeys(t, J),
         Ring(bucket_count(t), u.m_buckets, Homes(t, J), Lows(t, J), J)
  PROVE  Good(u, X, J)
<1>1. ValuesTyped(u, X)
  BY DEF ValuesTyped, Alike, SameSizes
<1>2. \A v : KeyAt(u, v) = KeyAt(t, v)
  BY DEF KeyAt, Alike
<1>3. Homes(u, J) = Homes(t, J) /\ Lows(u, J) = Lows(t, J)
  BY <1>2 DEF Homes, Lows, bucket_idx_from_hash, Alike, SameSizes
<1>4. J \subseteq Indexes(u) /\ DistinctKeys(u, J)
  BY <1>2 DEF Indexes, size, Alike, DistinctKeys
<1> QED
  BY <1>1, <1>3, <1>4, GoodIf DEF Alike

\* What a bucket is when it has moved.
LEMMA MovedIs ==
  ASSUME NEW b \in Bucket0, NEW by \in Int, b.m_dist_and_fingerprint + by \in Nat
  PROVE  /\ Moved(b, by) \in Bucket0
         /\ Moved(b, by).m_dist_and_fingerprint = b.m_dist_and_fingerprint + by
         /\ Moved(b, by).m_value_idx = b.m_value_idx
BY DEF Moved, Bucket0

\* A value gets its bucket where a probe for its key has to stop.
LEMMA PlacedTable ==
  ASSUME NEW t, NEW X, NEW I, Good(t, X, I), NEW v \in Indexes(t) \ I,
         DistinctKeys(t, I \cup {v}),
         \E i \in 0..(bucket_count(t) - 1) : D(t.m_buckets, i) = 0,
         NEW key, key = KeyAt(t, v), NEW n \in Steps(t),
         SameDistance(t, key, n) \/ Richer(t, key, n),
         \A m \in 0..(n - 1) : ~Richer(t, key, m),
         NEW u, u = place_and_shift_up(t, NewBucket(t, key, n, v), Place(t, key, n))
  PROVE  Good(u, X, I \cup {v}) /\ Alike(t, u)
<1> DEFINE N == bucket_count(t)
           B == t.m_buckets
           h == bucket_idx_from_hash(t, key)
           l == t.type.hash[key].low
           p == Behind(N, h, n)
           J == I \cup {v}
           bucket == [m_dist_and_fingerprint |-> Dist(l, n), m_value_idx |-> v]
<1>1. /\ N \in Nat /\ N >= 2 /\ Steps(t) = 0..N /\ DOMAIN B = 0..(N - 1)
      /\ B \in [0..(N - 1) -> Bucket0]
      /\ \A i \in 0..(N - 1), k \in 0..N : next(t, i, k) = Behind(N, i, k)
  BY Probing
<1>2. key \in DOMAIN t.type.hash /\ DOMAIN t = Fields /\ v \in Nat
  <2>1. v \in Indexes(t) /\ ValuesTyped(t, X)
    BY DEF Good
  <2>2. v \in Nat
    BY DEF Indexes
  <2> QED
    BY <2>1, <2>2, KeyIs DEF ValuesTyped
<1>3. /\ h \in 0..(N - 1) /\ l \in 0..255 /\ Place(t, key, n) = p /\ p \in 0..(N - 1)
      /\ NewBucket(t, key, n, v) = bucket
      /\ Dist(l, n) >= D(B, p) /\ Dist(l, n) \in Nat /\ D(B, p) \in Nat
  <2>1. h \in 0..(N - 1) /\ l \in 0..255 /\ Place(t, key, n) = p
    BY <1>2, PlaceIs
  <2>2. /\ p \in 0..(N - 1) /\ D(B, p) \in Nat /\ Dist(l, n) \in Nat
        /\ SameDistance(t, key, n) <=> (Dist(l, n) = D(B, p))
        /\ Richer(t, key, n) <=> (Dist(l, n) > D(B, p))
        /\ dist_and_fingerprint(t, key, n) = Dist(l, n)
    BY <1>2, ProbeStep
  <2>3. NewBucket(t, key, n, v) = bucket
    BY <2>2 DEF NewBucket
  <2>4. Dist(l, n) >= D(B, p)
    <3> HIDE DEF p, l, B
    <3> QED
      BY <2>2
  <2> QED
    BY <2>1, <2>2, <2>3, <2>4
<1>4. n > 0 => D(B, Behind(N, h, n - 1)) >= Dist(l, n - 1)
  <2> SUFFICES ASSUME n > 0 PROVE D(B, Behind(N, h, n - 1)) >= Dist(l, n - 1)
    OBVIOUS
  <2>1. n - 1 \in Steps(t) /\ ~Richer(t, key, n - 1)
    BY <1>1
  <2>2. /\ D(B, Behind(N, h, n - 1)) \in Nat /\ Dist(l, n - 1) \in Nat
        /\ Richer(t, key, n - 1) <=> (Dist(l, n - 1) > D(B, Behind(N, h, n - 1)))
    BY <1>2, <2>1, ProbeStep
  <2> HIDE DEF l, B, h, N
  <2> QED
    BY <2>1, <2>2
<1>5. PICK e \in 0..(N - 1) : D(B, e) = 0
  OBVIOUS
<1>6. Ring(N, B, Homes(t, I), Lows(t, I), I)
  BY DEF Good
<1>7. n \in 0..(N - 1)
  <2> SUFFICES ASSUME n = N PROVE FALSE
    BY <1>1
  <2>1. D(B, Behind(N, h, N - 1)) >= Dist(l, N - 1) /\ N - 1 \in 0..(N - 1)
    BY <1>1, <1>4
  <2>2. N - 1 < N - 1
    BY <1>3, <1>5, <1>6, <2>1, NotAllRound
  <2> QED
    BY <1>1, <2>2
<1> DEFINE run == First(t, LAMBDA k : IsEmpty(at(t, next(t, p, k))))
           shifted == {next(t, p, k) : k \in 1..run}
           C == [i \in 0..(N - 1) |->
                   IF i = p THEN bucket
                   ELSE IF i \in shifted THEN Moved(at(t, next(t, i, N - 1)), dist_inc)
                   ELSE B[i]]
<1>8. u = [t EXCEPT !.m_buckets = C]
  <2>1. u = place_and_shift_up(t, bucket, p)
    BY <1>3
  <2> HIDE DEF bucket, p
  <2> QED
    BY <1>1, <1>2, <2>1 DEF place_and_shift_up, Fields
<1>9. Alike(t, u) /\ u.m_buckets = C
  <2>1. DOMAIN C = DOMAIN t.m_buckets
    BY <1>1
  <2> HIDE DEF C
  <2> QED
    BY <1>2, <1>8, <2>1, AlikeIs
<1>10. \A k \in 0..N : IsEmpty(at(t, next(t, p, k))) <=> D(B, Behind(N, p, k)) = 0
  BY <1>1, <1>3 DEF IsEmpty, at, D
<1>11. /\ run \in 0..(N - 1) /\ D(B, Behind(N, p, run)) = 0
       /\ \A k \in 0..(run - 1) : D(B, Behind(N, p, k)) # 0
  <2> DEFINE S == {k \in Steps(t) : IsEmpty(at(t, next(t, p, k)))}
  <2>1. PICK x \in 0..(N - 1) : Behind(N, p, x) = e
    BY <1>1, <1>3, BehindCovers, ZenonT(60)
  <2>2. x \in S
    BY <1>1, <1>5, <1>10, <2>1
  <2>3. PICK k \in S : \A m \in 0..(k - 1) : m \notin S
    <3>1. S \subseteq Steps(t) /\ S # {}
      BY <2>2
    <3> HIDE DEF S
    <3> QED
      BY <1>1, <3>1, FirstStep
  <2>4. \A m \in 0..(k - 1) : m \in Steps(t)
    BY <1>1
  <2>5. run = CHOOSE y \in Steps(t) : /\ IsEmpty(at(t, next(t, p, y)))
                                      /\ \A m \in 0..(y - 1) : ~IsEmpty(at(t, next(t, p, m)))
    BY DEF First
  <2> HIDE DEF run, p
  <2>6. /\ run \in Steps(t) /\ IsEmpty(at(t, next(t, p, run)))
        /\ \A m \in 0..(run - 1) : ~IsEmpty(at(t, next(t, p, m)))
    BY <2>3, <2>4, <2>5
  <2>7. run <= x
    BY <1>1, <2>2, <2>6
  <2>8. run \in 0..(N - 1) /\ \A m \in 0..(run - 1) : m \in 0..N
    BY <1>1, <2>6, <2>7
  <2> QED
    BY <1>1, <1>10, <2>6, <2>8
<1>12. Placing(N, B, h, l, n, run)
  BY <1>3, <1>4, <1>7, <1>11 DEF Placing
<1> HIDE DEF run, bucket, p, h, l, N, B
<1>13. \A k \in 0..N : Behind(N, p, k) \in 0..(N - 1)
  BY <1>1, <1>3, BehindIs
<1>14. shifted = {Behind(N, p, k) : k \in 1..run}
  <2>1. \A k \in 1..run : next(t, p, k) = Behind(N, p, k)
    BY <1>1, <1>3, <1>11
  <2> QED
    BY <2>1
<1> HIDE DEF shifted
<1>15. \A k \in 1..run : Behind(N, p, k) # p
  <2>1. Behind(N, p, 0) = p /\ 0 \in 0..(N - 1) /\ \A k \in 1..run : k \in 0..(N - 1) /\ k # 0
    BY <1>1, <1>3, <1>11, BehindIs
  <2> QED
    BY <1>1, <1>3, <2>1, BehindCovers
<1>16. bucket \in Bucket0
  BY <1>2, <1>3 DEF bucket, Bucket0
<1>17. ASSUME NEW k \in 1..run
       PROVE  LET from == Behind(N, p, k - 1)
                  to   == Behind(N, p, k)
              IN  /\ C[to] = Moved(B[from], 256) /\ from \in 0..(N - 1) /\ to \in 0..(N - 1)
                  /\ C[to] \in Bucket0 /\ D(C, to) = D(B, from) + 256 /\ V(C, to) = V(B, from)
  <2> DEFINE from == Behind(N, p, k - 1)
             to == Behind(N, p, k)
  <2>1. from \in 0..(N - 1) /\ to \in 0..(N - 1) /\ to # p /\ to \in shifted
    <3>1. k \in 0..N /\ k - 1 \in 0..N
      BY <1>1, <1>11
    <3> QED
      BY <1>13, <1>14, <1>15, <3>1
  <2>2. Behind(N, to, N - 1) = from /\ N - 1 \in 0..N
    <3>1. k \in 1..(N - 1)
      BY <1>1, <1>11
    <3> QED
      BY <1>1, <1>3, <3>1, BehindOneLess
  <2>3. C[to] = Moved(B[from], 256)
    BY <1>1, <2>1, <2>2 DEF at, B, dist_inc
  <2> HIDE DEF from, to, C
  <2>4. B[from] \in Bucket0 /\ D(B, from) \in Nat
    BY <1>1, <2>1, BucketFields
  <2>5. /\ C[to] \in Bucket0 /\ D(C, to) = D(B, from) + 256 /\ V(C, to) = V(B, from)
    BY <2>3, <2>4, MovedIs DEF D, V
  <2> QED
    BY <2>1, <2>3, <2>5 DEF from, to
<1>18. \A i \in 0..(N - 1) \ ({p} \cup shifted) : C[i] = B[i]
  OBVIOUS
<1>19. C \in [0..(N - 1) -> Bucket0] /\ C[p] = bucket
  <2>1. C[p] = bucket
    BY <1>3
  <2>2. DOMAIN C = 0..(N - 1) /\ C = [i \in 0..(N - 1) |-> C[i]]
    OBVIOUS
  <2> HIDE DEF C
  <2>3. \A i \in shifted : C[i] \in Bucket0
    BY <1>14, <1>17
  <2>4. \A i \in 0..(N - 1) : C[i] \in Bucket0
    BY <1>1, <1>16, <1>18, <2>1, <2>3
  <2> QED
    BY <2>1, <2>2, <2>4
<1> HIDE DEF C
<1>20. Shifted(N, B, C, p, run, bucket)
  <2>1. ASSUME NEW k \in (run + 1)..(N - 1) PROVE C[Behind(N, p, k)] = B[Behind(N, p, k)]
    <3>1. k \in 0..(N - 1) /\ k # 0 /\ k \in 0..N /\ Behind(N, p, 0) = p /\ 0 \in 0..(N - 1)
      BY <1>1, <1>3, <1>11, BehindIs
    <3>2. \A m \in 1..run : m \in 0..(N - 1) /\ m # k
      BY <1>1, <1>11
    <3>3. \A m \in 0..(N - 1) : m # k => Behind(N, p, m) # Behind(N, p, k)
      BY <1>1, <1>3, <3>1, BehindCovers
    <3>4. Behind(N, p, k) \notin shifted /\ Behind(N, p, k) # p
      BY <1>14, <3>1, <3>2, <3>3
    <3> QED
      BY <1>13, <1>18, <3>1, <3>4
  <2> QED
    BY <1>17, <1>19, <2>1 DEF Shifted
<1>21. Ring(N, C, Homes(t, J), Lows(t, J), J)
  <2>1. Homes(t, J)[v] = h /\ Lows(t, J)[v] = l
    BY DEF Homes, Lows, h, l
  <2>2. \A w \in I : Homes(t, J)[w] = Homes(t, I)[w] /\ Lows(t, J)[w] = Lows(t, I)[w]
    BY DEF Homes, Lows
  <2>3. v \notin I
    OBVIOUS
  <2>4. Shifted(N, B, C, Behind(N, h, n), run,
                 [m_dist_and_fingerprint |-> Dist(l, n), m_value_idx |-> v])
    BY <1>20 DEF p, bucket
  <2> HIDE DEF J
  <2>5. Ring(N, C, Homes(t, J), Lows(t, J), I \cup {v})
    BY <1>2, <1>6, <1>12, <2>1, <2>2, <2>3, <2>4, PlacedRing
  <2> QED
    BY <2>5 DEF J
<1>22. J \subseteq Indexes(t) /\ ValuesTyped(t, X) /\ Sizes(t) /\ DistinctKeys(t, J)
  BY DEF Good, Indexes
<1> QED
  BY <1>9, <1>21, <1>22, GoodAgain DEF N

\* A bucket is emptied, and what follows it moves down.
LEMMA ErasedTable ==
  ASSUME NEW t, NEW X, NEW I, Good(t, X, I),
         NEW p \in 0..(bucket_count(t) - 1), D(t.m_buckets, p) # 0,
         NEW u, u = erase_and_shift_down(t, p)
  PROVE  Good(u, X, I \ {V(t.m_buckets, p)}) /\ Alike(t, u)
<1> DEFINE N == bucket_count(t)
           B == t.m_buckets
           J == I \ {V(B, p)}
           run == First(t, LAMBDA k :
                    k > 0 /\ at(t, next(t, p, k)).m_dist_and_fingerprint < 2 * dist_inc)
           shifted == {next(t, p, k) : k \in 0..run - 2}
           last == next(t, p, run - 1)
           C == [i \in 0..(N - 1) |->
                   IF i \in shifted THEN Moved(at(t, next(t, i, 1)), -dist_inc)
                   ELSE IF i = last THEN Empty
                   ELSE B[i]]
<1>1. /\ N \in Nat /\ N >= 2 /\ Steps(t) = 0..N /\ DOMAIN B = 0..(N - 1)
      /\ B \in [0..(N - 1) -> Bucket0]
      /\ \A i \in 0..(N - 1), k \in 0..N : next(t, i, k) = Behind(N, i, k)
  BY Probing
<1>2. DOMAIN t = Fields
  BY DEF Good, ValuesTyped
<1>3. u = [t EXCEPT !.m_buckets = C]
  BY <1>1, <1>2 DEF erase_and_shift_down, Fields
<1>4. Alike(t, u) /\ u.m_buckets = C
  <2>1. DOMAIN C = DOMAIN t.m_buckets
    BY <1>1
  <2> HIDE DEF C
  <2> QED
    BY <1>2, <1>3, <2>1, AlikeIs
<1>5. \A k \in 0..N : /\ Behind(N, p, k) \in 0..(N - 1)
                      /\ next(t, p, k) = Behind(N, p, k)
                      /\ at(t, next(t, p, k)).m_dist_and_fingerprint = D(B, Behind(N, p, k))
  <2>1. \A k \in 0..N : Behind(N, p, k) \in 0..(N - 1) /\ next(t, p, k) = Behind(N, p, k)
    BY <1>1, BehindIs
  <2> QED
    BY <2>1 DEF at, D
<1>6. /\ run \in 1..N /\ D(B, Behind(N, p, run)) < 512
      /\ \A k \in 1..(run - 1) : D(B, Behind(N, p, k)) >= 512
  <2> DEFINE Ends(k) == at(t, next(t, p, k)).m_dist_and_fingerprint < 2 * dist_inc
             S == {k \in Steps(t) : k > 0 /\ Ends(k)}
  <2>1. \A k \in 0..N : Ends(k) <=> D(B, Behind(N, p, k)) < 512
    BY <1>5 DEF dist_inc
  <2>2. PICK i \in 0..(N - 1) : D(B, i) < 512
    BY DEF Good, Ring, SomeoneHome
  <2>3. PICK x \in 1..N : Behind(N, p, x) = i
    <3>1. PICK m \in 0..(N - 1) : Behind(N, p, m) = i
      BY <1>1, BehindCovers
    <3>2. CASE m = 0
      BY <1>1, <3>1, <3>2, BehindIs
    <3>3. CASE m # 0
      BY <1>1, <3>1, <3>3
    <3> QED
      BY <3>2, <3>3
  <2>4. x \in S
    BY <1>1, <2>1, <2>2, <2>3
  <2>5. PICK q \in S : \A m \in 0..(q - 1) : m \notin S
    <3>1. S \subseteq Steps(t) /\ S # {}
      BY <2>4
    <3> HIDE DEF S
    <3> QED
      BY <1>1, <3>1, FirstStep
  <2>6. \A m \in 0..(q - 1) : m \in Steps(t)
    BY <1>1
  <2>7. run = CHOOSE y \in Steps(t) : /\ y > 0 /\ Ends(y)
                                      /\ \A m \in 0..(y - 1) : ~(m > 0 /\ Ends(m))
    BY DEF First
  <2> HIDE DEF run, Ends
  <2>8. /\ run \in Steps(t) /\ run > 0 /\ Ends(run)
        /\ \A m \in 0..(run - 1) : ~(m > 0 /\ Ends(m))
    BY <2>5, <2>6, <2>7
  <2>9. run \in 1..N /\ run \in 0..N
    BY <1>1, <2>8
  <2>10. ASSUME NEW k \in 1..(run - 1) PROVE D(B, Behind(N, p, k)) >= 512
    <3>1. k \in 0..(run - 1) /\ k > 0 /\ k \in 0..N
      BY <1>1, <2>9
    <3>2. ~(D(B, Behind(N, p, k)) < 512)
      BY <2>1, <2>8, <3>1
    <3>3. D(B, Behind(N, p, k)) \in Nat
      BY <1>1, <1>5, <3>1, BucketFields
    <3> QED
      BY <3>2, <3>3
  <2> QED
    BY <2>1, <2>8, <2>9, <2>10
<1>7. Emptying(N, B, p, run)
  BY <1>6 DEF Emptying
<1> HIDE DEF run, N, B
<1>8. shifted = {Behind(N, p, k) : k \in 0..(run - 2)} /\ last = Behind(N, p, run - 1)
      /\ run - 1 \in 0..(N - 1)
  <2>1. run - 1 \in 0..(N - 1) /\ run - 1 \in 0..N /\ \A k \in 0..(run - 2) : k \in 0..N
    BY <1>1, <1>6
  <2>2. \A k \in 0..(run - 2) : next(t, p, k) = Behind(N, p, k)
    BY <1>5, <2>1
  <2> QED
    BY <1>5, <2>1, <2>2
<1> HIDE DEF shifted, last
<1>9. \A m, k \in 0..(N - 1) : Behind(N, p, m) = Behind(N, p, k) => m = k
  BY <1>1, BehindCovers DEF N
<1>10. ASSUME NEW k \in 0..(run - 2)
       PROVE  LET from == Behind(N, p, k + 1)
                  to   == Behind(N, p, k)
              IN  /\ to \in 0..(N - 1) /\ C[to] \in Bucket0
                  /\ D(C, to) = D(B, from) - 256 /\ V(C, to) = V(B, from)
  <2> DEFINE from == Behind(N, p, k + 1)
             to == Behind(N, p, k)
  <2>1. k \in 0..N /\ k + 1 \in 0..N /\ k + 1 \in 1..(run - 1) /\ k + 1 <= N /\ 1 \in 0..N
    BY <1>1, <1>6
  <2>2. from \in 0..(N - 1) /\ to \in 0..(N - 1) /\ to \in shifted /\ D(B, from) >= 512
    BY <1>5, <1>6, <1>8, <2>1
  <2>3. next(t, to, 1) = from
    <3>1. next(t, to, 1) = Behind(N, to, 1)
      BY <1>1, <2>1, <2>2
    <3>2. p \in 0..(N - 1) /\ k \in Nat
      BY <2>1 DEF N
    <3>3. Behind(N, to, 1) = from
      BY <1>1, <2>1, <3>2 DEF Behind
    <3> QED
      BY <3>1, <3>3
  <2>4. C[to] = Moved(B[from], -256)
    BY <2>2, <2>3 DEF at, B, dist_inc
  <2> HIDE DEF from, to, C
  <2>5. B[from] \in Bucket0 /\ D(B, from) \in Nat
    BY <1>1, <2>2, BucketFields
  <2>6. D(B, from) + (-256) \in Nat /\ D(B, from) + (-256) = D(B, from) - 256 /\ -256 \in Int
    BY <2>2, <2>5
  <2>7. /\ C[to] \in Bucket0 /\ D(C, to) = D(B, from) - 256 /\ V(C, to) = V(B, from)
    BY <2>4, <2>5, <2>6, MovedIs DEF D, V
  <2> QED
    BY <2>2, <2>7 DEF from, to
<1>11. last \in 0..(N - 1) /\ C[last] = Empty /\ last \notin shifted
  <2>1. last \in 0..(N - 1)
    BY <1>1, <1>5, <1>8
  <2>2. \A k \in 0..(run - 2) : k \in 0..(N - 1) /\ k # run - 1
    BY <1>1, <1>6
  <2>3. last \notin shifted
    BY <1>8, <1>9, <2>2
  <2> QED
    BY <2>1, <2>3
<1>12. \A i \in 0..(N - 1) \ ({last} \cup shifted) : C[i] = B[i]
  OBVIOUS
<1>13. C \in [0..(N - 1) -> Bucket0]
  <2>1. C = [i \in 0..(N - 1) |-> C[i]]
    OBVIOUS
  <2> HIDE DEF C
  <2>2. \A i \in shifted : C[i] \in Bucket0
    BY <1>8, <1>10
  <2>3. Empty \in Bucket0
    BY DEF Empty, Bucket0
  <2>4. \A i \in 0..(N - 1) : C[i] \in Bucket0
    BY <1>1, <1>11, <1>12, <2>2, <2>3
  <2> QED
    BY <2>1, <2>4
<1> HIDE DEF C
<1>14. Unshifted(N, B, C, p, run)
  <2>1. ASSUME NEW k \in run..(N - 1) PROVE C[Behind(N, p, k)] = B[Behind(N, p, k)]
    <3>1. k \in 0..(N - 1) /\ k \in 0..N /\ k # run - 1
      BY <1>1, <1>6
    <3>2. \A m \in 0..(run - 2) : m \in 0..(N - 1) /\ m # k
      BY <1>1, <1>6
    <3>3. Behind(N, p, k) \notin shifted /\ Behind(N, p, k) # last
      BY <1>8, <1>9, <3>1, <3>2
    <3> QED
      BY <1>5, <1>12, <3>1, <3>3
  <2>2. D(C, Behind(N, p, run - 1)) = 0
    BY <1>8, <1>11 DEF D, Empty
  <2> QED
    BY <1>10, <1>13, <2>1, <2>2 DEF Unshifted
<1>15. Ring(N, C, Homes(t, J), Lows(t, J), J)
  <2>1. Ring(N, B, Homes(t, I), Lows(t, I), I)
    BY DEF Good, N, B
  <2>2. Ring(N, C, Homes(t, I), Lows(t, I), J)
    BY <1>7, <1>14, <2>1, ErasedRing
  <2>3. \A w \in J : Homes(t, J)[w] = Homes(t, I)[w] /\ Lows(t, J)[w] = Lows(t, I)[w]
    BY DEF Homes, Lows
  <2> HIDE DEF J
  <2> QED
    BY <2>2, <2>3, RingAgain
<1>16. J \subseteq Indexes(t) /\ ValuesTyped(t, X) /\ Sizes(t) /\ DistinctKeys(t, J)
  BY DEF Good, Indexes, DistinctKeys
<1>17. Good(u, X, J)
  BY <1>4, <1>15, <1>16, GoodAgain DEF N
<1> QED
  BY <1>4, <1>17 DEF B

-----------------------------------------------------------------------------
(* Values taken out. *)

\* A home depends on the key and on how many buckets there are.
LEMMA HomesAgain ==
  ASSUME NEW t, NEW u, SameSizes(t, u), NEW v, NEW w, KeyAt(u, w) = KeyAt(t, v)
  PROVE  /\ bucket_idx_from_hash(u, KeyAt(u, w)) = bucket_idx_from_hash(t, KeyAt(t, v))
         /\ u.type.hash[KeyAt(u, w)].low = t.type.hash[KeyAt(t, v)].low
BY DEF SameSizes, bucket_idx_from_hash

\* The last value goes, after its bucket.
LEMMA PoppedTable ==
  ASSUME NEW t, NEW X, NEW I, Good(t, X, I), size(t) > 0, I \subseteq 0..(size(t) - 2),
         NEW u, u = pop_back(t)
  PROVE  /\ Good(u, X, I) /\ SameSizes(t, u) /\ u.m_buckets = t.m_buckets
         /\ size(u) = size(t) - 1
         /\ \A i \in Indexes(u) : u.m_values[i + 1] = t.m_values[i + 1]
<1> DEFINE Pairs == [key : DOMAIN t.type.hash, value : X]
           s == t.m_values
           f == SubSeq(s, 1, Len(s) - 1)
<1>1. s \in Seq(Pairs) /\ DOMAIN t = Fields /\ Len(s) > 0
  BY DEF Good, ValuesTyped, size
<1>2. u = [t EXCEPT !.m_values = f]
  BY DEF pop_back, Front
<1>3. f \in Seq(Pairs) /\ Len(f) = Len(s) - 1 /\ \A i \in 1..(Len(s) - 1) : f[i] = s[i]
  <2> DEFINE n == Len(s) - 1
  <2> HIDE DEF Pairs, s
  <2>1. n \in Nat /\ n + 1 = Len(s) /\ 1 \in Int /\ n \in Int /\ \A i \in 1..n : s[i] \in Pairs
    BY <1>1
  <2> HIDE DEF n
  <2>2. /\ SubSeq(s, 1, n) \in Seq(Pairs)
        /\ Len(SubSeq(s, 1, n)) = IF 1 <= n THEN n - 1 + 1 ELSE 0
        /\ \A i \in 1..(n - 1 + 1) : SubSeq(s, 1, n)[i] = s[1 + i - 1]
    BY <2>1, SubSeqProperties
  <2>3. /\ SubSeq(s, 1, n) \in Seq(Pairs) /\ Len(SubSeq(s, 1, n)) = n
        /\ \A i \in 1..n : SubSeq(s, 1, n)[i] = s[i]
    BY <2>1, <2>2
  <2> QED
    BY <2>3 DEF n
<1> HIDE DEF f, Pairs
<1>4. u.m_values = f /\ u.m_buckets = t.m_buckets /\ SameSizes(t, u)
  BY <1>1, <1>2 DEF Fields, SameSizes, bucket_count
<1>5. size(u) = size(t) - 1
  BY <1>3, <1>4 DEF size
<1>6. \A i \in Indexes(u) : u.m_values[i + 1] = t.m_values[i + 1] /\ KeyAt(u, i) = KeyAt(t, i)
  <2> SUFFICES ASSUME NEW i \in Indexes(u) PROVE u.m_values[i + 1] = t.m_values[i + 1]
    BY DEF KeyAt
  <2>1. Len(s) \in Nat
    BY <1>1
  <2>2. i + 1 \in 1..(Len(s) - 1)
    BY <1>3, <1>4, <2>1 DEF Indexes, size
  <2> QED
    BY <1>3, <1>4, <2>2
<1>7. I \subseteq Indexes(u)
  <2>1. size(t) \in Nat
    BY <1>1 DEF size
  <2> QED
    BY <1>5, <2>1 DEF Indexes
<1>8. ValuesTyped(u, X) /\ Sizes(t)
  <2>1. u.type = t.type /\ u.m_max_load_factor = t.m_max_load_factor /\ DOMAIN u = Fields
    BY <1>4 DEF SameSizes
  <2>2. u.m_values \in Seq([key : DOMAIN u.type.hash, value : X])
    BY <1>3, <1>4, <2>1 DEF Pairs
  <2> QED
    BY <2>1, <2>2 DEF Good, ValuesTyped
<1>9. DistinctKeys(u, I)
  BY <1>6, <1>7 DEF Good, DistinctKeys
<1>10. Ring(bucket_count(t), u.m_buckets, Homes(u, I), Lows(u, I), I)
  <2>1. \A v \in I : Homes(u, I)[v] = Homes(t, I)[v] /\ Lows(u, I)[v] = Lows(t, I)[v]
    <3> SUFFICES ASSUME NEW v \in I
                 PROVE  Homes(u, I)[v] = Homes(t, I)[v] /\ Lows(u, I)[v] = Lows(t, I)[v]
      OBVIOUS
    <3>1. KeyAt(u, v) = KeyAt(t, v)
      BY <1>6, <1>7
    <3> QED
      BY <1>4, <3>1, HomesAgain DEF Homes, Lows
  <2>2. Ring(bucket_count(t), u.m_buckets, Homes(t, I), Lows(t, I), I)
    BY <1>4 DEF Good
  <2> DEFINE N == bucket_count(t)
             C == u.m_buckets
             h1 == Homes(t, I)
             l1 == Lows(t, I)
             h2 == Homes(u, I)
             l2 == Lows(u, I)
  <2>3. Ring(N, C, h2, l2, I)
    <3> HIDE DEF N, C, h1, l1, h2, l2
    <3>1. Ring(N, C, h1, l1, I) /\ \A v \in I : h2[v] = h1[v] /\ l2[v] = l1[v]
      BY <2>1, <2>2 DEF N, C, h1, l1, h2, l2
    <3> QED
      BY <3>1, RingAgain
  <2> QED
    BY <2>3
<1>11. Good(u, X, I)
  BY <1>4, <1>7, <1>8, <1>9, <1>10, GoodIf
<1> QED
  BY <1>4, <1>5, <1>6, <1>11

\* What v was at, w is at.
MovesTo(t, u, v, w) ==
  \A i \in Indexes(t) : u.m_values[i + 1] = t.m_values[(IF i = w THEN v ELSE i) + 1]

\* The value at v is now at w, and its bucket at p says so.
Relabelled(t, u, I, p, v, w) ==
  /\ v \in I /\ w \in Indexes(t) \ I
  /\ p \in 0..(bucket_count(t) - 1) /\ D(t.m_buckets, p) # 0 /\ V(t.m_buckets, p) = v
  /\ u = [t EXCEPT !.m_values[w + 1] = t.m_values[v + 1], !.m_buckets[p].m_value_idx = w]

\* A value moves to another index, where there is no value with a bucket; what was
\* there is lost, and its old index is free.
LEMMA RenamedTable ==
  ASSUME NEW t, NEW X, NEW I, Good(t, X, I),
         NEW u, NEW p, NEW v, NEW w, Relabelled(t, u, I, p, v, w)
  PROVE  /\ Good(u, X, (I \ {v}) \cup {w}) /\ SameSizes(t, u) /\ size(u) = size(t)
         /\ MovesTo(t, u, v, w)
<1> DEFINE N == bucket_count(t)
           B == t.m_buckets
           C == [B EXCEPT ![p].m_value_idx = w]
           J == (I \ {v}) \cup {w}
           Pairs == [key : DOMAIN t.type.hash, value : X]
           s == t.m_values
           r == [s EXCEPT ![w + 1] = s[v + 1]]
<1>0. /\ v \in I /\ w \in Indexes(t) \ I
      /\ p \in 0..(bucket_count(t) - 1) /\ D(t.m_buckets, p) # 0 /\ V(t.m_buckets, p) = v
      /\ u = [t EXCEPT !.m_values[w + 1] = t.m_values[v + 1], !.m_buckets[p].m_value_idx = w]
  BY DEF Relabelled
<1>1. N \in Nat /\ B \in [0..(N - 1) -> Bucket0] /\ DOMAIN t = Fields
  BY <1>0, Probing DEF Good, ValuesTyped
<1>2. /\ s \in Seq(Pairs) /\ Len(s) \in Nat /\ v \in Indexes(t) /\ w \in Indexes(t)
      /\ w # v /\ w \in Nat /\ v \in Nat
  <2>1. s \in Seq(Pairs) /\ v \in Indexes(t) /\ w \in Indexes(t) /\ w # v
    BY <1>0 DEF Good, ValuesTyped, Indexes
  <2> QED
    BY <1>0, <2>1 DEF Indexes
<1>3. /\ v + 1 \in 1..Len(s) /\ w + 1 \in 1..Len(s) /\ s[v + 1] \in Pairs
  BY <1>0, <1>2, KeyIs DEF Good
<1>4. /\ r \in Seq(Pairs) /\ Len(r) = Len(s)
      /\ \A i \in 1..Len(s) : r[i] = IF i = w + 1 THEN s[v + 1] ELSE s[i]
  <2> HIDE DEF Pairs, s
  <2> QED
    BY <1>0, <1>2, <1>3
<1>5. /\ u.m_values = r /\ u.m_buckets = C /\ SameSizes(t, u)
  <2>1. DOMAIN C = DOMAIN B
    BY <1>0, <1>1
  <2>2. u.m_values = r /\ u.m_buckets = C
    BY <1>0, <1>1 DEF Fields
  <2>3. /\ DOMAIN u = Fields /\ u.type = t.type /\ u.m_shifts = t.m_shifts
        /\ u.m_max_load_factor = t.m_max_load_factor
        /\ u.m_max_bucket_capacity = t.m_max_bucket_capacity
    BY <1>0, <1>1 DEF Fields
  <2>4. bucket_count(u) = bucket_count(t)
    BY <1>0, <2>1, <2>2 DEF bucket_count
  <2> QED
    BY <1>0, <2>2, <2>3, <2>4 DEF SameSizes
<1>6. /\ C \in [0..(N - 1) -> Bucket0] /\ D(C, p) = D(B, p) /\ V(C, p) = w
      /\ \A i \in 0..(N - 1) : i # p => C[i] = B[i]
  <2>1. B[p] \in Bucket0 /\ [B[p] EXCEPT !.m_value_idx = w] \in Bucket0
    BY <1>0, <1>1, <1>2 DEF Bucket0
  <2>2. /\ C[p] = [B[p] EXCEPT !.m_value_idx = w] /\ C \in [0..(N - 1) -> Bucket0]
        /\ \A i \in 0..(N - 1) : i # p => C[i] = B[i]
    BY <1>0, <1>1, <2>1
  <2> HIDE DEF C
  <2> QED
    BY <1>0, <2>1, <2>2 DEF D, V, Bucket0
<1> HIDE DEF C, r, Pairs
<1>7. size(u) = size(t) /\ Indexes(u) = Indexes(t)
  BY <1>0, <1>4, <1>5 DEF size, Indexes
<1>8. \A i \in Indexes(t) : u.m_values[i + 1] = t.m_values[(IF i = w THEN v ELSE i) + 1]
  <2> SUFFICES ASSUME NEW i \in Indexes(t)
               PROVE  u.m_values[i + 1] = t.m_values[(IF i = w THEN v ELSE i) + 1]
    BY <1>0
  <2>1. i + 1 \in 1..Len(s) /\ (i + 1 = w + 1 => i = w)
    BY <1>0, <1>2 DEF Indexes, size
  <2> QED
    BY <1>0, <1>4, <1>5, <2>1
<1>9. \A i \in Indexes(t) : KeyAt(u, i) = KeyAt(t, IF i = w THEN v ELSE i)
  BY <1>0, <1>8 DEF KeyAt
<1>10. ValuesTyped(u, X) /\ Sizes(t)
  <2>1. u.type = t.type /\ u.m_max_load_factor = t.m_max_load_factor /\ DOMAIN u = Fields
    BY <1>0, <1>5 DEF SameSizes
  <2>2. u.m_values \in Seq([key : DOMAIN u.type.hash, value : X])
    BY <1>0, <1>4, <1>5, <2>1 DEF Pairs
  <2> QED
    BY <1>0, <2>1, <2>2 DEF Good, ValuesTyped
<1>11. J \subseteq Indexes(u) /\ I \subseteq Indexes(t)
  BY <1>0, <1>2, <1>7 DEF Good, Indexes
<1>12. DistinctKeys(u, J)
  <2> SUFFICES ASSUME NEW i \in J, NEW j \in J, KeyAt(u, i) = KeyAt(u, j) PROVE i = j
    BY <1>0 DEF DistinctKeys
  <2>1. KeyAt(t, IF i = w THEN v ELSE i) = KeyAt(t, IF j = w THEN v ELSE j)
    BY <1>0, <1>7, <1>9, <1>11
  <2>2. (IF i = w THEN v ELSE i) = (IF j = w THEN v ELSE j)
    BY <1>0, <2>1 DEF Good, DistinctKeys
  <2> QED
    BY <1>0, <2>2
<1>13. Ring(N, u.m_buckets, Homes(u, J), Lows(u, J), J)
  <2>1. Ring(N, B, Homes(t, I), Lows(t, I), I)
    BY <1>0 DEF Good
  <2>2. Homes(u, J)[w] = Homes(t, I)[v] /\ Lows(u, J)[w] = Lows(t, I)[v]
    <3>1. KeyAt(u, w) = KeyAt(t, v)
      BY <1>0, <1>2, <1>9
    <3> QED
      BY <1>0, <1>5, <3>1, HomesAgain DEF Homes, Lows
  <2>3. ASSUME NEW x \in I \ {v}
        PROVE  Homes(u, J)[x] = Homes(t, I)[x] /\ Lows(u, J)[x] = Lows(t, I)[x]
    <3>1. KeyAt(u, x) = KeyAt(t, x)
      BY <1>0, <1>9, <1>11
    <3> QED
      BY <1>0, <1>5, <3>1, HomesAgain DEF Homes, Lows
  <2> DEFINE h1 == Homes(t, I)
             l1 == Lows(t, I)
             h2 == Homes(u, J)
             l2 == Lows(u, J)
  <2>4. Renamed(N, B, C, p, v, w)
    BY <1>0, <1>2, <1>6 DEF Renamed
  <2>5. Rehomed(h1, l1, h2, l2, I, v, w)
    BY <1>0, <2>2, <2>3 DEF Rehomed
  <2>6. Ring(N, C, h2, l2, (I \ {v}) \cup {w})
    <3>1. Ring(N, B, h1, l1, I)
      BY <1>0, <2>1
    <3> HIDE DEF J, B, N, h1, l1, h2, l2
    <3> QED
      BY <1>0, <2>4, <2>5, <3>1, RenamedRing
  <2> QED
    BY <1>0, <1>5, <2>6
<1>14. Good(u, X, J)
  BY <1>0, <1>5, <1>10, <1>11, <1>12, <1>13, GoodIf
<1> QED
  BY <1>5, <1>7, <1>8, <1>14 DEF MovesTo

\* What is common to the tables before and after an erasure.
Shrunk(t, u, X, v) ==
  /\ v \in Indexes(t) /\ size(u) = size(t) - 1
  /\ Whole(u, X) /\ SameSizes(t, u)
  /\ \A i \in Indexes(u) : u.m_values[i + 1] = t.m_values[(IF i = v THEN size(t) - 1 ELSE i) + 1]

\* Erasing a value: the last one takes its index, and every other keeps its own.
LEMMA ErasedWhole ==
  ASSUME NEW t, NEW X, Whole(t, X),
         NEW p \in 0..(bucket_count(t) - 1), D(t.m_buckets, p) # 0
  PROVE  Shrunk(t, do_erase(t, p), X, V(t.m_buckets, p))
<1> DEFINE v == V(t.m_buckets, p)
           back == size(t) - 1
           I == Indexes(t)
           shifted == erase_and_shift_down(t, p)
           moved == BucketOf(shifted, KeyAt(t, back), back)
           filled == [shifted EXCEPT !.m_values[v + 1] = Last(t.m_values),
                                     !.m_buckets[moved].m_value_idx = v]
           u == do_erase(t, p)
<1>1. Good(t, X, I) /\ size(t) <= bucket_count(t) /\ bucket_count(t) \in Nat
  BY Probing DEF Whole
<1>2. v \in I
  BY <1>1 DEF Good, Ring, AtDistance
<1>3. size(t) \in Nat /\ size(t) > 0 /\ back \in I /\ I \subseteq Nat
  <2>1. size(t) \in Nat
    BY <1>1 DEF Good, ValuesTyped, size
  <2> QED
    BY <1>2, <2>1 DEF Indexes
<1>4. Good(shifted, X, I \ {v}) /\ Alike(t, shifted)
  BY <1>1, ErasedTable
<1>5. /\ SameSizes(t, shifted) /\ size(shifted) = size(t) /\ Indexes(shifted) = I
      /\ shifted.m_values = t.m_values /\ bucket_count(shifted) = bucket_count(t)
      /\ \A i : KeyAt(shifted, i) = KeyAt(t, i)
  BY <1>4 DEF Alike, SameSizes, size, Indexes, KeyAt
<1>6. u = pop_back(IF v = back THEN shifted ELSE filled)
  BY DEF do_erase, at, V
<1>7. CASE v = back
  <2>1. I \ {v} = 0..(size(t) - 2) /\ size(shifted) > 0
    BY <1>3, <1>5, <1>7 DEF Indexes
  <2> HIDE DEF shifted, u, v, I
  <2>2. /\ Good(u, X, I \ {v}) /\ SameSizes(shifted, u) /\ size(u) = size(t) - 1
        /\ \A i \in Indexes(u) : u.m_values[i + 1] = t.m_values[i + 1]
    BY <1>4, <1>5, <1>6, <1>7, <2>1, PoppedTable
  <2>3. Indexes(u) = 0..(size(t) - 2)
    BY <1>3, <2>2 DEF Indexes
  <2>4. SameSizes(t, u)
    BY <1>5, <2>2 DEF SameSizes
  <2>5. Whole(u, X)
    <3>1. Good(u, X, Indexes(u))
      BY <2>1, <2>2, <2>3
    <3>2. size(u) <= bucket_count(u)
      BY <1>1, <1>3, <2>2, <2>4 DEF SameSizes
    <3> QED
      BY <3>1, <3>2 DEF Whole
  <2>6. \A i \in Indexes(u) : i # v
    BY <2>1, <2>3
  <2> QED
    BY <1>2, <1>3, <2>2, <2>4, <2>5, <2>6 DEF Shrunk, u, v, I
<1>8. CASE v # back
  <2> HIDE DEF shifted, u, v, I
  <2>1. /\ moved \in 0..(bucket_count(shifted) - 1)
        /\ D(shifted.m_buckets, moved) # 0 /\ V(shifted.m_buckets, moved) = back
    <3>1. back \in I \ {v} /\ moved = BucketOf(shifted, KeyAt(shifted, back), back)
      BY <1>3, <1>5, <1>8
    <3> HIDE DEF moved
    <3> QED
      BY <1>4, <3>1, BucketOfIs
  <2>2. Relabelled(shifted, filled, I \ {v}, moved, back, v)
    <3>1. filled = [shifted EXCEPT !.m_values[v + 1] = shifted.m_values[back + 1],
                                   !.m_buckets[moved].m_value_idx = v]
      BY <1>3, <1>5 DEF Last, size
    <3>2. v \in Indexes(shifted) \ (I \ {v}) /\ back \in I \ {v}
      BY <1>2, <1>3, <1>5, <1>8
    <3> HIDE DEF filled, moved, back
    <3> QED
      BY <2>1, <3>1, <3>2 DEF Relabelled
  <2> HIDE DEF moved, filled
  <2>4. /\ Good(filled, X, ((I \ {v}) \ {back}) \cup {v}) /\ SameSizes(shifted, filled)
        /\ size(filled) = size(shifted)
        /\ \A i \in Indexes(shifted) :
             filled.m_values[i + 1] = shifted.m_values[(IF i = v THEN back ELSE i) + 1]
    <3> DEFINE J == I \ {v}
    <3>1. Good(shifted, X, J) /\ Relabelled(shifted, filled, J, moved, back, v)
      BY <1>4, <2>2
    <3> HIDE DEF J, back
    <3>2. /\ Good(filled, X, (J \ {back}) \cup {v}) /\ SameSizes(shifted, filled)
          /\ size(filled) = size(shifted) /\ MovesTo(shifted, filled, back, v)
      BY <3>1, RenamedTable
    <3> QED
      BY <3>2 DEF J, MovesTo
  <2>5. ((I \ {v}) \ {back}) \cup {v} = 0..(size(filled) - 2)
    BY <1>2, <1>3, <1>5, <1>8, <2>4 DEF Indexes, I
  <2>6. u = pop_back(filled) /\ size(filled) > 0 /\ 0..(size(filled) - 2) \subseteq 0..(size(filled) - 2)
    BY <1>3, <1>5, <1>6, <1>8, <2>4
  <2>7. /\ Good(u, X, 0..(size(filled) - 2)) /\ SameSizes(filled, u) /\ size(u) = size(filled) - 1
        /\ \A i \in Indexes(u) : u.m_values[i + 1] = filled.m_values[i + 1]
    <3> DEFINE K == 0..(size(filled) - 2)
    <3>1. Good(filled, X, K) /\ K \subseteq 0..(size(filled) - 2)
      BY <2>4, <2>5
    <3> HIDE DEF K
    <3>2. /\ Good(u, X, K) /\ SameSizes(filled, u) /\ size(u) = size(filled) - 1
          /\ \A i \in Indexes(u) : u.m_values[i + 1] = filled.m_values[i + 1]
      BY <2>6, <3>1, PoppedTable, ZenonT(60)
    <3> QED
      BY <3>2 DEF K
  <2>8. Indexes(u) = 0..(size(filled) - 2) /\ size(u) = size(t) - 1 /\ Indexes(u) \subseteq I
    BY <1>3, <1>5, <2>4, <2>7 DEF Indexes, I
  <2>9. SameSizes(t, u)
    BY <1>5, <2>4, <2>7 DEF SameSizes
  <2>10. Whole(u, X)
    BY <1>1, <1>3, <2>7, <2>8, <2>9 DEF Whole, SameSizes
  <2>11. \A i \in Indexes(u) : u.m_values[i + 1] = t.m_values[(IF i = v THEN back ELSE i) + 1]
    BY <1>5, <2>4, <2>7, <2>8
  <2> QED
    BY <1>2, <2>8, <2>9, <2>10, <2>11 DEF Shrunk, u, v, I
<1> QED
  BY <1>7, <1>8

\* Erasing by a value's index.
LEMMA ErasedAt ==
  ASSUME NEW t, NEW X, Whole(t, X), NEW v \in Indexes(t)
  PROVE  Shrunk(t, EraseAt(t, v), X, v)
<1> DEFINE p == BucketOf(t, KeyAt(t, v), v)
<1>1. Good(t, X, Indexes(t))
  BY DEF Whole
<1>2. p \in 0..(bucket_count(t) - 1) /\ D(t.m_buckets, p) # 0 /\ V(t.m_buckets, p) = v
  BY <1>1, BucketOfIs
<1>3. EraseAt(t, v) = do_erase(t, p)
  BY DEF EraseAt
<1> HIDE DEF p
<1> QED
  BY <1>2, <1>3, ErasedWhole

\* Erasing by key: the value with the key, and nothing if there is none.
LEMMA ErasedKey ==
  ASSUME NEW t, NEW X, Whole(t, X), NEW key \in DOMAIN t.type.hash, NEW u, u = do_erase_key(t, key)
  PROVE  /\ \A v \in Indexes(t) : KeyAt(t, v) = key => Shrunk(t, u, X, v)
         /\ (\A v \in Indexes(t) : KeyAt(t, v) # key) => u = t
<1> DEFINE N == bucket_count(t)
           I == Indexes(t)
           h == bucket_idx_from_hash(t, key)
           l == t.type.hash[key].low
           B == t.m_buckets
           less == next_while_less(t, key)
           Stop(m) == m >= less /\ (Holds(t, key, m) \/ ~SameDistance(t, key, m))
           S == {k \in Steps(t) : Stop(k)}
           n == First(t, LAMBDA m :
                  m >= less /\ (Holds(t, key, m) \/ ~SameDistance(t, key, m)))
<1>1. Good(t, X, I) /\ N \in Nat /\ Steps(t) = 0..N /\ Ring(N, B, Homes(t, I), Lows(t, I), I)
  <2>1. Good(t, X, I)
    BY DEF Whole
  <2> QED
    BY <2>1, Probing DEF Good
<1>2. /\ less \in Steps(t) /\ (SameDistance(t, key, less) \/ Richer(t, key, less))
      /\ \A m \in 0..(less - 1) : ~SameDistance(t, key, m) /\ ~Richer(t, key, m)
  BY <1>1, WhileLessIs
<1> HIDE DEF less, I
<1>3. \A k \in Steps(t) :
        /\ h \in 0..(N - 1) /\ l \in 0..255 /\ Behind(N, h, k) \in 0..(N - 1)
        /\ SameDistance(t, key, k) <=> (Dist(l, k) = D(B, Behind(N, h, k)))
        /\ Richer(t, key, k) <=> (Dist(l, k) > D(B, Behind(N, h, k)))
        /\ Bucket(t, key, k) = B[Behind(N, h, k)]
        /\ D(B, Behind(N, h, k)) \in Nat /\ Dist(l, k) \in Nat /\ Dist(l, k) >= 256
  <2> TAKE k \in Steps(t)
  <2> HIDE DEF N, h, l, B
  <2>1. h \in 0..(N - 1) /\ l \in 0..255 /\ Behind(N, h, k) \in 0..(N - 1)
    <3>1. h \in 0..(N - 1) /\ l \in 0..255
      BY <1>1, HomeIs, ZenonT(60) DEF Good, ValuesTyped, N, h, l
    <3> QED
      BY <1>1, <3>1, BehindIs
  <2>3. SameDistance(t, key, k) <=> (Dist(l, k) = D(B, Behind(N, h, k)))
    BY <1>1, ProbeStep DEF N, h, l, B
  <2>4. Richer(t, key, k) <=> (Dist(l, k) > D(B, Behind(N, h, k)))
    BY <1>1, ProbeStep DEF N, h, l, B
  <2>2. /\ Bucket(t, key, k) = B[Behind(N, h, k)]
        /\ D(B, Behind(N, h, k)) \in Nat /\ Dist(l, k) \in Nat /\ Dist(l, k) >= 256
    BY <1>1, ProbeStep DEF N, h, l, B
  <2> QED
    BY <2>1, <2>2, <2>3, <2>4
<1>4. PICK k \in S : \A m \in 0..(k - 1) : m \notin S
  <2>1. N \in Steps(t) /\ Richer(t, key, N)
    BY <1>1, RicherAtEnd
  <2>2. ~SameDistance(t, key, N)
    <3> HIDE DEF N, l, h, B
    <3> QED
      BY <1>3, <2>1
  <2>3. N >= less
    BY <1>1, <1>2
  <2>4. S \subseteq Steps(t) /\ S # {}
    BY <2>1, <2>2, <2>3
  <2> HIDE DEF S
  <2> QED
    BY <1>1, <2>4, FirstStep
<1>5. \A m \in 0..(k - 1) : m \in Steps(t)
  BY <1>1
<1>6. n = CHOOSE y \in Steps(t) : Stop(y) /\ \A m \in 0..(y - 1) : ~Stop(m)
  BY DEF First
<1>7. u = IF size(t) > 0 /\ Holds(t, key, n) THEN do_erase(t, Place(t, key, n)) ELSE t
  BY DEF do_erase_key, less, First
<1> HIDE DEF n, Stop
<1>8. n \in Steps(t) /\ Stop(n) /\ \A m \in 0..(n - 1) : ~Stop(m)
  BY <1>4, <1>5, <1>6
<1>9. ASSUME NEW v \in I, KeyAt(t, v) = key PROVE Holds(t, key, n)
  <2>1. PICK x \in Steps(t) : Holds(t, key, x) /\ \A m \in 0..x : ~Richer(t, key, m)
    BY <1>1, <1>9, Holder
  <2>2. SameDistance(t, key, x)
    BY <2>1 DEF Holds
  <2>3. less <= x
    BY <1>1, <1>2, <2>1, <2>2
  <2>4. Stop(x) /\ n <= x /\ n >= less
    <3>1. Stop(x)
      BY <2>1, <2>3 DEF Stop
    <3>2. n >= less
      BY <1>8 DEF Stop
    <3> QED
      BY <1>1, <1>8, <2>1, <3>1, <3>2
  <2> DEFINE T == {m \in less..n : SameDistance(t, key, m)}
  <2>5. less \in T /\ less \in Nat /\ n \in Nat
    <3>1. ~Richer(t, key, less)
      BY <1>1, <1>2, <2>1, <2>3
    <3>2. less \in Nat /\ n \in Nat
      BY <1>1, <1>2, <1>8
    <3> QED
      BY <1>2, <2>4, <3>1, <3>2
  <2>6. ASSUME NEW m \in less..(n - 1), m \in T PROVE m + 1 \in T
    <3>1. /\ m \in Steps(t) /\ m + 1 \in Steps(t) /\ m \in 0..N /\ m + 1 <= N /\ m \in Nat
          /\ m + 1 \in 0..x /\ m + 1 \in less..n
      BY <1>1, <1>8, <2>1, <2>4, <2>5
    <3>2. D(B, Behind(N, h, m)) = Dist(l, m) /\ ~Richer(t, key, m + 1)
      BY <1>3, <2>1, <2>6, <3>1
    <3>3. Behind(N, Behind(N, h, m), 1) = Behind(N, h, m + 1)
      <4>1. h \in 0..(N - 1)
        BY <1>3, <3>1
      <4> HIDE DEF h, N
      <4> QED
        BY <1>1, <3>1, <4>1 DEF Behind
    <3>4. D(B, Behind(N, h, m + 1)) < D(B, Behind(N, h, m)) + 257
      <4>1. /\ D(B, Behind(N, h, m)) # 0 /\ Behind(N, h, m) \in 0..(N - 1)
        <5> HIDE DEF N, h, l, B
        <5> QED
          BY <1>3, <3>1, <3>2
      <4> QED
        BY <1>1, <3>3, <4>1 DEF Ring, Ordered
    <3>5. Dist(l, m + 1) = Dist(l, m) + 256
      BY <1>3, <3>1, DistIs, ZenonT(60)
    <3>6. SameDistance(t, key, m + 1)
      <4>1. /\ SameDistance(t, key, m + 1) <=> (Dist(l, m + 1) = D(B, Behind(N, h, m + 1)))
            /\ Richer(t, key, m + 1) <=> (Dist(l, m + 1) > D(B, Behind(N, h, m + 1)))
            /\ D(B, Behind(N, h, m + 1)) \in Nat /\ Dist(l, m + 1) \in Nat /\ Dist(l, m) \in Nat
        BY <1>3, <3>1
      <4> HIDE DEF N, h, l, B
      <4> QED
        BY <3>2, <3>4, <3>5, <4>1
    <3> QED
      BY <3>1, <3>6
  <2>7. n \in T
    <3> HIDE DEF T
    <3>1. \A m \in less..n : m \in T
      BY <2>5, <2>6, InductionUpTo
    <3>2. n \in less..n
      BY <2>4, <2>5
    <3> QED
      BY <3>1, <3>2
  <2> QED
    BY <1>8, <2>7 DEF Stop
<1>10. ASSUME NEW v \in I, KeyAt(t, v) = key PROVE Shrunk(t, u, X, v)
  <2>1. Holds(t, key, n) /\ Bucket(t, key, n).m_value_idx \in I
    BY <1>1, <1>8, <1>9, <1>10, HoldsIs
  <2>2. Bucket(t, key, n).m_value_idx = v
    <3>1. KeyAt(t, Bucket(t, key, n).m_value_idx) = key
      BY <1>1, <1>8, <2>1, HoldsIs
    <3> QED
      BY <1>1, <1>10, <2>1, <3>1 DEF Good, DistinctKeys
  <2>3. size(t) > 0
    <3>1. size(t) \in Nat
      BY <1>1 DEF Good, ValuesTyped, size
    <3> QED
      BY <1>10, <3>1 DEF I, Indexes
  <2>4. u = do_erase(t, Place(t, key, n))
    BY <1>7, <2>1, <2>3
  <2>5. /\ Place(t, key, n) \in 0..(N - 1) /\ D(B, Place(t, key, n)) # 0
        /\ V(B, Place(t, key, n)) = v
    <3>1. Place(t, key, n) = Behind(N, h, n)
      BY <1>1, <1>8, Probing, SMTT(30)
    <3>2. SameDistance(t, key, n)
      BY <2>1 DEF Holds
    <3> HIDE DEF N, h, l, B
    <3> QED
      BY <1>3, <1>8, <2>2, <3>1, <3>2 DEF V
  <2> QED
    BY <2>4, <2>5, ErasedWhole
<1>11. ASSUME \A v \in I : KeyAt(t, v) # key PROVE u = t
  <2>1. ~Holds(t, key, n)
    BY <1>1, <1>8, <1>11, HoldsIs
  <2> QED
    BY <1>7, <2>1
<1> QED
  BY <1>10, <1>11 DEF I

-----------------------------------------------------------------------------
(* Values put in. *)

\* Not more values than buckets, and one of them without a bucket: one is empty.
LEMMA RoomLeft ==
  ASSUME NEW t, NEW X, NEW I, Good(t, X, I), NEW w \in Indexes(t) \ I,
         size(t) <= bucket_count(t)
  PROVE  \E i \in 0..(bucket_count(t) - 1) : D(t.m_buckets, i) = 0
<1> DEFINE N == bucket_count(t)
           n == size(t)
           S == 0..(n - 1)
<1>1. n \in Nat /\ N \in Nat /\ I \subseteq S /\ w \in S /\ w \notin I
  <2>1. n \in Nat
    BY DEF Good, ValuesTyped, size
  <2> QED
    BY <2>1, Probing DEF Good, Indexes
<1> HIDE DEF n
<1>2. IsFiniteSet(S) /\ Cardinality(S) = n
  <2>1. 0 \in Int /\ n - 1 \in Int
    BY <1>1
  <2>2. IsFiniteSet(S) /\ Cardinality(S) = IF 0 > n - 1 THEN 0 ELSE (n - 1) - 0 + 1
    BY <2>1, FS_Interval
  <2> QED
    BY <1>1, <2>2
<1> HIDE DEF S
<1>3. IsFiniteSet(I) /\ Cardinality(I) <= n /\ (Cardinality(I) = n => I = S)
  BY <1>1, <1>2, FS_Subset
<1>4. Cardinality(I) < N
  <2>1. Cardinality(I) # n /\ n <= N
    BY <1>1, <1>3 DEF n
  <2>2. Cardinality(I) \in Nat
    BY <1>3, FS_CardinalityType
  <2> QED
    BY <1>1, <1>3, <2>1, <2>2
<1>5. Ring(N, t.m_buckets, Homes(t, I), Lows(t, I), I)
  BY DEF Good
<1> HIDE DEF N
<1>6. \E i \in 0..(N - 1) : D(t.m_buckets, i) = 0
  BY <1>3, <1>4, <1>5, SomeEmpty
<1> QED
  BY <1>6 DEF N

\* A value of a key that no value with a bucket has gets its own.
LEMMA ValuePlaced ==
  ASSUME NEW t, NEW X, NEW I, Good(t, X, I), NEW v \in Indexes(t) \ I,
         size(t) <= bucket_count(t), DistinctKeys(t, I \cup {v})
  PROVE  Good(PlaceValue(t, v), X, I \cup {v}) /\ Alike(t, PlaceValue(t, v))
<1> DEFINE key == KeyAt(t, v)
           n == next_while_less(t, key)
<1>1. key \in DOMAIN t.type.hash
  BY KeyIs DEF Good
<1>2. /\ n \in Steps(t) /\ (SameDistance(t, key, n) \/ Richer(t, key, n))
      /\ \A m \in 0..(n - 1) : ~Richer(t, key, m)
  BY <1>1, WhileLessIs
<1>3. \E i \in 0..(bucket_count(t) - 1) : D(t.m_buckets, i) = 0
  BY RoomLeft
<1>4. PlaceValue(t, v) = place_and_shift_up(t, NewBucket(t, key, n, v), Place(t, key, n))
  BY DEF PlaceValue
<1> HIDE DEF n
<1> QED
  BY <1>2, <1>3, <1>4, PlacedTable

\* No bucket is taken after clear_buckets.
LEMMA ClearedTable ==
  ASSUME NEW t, NEW X, ValuesTyped(t, X), Sizes(t), bucket_count(t) \in Nat, bucket_count(t) >= 2,
         DOMAIN t.m_buckets = 0..(bucket_count(t) - 1), NEW u, u = clear_buckets(t)
  PROVE  Good(u, X, {}) /\ Alike(t, u)
<1> DEFINE N == bucket_count(t)
           C == [i \in 0..(N - 1) |-> Empty]
<1>1. DOMAIN t = Fields
  BY DEF ValuesTyped
<1>2. u = [t EXCEPT !.m_buckets = C]
  BY <1>1 DEF clear_buckets, Fields
<1>3. Alike(t, u) /\ u.m_buckets = C
  <2>1. DOMAIN C = DOMAIN t.m_buckets
    OBVIOUS
  <2> HIDE DEF C
  <2> QED
    BY <1>1, <1>2, <2>1, AlikeIs
<1>4. C \in [0..(N - 1) -> Bucket0] /\ \A i \in 0..(N - 1) : D(C, i) = 0
  BY DEF Empty, Bucket0, D
<1> HIDE DEF C, N
<1>5. Ring(N, C, Homes(t, {}), Lows(t, {}), {})
  BY <1>4, EmptyRing DEF N
<1>6. {} \subseteq Indexes(t) /\ DistinctKeys(t, {})
  BY DEF DistinctKeys
<1> QED
  BY <1>3, <1>5, <1>6, GoodAgain DEF N

\* Every value gets its bucket when all of them are filled in again.
LEMMA FilledTable ==
  ASSUME NEW t, NEW X, ValuesTyped(t, X), Sizes(t), bucket_count(t) \in Nat, bucket_count(t) >= 2,
         DOMAIN t.m_buckets = 0..(bucket_count(t) - 1),
         size(t) <= bucket_count(t), DistinctKeys(t, Indexes(t)),
         NEW u, u = clear_and_fill_buckets_from_values(t)
  PROVE  Whole(u, X) /\ Alike(t, u)
<1> DEFINE M == size(t)
           Fills(f) == f = [n \in 0..M |-> IF n = 0 THEN clear_buckets(t)
                                           ELSE PlaceValue(f[n - 1], n - 1)]
           Until(k, f) == /\ f = [n \in 0..M |-> f[n]]
                          /\ f[0] = clear_buckets(t)
                          /\ \A n \in 1..k : f[n] = PlaceValue(f[n - 1], n - 1)
           K == {k \in 0..M : \E f : Until(k, f)}
           filled == CHOOSE f : Fills(f)
<1>1. M \in Nat
  BY DEF ValuesTyped, size
<1> HIDE DEF M
<1>2. 0 \in K
  <2> DEFINE f == [n \in 0..M |-> clear_buckets(t)]
  <2>1. Until(0, f) /\ 0 \in 0..M
    BY <1>1
  <2> HIDE DEF Until, f
  <2> QED
    BY <2>1
<1>3. ASSUME NEW k \in 0..(M - 1), k \in K PROVE k + 1 \in K
  <2>1. PICK f : Until(k, f)
    BY <1>3
  <2> DEFINE g == [n \in 0..M |-> IF n = k + 1 THEN PlaceValue(f[k], k) ELSE f[n]]
  <2>2. k + 1 \in 0..M /\ k \in 0..M /\ k # k + 1 /\ 0 # k + 1 /\ 0 \in 0..M
    BY <1>1
  <2>3. g[0] = f[0] /\ g[k + 1] = PlaceValue(f[k], k) /\ \A n \in 0..k : g[n] = f[n]
    BY <1>1, <2>2
  <2>4. g = [n \in 0..M |-> g[n]]
    OBVIOUS
  <2> HIDE DEF g
  <2>5. ASSUME NEW n \in 1..(k + 1) PROVE g[n] = PlaceValue(g[n - 1], n - 1)
    <3>1. n - 1 \in 0..k /\ (n = k + 1 => n - 1 = k) /\ (n # k + 1 => n \in 1..k /\ n \in 0..k)
      BY <1>1
    <3> QED
      BY <2>1, <2>3, <3>1
  <2>6. Until(k + 1, g)
    BY <2>1, <2>3, <2>4, <2>5
  <2> HIDE DEF Until
  <2> QED
    BY <2>2, <2>6
<1>4. PICK f : Until(M, f)
  <2> HIDE DEF K
  <2>1. \A k \in 0..M : k \in K
    BY <1>1, <1>2, <1>3, InductionUpTo
  <2>2. M \in 0..M
    BY <1>1
  <2> QED
    BY <2>1, <2>2 DEF K
<1>5. Fills(f)
  <2>1. \A n \in 0..M : n = 0 \/ n \in 1..M
    BY <1>1
  <2> QED
    BY <1>4, <2>1
<1>6. Fills(filled)
  <2> HIDE DEF Fills
  <2> QED
    BY <1>5
<1>7. u = filled[M]
  BY DEF clear_and_fill_buckets_from_values, M
<1> HIDE DEF filled
<1>8. filled[0] = clear_buckets(t) /\ \A n \in 1..M : filled[n] = PlaceValue(filled[n - 1], n - 1)
  <2>1. 0 \in 0..M /\ \A n \in 1..M : n \in 0..M /\ n # 0
    BY <1>1
  <2>2. \A n \in 0..M : filled[n] = IF n = 0 THEN clear_buckets(t)
                                    ELSE PlaceValue(filled[n - 1], n - 1)
    BY <1>6
  <2> QED
    BY <2>1, <2>2
<1> DEFINE G == {n \in 0..M : Good(filled[n], X, 0..(n - 1)) /\ Alike(t, filled[n])}
<1>9. 0 \in G
  <2>1. Good(filled[0], X, {}) /\ Alike(t, filled[0])
    BY <1>8, ClearedTable
  <2>2. 0 \in 0..M /\ 0..(0 - 1) = {}
    BY <1>1
  <2> QED
    BY <2>1, <2>2
<1>10. ASSUME NEW n \in 0..(M - 1), n \in G PROVE n + 1 \in G
  <2> DEFINE s == filled[n]
             I == 0..(n - 1)
  <2>1. Good(s, X, I) /\ Alike(t, s) /\ n + 1 \in 0..M
    BY <1>1, <1>10
  <2>2. filled[n + 1] = PlaceValue(s, n)
    <3>1. n + 1 \in 1..M /\ (n + 1) - 1 = n
      BY <1>1
    <3> QED
      BY <1>8, <3>1
  <2>3. n \in Indexes(s) \ I /\ size(s) <= bucket_count(s) /\ DistinctKeys(s, I \cup {n})
        /\ I \cup {n} = 0..((n + 1) - 1)
    <3>1. Indexes(s) = 0..(M - 1) /\ size(s) <= bucket_count(s) /\ \A v : KeyAt(s, v) = KeyAt(t, v)
      BY <2>1 DEF Alike, SameSizes, Indexes, size, M, KeyAt
    <3>2. I \cup {n} \subseteq Indexes(t) /\ n \in 0..(M - 1) /\ n \notin I
          /\ I \cup {n} = 0..((n + 1) - 1)
      BY <1>1 DEF Indexes, M
    <3>3. DistinctKeys(s, I \cup {n})
      BY <3>1, <3>2 DEF DistinctKeys
    <3> QED
      BY <3>1, <3>2, <3>3
  <2> HIDE DEF s, I
  <2>4. Good(PlaceValue(s, n), X, I \cup {n}) /\ Alike(s, PlaceValue(s, n))
    BY <2>1, <2>3, ValuePlaced
  <2>5. Alike(t, PlaceValue(s, n))
    BY <2>1, <2>4 DEF Alike, SameSizes
  <2> QED
    BY <2>1, <2>2, <2>3, <2>4, <2>5
<1>11. M \in G
  <2> HIDE DEF G
  <2>1. \A n \in 0..M : n \in G
    BY <1>1, <1>9, <1>10, InductionUpTo
  <2>2. M \in 0..M
    BY <1>1
  <2> QED
    BY <2>1, <2>2
<1>12. Good(u, X, Indexes(t)) /\ Alike(t, u)
  BY <1>7, <1>11 DEF Indexes, M
<1> QED
  BY <1>12 DEF Whole, Alike, SameSizes, Indexes, size

-----------------------------------------------------------------------------
(* Numbers of buckets. *)

\* A part of a number, in percent.
LEMMA Percent ==
  ASSUME NEW n \in Nat, NEW lf \in 1..100
  PROVE  (n * lf) \div 100 \in 0..n
<1>1. n * lf \in Nat /\ n * lf <= n * 100
  BY SMT
<1> DEFINE x == n * lf
<1> HIDE DEF x
<1>2. \A y \in Nat : y <= n * 100 => y \div 100 \in 0..n
  BY SMT
<1> QED
  BY <1>1, <1>2

\* m_shifts may be anything that asks for four buckets or more and not for too many.
ShiftsFor(type, shifts) ==
  \E b \in 2..HighBits : type.max_bucket_count = Pow2[b] /\ shifts \in (64 - b)..initial_shifts

\* So many buckets it asks for.
LEMMA NumBucketsIs ==
  ASSUME NEW t, NEW X, ValuesTyped(t, X), NEW shifts, ShiftsFor(t.type, shifts),
         NEW N, N = calc_num_buckets(t, shifts)
  PROVE  /\ shifts \in 8..62
         /\ N = Pow2[64 - shifts] /\ N \in Nat /\ N >= 4 /\ N <= t.type.max_bucket_count
         /\ t.type.max_bucket_count \in Nat
         /\ MaxLoad(t, N) \in 0..N
<1>1. PICK b \in 2..HighBits : /\ t.type.max_bucket_count = Pow2[b]
                               /\ shifts \in (64 - b)..initial_shifts
  BY DEF ShiftsFor
<1> DEFINE a == 64 - shifts
           c == b - a
<1>2. /\ a \in 0..56 /\ c \in 0..56 /\ a + c = b /\ a + c <= 56 /\ b \in 0..56 /\ shifts \in 8..62
      /\ 2 \in 0..56 /\ a - 2 \in 0..56 /\ 2 + (a - 2) = a /\ 2 + (a - 2) <= 56
  BY <1>1, HighBitsAssumption DEF initial_shifts
<1>3. Pow2[a] \in Nat /\ Pow2[b] \in Nat /\ Pow2[a] <= Pow2[b]
  <2>1. Pow2[a] <= Pow2[a + c]
    <3> HIDE DEF a, c
    <3> QED
      BY <1>2, Pow2Grows
  <2> QED
    BY <1>2, <2>1, Pow2Is
<1>4. Pow2[a] >= 4
  <2>1. Pow2[2] = 4
    <3>1. Pow2[0] = 1 /\ Pow2[1] = 2 * Pow2[1 - 1] /\ Pow2[2] = 2 * Pow2[2 - 1]
      BY Pow2Is
    <3> QED
      BY <3>1
  <2> DEFINE d == a - 2
  <2>2. d \in 0..56 /\ 2 + d = a /\ 2 + d <= 56
    BY <1>2
  <2>3. Pow2[2] <= Pow2[2 + d]
    <3> HIDE DEF d
    <3> QED
      BY <1>2, <2>2, Pow2Grows
  <2> QED
    BY <1>3, <2>1, <2>2, <2>3
<1>5. N = Pow2[a]
  BY <1>1, <1>3 DEF calc_num_buckets, Min2
<1>6. MaxLoad(t, N) \in 0..N
  BY <1>3, <1>5, Percent DEF MaxLoad, ValuesTyped
<1> QED
  BY <1>1, <1>2, <1>3, <1>4, <1>5, <1>6

\* The shifts for a size that fits leave room for it.
LEMMA ShiftsForSize ==
  ASSUME NEW t, NEW X, ValuesTyped(t, X), NEW s \in Nat, Fits(t, s),
         NEW shifts, shifts = calc_shifts_for_size(t, s)
  PROVE  ShiftsFor(t.type, shifts) /\ s <= calc_num_buckets(t, shifts)
<1> DEFINE S == {x \in (64 - HighBits)..initial_shifts : s <= MaxLoad(t, calc_num_buckets(t, x))}
<1>1. PICK b \in 2..HighBits : t.type.max_bucket_count = Pow2[b]
  BY DEF ValuesTyped, TypeArguments
<1>2. 64 - b \in S
  <2>1. calc_num_buckets(t, 64 - b) = t.type.max_bucket_count
    <3>1. 64 - (64 - b) = b /\ b \in 0..56
      BY HighBitsAssumption
    <3>2. Pow2[b] \in Nat
      BY <3>1, Pow2Is
    <3> QED
      BY <1>1, <3>1, <3>2 DEF calc_num_buckets, Min2
  <2>2. 64 - b \in (64 - HighBits)..initial_shifts
    BY HighBitsAssumption DEF initial_shifts
  <2> QED
    BY <2>1, <2>2 DEF Fits
<1>3. S \subseteq Nat /\ \A y \in S : y <= 62
  BY HighBitsAssumption DEF initial_shifts
<1>4. PICK x \in S : \A y \in S : y <= x
  <2>1. 62 \in Nat /\ S # {}
    BY <1>2
  <2> HIDE DEF S
  <2> QED
    BY <1>3, <2>1, GreatestElement
<1>5. shifts = CHOOSE y \in S : \A z \in S : y >= z
  BY DEF calc_shifts_for_size, Max
<1> HIDE DEF S
<1>6. shifts \in S /\ \A z \in S : shifts >= z
  <2>1. \A z \in S : x >= z
    BY <1>3, <1>4
  <2> QED
    BY <1>5, <2>1
<1>7. ShiftsFor(t.type, shifts)
  <2>1. shifts >= 64 - b
    BY <1>2, <1>6
  <2>2. shifts \in (64 - b)..initial_shifts
    BY <1>3, <1>6, <2>1 DEF initial_shifts
  <2> QED
    BY <1>1, <2>2 DEF ShiftsFor
<1>8. /\ calc_num_buckets(t, shifts) \in Nat
      /\ MaxLoad(t, calc_num_buckets(t, shifts)) \in 0..calc_num_buckets(t, shifts)
  BY <1>7, NumBucketsIs
<1>9. s <= MaxLoad(t, calc_num_buckets(t, shifts))
  BY <1>6 DEF S
<1> QED
  BY <1>7, <1>8, <1>9

\* The fields that new buckets leave alone.
Kept(t, u) ==
  /\ DOMAIN u = Fields
  /\ u.m_values = t.m_values /\ u.type = t.type /\ u.m_max_load_factor = t.m_max_load_factor

\* New buckets are empty, and as many as were asked for.
LEMMA AllocatedTable ==
  ASSUME NEW t, NEW X, ValuesTyped(t, X), NEW shifts, ShiftsFor(t.type, shifts),
         NEW u, u = Allocated(t, shifts)
  PROVE  /\ Good(u, X, {}) /\ Kept(t, u) /\ u.m_shifts = shifts
         /\ bucket_count(u) = calc_num_buckets(t, shifts) /\ bucket_count(u) \in Nat
         /\ bucket_count(u) >= 4 /\ DOMAIN u.m_buckets = 0..(bucket_count(u) - 1)
         /\ ValuesTyped(u, X) /\ Sizes(u)
<1> DEFINE N == calc_num_buckets(t, shifts)
           max == t.type.max_bucket_count
           C == [i \in 0..(N - 1) |-> Empty]
           capacity == IF N = max THEN N ELSE MaxLoad(t, N)
<1>1. /\ N = Pow2[64 - shifts] /\ N \in Nat /\ N >= 4 /\ N <= max /\ max \in Nat
      /\ MaxLoad(t, N) \in 0..N
  BY NumBucketsIs
<1>2. DOMAIN t = Fields
  BY DEF ValuesTyped
<1>3. u = [t EXCEPT !.m_shifts = shifts, !.m_buckets = C, !.m_max_bucket_capacity = capacity]
  BY DEF Allocated
<1> HIDE DEF C, N, capacity
<1>4. /\ Kept(t, u) /\ u.m_shifts = shifts /\ u.m_buckets = C /\ u.m_max_bucket_capacity = capacity
  BY <1>2, <1>3 DEF Kept, Fields
<1>5. bucket_count(u) = N
  <2>1. DOMAIN C = 0..(N - 1) /\ 0 \in Int /\ N - 1 \in Int
    BY <1>1 DEF C
  <2>2. Cardinality(0..(N - 1)) = IF 0 > N - 1 THEN 0 ELSE (N - 1) - 0 + 1
    BY <2>1, FS_Interval
  <2> QED
    BY <1>1, <1>4, <2>1, <2>2 DEF bucket_count
<1>6. ValuesTyped(u, X)
  BY <1>4 DEF Kept, ValuesTyped
<1>7. Sizes(u)
  <2>1. capacity \in 0..N /\ (capacity = max <=> N = max)
    BY <1>1 DEF capacity
  <2>2. \E b \in 2..HighBits : /\ u.type.max_bucket_count = Pow2[b]
                               /\ u.m_shifts \in (64 - b)..initial_shifts
    BY <1>4 DEF ShiftsFor, Kept
  <2>3. u.type = t.type
    BY <1>4 DEF Kept
  <2>4. AtMaximum(u) <=> N = max
    BY <1>4, <2>1, <2>3 DEF AtMaximum
  <2> QED
    BY <1>1, <1>4, <1>5, <2>1, <2>2, <2>3, <2>4 DEF Sizes, AtMaximum
<1>8. Good(u, X, {})
  <2>1. u.m_buckets \in [0..(N - 1) -> Bucket0] /\ \A i \in 0..(N - 1) : D(u.m_buckets, i) = 0
    BY <1>4 DEF C, Empty, Bucket0, D
  <2>2. N >= 2
    BY <1>1
  <2>3. Ring(N, u.m_buckets, Homes(u, {}), Lows(u, {}), {})
    BY <1>1, <2>1, <2>2, EmptyRing
  <2> QED
    BY <1>5, <1>6, <1>7, <2>3 DEF Good, DistinctKeys
<1>9. DOMAIN u.m_buckets = 0..(bucket_count(u) - 1)
  BY <1>4, <1>5 DEF C
<1> QED
  BY <1>1, <1>4, <1>5, <1>6, <1>7, <1>8, <1>9 DEF N

\* All of the values in new buckets.
LEMMA RefilledTable ==
  ASSUME NEW t, NEW X, ValuesTyped(t, X), NEW shifts, ShiftsFor(t.type, shifts),
         size(t) <= calc_num_buckets(t, shifts), DistinctKeys(t, Indexes(t)),
         NEW u, u = Refilled(t, shifts)
  PROVE  Whole(u, X) /\ Kept(t, u)
<1> DEFINE s == Allocated(t, shifts)
<1>1. /\ Kept(t, s) /\ bucket_count(s) = calc_num_buckets(t, shifts)
      /\ bucket_count(s) \in Nat /\ bucket_count(s) >= 4
      /\ DOMAIN s.m_buckets = 0..(bucket_count(s) - 1) /\ ValuesTyped(s, X) /\ Sizes(s)
  BY AllocatedTable
<1>2. u = clear_and_fill_buckets_from_values(s)
  BY DEF Refilled
<1> HIDE DEF s
<1>3. size(s) <= bucket_count(s) /\ DistinctKeys(s, Indexes(s)) /\ bucket_count(s) >= 2
  BY <1>1 DEF Kept, size, DistinctKeys, Indexes, KeyAt
<1>4. Whole(u, X) /\ Alike(s, u)
  BY <1>1, <1>2, <1>3, FilledTable
<1> QED
  BY <1>1, <1>4 DEF Alike, SameSizes, Kept

\* What is known of a table that has a bucket for every value.
LEMMA WholeIs ==
  ASSUME NEW t, NEW X, Whole(t, X)
  PROVE  /\ Good(t, X, Indexes(t)) /\ ValuesTyped(t, X) /\ Sizes(t) /\ DOMAIN t = Fields
         /\ size(t) \in Nat /\ size(t) <= bucket_count(t) /\ bucket_count(t) \in Nat
         /\ bucket_count(t) >= 2 /\ DOMAIN t.m_buckets = 0..(bucket_count(t) - 1)
         /\ DistinctKeys(t, Indexes(t)) /\ ShiftsFor(t.type, t.m_shifts)
         /\ bucket_count(t) = calc_num_buckets(t, t.m_shifts)
<1>1. /\ Good(t, X, Indexes(t)) /\ ValuesTyped(t, X) /\ Sizes(t) /\ DOMAIN t = Fields
      /\ size(t) <= bucket_count(t) /\ DistinctKeys(t, Indexes(t)) /\ ShiftsFor(t.type, t.m_shifts)
  BY DEF Whole, Good, ValuesTyped, Sizes, ShiftsFor
<1>2. size(t) \in Nat
  BY <1>1 DEF ValuesTyped, size
<1>3. /\ bucket_count(t) \in Nat /\ bucket_count(t) >= 2
      /\ DOMAIN t.m_buckets = 0..(bucket_count(t) - 1)
  BY <1>1, Probing
<1>4. bucket_count(t) = calc_num_buckets(t, t.m_shifts)
  <2>1. bucket_count(t) = Pow2[64 - t.m_shifts]
    BY <1>1 DEF Sizes
  <2> QED
    BY <1>1, <2>1, NumBucketsIs
<1> QED
  BY <1>1, <1>2, <1>3, <1>4

\* No values, and no bucket taken.
LEMMA EmptyWhole ==
  ASSUME NEW t, NEW X, Good(t, X, {}), size(t) = 0
  PROVE  Whole(t, X)
<1>1. Indexes(t) = {} /\ bucket_count(t) \in Nat
  BY Probing DEF Indexes
<1> QED
  BY <1>1 DEF Whole

\* A constructed table that has been given no values.
LEMMA NewIs ==
  ASSUME NEW type, TypeArguments(type), NEW X, NEW count \in Nat, Fits(Blank(type), count)
  PROVE  /\ Whole(NewTable(type, count), X)
         /\ NewTable(type, count).type = type /\ NewTable(type, count).m_values = << >>
         /\ NewTable(type, count).m_max_load_factor = default_max_load_factor
<1> DEFINE t == Blank(type)
           u == NewTable(type, count)
<1>1. ValuesTyped(t, X) /\ t.m_values = << >> /\ size(t) = 0 /\ t.type = type
      /\ bucket_count(t) = 0 /\ t.m_max_load_factor = default_max_load_factor
  <2>1. DOMAIN t = Fields /\ t.m_max_load_factor \in 1..100 /\ t.type = type
    BY DEF Blank, Fields, default_max_load_factor
  <2>2. t.m_values = << >> /\ t.m_buckets = << >>
    BY DEF Blank
  <2>3. << >> \in Seq([key : DOMAIN type.hash, value : X]) /\ Len(<< >>) = 0
    OBVIOUS
  <2>4. bucket_count(t) = 0
    <3>1. DOMAIN << >> = {}
      OBVIOUS
    <3> QED
      BY <2>2, <3>1, FS_EmptySet DEF bucket_count
  <2>5. t.m_max_load_factor = default_max_load_factor
    BY DEF Blank
  <2> QED
    BY <2>1, <2>2, <2>3, <2>4, <2>5 DEF ValuesTyped, size
<1> HIDE DEF t
<1>2. PICK b \in 2..HighBits : type.max_bucket_count = Pow2[b]
  BY DEF TypeArguments
<1>3. type.max_bucket_count \in Nat
  <2>1. b \in 0..56
    BY HighBitsAssumption
  <2> QED
    BY <1>2, <2>1, Pow2Is
<1>4. CASE count = 0
  <2>1. u = Allocated(t, initial_shifts)
    BY <1>4 DEF NewTable, t
  <2>2. ShiftsFor(t.type, initial_shifts)
    <3>1. initial_shifts \in (64 - b)..initial_shifts
      BY HighBitsAssumption DEF initial_shifts
    <3> QED
      BY <1>1, <1>2, <3>1 DEF ShiftsFor
  <2> HIDE DEF u
  <2>3. Good(u, X, {}) /\ Kept(t, u)
    BY <1>1, <2>1, <2>2, AllocatedTable
  <2>4. size(u) = 0
    BY <1>1, <2>3 DEF Kept, size
  <2> QED
    BY <1>1, <2>3, <2>4, EmptyWhole DEF Kept, u
<1>5. CASE count # 0
  <2> DEFINE wanted == Max2(Min2(count, t.type.max_bucket_count), size(t))
             shifts == calc_shifts_for_size(t, wanted)
  <2>1. u = Refilled(t, shifts)
    <3>1. u = reserve(t, count)
      BY <1>5 DEF NewTable, t
    <3> QED
      BY <1>1, <3>1 DEF reserve
  <2>2. wanted \in Nat /\ Fits(t, wanted)
    <3>1. wanted = Min2(count, type.max_bucket_count)
      BY <1>1, <1>3 DEF Max2, Min2
    <3>2. wanted \in Nat /\ wanted <= count
      BY <1>3, <3>1 DEF Min2
    <3>3. MaxLoad(t, t.type.max_bucket_count) \in Nat
      <4>1. MaxLoad(t, t.type.max_bucket_count) \in 0..t.type.max_bucket_count
        BY <1>1, <1>3, Percent DEF MaxLoad, ValuesTyped
      <4> QED
        BY <4>1
    <3>4. count <= MaxLoad(t, t.type.max_bucket_count)
      BY DEF Fits, t
    <3> HIDE DEF wanted
    <3> QED
      BY <3>2, <3>3, <3>4 DEF Fits
  <2> HIDE DEF u, wanted
  <2>3. ShiftsFor(t.type, shifts) /\ wanted <= calc_num_buckets(t, shifts)
    BY <1>1, <2>2, ShiftsForSize
  <2>4. size(t) <= calc_num_buckets(t, shifts)
    BY <1>1, <2>2, <2>3, NumBucketsIs
  <2>5. DistinctKeys(t, Indexes(t))
    BY <1>1 DEF DistinctKeys, Indexes
  <2> HIDE DEF shifts
  <2>6. Whole(u, X) /\ Kept(t, u)
    BY <1>1, <2>1, <2>3, <2>4, <2>5, RefilledTable
  <2> QED
    BY <1>1, <2>6 DEF Kept, u
<1> QED
  BY <1>4, <1>5

\* reserve and rehash, asked for no more than fits.
LEMMA ReservedTable ==
  ASSUME NEW t, NEW X, Whole(t, X), NEW count \in Nat, Fits(t, Max2(count, size(t)))
  PROVE  /\ Whole(reserve(t, count), X) /\ Kept(t, reserve(t, count))
         /\ Whole(rehash(t, count), X) /\ Kept(t, rehash(t, count))
<1> DEFINE max == t.type.max_bucket_count
           wanted == Max2(Min2(count, max), size(t))
           shifts == calc_shifts_for_size(t, wanted)
<1>1. /\ ValuesTyped(t, X) /\ size(t) \in Nat /\ DistinctKeys(t, Indexes(t)) /\ DOMAIN t = Fields
  BY WholeIs
<1>2. max \in Nat
  <2>1. PICK b \in 2..HighBits : max = Pow2[b]
    BY <1>1 DEF ValuesTyped, TypeArguments
  <2>2. b \in 0..56
    BY HighBitsAssumption
  <2> QED
    BY <2>1, <2>2, Pow2Is
<1>3. MaxLoad(t, max) \in 0..max
  BY <1>1, <1>2, Percent DEF MaxLoad, ValuesTyped
<1>4. wanted \in Nat /\ Fits(t, wanted) /\ size(t) <= wanted
  <2>1. wanted \in Nat /\ wanted <= Max2(count, size(t)) /\ size(t) <= wanted
        /\ Max2(count, size(t)) \in Nat
    BY <1>1, <1>2 DEF Max2, Min2
  <2> HIDE DEF wanted
  <2> QED
    BY <1>3, <2>1 DEF Fits
<1> HIDE DEF wanted
<1>5. ShiftsFor(t.type, shifts) /\ wanted <= calc_num_buckets(t, shifts)
  BY <1>1, <1>4, ShiftsForSize
<1>6. size(t) <= calc_num_buckets(t, shifts)
  <2>1. calc_num_buckets(t, shifts) \in Nat
    BY <1>1, <1>5, NumBucketsIs
  <2> QED
    BY <1>1, <1>4, <1>5, <2>1
<1> HIDE DEF shifts
<1>7. Whole(Refilled(t, shifts), X) /\ Kept(t, Refilled(t, shifts))
  BY <1>1, <1>5, <1>6, RefilledTable
<1>8. Kept(t, t)
  BY <1>1 DEF Kept
<1> QED
  BY <1>7, <1>8 DEF reserve, rehash, wanted, shifts

-----------------------------------------------------------------------------
(* Whole tables from whole tables. *)

\* The arguments and the load factor are as they were, and every value has a bucket.
Stays(t, u, X) ==
  Whole(u, X) /\ u.type = t.type /\ u.m_max_load_factor = t.m_max_load_factor

\* The probes of two tables with the same buckets are the same.
SameBuckets(t, u) == SameSizes(t, u) /\ u.m_buckets = t.m_buckets

\* Other values, of the same keys where there is a bucket.
LEMMA ValuesAgain ==
  ASSUME NEW t, NEW X, NEW I, Good(t, X, I), NEW u, ValuesTyped(u, X), SameBuckets(t, u),
         I \subseteq Indexes(u), \A v \in I : KeyAt(u, v) = KeyAt(t, v)
  PROVE  Good(u, X, I)
<1> DEFINE N == bucket_count(t)
           C == u.m_buckets
           h1 == Homes(t, I)
           l1 == Lows(t, I)
           h2 == Homes(u, I)
           l2 == Lows(u, I)
<1>1. \A v \in I : h2[v] = h1[v] /\ l2[v] = l1[v]
  BY HomesAgain DEF Homes, Lows, SameBuckets
<1>2. Ring(N, C, h1, l1, I)
  BY DEF Good, SameBuckets
<1>3. Ring(N, C, h2, l2, I)
  <2> HIDE DEF N, C, h1, l1, h2, l2
  <2> QED
    BY <1>1, <1>2, RingAgain
<1>4. DistinctKeys(u, I)
  BY DEF Good, DistinctKeys
<1> QED
  BY <1>3, <1>4, GoodIf DEF Good, SameBuckets

\* Other numbers, and the same buckets and values.
LEMMA WholeAgain ==
  ASSUME NEW t, NEW X, Whole(t, X), NEW u, ValuesTyped(u, X), Sizes(u),
         u.type = t.type, u.m_shifts = t.m_shifts, u.m_values = t.m_values,
         u.m_buckets = t.m_buckets
  PROVE  Whole(u, X)
<1>1. /\ Indexes(u) = Indexes(t) /\ size(u) = size(t) /\ bucket_count(u) = bucket_count(t)
      /\ \A v : KeyAt(u, v) = KeyAt(t, v)
  BY DEF Indexes, size, bucket_count, KeyAt
<1>2. \A I : Homes(u, I) = Homes(t, I) /\ Lows(u, I) = Lows(t, I)
  BY <1>1 DEF Homes, Lows, bucket_idx_from_hash
<1>3. DistinctKeys(u, Indexes(u))
  BY <1>1 DEF Whole, Good, DistinctKeys
<1> QED
  BY <1>1, <1>2, <1>3 DEF Whole, Good

\* A load factor that is set.
LEMMA LoadFactorSet ==
  ASSUME NEW t, NEW X, Whole(t, X), NEW ml \in 1..100, NEW u, u = max_load_factor(t, ml)
  PROVE  Whole(u, X) /\ u.type = t.type /\ u.m_max_load_factor = ml /\ u.m_values = t.m_values
<1> DEFINE N == bucket_count(t)
           max == t.type.max_bucket_count
           set == [t EXCEPT !.m_max_load_factor = ml]
           c == IF N = max THEN t.m_max_bucket_capacity ELSE MaxLoad(set, N)
<1>1. /\ ValuesTyped(t, X) /\ Sizes(t) /\ DOMAIN t = Fields /\ N \in Nat
      /\ N = calc_num_buckets(t, t.m_shifts) /\ ShiftsFor(t.type, t.m_shifts)
  BY WholeIs
<1>2. N <= max /\ max \in Nat
  BY <1>1, NumBucketsIs
<1>3. /\ DOMAIN set = Fields /\ set.m_max_load_factor = ml
      /\ set.type = t.type /\ set.m_shifts = t.m_shifts
      /\ set.m_values = t.m_values /\ set.m_buckets = t.m_buckets
      /\ set.m_max_bucket_capacity = t.m_max_bucket_capacity
  BY <1>1 DEF Fields
<1>4. MaxLoad(set, N) \in 0..N
  BY <1>1, <1>3, Percent DEF MaxLoad
<1>5. u = IF N = max THEN set ELSE [set EXCEPT !.m_max_bucket_capacity = MaxLoad(set, N)]
  BY DEF max_load_factor
<1> HIDE DEF set, N, max
<1>6. /\ DOMAIN u = Fields /\ u.m_max_load_factor = ml
      /\ u.type = t.type /\ u.m_shifts = t.m_shifts
      /\ u.m_values = t.m_values /\ u.m_buckets = t.m_buckets
      /\ u.m_max_bucket_capacity = c
  BY <1>3, <1>5 DEF Fields
<1>7. ValuesTyped(u, X)
  BY <1>1, <1>6 DEF ValuesTyped
<1>8. c \in 0..N /\ (c = max <=> N = max)
  <2>1. t.m_max_bucket_capacity \in 0..N /\ (t.m_max_bucket_capacity = max <=> N = max)
    BY <1>1 DEF Sizes, AtMaximum, N, max
  <2> QED
    BY <1>1, <1>2, <1>4, <2>1
<1>9. Sizes(u)
  <2>1. bucket_count(u) = N /\ (AtMaximum(u) <=> c = max)
    BY <1>6 DEF bucket_count, N, max, AtMaximum
  <2> HIDE DEF c
  <2>2. /\ \E b \in 2..HighBits : /\ u.type.max_bucket_count = Pow2[b]
                                  /\ u.m_shifts \in (64 - b)..initial_shifts
        /\ bucket_count(u) = Pow2[64 - u.m_shifts]
    BY <1>1, <1>6, <2>1 DEF Sizes, N
  <2> QED
    BY <1>6, <1>8, <2>1, <2>2 DEF Sizes, AtMaximum, max
<1> QED
  BY <1>6, <1>7, <1>9, WholeAgain

\* A copy has the same values, and as many buckets if there are values.
LEMMA CopiedTable ==
  ASSUME NEW t, NEW X, Whole(t, X), NEW u, u = CopyOf(t)
  PROVE  Stays(t, u, X) /\ u.m_values = t.m_values
<1> DEFINE values == [Blank(t.type) EXCEPT !.m_values = t.m_values,
                                           !.m_max_load_factor = t.m_max_load_factor]
<1>1. /\ ValuesTyped(t, X) /\ Sizes(t) /\ DOMAIN t = Fields
      /\ bucket_count(t) = calc_num_buckets(t, t.m_shifts) /\ ShiftsFor(t.type, t.m_shifts)
  BY WholeIs
<1>2. Kept(t, values)
  BY DEF Blank, Kept, Fields
<1>3. u = IF size(t) = 0 THEN Allocated(values, initial_shifts)
          ELSE [Allocated(values, t.m_shifts) EXCEPT !.m_buckets = t.m_buckets]
  BY DEF CopyOf
<1> HIDE DEF values
<1>4. ValuesTyped(values, X) /\ size(values) = size(t)
  BY <1>1, <1>2 DEF Kept, ValuesTyped, size
<1>5. CASE size(t) = 0
  <2>1. ShiftsFor(values.type, initial_shifts)
    <3>1. PICK b \in 2..HighBits : t.type.max_bucket_count = Pow2[b]
      BY <1>1 DEF ValuesTyped, TypeArguments
    <3>2. initial_shifts \in (64 - b)..initial_shifts
      BY HighBitsAssumption DEF initial_shifts
    <3> QED
      BY <1>2, <3>1, <3>2 DEF ShiftsFor, Kept
  <2>2. Good(u, X, {}) /\ Kept(values, u)
    BY <1>3, <1>4, <1>5, <2>1, AllocatedTable
  <2>3. size(u) = 0
    BY <1>4, <1>5, <2>2 DEF Kept, size
  <2> QED
    BY <1>2, <2>2, <2>3, EmptyWhole DEF Kept, Stays
<1>6. CASE size(t) # 0
  <2> DEFINE s == Allocated(values, t.m_shifts)
  <2>1. ShiftsFor(values.type, t.m_shifts)
    BY <1>1, <1>2 DEF Kept
  <2>2. /\ Kept(values, s) /\ s.m_shifts = t.m_shifts /\ Sizes(s) /\ ValuesTyped(s, X)
        /\ bucket_count(s) = calc_num_buckets(values, t.m_shifts)
        /\ DOMAIN s.m_buckets = 0..(bucket_count(s) - 1) /\ DOMAIN s = Fields
    BY <1>4, <2>1, AllocatedTable DEF Kept
  <2> HIDE DEF s
  <2>3. bucket_count(s) = bucket_count(t)
    BY <1>1, <1>2, <2>2 DEF calc_num_buckets, Kept
  <2>4. DOMAIN t.m_buckets = 0..(bucket_count(t) - 1)
    BY WholeIs
  <2>5. u = [s EXCEPT !.m_buckets = t.m_buckets]
    BY <1>3, <1>6 DEF s
  <2>6. Alike(s, u) /\ u.m_buckets = t.m_buckets
    BY <2>2, <2>3, <2>4, <2>5, AlikeIs
  <2>7. ValuesTyped(u, X) /\ Sizes(u)
    BY <2>2, <2>6 DEF ValuesTyped, Sizes, Alike, SameSizes, AtMaximum
  <2>8. Whole(u, X)
    BY <1>2, <2>2, <2>6, <2>7, WholeAgain DEF Alike, SameSizes, Kept
  <2> QED
    BY <1>2, <2>2, <2>6, <2>8 DEF Stays, Alike, SameSizes, Kept
<1> QED
  BY <1>5, <1>6

\* What a move leaves behind.
LEMMA MovedFromIs ==
  ASSUME NEW t, NEW X, Whole(t, X), NEW u, u = MovedFrom(t)
  PROVE  Whole(u, X) /\ u.type = t.type /\ u.m_max_load_factor = 80 /\ u.m_values = << >>
<1> DEFINE s == Blank(t.type)
<1>1. TypeArguments(t.type)
  BY WholeIs DEF ValuesTyped
<1>2. DOMAIN s = Fields /\ s.type = t.type /\ s.m_max_load_factor = 80 /\ s.m_values = << >>
  BY DEF Blank, Fields, default_max_load_factor
<1>3. u = Allocated(s, initial_shifts)
  BY DEF MovedFrom
<1> HIDE DEF s
<1>4. ValuesTyped(s, X)
  <2>1. << >> \in Seq([key : DOMAIN t.type.hash, value : X])
    OBVIOUS
  <2> QED
    BY <1>1, <1>2, <2>1 DEF ValuesTyped
<1>5. ShiftsFor(s.type, initial_shifts)
  <2>1. PICK b \in 2..HighBits : t.type.max_bucket_count = Pow2[b]
    BY <1>1 DEF TypeArguments
  <2>2. initial_shifts \in (64 - b)..initial_shifts
    BY HighBitsAssumption DEF initial_shifts
  <2> QED
    BY <1>2, <2>1, <2>2 DEF ShiftsFor
<1>6. Good(u, X, {}) /\ Kept(s, u)
  BY <1>3, <1>4, <1>5, AllocatedTable
<1>7. size(u) = 0
  <2>1. Len(<< >>) = 0
    OBVIOUS
  <2> QED
    BY <1>2, <1>6, <2>1 DEF Kept, size
<1> QED
  BY <1>2, <1>6, <1>7, EmptyWhole DEF Kept

\* Nothing is left by clear but the buckets, which are empty.
LEMMA ClearIs ==
  ASSUME NEW t, NEW X, Whole(t, X), NEW u, u = clear(t)
  PROVE  Stays(t, u, X) /\ u.m_values = << >>
<1> DEFINE s == [t EXCEPT !.m_values = << >>]
<1>1. /\ ValuesTyped(t, X) /\ Sizes(t) /\ DOMAIN t = Fields /\ bucket_count(t) \in Nat
      /\ bucket_count(t) >= 2 /\ DOMAIN t.m_buckets = 0..(bucket_count(t) - 1)
  BY WholeIs
<1>2. SameSizes(t, s) /\ s.m_buckets = t.m_buckets /\ s.m_values = << >>
  BY <1>1 DEF Fields, SameSizes, bucket_count
<1>3. u = clear_buckets(s)
  BY DEF clear
<1> HIDE DEF s
<1>4. << >> \in Seq([key : DOMAIN t.type.hash, value : X]) /\ Len(<< >>) = 0
  OBVIOUS
<1>5. ValuesTyped(s, X) /\ Sizes(s)
  BY <1>1, <1>2, <1>4 DEF ValuesTyped, Sizes, SameSizes, AtMaximum
<1>6. Good(u, X, {}) /\ Alike(s, u)
  BY <1>1, <1>2, <1>3, <1>5, ClearedTable DEF SameSizes
<1>7. size(u) = 0
  BY <1>2, <1>4, <1>6 DEF Alike, size
<1> QED
  BY <1>2, <1>6, <1>7, EmptyWhole DEF Alike, SameSizes, Stays

-----------------------------------------------------------------------------
(* Insertion. *)

\* The probes of two tables with the same buckets stop at the same places.
LEMMA ProbesAgain ==
  ASSUME NEW t, NEW u, SameBuckets(t, u), NEW key, NEW n
  PROVE  /\ Steps(u) = Steps(t) /\ Place(u, key, n) = Place(t, key, n)
         /\ Bucket(u, key, n) = Bucket(t, key, n)
         /\ SameDistance(u, key, n) <=> SameDistance(t, key, n)
         /\ Richer(u, key, n) <=> Richer(t, key, n)
         /\ dist_and_fingerprint(u, key, n) = dist_and_fingerprint(t, key, n)
<1>1. bucket_count(u) = bucket_count(t) /\ Steps(u) = Steps(t)
  BY DEF SameBuckets, SameSizes, Steps
<1>2. Place(u, key, n) = Place(t, key, n)
  BY <1>1 DEF SameBuckets, SameSizes, Place, next, bucket_idx_from_hash
<1>3. Bucket(u, key, n) = Bucket(t, key, n)
  BY <1>2 DEF Bucket, at, SameBuckets
<1>4. dist_and_fingerprint(u, key, n) = dist_and_fingerprint(t, key, n)
  BY DEF dist_and_fingerprint, SameBuckets, SameSizes
<1> QED
  BY <1>1, <1>2, <1>3, <1>4 DEF SameDistance, Richer

\* What is appended and taken back leaves the sequence as it was.
LEMMA FrontOfAppend ==
  ASSUME NEW S, NEW s \in Seq(S), NEW e \in S
  PROVE  Front(Append(s, e)) = s
<1> DEFINE r == Append(s, e)
           n == Len(s)
           f == SubSeq(r, 1, n)
<1>1. r \in Seq(S) /\ Len(r) = n + 1 /\ n \in Nat /\ \A i \in 1..n : r[i] = s[i]
  OBVIOUS
<1>2. Front(r) = f
  BY <1>1 DEF Front
<1> HIDE DEF r
<1>3. 1 \in Int /\ n \in Int /\ \A i \in 1..n : r[i] \in S
  BY <1>1
<1>4. /\ f \in Seq(S) /\ Len(f) = IF 1 <= n THEN n - 1 + 1 ELSE 0
      /\ \A i \in 1..(n - 1 + 1) : f[i] = r[1 + i - 1]
  BY <1>3, SubSeqProperties
<1> HIDE DEF f
<1>5. Len(f) = Len(s) /\ \A i \in 1..Len(s) : f[i] = s[i]
  BY <1>1, <1>4
<1>6. f = s
  BY <1>4, <1>5, SeqEqual
<1> QED
  BY <1>2, <1>6 DEF r

\* The new value comes last, and has no bucket yet.
Grown(t, g, X, key, value) ==
  /\ g.m_values = Append(t.m_values, Entry(key, value)) /\ Front(g.m_values) = t.m_values
  /\ Good(g, X, Indexes(t)) /\ SameBuckets(t, g) /\ size(g) = size(t) + 1
  /\ g.m_values[size(t) + 1] = Entry(key, value) /\ KeyAt(g, size(t)) = key
  /\ \A i \in Indexes(t) : g.m_values[i + 1] = t.m_values[i + 1] /\ KeyAt(g, i) = KeyAt(t, i)

\* A value appended is the last one, and its bucket is still missing.
LEMMA AppendedTable ==
  ASSUME NEW t, NEW X, Whole(t, X), NEW key \in DOMAIN t.type.hash, NEW value \in X
  PROVE  Grown(t, Appended(t, key, value), X, key, value)
<1> DEFINE Pairs == [key : DOMAIN t.type.hash, value : X]
           s == t.m_values
           e == Entry(key, value)
           r == Append(s, e)
           g == Appended(t, key, value)
<1>1. /\ ValuesTyped(t, X) /\ DOMAIN t = Fields /\ size(t) \in Nat /\ Good(t, X, Indexes(t))
  BY WholeIs
<1>2. s \in Seq(Pairs) /\ e \in Pairs /\ e.key = key
  BY <1>1 DEF ValuesTyped, Entry
<1>3. g = [t EXCEPT !.m_values = r]
  BY DEF Appended
<1>4. /\ r \in Seq(Pairs) /\ Len(r) = Len(s) + 1 /\ Len(s) \in Nat /\ r[Len(s) + 1] = e
      /\ \A i \in 1..Len(s) : r[i] = s[i]
  <2> HIDE DEF Pairs, s, e
  <2> QED
    BY <1>2
<1> HIDE DEF Pairs, r, g, e
<1>5. g.m_values = r /\ SameBuckets(t, g)
  BY <1>1, <1>3 DEF Fields, SameBuckets, SameSizes, bucket_count
<1>6. size(g) = size(t) + 1 /\ g.m_values[size(t) + 1] = e
  BY <1>4, <1>5 DEF size
<1>7. \A i \in Indexes(t) : g.m_values[i + 1] = t.m_values[i + 1] /\ KeyAt(g, i) = KeyAt(t, i)
  <2> SUFFICES ASSUME NEW i \in Indexes(t)
               PROVE  g.m_values[i + 1] = t.m_values[i + 1] /\ KeyAt(g, i) = KeyAt(t, i)
    OBVIOUS
  <2>1. i + 1 \in 1..Len(s)
    BY <1>4 DEF Indexes, size
  <2> QED
    BY <1>4, <1>5, <2>1 DEF KeyAt
<1>8. ValuesTyped(g, X)
  BY <1>1, <1>4, <1>5 DEF ValuesTyped, SameBuckets, SameSizes, Pairs
<1>9. Indexes(t) \subseteq Indexes(g)
  BY <1>1, <1>6 DEF Indexes
<1>10. Good(g, X, Indexes(t))
  BY <1>1, <1>5, <1>7, <1>8, <1>9, ValuesAgain
<1>11. Front(r) = s
  BY <1>2, FrontOfAppend DEF r
<1> QED
  BY <1>2, <1>5, <1>6, <1>7, <1>10, <1>11 DEF Grown, KeyAt, e, g, r

\* A probe for the new key may stop there.
StopsAt(t, key, n) ==
  /\ n \in Steps(t) /\ (SameDistance(t, key, n) \/ Richer(t, key, n))
  /\ \A m \in 0..(n - 1) : ~Richer(t, key, m)

\* With twice as many buckets there is room for one value more.
LEMMA MoreShifts ==
  ASSUME NEW t, NEW X, ValuesTyped(t, X), Sizes(t), ~AtMaximum(t), bucket_count(t) \in Nat
  PROVE  /\ ShiftsFor(t.type, t.m_shifts - 1)
         /\ calc_num_buckets(t, t.m_shifts - 1) = 2 * bucket_count(t)
<1>1. PICK b \in 2..HighBits : t.type.max_bucket_count = Pow2[b] /\ t.m_shifts \in (64 - b)..initial_shifts
  BY DEF Sizes
<1>2. bucket_count(t) = Pow2[64 - t.m_shifts] /\ bucket_count(t) # Pow2[b]
  BY <1>1 DEF Sizes
<1>3. t.m_shifts # 64 - b
  <2>1. 64 - (64 - b) = b
    BY HighBitsAssumption
  <2> QED
    BY <1>2, <2>1
<1>4. t.m_shifts - 1 \in (64 - b)..initial_shifts
  BY <1>1, <1>3, HighBitsAssumption DEF initial_shifts
<1>5. ShiftsFor(t.type, t.m_shifts - 1)
  BY <1>1, <1>4 DEF ShiftsFor
<1> DEFINE a == 64 - t.m_shifts
<1>6. 64 - (t.m_shifts - 1) = a + 1 /\ a + 1 \in 0..56 /\ a + 1 # 0 /\ (a + 1) - 1 = a
  BY <1>1, <1>4, HighBitsAssumption DEF initial_shifts
<1>7. calc_num_buckets(t, t.m_shifts - 1) = Pow2[a + 1]
  BY <1>5, <1>6, NumBucketsIs
<1>8. Pow2[a + 1] = 2 * Pow2[a]
  <2> HIDE DEF a
  <2> QED
    BY <1>6, Pow2Is, SMTT(30)
<1> QED
  BY <1>2, <1>5, <1>7, <1>8

\* After the buckets have been seen to, every value has one, or the new value is
\* gone since there was no room for it in a table at its largest.
LEMMA IndexedTable ==
  ASSUME NEW t, NEW X, Whole(t, X), NEW key, NEW value, NEW g, Grown(t, g, X, key, value),
         \A i \in Indexes(t) : KeyAt(t, i) # key,
         NEW n, StopsAt(g, key, n), NEW u, u = Indexed(g, key, n)
  PROVE  /\ Stays(t, u, X)
         /\ \/ u.m_values = Append(t.m_values, Entry(key, value))
            \/ u.m_values = t.m_values /\ size(t) >= t.type.max_bucket_count
<1> DEFINE I == Indexes(t)
           v == size(t)
<1>1. /\ size(t) \in Nat /\ size(t) <= bucket_count(t) /\ bucket_count(t) \in Nat
      /\ bucket_count(t) >= 2 /\ Sizes(t)
  BY WholeIs
<1>2. /\ Good(g, X, I) /\ size(g) = v + 1 /\ KeyAt(g, v) = key
      /\ \A i \in I : KeyAt(g, i) = KeyAt(t, i)
  BY DEF Grown
<1>3. /\ g.type = t.type /\ g.m_shifts = t.m_shifts /\ g.m_max_load_factor = t.m_max_load_factor
      /\ g.m_max_bucket_capacity = t.m_max_bucket_capacity
      /\ bucket_count(g) = bucket_count(t)
  BY DEF Grown, SameBuckets, SameSizes
<1>4. /\ v \in Indexes(g) \ I /\ I \cup {v} = Indexes(g) /\ I = 0..(size(g) - 2)
  BY <1>1, <1>2 DEF Indexes
<1>5. DistinctKeys(g, Indexes(g))
  BY <1>2, <1>4 DEF Whole, Good, DistinctKeys
<1>6. ValuesTyped(g, X) /\ Sizes(g)
  BY <1>2 DEF Good
<1>11. g.m_values = Append(t.m_values, Entry(key, value)) /\ Front(g.m_values) = t.m_values
  BY DEF Grown
<1> HIDE DEF I, v
<1>8. CASE is_full(g) /\ AtMaximum(g)
  <2>1. u = pop_back(g)
    BY <1>8 DEF Indexed, increase_size
  <2>2. /\ Good(u, X, I) /\ SameSizes(g, u) /\ size(u) = size(g) - 1
    <3>1. size(g) > 0 /\ I \subseteq 0..(size(g) - 2)
      BY <1>1, <1>2, <1>4 DEF v
    <3> QED
      BY <1>2, <2>1, <3>1, PoppedTable
  <2>3. Whole(u, X)
    BY <1>1, <1>2, <1>3, <2>2 DEF Whole, SameSizes, v, I, Indexes
  <2>4. u.m_values = Front(g.m_values)
    <3>1. DOMAIN g = Fields
      BY <1>6 DEF ValuesTyped
    <3> QED
      BY <2>1, <3>1 DEF pop_back, Fields
  <2>5. size(t) >= t.type.max_bucket_count
    <3>1. v + 1 > t.m_max_bucket_capacity /\ t.m_max_bucket_capacity = t.type.max_bucket_count
      BY <1>2, <1>3, <1>8 DEF is_full, AtMaximum
    <3>2. t.m_max_bucket_capacity \in 0..bucket_count(t)
      BY <1>1 DEF Sizes
    <3> QED
      BY <1>1, <3>1, <3>2 DEF v
  <2> QED
    BY <1>3, <1>11, <2>2, <2>3, <2>4, <2>5 DEF Stays, SameSizes
<1>9. CASE is_full(g) /\ ~AtMaximum(g)
  <2>1. u = Refilled(g, g.m_shifts - 1)
    BY <1>9 DEF Indexed, increase_size
  <2>2. /\ ShiftsFor(g.type, g.m_shifts - 1)
        /\ calc_num_buckets(g, g.m_shifts - 1) = 2 * bucket_count(g)
    BY <1>1, <1>3, <1>6, <1>9, MoreShifts
  <2>3. size(g) <= 2 * bucket_count(g)
    BY <1>1, <1>2, <1>3 DEF v
  <2>4. Whole(u, X) /\ Kept(g, u)
    BY <1>5, <1>6, <2>1, <2>2, <2>3, RefilledTable
  <2> QED
    BY <1>3, <1>11, <2>4 DEF Kept, Stays
<1>10. CASE ~is_full(g)
  <2>1. u = place_and_shift_up(g, NewBucket(g, key, n, v), Place(g, key, n))
    BY <1>1, <1>2, <1>10 DEF Indexed, v
  <2>2. size(g) <= bucket_count(g)
    <3>1. g.m_max_bucket_capacity \in 0..bucket_count(g)
      BY <1>6 DEF Sizes
    <3> QED
      BY <1>1, <1>2, <1>3, <1>10, <3>1 DEF is_full, v
  <2>3. \E i \in 0..(bucket_count(g) - 1) : D(g.m_buckets, i) = 0
    BY <1>2, <1>4, <2>2, RoomLeft
  <2>4. Good(u, X, I \cup {v}) /\ Alike(g, u)
    <3>1. /\ n \in Steps(g) /\ (SameDistance(g, key, n) \/ Richer(g, key, n))
          /\ \A m \in 0..(n - 1) : ~Richer(g, key, m)
      BY DEF StopsAt
    <3>2. v \in Indexes(g) \ I /\ DistinctKeys(g, I \cup {v}) /\ key = KeyAt(g, v)
      BY <1>2, <1>4, <1>5
    <3> QED
      BY <1>2, <2>1, <2>3, <3>1, <3>2, PlacedTable
  <2>5. Whole(u, X)
    BY <1>4, <2>2, <2>4 DEF Whole, Alike, SameSizes, Indexes, size
  <2> QED
    BY <1>3, <1>11, <2>4, <2>5 DEF Alike, SameSizes, Stays
<1> QED
  BY <1>8, <1>9, <1>10

\* There is a value with the key.
Has(t, key) == \E v \in Indexes(t) : KeyAt(t, v) = key

\* The new value is the last one, or there was no room for it.
AddedTo(t, u, X, key, value) ==
  /\ Stays(t, u, X)
  /\ \/ u.m_values = Append(t.m_values, Entry(key, value))
     \/ u.m_values = t.m_values /\ size(t) >= t.type.max_bucket_count

\* What the searches say of a whole table.
LEMMA FindsWhole ==
  ASSUME NEW t, NEW X, Whole(t, X), NEW key \in DOMAIN t.type.hash
  PROVE  /\ Present(t, key) <=> Has(t, key)
         /\ do_find(t, key) <=> Has(t, key)
         /\ \A v \in Indexes(t) : KeyAt(t, v) = key => ValueFound(t, key) = t.m_values[v + 1].value
BY FindIs DEF Whole, Has

\* try_emplace looks in the table as it was, and only then appends.
LEMMA TryEmplaced ==
  ASSUME NEW t, NEW X, Whole(t, X), NEW key \in DOMAIN t.type.hash, NEW value \in X,
         NEW u, u = do_try_emplace(t, key, value)
  PROVE  /\ Has(t, key) => u = t
         /\ ~Has(t, key) => AddedTo(t, u, X, key, value)
<1>1. CASE Has(t, key)
  <2>1. Present(t, key)
    BY <1>1, FindsWhole
  <2> QED
    BY <1>1, <2>1 DEF do_try_emplace
<1>2. CASE ~Has(t, key)
  <2> DEFINE n == ProbeEnd(t, key)
             g == Appended(t, key, value)
  <2>1. ~Present(t, key)
    BY <1>2, FindsWhole
  <2>2. u = Indexed(g, key, n)
    BY <2>1 DEF do_try_emplace, do_place_element
  <2>3. /\ n \in Steps(t) /\ (Holds(t, key, n) \/ Richer(t, key, n))
        /\ \A m \in 0..(n - 1) : ~Richer(t, key, m)
    <3> HIDE DEF n
    <3>1. Good(t, X, Indexes(t)) /\ n = ProbeEnd(t, key)
      BY DEF Whole, n
    <3> QED
      BY <3>1, ProbeEndIs
  <2>4. ~Holds(t, key, n)
    BY <2>1 DEF Present
  <2>5. Grown(t, g, X, key, value)
    BY AppendedTable
  <2> HIDE DEF n, g
  <2>6. StopsAt(g, key, n)
    <3>1. SameBuckets(t, g)
      BY <2>5 DEF Grown
    <3>2. Steps(g) = Steps(t) /\ \A m : Richer(g, key, m) <=> Richer(t, key, m)
      BY <3>1, ProbesAgain
    <3> QED
      BY <2>3, <2>4, <3>2 DEF StopsAt
  <2>7. \A i \in Indexes(t) : KeyAt(t, i) # key
    BY <1>2 DEF Has
  <2> QED
    BY <1>2, <2>2, <2>5, <2>6, <2>7, IndexedTable DEF AddedTo
<1> QED
  BY <1>1, <1>2

\* emplace appends first; the value appended has no bucket, so that no search finds it.
LEMMA Emplaced ==
  ASSUME NEW t, NEW X, Whole(t, X), NEW key \in DOMAIN t.type.hash, NEW value \in X,
         NEW u, u = emplace(t, key, value)
  PROVE  /\ Has(t, key) => Stays(t, u, X) /\ u.m_values = t.m_values
         /\ ~Has(t, key) => AddedTo(t, u, X, key, value)
<1> DEFINE g == Appended(t, key, value)
           n == ProbeEnd(g, key)
           I == Indexes(t)
<1>1. Grown(t, g, X, key, value)
  BY AppendedTable
<1>2. u = IF Holds(g, key, n) THEN pop_back(g) ELSE Indexed(g, key, n)
  BY DEF emplace
<1>3. key \in DOMAIN g.type.hash
  BY <1>1 DEF Grown, SameBuckets, SameSizes
<1>4. Good(g, X, I) /\ n = ProbeEnd(g, key)
  BY <1>1 DEF Grown
<1> HIDE DEF n, g, I
<1>5. /\ n \in Steps(g) /\ (Holds(g, key, n) \/ Richer(g, key, n))
      /\ \A m \in 0..(n - 1) : ~Richer(g, key, m)
      /\ Holds(g, key, n) <=> \E v \in I : KeyAt(g, v) = key
  BY <1>3, <1>4, ProbeEndIs
<1>6. Holds(g, key, n) <=> Has(t, key)
  BY <1>1, <1>5 DEF Has, Grown, I
<1>7. CASE Has(t, key)
  <2>1. u = pop_back(g) /\ size(t) \in Nat /\ size(t) <= bucket_count(t)
    BY <1>2, <1>6, <1>7, WholeIs
  <2>2. size(g) > 0 /\ I = 0..(size(g) - 2) /\ size(g) = size(t) + 1
    BY <1>1, <2>1 DEF Grown, I, Indexes
  <2>3. /\ Good(u, X, I) /\ SameSizes(g, u) /\ size(u) = size(g) - 1
    <3>1. I \subseteq 0..(size(g) - 2)
      BY <2>2
    <3> QED
      BY <1>4, <2>1, <2>2, <3>1, PoppedTable
  <2>4. u.m_values = t.m_values
    <3>1. DOMAIN g = Fields
      BY <1>4 DEF Good, ValuesTyped
    <3> QED
      BY <1>1, <2>1, <3>1 DEF pop_back, Fields, Grown
  <2>5. Stays(t, u, X)
    BY <1>1, <2>1, <2>2, <2>3 DEF Stays, Whole, Grown, SameBuckets, SameSizes, I, Indexes
  <2> QED
    BY <1>7, <2>4, <2>5
<1>8. CASE ~Has(t, key)
  <2>1. u = Indexed(g, key, n) /\ StopsAt(g, key, n)
    BY <1>2, <1>5, <1>6, <1>8 DEF StopsAt
  <2>2. \A i \in Indexes(t) : KeyAt(t, i) # key
    BY <1>8 DEF Has
  <2> QED
    BY <1>1, <1>8, <2>1, <2>2, IndexedTable DEF AddedTo
<1> QED
  BY <1>7, <1>8

\* The value of a key that is there.
AssignedTo(t, u, X, key, value) ==
  /\ Stays(t, u, X)
  /\ \E v \in Indexes(t) : /\ KeyAt(t, v) = key
                           /\ u.m_values = [t.m_values EXCEPT ![v + 1] = Entry(key, value)]

\* An assignment changes the value of a key that is there, and nothing else.
LEMMA Assigned ==
  ASSUME NEW t, NEW X, Whole(t, X), NEW key \in DOMAIN t.type.hash, NEW value \in X,
         Has(t, key), NEW u, u = Assign(t, key, value)
  PROVE  AssignedTo(t, u, X, key, value)
<1> DEFINE n == ProbeEnd(t, key)
           v == Bucket(t, key, n).m_value_idx
           Pairs == [key : DOMAIN t.type.hash, value : X]
           s == t.m_values
           e == Entry(key, value)
           r == [s EXCEPT ![v + 1].value = value]
<1>1. /\ Good(t, X, Indexes(t)) /\ ValuesTyped(t, X) /\ DOMAIN t = Fields /\ size(t) \in Nat
  BY WholeIs
<1>2. n \in Steps(t) /\ Holds(t, key, n)
  <2>1. Present(t, key)
    BY FindsWhole
  <2>2. n \in Steps(t)
    BY <1>1, ProbeEndIs
  <2> QED
    BY <2>1, <2>2 DEF Present
<1>3. v \in Indexes(t) /\ KeyAt(t, v) = key
  <2> HIDE DEF n
  <2> QED
    BY <1>1, <1>2, HoldsIs
<1>4. u = [t EXCEPT !.m_values = r]
  BY DEF Assign
<1> HIDE DEF v
<1>5. v + 1 \in 1..Len(s) /\ s[v + 1] \in Pairs /\ s[v + 1].key = key
  BY <1>1, <1>3, KeyIs DEF KeyAt
<1>6. r = [s EXCEPT ![v + 1] = e]
  <2>1. [s[v + 1] EXCEPT !.value = value] = e
    BY <1>5 DEF Entry
  <2>2. r = [s EXCEPT ![v + 1] = [s[v + 1] EXCEPT !.value = value]]
    OBVIOUS
  <2> QED
    BY <2>1, <2>2
<1>7. e \in Pairs /\ s \in Seq(Pairs) /\ e.key = key
  BY <1>1 DEF Entry, ValuesTyped
<1> HIDE DEF r, e, Pairs
<1>8. r \in Seq(Pairs) /\ Len(r) = Len(s) /\ \A i \in 1..Len(s) : r[i] = IF i = v + 1 THEN e ELSE s[i]
  <2> HIDE DEF s
  <2> QED
    BY <1>5, <1>6, <1>7
<1>9. u.m_values = r /\ SameBuckets(t, u) /\ size(u) = size(t)
  BY <1>1, <1>4, <1>8 DEF Fields, SameBuckets, SameSizes, bucket_count, size
<1>10. ValuesTyped(u, X)
  BY <1>1, <1>8, <1>9 DEF ValuesTyped, SameBuckets, SameSizes, Pairs
<1>11. \A i \in Indexes(t) : KeyAt(u, i) = KeyAt(t, i)
  <2> SUFFICES ASSUME NEW i \in Indexes(t) PROVE KeyAt(u, i) = KeyAt(t, i)
    OBVIOUS
  <2>1. i + 1 \in 1..Len(s) /\ (i + 1 = v + 1 => i = v)
    BY <1>1, <1>3 DEF Indexes, size
  <2> QED
    BY <1>3, <1>7, <1>8, <1>9, <2>1 DEF KeyAt
<1>12. Good(u, X, Indexes(t)) /\ Indexes(u) = Indexes(t)
  <2>1. Indexes(u) = Indexes(t)
    BY <1>9 DEF Indexes
  <2>2. Indexes(t) \subseteq Indexes(u)
    BY <2>1
  <2>3. Good(u, X, Indexes(t))
    BY <1>1, <1>9, <1>10, <1>11, <2>2, ValuesAgain
  <2> QED
    BY <2>1, <2>3
<1> QED
  BY <1>3, <1>6, <1>9, <1>12 DEF AssignedTo, Stays, Whole, SameBuckets, SameSizes, e

\* What insert_or_assign and operator[] do.
PutTo(t, u, X, key, value) ==
  IF Has(t, key) THEN AssignedTo(t, u, X, key, value) ELSE AddedTo(t, u, X, key, value)

\* insert_or_assign puts the value under its key, new or not.
LEMMA InsertedOrAssigned ==
  ASSUME NEW t, NEW X, Whole(t, X), NEW key \in DOMAIN t.type.hash, NEW value \in X
  PROVE  PutTo(t, do_insert_or_assign(t, key, value), X, key, value)
<1>1. Present(t, key) <=> Has(t, key)
  BY FindsWhole
<1> QED
  BY <1>1, TryEmplaced, Assigned DEF do_insert_or_assign, PutTo

\* operator[] assigns also what it has just put in.
LEMMA IndexAssigned ==
  ASSUME NEW t, NEW X, Whole(t, X), NEW key \in DOMAIN t.type.hash, NEW value \in X
  PROVE  PutTo(t, IndexAssign(t, key, value), X, key, value)
<1> DEFINE p == do_try_emplace(t, key, value)
           u == IndexAssign(t, key, value)
<1>1. u = IF Present(p, key) THEN Assign(p, key, value) ELSE p
  BY DEF IndexAssign
<1>2. /\ Has(t, key) => p = t
      /\ ~Has(t, key) => AddedTo(t, p, X, key, value)
  BY TryEmplaced
<1> HIDE DEF p, u
<1>3. CASE Has(t, key)
  <2>1. Present(t, key) /\ u = Assign(t, key, value)
    BY <1>1, <1>2, <1>3, FindsWhole
  <2> QED
    BY <1>3, <2>1, Assigned DEF PutTo, u
<1>4. CASE ~Has(t, key)
  <2>1. AddedTo(t, p, X, key, value) /\ Whole(p, X) /\ key \in DOMAIN p.type.hash
    BY <1>2, <1>4 DEF AddedTo, Stays
  <2>2. Present(p, key) <=> Has(p, key)
    BY <2>1, FindsWhole
  <2>3. CASE ~Has(p, key)
    BY <1>1, <1>4, <2>1, <2>2, <2>3 DEF PutTo, u
  <2>4. CASE Has(p, key)
    <3>1. AssignedTo(p, u, X, key, value)
      BY <1>1, <2>1, <2>2, <2>4, Assigned
    <3>2. PICK v \in Indexes(p) :
            KeyAt(p, v) = key /\ u.m_values = [p.m_values EXCEPT ![v + 1] = Entry(key, value)]
      BY <3>1 DEF AssignedTo
    <3>3. Stays(t, u, X)
      BY <2>1, <3>1 DEF AddedTo, AssignedTo, Stays
    <3> DEFINE s == t.m_values
               e == Entry(key, value)
               r == Append(s, e)
               Pairs == [key : DOMAIN t.type.hash, value : X]
    <3>4. s \in Seq(Pairs) /\ e \in Pairs /\ size(t) \in Nat
      BY WholeIs DEF ValuesTyped, Entry
    <3>5. p.m_values # s
      BY <1>4, <2>4 DEF Has, Indexes, size, KeyAt
    <3>6. p.m_values = r
      BY <2>1, <3>5 DEF AddedTo
    <3> HIDE DEF Pairs, e
    <3>7. /\ r \in Seq(Pairs) /\ Len(r) = Len(s) + 1 /\ Len(s) \in Nat
          /\ \A i \in 1..Len(s) : r[i] = s[i]
          /\ r[Len(s) + 1] = e
      <4> HIDE DEF s
      <4> QED
        BY <3>4
    <3>8. v = size(t)
      <4> SUFFICES ASSUME v # size(t) PROVE FALSE
        OBVIOUS
      <4>1. v \in Indexes(t) /\ v + 1 \in 1..Len(s)
        BY <3>6, <3>7 DEF Indexes, size
      <4>2. KeyAt(t, v) = key
        BY <3>2, <3>6, <3>7, <4>1 DEF KeyAt
      <4> QED
        BY <1>4, <4>1, <4>2 DEF Has
    <3>9. u.m_values = [r EXCEPT ![Len(s) + 1] = e]
      BY <3>2, <3>6, <3>8 DEF e, size
    <3>10. u.m_values = r
      <4> HIDE DEF r
      <4>1. [r EXCEPT ![Len(s) + 1] = e] = r
        BY <3>7
      <4> QED
        BY <3>9, <4>1
    <3> QED
      BY <1>4, <3>3, <3>10 DEF PutTo, AddedTo, e, u
  <2> QED
    BY <2>3, <2>4
<1> QED
  BY <1>3, <1>4

-----------------------------------------------------------------------------
(* Keys replaced, and the values all together. *)

\* The value at v is e.
Sets(t, u, v, e) == u = [t EXCEPT !.m_values = [t.m_values EXCEPT ![v + 1] = e]]
IsSet(t, u, v, e) ==
  \A i \in Indexes(t) : u.m_values[i + 1] = IF i = v THEN e ELSE t.m_values[i + 1]

\* A value at v that is another one, which has no bucket there.
LEMMA ValueChanged ==
  ASSUME NEW t, NEW X, NEW I, Good(t, X, I), NEW v \in Indexes(t) \ I,
         NEW e \in [key : DOMAIN t.type.hash, value : X],
         NEW u, Sets(t, u, v, e)
  PROVE  Good(u, X, I) /\ SameBuckets(t, u) /\ size(u) = size(t) /\ IsSet(t, u, v, e)
<1> DEFINE Pairs == [key : DOMAIN t.type.hash, value : X]
           s == t.m_values
           r == [s EXCEPT ![v + 1] = e]
<1>1. ValuesTyped(t, X) /\ DOMAIN t = Fields /\ I \subseteq Indexes(t)
  BY DEF Good, ValuesTyped, Indexes
<1>2. s \in Seq(Pairs) /\ v + 1 \in 1..Len(s)
  BY <1>1, KeyIs DEF ValuesTyped
<1>3. u = [t EXCEPT !.m_values = r]
  BY DEF Sets
<1>4. e \in Pairs
  OBVIOUS
<1> HIDE DEF Pairs, r
<1>5. /\ r \in Seq(Pairs) /\ Len(r) = Len(s) /\ Len(s) \in Nat
      /\ \A i \in 1..Len(s) : r[i] = IF i = v + 1 THEN e ELSE s[i]
  <2> HIDE DEF s
  <2> QED
    BY <1>2, <1>4 DEF r
<1>6. u.m_values = r /\ SameBuckets(t, u) /\ size(u) = size(t)
  BY <1>1, <1>3, <1>5 DEF Fields, SameBuckets, SameSizes, bucket_count, size
<1>7. ValuesTyped(u, X)
  BY <1>1, <1>5, <1>6 DEF ValuesTyped, SameBuckets, SameSizes, Pairs
<1>8. ASSUME NEW i \in Indexes(t) PROVE u.m_values[i + 1] = IF i = v THEN e ELSE s[i + 1]
  <2>1. i + 1 \in 1..Len(s) /\ (i + 1 = v + 1 <=> i = v)
    BY <1>5 DEF Indexes, size
  <2> QED
    BY <1>5, <1>6, <2>1
<1>9. \A i \in I : KeyAt(u, i) = KeyAt(t, i)
  BY <1>1, <1>8 DEF KeyAt
<1>10. I \subseteq Indexes(u)
  BY <1>1, <1>6 DEF Indexes
<1>11. Good(u, X, I)
  BY <1>6, <1>7, <1>9, <1>10, ValuesAgain
<1> QED
  BY <1>6, <1>8, <1>11 DEF IsSet

\* A value gets a key that none has: its bucket goes, and it is given another.
LEMMA KeyReplaced ==
  ASSUME NEW t, NEW X, Whole(t, X), NEW v \in Indexes(t), NEW new_key \in DOMAIN t.type.hash,
         NEW u, u = replace_key(t, v, new_key)
  PROVE  /\ Has(t, new_key) => u = t
         /\ ~Has(t, new_key) =>
              /\ Stays(t, u, X) /\ size(u) = size(t)
              /\ \A i \in Indexes(t) :
                   u.m_values[i + 1] = IF i = v THEN Entry(new_key, t.m_values[v + 1].value)
                                       ELSE t.m_values[i + 1]
<1> DEFINE I == Indexes(t)
           p == BucketOf(t, KeyAt(t, v), v)
           erased == erase_and_shift_down(t, p)
           renamed == [erased EXCEPT !.m_values[v + 1].key = new_key]
           e == Entry(new_key, t.m_values[v + 1].value)
<1>1. Present(t, new_key) <=> Has(t, new_key)
  BY FindsWhole
<1>2. u = IF Present(t, new_key) THEN t ELSE PlaceValue(renamed, v)
  BY DEF replace_key
<1>3. Good(t, X, I) /\ ValuesTyped(t, X) /\ size(t) \in Nat /\ size(t) <= bucket_count(t)
  BY WholeIs
<1>4. /\ p \in 0..(bucket_count(t) - 1) /\ D(t.m_buckets, p) # 0 /\ V(t.m_buckets, p) = v
  BY <1>3, BucketOfIs
<1> HIDE DEF p
<1>5. Good(erased, X, I \ {v}) /\ Alike(t, erased)
  BY <1>3, <1>4, ErasedTable
<1> HIDE DEF erased
<1>6. /\ erased.m_values = t.m_values /\ Indexes(erased) = I /\ erased.type = t.type
      /\ bucket_count(erased) = bucket_count(t) /\ size(erased) = size(t)
      /\ erased.m_max_load_factor = t.m_max_load_factor
  BY <1>5 DEF Alike, SameSizes, Indexes, size
<1>7. t.m_values[v + 1] \in [key : DOMAIN t.type.hash, value : X] /\ v + 1 \in 1..Len(t.m_values)
  BY <1>3, KeyIs
<1>8. Sets(erased, renamed, v, e)
  <2>1. [t.m_values[v + 1] EXCEPT !.key = new_key] = e
    BY <1>7 DEF Entry
  <2> QED
    BY <1>6, <2>1 DEF Sets
<1>9. e \in [key : DOMAIN t.type.hash, value : X] /\ e.key = new_key
  BY <1>7 DEF Entry
<1> HIDE DEF renamed, e, I
<1>10. /\ Good(renamed, X, I \ {v}) /\ SameBuckets(erased, renamed) /\ size(renamed) = size(t)
       /\ \A i \in I : renamed.m_values[i + 1] = IF i = v THEN e ELSE t.m_values[i + 1]
  <2>1. v \in Indexes(erased) \ (I \ {v}) /\ e \in [key : DOMAIN erased.type.hash, value : X]
    BY <1>6, <1>9 DEF I
  <2> DEFINE J == I \ {v}
  <2>2. Good(erased, X, J) /\ v \in Indexes(erased) \ J
    BY <1>5, <2>1
  <2> HIDE DEF J
  <2>3. /\ Good(renamed, X, J) /\ SameBuckets(erased, renamed) /\ size(renamed) = size(erased)
        /\ IsSet(erased, renamed, v, e)
    BY <1>8, <2>1, <2>2, ValueChanged
  <2> QED
    BY <1>6, <2>3 DEF J, IsSet
<1>11. CASE ~Has(t, new_key)
  <2>1. u = PlaceValue(renamed, v)
    BY <1>1, <1>2, <1>11
  <2>2. /\ v \in Indexes(renamed) \ (I \ {v}) /\ size(renamed) <= bucket_count(renamed)
        /\ (I \ {v}) \cup {v} = Indexes(renamed) /\ Indexes(renamed) = I
    BY <1>3, <1>6, <1>10 DEF Indexes, I, SameBuckets, SameSizes
  <2>3. DistinctKeys(renamed, I)
    <3>1. \A i \in I : KeyAt(renamed, i) = IF i = v THEN new_key ELSE KeyAt(t, i)
      BY <1>9, <1>10 DEF KeyAt
    <3>2. \A i \in I : KeyAt(t, i) # new_key
      BY <1>11 DEF Has, I
    <3> QED
      BY <1>3, <3>1, <3>2 DEF Good, DistinctKeys
  <2>4. Good(u, X, (I \ {v}) \cup {v}) /\ Alike(renamed, u)
    <3>1. DistinctKeys(renamed, (I \ {v}) \cup {v})
      BY <2>2, <2>3
    <3> QED
      BY <1>10, <2>1, <2>2, <3>1, ValuePlaced
  <2>5. Whole(u, X) /\ size(u) = size(t)
    BY <1>10, <2>2, <2>4 DEF Whole, Alike, SameSizes, Indexes, size
  <2>6. Stays(t, u, X)
    BY <1>6, <1>10, <2>4, <2>5 DEF Stays, Alike, SameSizes, SameBuckets
  <2> QED
    BY <1>10, <1>11, <2>4, <2>5, <2>6 DEF Alike, I, e
<1>12. CASE Has(t, new_key)
  BY <1>1, <1>2, <1>12
<1> QED
  BY <1>11, <1>12

\* Every value is one of the container's, and every key of the container's is there.
From(t, c) ==
  /\ \A i \in Indexes(t) : \E j \in 1..Len(c) : t.m_values[i + 1] = c[j]
  /\ \A j \in 1..Len(c) : \E i \in Indexes(t) : KeyAt(t, i) = c[j].key

\* So many of the container's values are still to be looked at; those before have
\* their buckets.
Replacing(s, X, c, left) ==
  /\ DOMAIN s = {"table", "value_idx"}
  /\ s.value_idx \in Nat /\ left \in Nat /\ s.value_idx + left = size(s.table)
  /\ Good(s.table, X, 0..(s.value_idx - 1)) /\ size(s.table) <= bucket_count(s.table)
  /\ From(s.table, c)

SameKind(t, u) == u.type = t.type /\ u.m_max_load_factor = t.m_max_load_factor

\* A table without its last value.
Popped(t, u, X, I) ==
  /\ Good(u, X, I) /\ SameSizes(t, u) /\ size(u) = size(t) - 1
  /\ \A i \in Indexes(u) : u.m_values[i + 1] = t.m_values[i + 1]

\* The last value goes while it has no bucket.
LEMMA PoppedAgain ==
  ASSUME NEW t, NEW X, NEW I, Good(t, X, I), size(t) > 0, I \subseteq 0..(size(t) - 2)
  PROVE  Popped(t, pop_back(t), X, I)
BY PoppedTable, ZenonT(60) DEF Popped

\* One of them: it gets its bucket, or gives its place to the last one.
LEMMA ReplacedOne ==
  ASSUME NEW s, NEW X, NEW c, NEW left \in Nat, left > 0, Replacing(s, X, c, left)
  PROVE  Replacing(ReplaceOne(s), X, c, left - 1) /\ SameKind(s.table, ReplaceOne(s).table)
<1> DEFINE t == s.table
           idx == s.value_idx
           key == KeyAt(t, idx)
           n == ProbeEnd(t, key)
           e == Last(t.m_values)
           withBack == [t EXCEPT !.m_values[idx + 1] = e]
           placed == place_and_shift_up(t, NewBucket(t, key, n, idx), Place(t, key, n))
           I == 0..(idx - 1)
           r == ReplaceOne(s)
<1>1. /\ idx \in Nat /\ idx + left = size(t) /\ Good(t, X, I)
      /\ size(t) <= bucket_count(t) /\ From(t, c)
  BY DEF Replacing
<1>2. r = IF Holds(t, key, n) THEN [s EXCEPT !.table = pop_back(withBack)]
          ELSE [table |-> placed, value_idx |-> idx + 1]
  BY DEF ReplaceOne
<1>3. /\ idx \in Indexes(t) \ I /\ I \subseteq Indexes(t) /\ size(t) - 1 \in Indexes(t)
      /\ size(t) \in Nat
  BY <1>1 DEF Indexes
<1>4. /\ ValuesTyped(t, X) /\ key \in DOMAIN t.type.hash /\ DOMAIN t = Fields
  BY <1>1, <1>3, KeyIs DEF Good, ValuesTyped
<1>5. /\ n \in Steps(t) /\ (Holds(t, key, n) \/ Richer(t, key, n))
      /\ \A m \in 0..(n - 1) : ~Richer(t, key, m)
      /\ Holds(t, key, n) <=> \E v \in I : KeyAt(t, v) = key
  <2> HIDE DEF n, key
  <2>1. n = ProbeEnd(t, key)
    BY DEF n
  <2> QED
    BY <1>1, <1>4, <2>1, ProbeEndIs
<1> HIDE DEF n, t, idx
<1>6. CASE Holds(t, key, n)
  <2>1. PICK v \in I : KeyAt(t, v) = key
    BY <1>5, <1>6
  <2>2. e = t.m_values[(size(t) - 1) + 1]
    BY <1>3 DEF Last, size
  <2>3. e \in [key : DOMAIN t.type.hash, value : X]
    BY <1>3, <1>4, <2>2, KeyIs
  <2>4. Sets(t, withBack, idx, e)
    BY DEF Sets
  <2> DEFINE u == pop_back(withBack)
  <2>5. r.table = u /\ r.value_idx = idx /\ DOMAIN r = {"table", "value_idx"}
    <3>1. r = [s EXCEPT !.table = u]
      BY <1>2, <1>6
    <3> HIDE DEF u, r
    <3> QED
      BY <3>1 DEF idx, Replacing
  <2>6. /\ Good(withBack, X, I) /\ SameBuckets(t, withBack) /\ size(withBack) = size(t)
        /\ IsSet(t, withBack, idx, e)
    <3> HIDE DEF withBack, e
    <3> QED
      BY <1>1, <1>3, <2>3, <2>4, ValueChanged
  <2> HIDE DEF withBack, u, e
  <2>7. /\ Good(u, X, I) /\ SameSizes(withBack, u) /\ size(u) = size(t) - 1
        /\ \A i \in Indexes(u) : u.m_values[i + 1] = withBack.m_values[i + 1]
    <3>1. size(withBack) > 0 /\ I \subseteq 0..(size(withBack) - 2)
      BY <1>1, <2>6
    <3>2. Popped(withBack, u, X, I)
      <4> HIDE DEF I
      <4> QED
        BY <2>6, <3>1, PoppedAgain DEF u
    <3> QED
      BY <2>6, <3>2 DEF Popped
  <2>8. /\ Indexes(u) \subseteq Indexes(t)
        /\ \A i \in Indexes(u) : /\ i # idx => u.m_values[i + 1] = t.m_values[i + 1]
                                 /\ i = idx => u.m_values[i + 1] = e
    <3>1. Indexes(u) \subseteq Indexes(t)
      BY <1>3, <2>7 DEF Indexes
    <3> QED
      BY <2>6, <2>7, <3>1 DEF IsSet
  <2>9. ASSUME NEW i \in Indexes(u) PROVE \E j \in 1..Len(c) : u.m_values[i + 1] = c[j]
    <3>1. \E k \in Indexes(t) : u.m_values[i + 1] = t.m_values[k + 1]
      BY <1>3, <2>2, <2>8
    <3> QED
      BY <1>1, <3>1 DEF From
  <2>10. ASSUME NEW j \in 1..Len(c) PROVE \E i \in Indexes(u) : KeyAt(u, i) = c[j].key
    <3>1. PICK i \in Indexes(t) : KeyAt(t, i) = c[j].key
      BY <1>1 DEF From
    <3>2. v \in Indexes(u) /\ KeyAt(u, v) = key
      <4>1. v \in Indexes(u) /\ v # idx
        BY <1>1, <1>3, <2>7 DEF Indexes
      <4> QED
        BY <2>1, <2>8, <4>1 DEF KeyAt
    <3>3. CASE i = idx
      BY <3>1, <3>2, <3>3 DEF key
    <3>4. CASE i # idx /\ i # size(t) - 1
      <4>1. i \in Indexes(u)
        BY <1>3, <2>7, <3>4 DEF Indexes
      <4> QED
        BY <2>8, <3>1, <3>4, <4>1 DEF KeyAt
    <3>5. CASE i # idx /\ i = size(t) - 1
      <4>1. idx \in Indexes(u)
        BY <1>1, <1>3, <2>7, <3>5 DEF Indexes
      <4>2. KeyAt(u, idx) = e.key /\ KeyAt(t, i) = e.key
        BY <2>2, <2>8, <3>5, <4>1 DEF KeyAt
      <4> QED
        BY <3>1, <4>1, <4>2
    <3> QED
      BY <3>3, <3>4, <3>5
  <2>11. size(u) <= bucket_count(u) /\ SameKind(t, u) /\ idx + (left - 1) = size(u) /\ left - 1 \in Nat
    <3>1. bucket_count(t) \in Nat
      BY <1>1, Probing
    <3> QED
      BY <1>1, <2>6, <2>7, <3>1 DEF SameBuckets, SameSizes, SameKind
  <2> QED
    BY <1>1, <2>5, <2>7, <2>9, <2>10, <2>11 DEF Replacing, From, t, r
<1>7. CASE ~Holds(t, key, n)
  <2>1. r.table = placed /\ r.value_idx = idx + 1 /\ DOMAIN r = {"table", "value_idx"}
    BY <1>2, <1>7
  <2>2. \E i \in 0..(bucket_count(t) - 1) : D(t.m_buckets, i) = 0
    BY <1>1, <1>3, RoomLeft
  <2>3. DistinctKeys(t, I \cup {idx})
    <3>1. \A v \in I : KeyAt(t, v) # key
      BY <1>5, <1>7
    <3> QED
      BY <1>1, <3>1 DEF Good, DistinctKeys
  <2> HIDE DEF placed, I
  <2>4. Good(placed, X, I \cup {idx}) /\ Alike(t, placed)
    <3>1. placed = place_and_shift_up(t, NewBucket(t, key, n, idx), Place(t, key, n)) /\ key = KeyAt(t, idx)
      BY DEF placed
    <3> HIDE DEF key
    <3> QED
      BY <1>1, <1>3, <1>5, <1>7, <2>2, <2>3, <3>1, PlacedTable
  <2>5. I \cup {idx} = 0..((idx + 1) - 1) /\ (idx + 1) + (left - 1) = size(t) /\ idx + 1 \in Nat
        /\ left - 1 \in Nat
    BY <1>1 DEF I
  <2>6. size(placed) = size(t) /\ bucket_count(placed) = bucket_count(t) /\ SameKind(t, placed)
        /\ From(placed, c)
    BY <1>1, <2>4, ZenonT(60) DEF Alike, SameSizes, SameKind, From, size, Indexes, KeyAt
  <2> QED
    BY <1>1, <2>1, <2>4, <2>5, <2>6 DEF Replacing, t, r
<1> QED
  BY <1>6, <1>7

\* What the loop of replace begins with.
Cleared(t, c) ==
  LET shifts == calc_shifts_for_size(t, Len(c))
  IN  IF shifts < t.m_shifts THEN Allocated(t, shifts) ELSE clear_buckets(t)
Start(t, c) == [table |-> [Cleared(t, c) EXCEPT !.m_values = c], value_idx |-> 0]

\* The container's values are put in the table's place, and no bucket is taken.
LEMMA ReplaceStarts ==
  ASSUME NEW t, NEW X, Whole(t, X), NEW c \in Seq([key : DOMAIN t.type.hash, value : X]),
         Fits(t, Len(c))
  PROVE  Replacing(Start(t, c), X, c, Len(c)) /\ SameKind(t, Start(t, c).table)
<1> DEFINE shifts == calc_shifts_for_size(t, Len(c))
           cleared == Cleared(t, c)
           u == [cleared EXCEPT !.m_values = c]
           M == Len(c)
<1>1. /\ ValuesTyped(t, X) /\ Sizes(t) /\ DOMAIN t = Fields /\ bucket_count(t) \in Nat
      /\ bucket_count(t) >= 2 /\ DOMAIN t.m_buckets = 0..(bucket_count(t) - 1)
      /\ ShiftsFor(t.type, t.m_shifts) /\ M \in Nat
  BY WholeIs
<1>2. ShiftsFor(t.type, shifts) /\ M <= calc_num_buckets(t, shifts)
  BY <1>1, ShiftsForSize
<1>3. cleared = IF shifts < t.m_shifts THEN Allocated(t, shifts) ELSE clear_buckets(t)
  BY DEF Cleared
<1> HIDE DEF shifts, cleared
<1>4. Good(cleared, X, {}) /\ M <= bucket_count(cleared) /\ SameKind(t, cleared)
  <2>1. CASE shifts < t.m_shifts
    <3>1. cleared = Allocated(t, shifts)
      BY <1>3, <2>1
    <3>2. Good(cleared, X, {}) /\ Kept(t, cleared) /\ bucket_count(cleared) = calc_num_buckets(t, shifts)
      BY <1>1, <1>2, <3>1, AllocatedTable
    <3> QED
      BY <1>2, <3>2 DEF Kept, SameKind
  <2>2. CASE ~(shifts < t.m_shifts)
    <3>1. cleared = clear_buckets(t)
      BY <1>3, <2>2
    <3>2. Good(cleared, X, {}) /\ Alike(t, cleared)
      BY <1>1, <3>1, ClearedTable
    <3>3. /\ shifts \in 8..62 /\ t.m_shifts \in 8..62 /\ calc_num_buckets(t, shifts) = Pow2[64 - shifts]
      BY <1>1, <1>2, NumBucketsIs
    <3>4. Pow2[64 - shifts] <= bucket_count(t)
      <4> DEFINE a == 64 - shifts
                 b == shifts - t.m_shifts
      <4>1. a \in 0..56 /\ b \in 0..56 /\ a + b <= 56 /\ a + b = 64 - t.m_shifts
        <5> DEFINE x == t.m_shifts
        <5>1. shifts \in 8..62 /\ x \in 8..62 /\ ~(shifts < x)
          BY <2>2, <3>3
        <5> HIDE DEF x
        <5>2. 64 - shifts \in 0..56 /\ shifts - x \in 0..56 /\ (64 - shifts) + (shifts - x) = 64 - x
              /\ 64 - x <= 56
          BY <5>1
        <5> QED
          BY <5>2 DEF x
      <4>2. Pow2[a] <= Pow2[a + b]
        <5> HIDE DEF a, b
        <5> QED
          BY <4>1, Pow2Grows
      <4> QED
        BY <1>1, <4>1, <4>2 DEF Sizes
    <3>5. Pow2[64 - shifts] \in Nat
      <4>1. 64 - shifts \in 0..56
        BY <3>3
      <4> QED
        BY <4>1, Pow2Is
    <3> QED
      BY <1>1, <1>2, <3>2, <3>3, <3>4, <3>5 DEF Alike, SameSizes, SameKind
  <2> QED
    BY <2>1, <2>2
<1>5. DOMAIN cleared = Fields /\ ValuesTyped(cleared, X)
  BY <1>4 DEF Good, ValuesTyped
<1>6. u.m_values = c /\ SameBuckets(cleared, u) /\ size(u) = M
  BY <1>5 DEF Fields, SameBuckets, SameSizes, bucket_count, size
<1>7. Start(t, c).table = u /\ Start(t, c).value_idx = 0 /\ DOMAIN Start(t, c) = {"table", "value_idx"}
  BY DEF Start, cleared
<1> HIDE DEF u, M
<1>8. ValuesTyped(u, X)
  <2>1. u.type = cleared.type /\ cleared.type = t.type /\ DOMAIN u = Fields
        /\ u.m_max_load_factor = cleared.m_max_load_factor
    BY <1>4, <1>6 DEF SameBuckets, SameSizes, SameKind
  <2> QED
    BY <1>5, <1>6, <2>1 DEF ValuesTyped
<1>9. Good(u, X, {})
  BY <1>4, <1>6, <1>8, ValuesAgain
<1>10. From(u, c)
  <2>1. ASSUME NEW i \in Indexes(u) PROVE \E j \in 1..Len(c) : u.m_values[i + 1] = c[j]
    <3>1. i + 1 \in 1..Len(c)
      BY <1>1, <1>6 DEF Indexes, M
    <3> QED
      BY <1>6, <3>1
  <2>2. ASSUME NEW j \in 1..Len(c) PROVE \E i \in Indexes(u) : KeyAt(u, i) = c[j].key
    <3>1. j - 1 \in Indexes(u) /\ (j - 1) + 1 = j
      BY <1>1, <1>6 DEF Indexes, M
    <3> QED
      BY <1>6, <3>1 DEF KeyAt
  <2> QED
    BY <2>1, <2>2 DEF From
<1>11. size(u) <= bucket_count(u) /\ SameKind(t, u)
  BY <1>4, <1>6 DEF SameBuckets, SameSizes, SameKind
<1>12. 0..(0 - 1) = {} /\ 0 + M = size(u) /\ 0 \in Nat
  BY <1>1, <1>6
<1> QED
  BY <1>1, <1>7, <1>9, <1>10, <1>11, <1>12 DEF Replacing, M

\* replace: the values are the container's, one for every key.
LEMMA ReplacedTable ==
  ASSUME NEW t, NEW X, Whole(t, X), NEW c \in Seq([key : DOMAIN t.type.hash, value : X]),
         Fits(t, Len(c))
  PROVE  Stays(t, replace(t, c), X) /\ From(replace(t, c), c)
<1> DEFINE M == Len(c)
           start == Start(t, c)
           Fills(f) == f = [n \in 0..M |-> IF n = 0 THEN start ELSE ReplaceOne(f[n - 1])]
           Until(k, f) == /\ f = [n \in 0..M |-> f[n]]
                          /\ f[0] = start
                          /\ \A n \in 1..k : f[n] = ReplaceOne(f[n - 1])
           K == {k \in 0..M : \E f : Until(k, f)}
           replaced == CHOOSE f : Fills(f)
<1>1. M \in Nat
  OBVIOUS
<1>2. replace(t, c) = replaced[M].table
  BY DEF replace, Start, Cleared
<1> HIDE DEF M, start
<1>3. 0 \in K
  <2> DEFINE f == [n \in 0..M |-> start]
  <2>1. Until(0, f) /\ 0 \in 0..M
    BY <1>1
  <2> HIDE DEF Until, f
  <2> QED
    BY <2>1
<1>4. ASSUME NEW k \in 0..(M - 1), k \in K PROVE k + 1 \in K
  <2>1. PICK f : Until(k, f)
    BY <1>4
  <2> DEFINE g == [n \in 0..M |-> IF n = k + 1 THEN ReplaceOne(f[k]) ELSE f[n]]
  <2>2. k + 1 \in 0..M /\ k \in 0..M /\ k # k + 1 /\ 0 # k + 1 /\ 0 \in 0..M
    BY <1>1
  <2>3. g[0] = f[0] /\ g[k + 1] = ReplaceOne(f[k]) /\ \A n \in 0..k : g[n] = f[n]
    BY <1>1, <2>2
  <2>4. g = [n \in 0..M |-> g[n]]
    OBVIOUS
  <2> HIDE DEF g
  <2>5. ASSUME NEW n \in 1..(k + 1) PROVE g[n] = ReplaceOne(g[n - 1])
    <3>1. n - 1 \in 0..k /\ (n = k + 1 => n - 1 = k) /\ (n # k + 1 => n \in 1..k /\ n \in 0..k)
      BY <1>1
    <3> QED
      BY <2>1, <2>3, <3>1
  <2>6. Until(k + 1, g)
    BY <2>1, <2>3, <2>4, <2>5
  <2> HIDE DEF Until
  <2> QED
    BY <2>2, <2>6
<1>5. PICK f : Until(M, f)
  <2> HIDE DEF K
  <2>1. \A k \in 0..M : k \in K
    BY <1>1, <1>3, <1>4, InductionUpTo
  <2>2. M \in 0..M
    BY <1>1
  <2> QED
    BY <2>1, <2>2 DEF K
<1>6. Fills(f)
  <2>1. \A n \in 0..M : n = 0 \/ n \in 1..M
    BY <1>1
  <2> QED
    BY <1>5, <2>1
<1>7. Fills(replaced)
  <2> HIDE DEF Fills
  <2> QED
    BY <1>6
<1> HIDE DEF replaced
<1>8. replaced[0] = start /\ \A n \in 1..M : replaced[n] = ReplaceOne(replaced[n - 1])
  <2>1. 0 \in 0..M /\ \A n \in 1..M : n \in 0..M /\ n # 0
    BY <1>1
  <2>2. \A n \in 0..M : replaced[n] = IF n = 0 THEN start ELSE ReplaceOne(replaced[n - 1])
    BY <1>7
  <2> QED
    BY <2>1, <2>2
<1> DEFINE G == {n \in 0..M : Replacing(replaced[n], X, c, M - n) /\ SameKind(t, replaced[n].table)}
<1>9. 0 \in G
  <2>1. Replacing(start, X, c, M) /\ SameKind(t, start.table)
    BY ReplaceStarts DEF M, start
  <2>2. M - 0 = M /\ 0 \in 0..M
    BY <1>1
  <2> QED
    BY <1>8, <2>1, <2>2
<1>10. ASSUME NEW n \in 0..(M - 1), n \in G PROVE n + 1 \in G
  <2> DEFINE s == replaced[n]
             left == M - n
  <2>1. /\ Replacing(s, X, c, left) /\ SameKind(t, s.table) /\ left \in Nat /\ left > 0
        /\ left - 1 = M - (n + 1) /\ n + 1 \in 0..M
    BY <1>1, <1>10
  <2>2. replaced[n + 1] = ReplaceOne(s)
    <3>1. n + 1 \in 1..M /\ (n + 1) - 1 = n
      BY <1>1
    <3> QED
      BY <1>8, <3>1
  <2> HIDE DEF s, left
  <2>3. Replacing(ReplaceOne(s), X, c, left - 1) /\ SameKind(s.table, ReplaceOne(s).table)
    BY <2>1, ReplacedOne
  <2> QED
    BY <2>1, <2>2, <2>3 DEF SameKind
<1>11. M \in G
  <2> HIDE DEF G
  <2>1. \A n \in 0..M : n \in G
    BY <1>1, <1>9, <1>10, InductionUpTo
  <2>2. M \in 0..M
    BY <1>1
  <2> QED
    BY <2>1, <2>2
<1> DEFINE r == replaced[M]
<1>12. Replacing(r, X, c, M - M) /\ SameKind(t, r.table)
  BY <1>11
<1> HIDE DEF r
<1>13. /\ r.value_idx = size(r.table) /\ Good(r.table, X, 0..(r.value_idx - 1))
       /\ size(r.table) <= bucket_count(r.table) /\ From(r.table, c)
  BY <1>1, <1>12 DEF Replacing
<1>14. Whole(r.table, X)
  BY <1>13 DEF Whole, Indexes
<1>15. replace(t, c) = r.table
  BY <1>2 DEF r
<1> QED
  BY <1>12, <1>13, <1>14, <1>15 DEF Stays, SameKind

-----------------------------------------------------------------------------
(* Values taken out, with their keys. *)

EntriesOf(t) == {t.m_values[i + 1] : i \in Indexes(t)}

\* What is left are the entries of the other keys.
Removed(t, u, X, keys) ==
  Stays(t, u, X) /\ EntriesOf(u) = {e \in EntriesOf(t) : e.key \notin keys}

\* A value erased, and the last one in its place: the entries of its key are gone.
LEMMA ShrunkIs ==
  ASSUME NEW t, NEW X, Whole(t, X), NEW u, NEW v, Shrunk(t, u, X, v)
  PROVE  Removed(t, u, X, {KeyAt(t, v)})
<1> DEFINE n == size(t)
           old(i) == IF i = v THEN n - 1 ELSE i
<1>1. n \in Nat /\ DistinctKeys(t, Indexes(t))
  BY WholeIs
<1>2. /\ v \in Indexes(t) /\ size(u) = n - 1 /\ Whole(u, X) /\ SameSizes(t, u)
      /\ \A i \in Indexes(u) : u.m_values[i + 1] = t.m_values[old(i) + 1]
  BY DEF Shrunk
<1> HIDE DEF n
<1>3. Indexes(t) = 0..(n - 1) /\ Indexes(u) = 0..(n - 2)
  BY <1>1, <1>2 DEF Indexes, n
<1>4. ASSUME NEW i \in Indexes(u)
      PROVE  old(i) \in Indexes(t) /\ KeyAt(t, old(i)) # KeyAt(t, v)
  <2>1. i \in Nat /\ i <= n - 2 /\ n - 1 \in Indexes(t) /\ i \in Indexes(t)
    BY <1>1, <1>3
  <2>2. old(i) \in Indexes(t) /\ old(i) # v
    <3>1. CASE i = v
      <4>1. n - 1 # v
        BY <1>1, <2>1, <3>1
      <4> QED
        BY <2>1, <3>1, <4>1
    <3>2. CASE i # v
      BY <2>1, <3>2
    <3> QED
      BY <3>1, <3>2
  <2> HIDE DEF old
  <2> QED
    BY <1>1, <1>2, <2>2 DEF DistinctKeys
<1>5. ASSUME NEW j \in Indexes(t), KeyAt(t, j) # KeyAt(t, v)
      PROVE  \E i \in Indexes(u) : old(i) = j
  <2>1. CASE j = n - 1
    <3>1. v \in Indexes(u) /\ old(v) = j
      BY <1>1, <1>2, <1>3, <1>5, <2>1
    <3> QED
      BY <3>1
  <2>2. CASE j # n - 1
    <3>1. j \in Indexes(u) /\ old(j) = j
      BY <1>1, <1>3, <1>5, <2>2
    <3> QED
      BY <3>1
  <2> QED
    BY <2>1, <2>2
<1> HIDE DEF old
<1>6. EntriesOf(u) \subseteq {e \in EntriesOf(t) : e.key \notin {KeyAt(t, v)}}
  BY <1>2, <1>4 DEF EntriesOf, KeyAt
<1>7. {e \in EntriesOf(t) : e.key \notin {KeyAt(t, v)}} \subseteq EntriesOf(u)
  <2> SUFFICES ASSUME NEW j \in Indexes(t), t.m_values[j + 1].key # KeyAt(t, v)
               PROVE  t.m_values[j + 1] \in EntriesOf(u)
    BY DEF EntriesOf
  <2>1. PICK i \in Indexes(u) : old(i) = j
    BY <1>5 DEF KeyAt
  <2>2. u.m_values[i + 1] = t.m_values[j + 1]
    BY <1>2, <2>1
  <2> QED
    BY <2>2 DEF EntriesOf
<1> QED
  BY <1>2, <1>6, <1>7 DEF Removed, Stays, SameSizes

\* erase by key, extract by key.
LEMMA KeyErased ==
  ASSUME NEW t, NEW X, Whole(t, X), NEW key \in DOMAIN t.type.hash
  PROVE  Removed(t, do_erase_key(t, key), X, {key})
<1> DEFINE u == do_erase_key(t, key)
<1>1. CASE Has(t, key)
  <2>1. PICK v \in Indexes(t) : KeyAt(t, v) = key
    BY <1>1 DEF Has
  <2>2. Shrunk(t, u, X, v)
    BY <2>1, ErasedKey
  <2> QED
    BY <2>1, <2>2, ShrunkIs
<1>2. CASE ~Has(t, key)
  <2>1. u = t /\ \A v \in Indexes(t) : KeyAt(t, v) # key
    BY <1>2, ErasedKey DEF Has
  <2> HIDE DEF u
  <2>2. EntriesOf(u) = {e \in EntriesOf(t) : e.key \notin {key}}
    BY <2>1 DEF EntriesOf, KeyAt
  <2> QED
    BY <2>1, <2>2 DEF Removed, Stays, u
<1> QED
  BY <1>1, <1>2

\* Where the value at i was before n of a range were erased: the first of them,
\* as many as there are values behind the range, have been filled from the end.
Filled(first, last, size0, n) == Min2(n, Min2(last - first, size0 - last))
Before(first, last, size0, n, i) ==
  IF first <= i /\ i < first + Filled(first, last, size0, n) THEN size0 - 1 - (i - first) ELSE i
NthOf(first, last, size0, n) ==
  IF n <= Min2(last - first, size0 - last) THEN first + n - 1
  ELSE last - (n - Min2(last - first, size0 - last))

Range0(first, last, size0) ==
  size0 \in Nat /\ first \in 0..size0 /\ last \in first..size0

\* One erasure more: the value erased is there, and so is what takes its place.
LEMMA BeforeStep ==
  ASSUME NEW first, NEW last, NEW size0, Range0(first, last, size0), NEW n \in 0..(last - first - 1),
         NEW v, v = NthOf(first, last, size0, n + 1)
  PROVE  /\ v \in 0..(size0 - n - 1)
         /\ \A i \in 0..(size0 - (n + 1) - 1) :
              Before(first, last, size0, n, IF i = v THEN size0 - n - 1 ELSE i) =
                Before(first, last, size0, n + 1, i)
<1>1. size0 \in Nat /\ first \in Nat /\ last \in Nat /\ first <= last /\ last <= size0
  BY DEF Range0
<1>2. CASE n + 1 <= Min2(last - first, size0 - last)
  BY <1>1, <1>2 DEF NthOf, Before, Filled, Min2
<1>3. CASE ~(n + 1 <= Min2(last - first, size0 - last))
  BY <1>1, <1>3 DEF NthOf, Before, Filled, Min2
<1> QED
  BY <1>2, <1>3

\* In the end every index before the range and behind it is one of an old value.
LEMMA BeforeAll ==
  ASSUME NEW first, NEW last, NEW size0, Range0(first, last, size0), NEW n, n = last - first
  PROVE  /\ \A i \in 0..(size0 - n - 1) :
              Before(first, last, size0, n, i) \in (0..(size0 - 1)) \ (first..(last - 1))
         /\ \A j \in (0..(size0 - 1)) \ (first..(last - 1)) :
              \E i \in 0..(size0 - n - 1) : Before(first, last, size0, n, i) = j
<1>1. size0 \in Nat /\ first \in Nat /\ last \in Nat /\ first <= last /\ last <= size0
  BY DEF Range0
<1>2. ASSUME NEW i \in 0..(size0 - n - 1)
      PROVE  Before(first, last, size0, n, i) \in (0..(size0 - 1)) \ (first..(last - 1))
  BY <1>1 DEF Before, Filled, Min2
<1>3. ASSUME NEW j \in (0..(size0 - 1)) \ (first..(last - 1))
      PROVE  \E i \in 0..(size0 - n - 1) : Before(first, last, size0, n, i) = j
  <2> DEFINE k == first + (size0 - 1 - j)
  <2>1. CASE j < first
    <3>1. j \in 0..(size0 - n - 1) /\ Before(first, last, size0, n, j) = j
      BY <1>1, <2>1 DEF Before
    <3> QED
      BY <3>1
  <2>2. CASE ~(j < first) /\ k < first + Filled(first, last, size0, n)
    <3>1. k \in 0..(size0 - n - 1) /\ Before(first, last, size0, n, k) = j
      BY <1>1, <2>2 DEF Before, Filled, Min2
    <3> QED
      BY <3>1
  <2>3. CASE ~(j < first) /\ ~(k < first + Filled(first, last, size0, n))
    <3>1. j \in 0..(size0 - n - 1) /\ Before(first, last, size0, n, j) = j
      BY <1>1, <2>3 DEF Before, Filled, Min2
    <3> QED
      BY <3>1
  <2> QED
    BY <2>1, <2>2, <2>3
<1> QED
  BY <1>2, <1>3

\* So much of a range is erased.
Erasing(t, u, X, first, last, n) ==
  /\ Stays(t, u, X) /\ size(u) = size(t) - n
  /\ \A i \in Indexes(u) : u.m_values[i + 1] = t.m_values[Before(first, last, size(t), n, i) + 1]

\* One more turn of the loop of erase(first, last).
LEMMA ErasedOne ==
  ASSUME NEW t, NEW X, Whole(t, X), NEW first, NEW last, Range0(first, last, size(t)),
         NEW n \in 0..(last - first - 1), NEW u, Erasing(t, u, X, first, last, n)
  PROVE  Erasing(t, EraseAt(u, NthOf(first, last, size(t), n + 1)), X, first, last, n + 1)
<1> DEFINE size0 == size(t)
           v == NthOf(first, last, size0, n + 1)
           w == EraseAt(u, v)
<1>1. size0 \in Nat /\ n \in Nat /\ size(u) = size0 - n /\ Whole(u, X)
  BY WholeIs DEF Erasing, Stays, Range0
<1>2. /\ v \in 0..(size0 - n - 1)
      /\ \A i \in 0..(size0 - (n + 1) - 1) :
           Before(first, last, size0, n, IF i = v THEN size0 - n - 1 ELSE i) =
             Before(first, last, size0, n + 1, i)
  BY BeforeStep
<1> HIDE DEF v, size0
<1>3. Indexes(u) = 0..(size0 - n - 1) /\ v \in Indexes(u)
  BY <1>1, <1>2 DEF Indexes
<1>4. Shrunk(u, w, X, v)
  BY <1>1, <1>3, ErasedAt
<1> HIDE DEF w
<1>5. /\ size(w) = size0 - (n + 1) /\ Whole(w, X) /\ SameSizes(u, w)
      /\ \A i \in Indexes(w) :
           w.m_values[i + 1] = u.m_values[(IF i = v THEN size0 - n - 1 ELSE i) + 1]
  <2>1. size0 - n - 1 = size(u) - 1 /\ size0 - (n + 1) = size(u) - 1
    BY <1>1
  <2> QED
    BY <1>4, <2>1 DEF Shrunk
<1>6. ASSUME NEW i \in Indexes(w)
      PROVE  w.m_values[i + 1] = t.m_values[Before(first, last, size0, n + 1, i) + 1]
  <2> DEFINE j == IF i = v THEN size0 - n - 1 ELSE i
  <2>1. i \in 0..(size0 - (n + 1) - 1) /\ j \in Indexes(u)
    BY <1>1, <1>3, <1>5 DEF Indexes
  <2>2. Before(first, last, size0, n, j) = Before(first, last, size0, n + 1, i)
    BY <1>2, <2>1
  <2>3. w.m_values[i + 1] = u.m_values[j + 1]
    BY <1>5
  <2> HIDE DEF j
  <2>4. u.m_values[j + 1] = t.m_values[Before(first, last, size0, n, j) + 1]
    BY <2>1 DEF Erasing, size0
  <2> QED
    BY <2>2, <2>3, <2>4
<1> QED
  BY <1>5, <1>6 DEF Erasing, Stays, SameSizes, size0, w, v

\* erase(first, last): the entries of the range are gone.
LEMMA RangeErased ==
  ASSUME NEW t, NEW X, Whole(t, X), NEW first \in 0..size(t), NEW last \in first..size(t)
  PROVE  Removed(t, EraseRange(t, first, last), X, {KeyAt(t, i) : i \in first..(last - 1)})
<1> DEFINE M == last - first
           Nth(n) == NthOf(first, last, size(t), n)
           Fills(f) == f = [n \in 0..M |-> IF n = 0 THEN t ELSE EraseAt(f[n - 1], Nth(n))]
           Until(k, f) == /\ f = [n \in 0..M |-> f[n]]
                          /\ f[0] = t
                          /\ \A n \in 1..k : f[n] = EraseAt(f[n - 1], Nth(n))
           K == {k \in 0..M : \E f : Until(k, f)}
           erased == CHOOSE f : Fills(f)
<1>1. M \in Nat /\ size(t) \in Nat /\ Range0(first, last, size(t))
  BY WholeIs DEF Range0
<1>2. EraseRange(t, first, last) = erased[M]
  BY DEF EraseRange, NthOf
<1> HIDE DEF M, Nth
<1>3. 0 \in K
  <2> DEFINE f == [n \in 0..M |-> t]
  <2>1. Until(0, f) /\ 0 \in 0..M
    BY <1>1
  <2> HIDE DEF Until, f
  <2> QED
    BY <2>1
<1>4. ASSUME NEW k \in 0..(M - 1), k \in K PROVE k + 1 \in K
  <2>1. PICK f : Until(k, f)
    BY <1>4
  <2> DEFINE g == [n \in 0..M |-> IF n = k + 1 THEN EraseAt(f[k], Nth(k + 1)) ELSE f[n]]
  <2>2. k + 1 \in 0..M /\ k \in 0..M /\ k # k + 1 /\ 0 # k + 1 /\ 0 \in 0..M
    BY <1>1
  <2>3. g[0] = f[0] /\ g[k + 1] = EraseAt(f[k], Nth(k + 1)) /\ \A n \in 0..k : g[n] = f[n]
    BY <1>1, <2>2
  <2>4. g = [n \in 0..M |-> g[n]]
    OBVIOUS
  <2> HIDE DEF g
  <2>5. ASSUME NEW n \in 1..(k + 1) PROVE g[n] = EraseAt(g[n - 1], Nth(n))
    <3>1. n - 1 \in 0..k /\ (n = k + 1 => n - 1 = k) /\ (n # k + 1 => n \in 1..k /\ n \in 0..k)
      BY <1>1
    <3> QED
      BY <2>1, <2>3, <3>1
  <2>6. Until(k + 1, g)
    BY <2>1, <2>3, <2>4, <2>5
  <2> HIDE DEF Until
  <2> QED
    BY <2>2, <2>6
<1>5. PICK f : Until(M, f)
  <2> HIDE DEF K
  <2>1. \A k \in 0..M : k \in K
    BY <1>1, <1>3, <1>4, InductionUpTo
  <2>2. M \in 0..M
    BY <1>1
  <2> QED
    BY <2>1, <2>2 DEF K
<1>6. Fills(f)
  <2>1. \A n \in 0..M : n = 0 \/ n \in 1..M
    BY <1>1
  <2> QED
    BY <1>5, <2>1
<1>7. Fills(erased)
  <2> HIDE DEF Fills
  <2> QED
    BY <1>6
<1> HIDE DEF erased
<1>8. erased[0] = t /\ \A n \in 1..M : erased[n] = EraseAt(erased[n - 1], Nth(n))
  <2>1. 0 \in 0..M /\ \A n \in 1..M : n \in 0..M /\ n # 0
    BY <1>1
  <2>2. \A n \in 0..M : erased[n] = IF n = 0 THEN t ELSE EraseAt(erased[n - 1], Nth(n))
    BY <1>7
  <2> QED
    BY <2>1, <2>2
<1> DEFINE G == {n \in 0..M : Erasing(t, erased[n], X, first, last, n)}
<1>9. 0 \in G
  <2>1. \A i \in Indexes(t) : Before(first, last, size(t), 0, i) = i
    <3>1. Filled(first, last, size(t), 0) = 0
      BY <1>1 DEF Filled, Min2
    <3>2. \A i \in Indexes(t) : ~(first <= i /\ i < first + 0)
      BY <1>1 DEF Indexes
    <3> QED
      BY <3>1, <3>2 DEF Before
  <2>2. size(t) - 0 = size(t) /\ 0 \in 0..M
    BY <1>1
  <2> QED
    BY <1>8, <2>1, <2>2 DEF Erasing, Stays
<1>10. ASSUME NEW n \in 0..(M - 1), n \in G PROVE n + 1 \in G
  <2>1. n + 1 \in 1..M /\ n + 1 \in 0..M /\ (n + 1) - 1 = n /\ n \in 0..(last - first - 1)
    BY <1>1 DEF M
  <2>2. erased[n + 1] = EraseAt(erased[n], Nth(n + 1))
    BY <1>8, <2>1
  <2>3. Erasing(t, erased[n], X, first, last, n)
    BY <1>10
  <2>4. Erasing(t, erased[n + 1], X, first, last, n + 1)
    BY <1>1, <2>1, <2>2, <2>3, ErasedOne DEF Nth
  <2> QED
    BY <2>1, <2>4
<1>11. M \in G
  <2> HIDE DEF G
  <2>1. \A n \in 0..M : n \in G
    BY <1>1, <1>9, <1>10, InductionUpTo
  <2>2. M \in 0..M
    BY <1>1
  <2> QED
    BY <2>1, <2>2
<1> DEFINE u == erased[M]
           keys == {KeyAt(t, i) : i \in first..(last - 1)}
           B(i) == Before(first, last, size(t), M, i)
<1>12. /\ Stays(t, u, X) /\ size(u) = size(t) - M
       /\ \A i \in Indexes(u) : u.m_values[i + 1] = t.m_values[B(i) + 1]
  BY <1>11 DEF Erasing
<1> HIDE DEF u
<1>13. /\ Indexes(u) = 0..(size(t) - M - 1) /\ Indexes(t) = 0..(size(t) - 1)
       /\ first..(last - 1) \subseteq Indexes(t)
  BY <1>1, <1>12 DEF Indexes
<1>14. /\ \A i \in Indexes(u) : B(i) \in Indexes(t) \ (first..(last - 1))
       /\ \A j \in Indexes(t) \ (first..(last - 1)) : \E i \in Indexes(u) : B(i) = j
  <2> DEFINE size0 == size(t)
  <2>1. Range0(first, last, size0) /\ M = last - first
    BY <1>1 DEF M
  <2>2. /\ \A i \in 0..(size0 - M - 1) :
             Before(first, last, size0, M, i) \in (0..(size0 - 1)) \ (first..(last - 1))
        /\ \A j \in (0..(size0 - 1)) \ (first..(last - 1)) :
             \E i \in 0..(size0 - M - 1) : Before(first, last, size0, M, i) = j
    <3> HIDE DEF size0
    <3> QED
      BY <2>1, BeforeAll
  <2> QED
    BY <1>13, <2>2
<1>15. \A j \in Indexes(t) : j \in first..(last - 1) <=> KeyAt(t, j) \in keys
  <2>1. DistinctKeys(t, Indexes(t))
    BY WholeIs
  <2> QED
    BY <1>13, <2>1 DEF DistinctKeys
<1> HIDE DEF B, keys
<1>16. EntriesOf(u) \subseteq {e \in EntriesOf(t) : e.key \notin keys}
  BY <1>12, <1>14, <1>15 DEF EntriesOf, KeyAt
<1>17. {e \in EntriesOf(t) : e.key \notin keys} \subseteq EntriesOf(u)
  <2> SUFFICES ASSUME NEW j \in Indexes(t), t.m_values[j + 1].key \notin keys
               PROVE  t.m_values[j + 1] \in EntriesOf(u)
    BY DEF EntriesOf
  <2>1. PICK i \in Indexes(u) : B(i) = j
    BY <1>14, <1>15 DEF KeyAt
  <2>2. u.m_values[i + 1] = t.m_values[j + 1]
    BY <1>12, <2>1
  <2> QED
    BY <2>2 DEF EntriesOf
<1> QED
  BY <1>2, <1>12, <1>16, <1>17 DEF Removed, u, keys

\* What erase_if does at an index.
SiftAt(u, keys, idx) == IF KeyAt(u, idx) \in keys THEN EraseAt(u, idx) ELSE u

\* The last n of the old indexes are done: no key that is asked for is at them.
Sifting(t, u, X, keys, n) ==
  /\ Stays(t, u, X) /\ size(u) >= size(t) - n
  /\ \A i \in Indexes(u) : i >= size(t) - n => KeyAt(u, i) \notin keys
  /\ EntriesOf(u) \subseteq EntriesOf(t)
  /\ {e \in EntriesOf(t) : e.key \notin keys} \subseteq EntriesOf(u)

\* One more turn of the loop of erase_if.
LEMMA SiftedOne ==
  ASSUME NEW t, NEW X, Whole(t, X), NEW keys, NEW n \in 0..(size(t) - 1),
         NEW u, Sifting(t, u, X, keys, n)
  PROVE  Sifting(t, SiftAt(u, keys, size(t) - (n + 1)), X, keys, n + 1)
<1> DEFINE idx == size(t) - (n + 1)
           w == SiftAt(u, keys, idx)
<1>1. /\ size(t) \in Nat /\ size(u) \in Nat /\ Whole(u, X) /\ idx \in Indexes(u) /\ idx \in Nat
      /\ \A i \in Indexes(u) : i >= idx /\ i # idx => KeyAt(u, i) \notin keys
  <2>1. size(t) \in Nat /\ size(u) \in Nat /\ Whole(u, X) /\ size(u) >= size(t) - n
    BY WholeIs DEF Sifting, Stays
  <2>2. \A i \in Indexes(u) : i >= idx /\ i # idx => i >= size(t) - n
    BY <2>1 DEF Indexes
  <2> QED
    BY <2>1, <2>2 DEF Sifting, Indexes
<1>2. size(t) - (n + 1) = idx /\ size(u) > idx
  BY <1>1 DEF Indexes
<1> HIDE DEF idx
<1>3. CASE KeyAt(u, idx) \in keys
  <2>1. w = EraseAt(u, idx)
    BY <1>3 DEF SiftAt
  <2> HIDE DEF w
  <2>2. Shrunk(u, w, X, idx)
    BY <1>1, <2>1, ErasedAt
  <2>3. Removed(u, w, X, {KeyAt(u, idx)})
    BY <1>1, <2>2, ShrunkIs
  <2>4. size(w) = size(u) - 1
    BY <2>2 DEF Shrunk
  <2>5. ASSUME NEW i \in Indexes(w), i >= idx PROVE KeyAt(w, i) \notin keys
    <3> DEFINE j == IF i = idx THEN size(u) - 1 ELSE i
    <3>1. j \in Indexes(u) /\ j >= idx /\ j # idx
      BY <1>1, <1>2, <2>4, <2>5 DEF Indexes
    <3>2. KeyAt(w, i) = KeyAt(u, j)
      BY <2>2 DEF Shrunk, KeyAt
    <3> HIDE DEF j
    <3> QED
      BY <1>1, <3>1, <3>2
  <2>6. EntriesOf(w) \subseteq EntriesOf(t) /\ {e \in EntriesOf(t) : e.key \notin keys} \subseteq EntriesOf(w)
    BY <1>3, <2>3 DEF Removed, Sifting
  <2>7. Stays(t, w, X) /\ size(w) >= idx
    BY <1>1, <1>2, <2>3, <2>4 DEF Removed, Stays, Sifting
  <2> QED
    BY <1>2, <2>5, <2>6, <2>7 DEF Sifting, w
<1>4. CASE KeyAt(u, idx) \notin keys
  <2>1. w = u
    BY <1>4 DEF SiftAt
  <2>2. \A i \in Indexes(u) : i >= idx => KeyAt(u, i) \notin keys
    BY <1>1, <1>4
  <2> QED
    BY <1>1, <1>2, <2>1, <2>2 DEF Sifting
<1> QED
  BY <1>3, <1>4

\* erase_if: the entries of the keys are gone.
LEMMA Sifted ==
  ASSUME NEW t, NEW X, Whole(t, X), NEW keys
  PROVE  Removed(t, EraseIf(t, keys), X, keys)
<1> DEFINE M == size(t)
           Fills(f) == f = [n \in 0..M |-> IF n = 0 THEN t ELSE SiftAt(f[n - 1], keys, size(t) - n)]
           Until(k, f) == /\ f = [n \in 0..M |-> f[n]]
                          /\ f[0] = t
                          /\ \A n \in 1..k : f[n] = SiftAt(f[n - 1], keys, size(t) - n)
           K == {k \in 0..M : \E f : Until(k, f)}
           erased == CHOOSE f : Fills(f)
<1>1. M \in Nat
  BY WholeIs
<1>2. EraseIf(t, keys) = erased[M]
  BY DEF EraseIf, SiftAt
<1> HIDE DEF M
<1>3. 0 \in K
  <2> DEFINE f == [n \in 0..M |-> t]
  <2>1. Until(0, f) /\ 0 \in 0..M
    BY <1>1
  <2> HIDE DEF Until, f
  <2> QED
    BY <2>1
<1>4. ASSUME NEW k \in 0..(M - 1), k \in K PROVE k + 1 \in K
  <2>1. PICK f : Until(k, f)
    BY <1>4
  <2> DEFINE g == [n \in 0..M |-> IF n = k + 1 THEN SiftAt(f[k], keys, size(t) - (k + 1)) ELSE f[n]]
  <2>2. k + 1 \in 0..M /\ k \in 0..M /\ k # k + 1 /\ 0 # k + 1 /\ 0 \in 0..M
    BY <1>1
  <2>3. g[0] = f[0] /\ g[k + 1] = SiftAt(f[k], keys, size(t) - (k + 1)) /\ \A n \in 0..k : g[n] = f[n]
    BY <1>1, <2>2
  <2>4. g = [n \in 0..M |-> g[n]]
    OBVIOUS
  <2> HIDE DEF g
  <2>5. ASSUME NEW n \in 1..(k + 1) PROVE g[n] = SiftAt(g[n - 1], keys, size(t) - n)
    <3>1. n - 1 \in 0..k /\ (n = k + 1 => n - 1 = k) /\ (n # k + 1 => n \in 1..k /\ n \in 0..k)
      BY <1>1
    <3> QED
      BY <2>1, <2>3, <3>1
  <2>6. Until(k + 1, g)
    BY <2>1, <2>3, <2>4, <2>5
  <2> HIDE DEF Until
  <2> QED
    BY <2>2, <2>6
<1>5. PICK f : Until(M, f)
  <2> HIDE DEF K
  <2>1. \A k \in 0..M : k \in K
    BY <1>1, <1>3, <1>4, InductionUpTo
  <2>2. M \in 0..M
    BY <1>1
  <2> QED
    BY <2>1, <2>2 DEF K
<1>6. Fills(f)
  <2>1. \A n \in 0..M : n = 0 \/ n \in 1..M
    BY <1>1
  <2> QED
    BY <1>5, <2>1
<1>7. Fills(erased)
  <2> HIDE DEF Fills
  <2> QED
    BY <1>6
<1> HIDE DEF erased
<1>8. erased[0] = t /\ \A n \in 1..M : erased[n] = SiftAt(erased[n - 1], keys, size(t) - n)
  <2>1. 0 \in 0..M /\ \A n \in 1..M : n \in 0..M /\ n # 0
    BY <1>1
  <2>2. \A n \in 0..M : erased[n] = IF n = 0 THEN t ELSE SiftAt(erased[n - 1], keys, size(t) - n)
    BY <1>7
  <2> QED
    BY <2>1, <2>2
<1> DEFINE G == {n \in 0..M : Sifting(t, erased[n], X, keys, n)}
<1>9. 0 \in G
  <2>1. size(t) - 0 = size(t) /\ size(t) >= size(t) /\ 0 \in 0..M
        /\ \A i \in Indexes(t) : ~(i >= size(t))
    BY <1>1 DEF M, Indexes
  <2> QED
    BY <1>8, <2>1 DEF Sifting, Stays
<1>10. ASSUME NEW n \in 0..(M - 1), n \in G PROVE n + 1 \in G
  <2>1. n + 1 \in 1..M /\ n + 1 \in 0..M /\ (n + 1) - 1 = n /\ n \in 0..(size(t) - 1)
    BY <1>1 DEF M
  <2>2. erased[n + 1] = SiftAt(erased[n], keys, size(t) - (n + 1))
    BY <1>8, <2>1
  <2>3. Sifting(t, erased[n], X, keys, n)
    BY <1>10
  <2>4. Sifting(t, erased[n + 1], X, keys, n + 1)
    BY <2>1, <2>2, <2>3, SiftedOne
  <2> QED
    BY <2>1, <2>4
<1>11. M \in G
  <2> HIDE DEF G
  <2>1. \A n \in 0..M : n \in G
    BY <1>1, <1>9, <1>10, InductionUpTo
  <2>2. M \in 0..M
    BY <1>1
  <2> QED
    BY <2>1, <2>2
<1> DEFINE u == erased[M]
<1>12. Sifting(t, u, X, keys, M)
  BY <1>11
<1> HIDE DEF u
<1>13. \A i \in Indexes(u) : KeyAt(u, i) \notin keys
  <2>1. \A i \in Indexes(u) : i >= size(t) - M
    BY <1>1 DEF M, Indexes
  <2> QED
    BY <1>12, <2>1 DEF Sifting
<1>14. EntriesOf(u) = {e \in EntriesOf(t) : e.key \notin keys}
  <2>1. \A e \in EntriesOf(u) : e.key \notin keys
    BY <1>13 DEF EntriesOf, KeyAt
  <2> QED
    BY <1>12, <2>1 DEF Sifting
<1> QED
  BY <1>2, <1>12, <1>14 DEF Removed, Sifting, u

-----------------------------------------------------------------------------
(* The map. *)

XValues == {e.value : e \in Entries}

\* Every value has its bucket, whatever the calls have been.
IInv ==
  /\ table.type \in Types
  /\ table.m_max_load_factor \in LoadFactors \cup {default_max_load_factor}
  /\ Whole(table, XValues)

\* The constructor's table.
LEMMA Initially == Init => IInv
<1> SUFFICES ASSUME NEW type \in Types, NEW count \in Counts, Fits(Blank(type), count),
                    table = NewTable(type, count)
             PROVE  IInv
  BY DEF Init
<1>1. TypeArguments(type) /\ count \in Nat
  BY TypesAssumption, CountsAssumption
<1>2. /\ Whole(table, XValues) /\ table.type = type
      /\ table.m_max_load_factor = default_max_load_factor
  BY <1>1, NewIs
<1> QED
  BY <1>2 DEF IInv

\* What an entry asked for is made of.
LEMMA InputsAre ==
  ASSUME NEW e \in Inputs
  PROVE  e.key \in DOMAIN table.type.hash /\ e.value \in XValues
BY DEF Inputs, Keys, XValues

\* What a container asked for is made of.
LEMMA ContainerIs ==
  ASSUME NEW c \in Containers, Range(c) \subseteq Inputs
  PROVE  c \in Seq([key : DOMAIN table.type.hash, value : XValues])
<1>1. c \in Seq(Entries)
  BY ContainersAssumption
<1>2. ASSUME NEW i \in 1..Len(c) PROVE c[i] \in [key : DOMAIN table.type.hash, value : XValues]
  <2>1. c[i] \in Inputs /\ c[i] \in Entries
    BY <1>1 DEF Range
  <2>2. c[i] = [key |-> c[i].key, value |-> c[i].value]
    BY <2>1, EntriesAssumption DEF Entry
  <2>3. c[i].key \in DOMAIN table.type.hash /\ c[i].value \in XValues
    BY <2>1, InputsAre
  <2> QED
    BY <2>2, <2>3
<1> DEFINE Pairs == [key : DOMAIN table.type.hash, value : XValues]
<1>3. c = [i \in 1..Len(c) |-> c[i]] /\ Len(c) \in Nat /\ \A i \in 1..Len(c) : c[i] \in Pairs
  BY <1>1, <1>2
<1> HIDE DEF Pairs
<1>4. c \in Seq(Pairs)
  BY <1>3, IsASeq
<1> QED
  BY <1>4 DEF Pairs

\* A step that leaves the kind of table alone.
LEMMA KeepsInv ==
  ASSUME IInv, Stays(table, table', XValues)
  PROVE  IInv'
BY DEF IInv, Stays

\* Every call keeps it.
LEMMA Consecution == IInv /\ [Next]_vars => IInv'
<1> SUFFICES ASSUME IInv, [Next]_vars PROVE IInv'
  OBVIOUS
<1> DEFINE X == XValues
<1>0. /\ Whole(table, X) /\ table.type \in Types
      /\ table.m_max_load_factor \in LoadFactors \cup {default_max_load_factor}
      /\ Indexes(table) = Iterators /\ size(table) \in Nat /\ Stays(table, table, X)
  BY WholeIs DEF IInv, Indexes, Iterators, Stays
<1> HIDE DEF X
<1>1. CASE TryEmplace
  <2>1. PICK e \in Inputs : table' = do_try_emplace(table, e.key, e.value)
    BY <1>1 DEF TryEmplace, Added
  <2> QED
    BY <1>0, <2>1, InputsAre, TryEmplaced, KeepsInv DEF AddedTo, X
<1>2. CASE Emplace
  <2>1. PICK e \in Inputs : table' = emplace(table, e.key, e.value)
    BY <1>2 DEF Emplace, Added
  <2> QED
    BY <1>0, <2>1, InputsAre, Emplaced, KeepsInv DEF AddedTo, X
<1>3. CASE InsertOrAssign
  <2>1. PICK e \in Inputs : table' = do_insert_or_assign(table, e.key, e.value)
    BY <1>3 DEF InsertOrAssign, Added
  <2> QED
    BY <1>0, <2>1, InputsAre, InsertedOrAssigned, KeepsInv DEF PutTo, AssignedTo, AddedTo, X
<1>4. CASE Index
  <2>1. PICK e \in Inputs : table' = IndexAssign(table, e.key, e.value)
    BY <1>4 DEF Index, Added
  <2> QED
    BY <1>0, <2>1, InputsAre, IndexAssigned, KeepsInv DEF PutTo, AssignedTo, AddedTo, X
<1>5. CASE EraseKey
  <2>1. PICK key \in DOMAIN table.type.hash : table' = do_erase_key(table, key)
    BY <1>5 DEF EraseKey, Erased, Keys
  <2> QED
    BY <1>0, <2>1, KeyErased, KeepsInv DEF Removed, X
<1>6. CASE EraseIterator
  <2>1. PICK i \in Indexes(table) : table' = EraseAt(table, i)
    BY <1>0, <1>6 DEF EraseIterator, Erased
  <2>2. Removed(table, table', X, {KeyAt(table, i)})
    BY <1>0, <2>1, ErasedAt, ShrunkIs
  <2> QED
    BY <2>2, KeepsInv DEF Removed, X
<1>7. CASE EraseIterators
  <2>1. PICK first \in Iterators : \E last \in first + 1..size(table) :
          table' = EraseRange(table, first, last)
    BY <1>7 DEF EraseIterators, Erased
  <2>2. PICK last \in first + 1..size(table) : table' = EraseRange(table, first, last)
    BY <2>1
  <2>3. first \in 0..size(table) /\ last \in first..size(table)
    BY <1>0 DEF Iterators
  <2> QED
    BY <1>0, <2>2, <2>3, RangeErased, KeepsInv DEF Removed, X
<1>8. CASE EraseWhere
  <2>1. PICK keys \in Predicates : table' = EraseIf(table, keys)
    BY <1>8 DEF EraseWhere, Erased
  <2> QED
    BY <1>0, <2>1, Sifted, KeepsInv DEF Removed, X
<1>9. CASE Clear
  <2>1. table' = clear(table)
    BY <1>9 DEF Clear, Erased
  <2> QED
    BY <1>0, <2>1, ClearIs, KeepsInv DEF X
<1>10. CASE Extract
  <2>1. PICK key \in DOMAIN table.type.hash : table' = do_erase_key(table, key)
    BY <1>10 DEF Extract, Keys
  <2> QED
    BY <1>0, <2>1, KeyErased, KeepsInv DEF Removed, X
<1>11. CASE ReplaceKey
  <2>1. PICK i \in Indexes(table), new_key \in DOMAIN table.type.hash :
          table' = replace_key(table, i, new_key)
    BY <1>0, <1>11 DEF ReplaceKey, Keys
  <2> QED
    BY <1>0, <2>1, KeyReplaced, KeepsInv DEF X
<1>12. CASE Replace
  <2>1. PICK c \in Containers : /\ Range(c) \subseteq Inputs /\ Fits(table, Len(c))
                                /\ table' = replace(table, c)
    BY <1>12 DEF Replace
  <2>2. c \in Seq([key : DOMAIN table.type.hash, value : X])
    BY <2>1, ContainerIs DEF X
  <2> QED
    BY <1>0, <2>1, <2>2, ReplacedTable, KeepsInv DEF X
<1>13. CASE Reserve
  <2>1. PICK count \in Counts :
          /\ Fits(table, Max2(count, size(table))) /\ table' = reserve(table, count)
    BY <1>13 DEF Reserve, Reorganized
  <2>2. Whole(table', X) /\ Kept(table, table')
    BY <1>0, <2>1, CountsAssumption, ReservedTable
  <2> QED
    BY <2>2, KeepsInv DEF Kept, Stays, X
<1>14. CASE Rehash
  <2>1. PICK count \in Counts :
          /\ Fits(table, Max2(count, size(table))) /\ table' = rehash(table, count)
    BY <1>14 DEF Rehash, Reorganized
  <2>2. Whole(table', X) /\ Kept(table, table')
    BY <1>0, <2>1, CountsAssumption, ReservedTable
  <2> QED
    BY <2>2, KeepsInv DEF Kept, Stays, X
<1>15. CASE SetLoadFactor
  <2>1. PICK ml \in LoadFactors : table' = max_load_factor(table, ml)
    BY <1>15 DEF SetLoadFactor, Reorganized
  <2>2. ml \in 1..100
    BY LoadFactorsAssumption
  <2>3. Whole(table', X) /\ table'.type = table.type /\ table'.m_max_load_factor = ml
    BY <1>0, <2>1, <2>2, LoadFactorSet
  <2> QED
    BY <1>0, <2>3 DEF IInv, X
<1>16. CASE Copy
  <2>1. table' = CopyOf(table)
    BY <1>16 DEF Copy, Reorganized
  <2> QED
    BY <1>0, <2>1, CopiedTable, KeepsInv DEF X
<1>17. CASE MoveFrom
  <2>1. table' = MovedFrom(table)
    BY <1>17 DEF MoveFrom, Erased
  <2>2. Whole(table', X) /\ table'.type = table.type /\ table'.m_max_load_factor = 80
    BY <1>0, <2>1, MovedFromIs
  <2> QED
    BY <1>0, <2>2 DEF IInv, X, default_max_load_factor
<1>18. CASE UNCHANGED vars
  BY <1>18 DEF IInv, vars
<1> QED
  BY <1>1, <1>2, <1>3, <1>4, <1>5, <1>6, <1>7, <1>8, <1>9, <1>10, <1>11, <1>12, <1>13, <1>14,
     <1>15, <1>16, <1>17, <1>18 DEF Next

\* Every value has exactly one bucket, at its true distance from home, after any
\* history of calls: with buckets that are ordered this is the invariant that all
\* the others follow from.
THEOREM Invariance == Spec => []IInv
<1>1. Init => IInv
  BY Initially
<1>2. IInv /\ [Next]_vars => IInv'
  BY Consecution
<1> QED
  BY <1>1, <1>2, PTL DEF Spec

\* The table's fields have their types, and there are as many buckets as m_shifts says.
THEOREM TypesKept == Spec => []TypeOK
<1>1. IInv => TypeOK
  <2> SUFFICES ASSUME IInv PROVE TypeOK
    OBVIOUS
  <2> DEFINE N == bucket_count(table)
  <2>1. /\ Good(table, XValues, Indexes(table)) /\ ValuesTyped(table, XValues) /\ Sizes(table)
        /\ N = calc_num_buckets(table, table.m_shifts) /\ N \in Nat
    BY WholeIs DEF IInv
  <2>2. table.m_buckets \in [0..(N - 1) -> Bucket0]
    BY <2>1, Probing
  <2>3. \A i \in Places : at(table, i) \in [m_dist_and_fingerprint : Nat, m_value_idx : Nat]
    BY <2>2 DEF Places, at, Bucket0
  <2>4. table.m_max_bucket_capacity <= N
    BY <2>1 DEF Sizes
  <2> QED
    BY <2>1, <2>3, <2>4 DEF TypeOK, IInv, ValuesTyped, Keys, XValues
<1> QED
  BY <1>1, Invariance, PTL

\* erase moves the last value into the hole, a growing table fills its buckets anew,
\* and placing shifts a run up: every value keeps exactly one bucket through it all.
THEOREM BucketsAreIndexes == Spec => []BucketsIndexValues
<1>1. IInv => BucketsIndexValues
  <2> SUFFICES ASSUME IInv PROVE BucketsIndexValues
    OBVIOUS
  <2> DEFINE N == bucket_count(table)
             B == table.m_buckets
             I == Indexes(table)
  <2>1. Good(table, XValues, I) /\ I = Iterators /\ Places = 0..(N - 1)
    BY WholeIs DEF IInv, Indexes, Iterators, Places
  <2>2. /\ N \in Nat /\ N >= 2 /\ Steps(table) = 0..N
        /\ Ring(N, B, Homes(table, I), Lows(table, I), I)
    BY <2>1, Probing DEF Good
  <2>3. \A i \in Places : at(table, i) = B[i] /\ (IsEmpty(at(table, i)) <=> D(B, i) = 0)
                          /\ at(table, i).m_value_idx = V(B, i)
    BY DEF at, IsEmpty, D, V
  <2>4. ASSUME NEW idx \in Iterators
        PROVE  Cardinality({i \in Places :
                              ~IsEmpty(at(table, i)) /\ at(table, i).m_value_idx = idx}) = 1
    <3>1. PICK p \in 0..(N - 1) : D(B, p) # 0 /\ V(B, p) = idx
      BY <2>1, <2>2 DEF Ring, Indexing
    <3>2. \A i \in 0..(N - 1) : D(B, i) # 0 /\ V(B, i) = idx => i = p
      BY <2>2, <3>1 DEF Ring, Indexing
    <3>3. {i \in Places : ~IsEmpty(at(table, i)) /\ at(table, i).m_value_idx = idx} = {p}
      BY <2>1, <2>3, <3>1, <3>2
    <3> QED
      BY <3>3, FS_Singleton
  <2>5. ASSUME NEW i \in Places, ~IsEmpty(at(table, i))
        PROVE  /\ at(table, i).m_value_idx \in Iterators
               /\ \E n \in Steps(table) :
                    LET key == KeyAt(table, at(table, i).m_value_idx)
                    IN  Place(table, key, n) = i /\ SameDistance(table, key, n)
    <3> DEFINE v == V(B, i)
               key == KeyAt(table, v)
    <3>1. v \in I /\ i \in 0..(N - 1) /\ D(B, i) # 0
      BY <2>1, <2>2, <2>3, <2>5 DEF Ring, AtDistance
    <3>2. PICK n \in Steps(table) :
            /\ Holds(table, key, n)
            /\ Place(table, key, n) \in 0..(N - 1)
            /\ D(B, Place(table, key, n)) # 0 /\ V(B, Place(table, key, n)) = v
      BY <2>1, <3>1, Holder
    <3>3. Place(table, key, n) = i
      BY <2>2, <3>1, <3>2 DEF Ring, Indexing
    <3>4. SameDistance(table, key, n)
      BY <3>2 DEF Holds
    <3> QED
      BY <2>1, <2>3, <3>1, <3>3, <3>4
  <2> QED
    BY <2>4, <2>5 DEF BucketsIndexValues
<1> QED
  BY <1>1, Invariance, PTL

\* A bucket is at most one step farther from its home than the one before it, which
\* is why a search may stop at a bucket that is nearer to its home than the search is.
THEOREM ProbesMayStop == Spec => []ProbeMayStop
<1>1. IInv => ProbeMayStop
  <2> SUFFICES ASSUME IInv PROVE ProbeMayStop
    OBVIOUS
  <2> DEFINE N == bucket_count(table)
             B == table.m_buckets
             I == Indexes(table)
  <2>1. Good(table, XValues, I) /\ Places = 0..(N - 1)
    BY WholeIs DEF IInv, Places
  <2>2. /\ N \in Nat /\ N >= 2 /\ Ordered(N, B)
        /\ \A i \in 0..(N - 1), n \in 0..N : next(table, i, n) = Behind(N, i, n)
    BY <2>1, Probing DEF Good, Ring
  <2>3. 1 \in 0..N
    BY <2>2
  <2> SUFFICES ASSUME NEW i \in Places
               PROVE  at(table, next(table, i, 1)).m_dist_and_fingerprint <
                        IF IsEmpty(at(table, i)) THEN 2 * dist_inc
                        ELSE at(table, i).m_dist_and_fingerprint + dist_inc + 1
    BY DEF ProbeMayStop
  <2>4. D(B, Behind(N, i, 1)) < IF D(B, i) = 0 THEN 512 ELSE D(B, i) + 257
    BY <2>1, <2>2 DEF Ordered
  <2>5. next(table, i, 1) = Behind(N, i, 1)
    BY <2>1, <2>2, <2>3
  <2>6. D(B, i) \in Nat
    BY <2>1, Probing, BucketFields
  <2> QED
    BY <2>4, <2>5, <2>6 DEF at, IsEmpty, D, dist_inc
<1> QED
  BY <1>1, Invariance, PTL

\* The value of a key in the map a table stands for.
LEMMA MapIs ==
  ASSUME NEW t, NEW X, Whole(t, X)
  PROVE  /\ DOMAIN MapOf(t) = KeysOf(t)
         /\ \A key : key \in KeysOf(t) <=> Has(t, key)
         /\ \A v \in Indexes(t) : MapOf(t)[KeyAt(t, v)] = t.m_values[v + 1].value
<1>1. \A key : key \in KeysOf(t) <=> Has(t, key)
  BY DEF KeysOf, Has, Indexes
<1>2. ASSUME NEW v \in Indexes(t) PROVE MapOf(t)[KeyAt(t, v)] = t.m_values[v + 1].value
  <2> DEFINE key == KeyAt(t, v)
             i == CHOOSE i \in 1..size(t) : t.m_values[i].key = key
  <2>1. size(t) \in Nat /\ DistinctKeys(t, Indexes(t))
    BY WholeIs
  <2>2. v + 1 \in 1..size(t) /\ t.m_values[v + 1].key = key
    BY <2>1 DEF Indexes, KeyAt
  <2>3. i \in 1..size(t) /\ t.m_values[i].key = key
    BY <2>2
  <2>4. key \in KeysOf(t)
    BY <1>1 DEF Has
  <2>5. MapOf(t)[key] = t.m_values[i].value
    BY <2>4 DEF MapOf
  <2> HIDE DEF i
  <2>6. i - 1 \in Indexes(t) /\ KeyAt(t, i - 1) = key /\ (i - 1) + 1 = i
    BY <2>1, <2>3 DEF Indexes, KeyAt
  <2>7. i - 1 = v
    BY <2>1, <2>6 DEF DistinctKeys
  <2> QED
    BY <2>5, <2>6, <2>7
<1> QED
  BY <1>1, <1>2 DEF MapOf

\* find with its two unrolled steps and the loop of the insertions find a key if and
\* only if it is there, whatever has been shifted and moved, and find its value.
THEOREM FindsExactly == Spec => []FindExact
<1>1. IInv => FindExact
  <2> SUFFICES ASSUME IInv, NEW key \in Keys
               PROVE  /\ do_find(table, key) <=> key \in KeysOf(table)
                      /\ Present(table, key) <=> key \in KeysOf(table)
                      /\ do_find(table, key) => ValueFound(table, key) = MapOf(table)[key]
    BY DEF FindExact
  <2>1. Whole(table, XValues) /\ key \in DOMAIN table.type.hash
    BY DEF IInv, Keys
  <2>2. /\ Present(table, key) <=> Has(table, key)
        /\ do_find(table, key) <=> Has(table, key)
        /\ \A v \in Indexes(table) :
             KeyAt(table, v) = key => ValueFound(table, key) = table.m_values[v + 1].value
    BY <2>1, FindsWhole
  <2>3. key \in KeysOf(table) <=> Has(table, key)
    BY <2>1, MapIs
  <2>4. Has(table, key) => ValueFound(table, key) = MapOf(table)[key]
    BY <2>1, <2>2, MapIs DEF Has
  <2> QED
    BY <2>2, <2>3, <2>4
<1> QED
  BY <1>1, Invariance, PTL

-----------------------------------------------------------------------------
(* The table is a map. *)

\* Two functions on the same keys with the same values are one.
LEMMA MapOfIs ==
  ASSUME NEW t, NEW X, Whole(t, X), NEW S, NEW f, f = [k \in S |-> f[k]],
         \A key : key \in S <=> Has(t, key),
         \A v \in Indexes(t) : f[KeyAt(t, v)] = t.m_values[v + 1].value
  PROVE  MapOf(t) = f
<1>1. /\ DOMAIN MapOf(t) = KeysOf(t) /\ \A key : key \in KeysOf(t) <=> Has(t, key)
      /\ \A v \in Indexes(t) : MapOf(t)[KeyAt(t, v)] = t.m_values[v + 1].value
  BY MapIs
<1>2. KeysOf(t) = S
  BY <1>1
<1>3. \A k \in S : MapOf(t)[k] = f[k]
  BY <1>1 DEF Has
<1>4. MapOf(t) = [k \in S |-> MapOf(t)[k]]
  BY <1>2 DEF MapOf
<1> QED
  BY <1>3, <1>4

\* The number of values is that of the keys.
LEMMA SizeIs ==
  ASSUME NEW t, NEW X, Whole(t, X)
  PROVE  /\ IsFiniteSet(KeysOf(t)) /\ Cardinality(KeysOf(t)) = size(t)
         /\ size(t) <= t.type.max_bucket_count /\ t.type.max_bucket_count \in Nat
<1>1. /\ size(t) \in Nat /\ DistinctKeys(t, Indexes(t)) /\ size(t) <= bucket_count(t)
      /\ ShiftsFor(t.type, t.m_shifts) /\ ValuesTyped(t, X) /\ bucket_count(t) \in Nat
      /\ bucket_count(t) = calc_num_buckets(t, t.m_shifts)
  BY WholeIs
<1> DEFINE n == size(t)
           f == [i \in Indexes(t) |-> KeyAt(t, i)]
<1>2. IsFiniteSet(Indexes(t)) /\ Cardinality(Indexes(t)) = n
  <2>1. 0 \in Int /\ n - 1 \in Int
    BY <1>1
  <2>2. /\ IsFiniteSet(0..(n - 1))
        /\ Cardinality(0..(n - 1)) = IF 0 > n - 1 THEN 0 ELSE (n - 1) - 0 + 1
    BY <2>1, FS_Interval
  <2> QED
    BY <1>1, <2>2 DEF Indexes
<1>3. ExistsBijection(Indexes(t), KeysOf(t))
  <2>1. f \in Bijection(Indexes(t), KeysOf(t))
    <3>1. KeysOf(t) = {KeyAt(t, i) : i \in Indexes(t)}
      BY DEF KeysOf, Indexes
    <3>2. f \in [Indexes(t) -> KeysOf(t)]
      BY <3>1
    <3>3. \A i, j \in Indexes(t) : f[i] = f[j] => i = j
      BY <1>1 DEF DistinctKeys
    <3>4. \A k \in KeysOf(t) : \E i \in Indexes(t) : f[i] = k
      BY <3>1
    <3> HIDE DEF f
    <3> QED
      BY <3>2, <3>3, <3>4 DEF Bijection, Injection, Surjection, IsInjective
  <2> QED
    BY <2>1 DEF ExistsBijection
<1>4. IsFiniteSet(KeysOf(t)) /\ Cardinality(KeysOf(t)) = n
  BY <1>2, <1>3, FS_Bijection
<1>5. bucket_count(t) <= t.type.max_bucket_count /\ t.type.max_bucket_count \in Nat
  BY <1>1, NumBucketsIs
<1> QED
  BY <1>1, <1>4, <1>5

\* What a new last value makes of the map.
PutIn(f, key, value) ==
  [k \in DOMAIN f \cup {key} |-> IF k = key THEN value ELSE f[k]]

NewLast(t, u, X, key, value) ==
  Whole(u, X) /\ ~Has(t, key) /\ u.m_values = Append(t.m_values, Entry(key, value))

\* The map has one more key.
LEMMA MapAppended ==
  ASSUME NEW t, NEW X, Whole(t, X), NEW key \in DOMAIN t.type.hash, NEW value \in X,
         NEW u, NewLast(t, u, X, key, value)
  PROVE  /\ MapOf(u) = PutIn(MapOf(t), key, value) /\ Has(u, key) /\ size(u) = size(t) + 1
         /\ \A v \in Indexes(u) : KeyAt(u, v) = key => u.m_values[v + 1].value = value
<1> DEFINE s == t.m_values
           e == Entry(key, value)
           r == Append(s, e)
           f == PutIn(MapOf(t), key, value)
           Pairs == [key : DOMAIN t.type.hash, value : X]
<1>0. Whole(u, X) /\ ~Has(t, key) /\ u.m_values = Append(s, e)
  BY DEF NewLast
<1>1. /\ DOMAIN MapOf(t) = KeysOf(t) /\ \A k : k \in KeysOf(t) <=> Has(t, k)
      /\ \A v \in Indexes(t) : MapOf(t)[KeyAt(t, v)] = t.m_values[v + 1].value
  BY MapIs
<1>2. size(t) \in Nat /\ size(u) \in Nat /\ s \in Seq(Pairs) /\ e \in Pairs
  BY <1>0, WholeIs DEF ValuesTyped, Entry
<1>3. /\ Len(r) = Len(s) + 1 /\ r[Len(s) + 1] = e /\ \A i \in 1..Len(s) : r[i] = s[i]
  <2> HIDE DEF s, e, Pairs
  <2> QED
    BY <1>2
<1>4. u.m_values = r
  BY <1>0
<1> HIDE DEF r
<1>5. /\ size(u) = size(t) + 1
      /\ \A v \in Indexes(t) : v \in Indexes(u) /\ u.m_values[v + 1] = t.m_values[v + 1]
      /\ size(t) \in Indexes(u) /\ u.m_values[size(t) + 1] = e
      /\ \A v \in Indexes(u) : v \in Indexes(t) \/ v = size(t)
  BY <1>2, <1>3, <1>4 DEF size, Indexes
<1>6. \A v \in Indexes(t) : KeyAt(u, v) = KeyAt(t, v)
  BY <1>5 DEF KeyAt
<1>7. KeyAt(u, size(t)) = key /\ e.key = key /\ e.value = value
  <2>1. e.key = key /\ e.value = value
    BY DEF Entry
  <2>2. u.m_values[size(t) + 1] = e
    BY <1>5
  <2> HIDE DEF e
  <2> QED
    BY <2>1, <2>2 DEF KeyAt
<1> HIDE DEF e
<1>8. \A k : k \in DOMAIN MapOf(t) \cup {key} <=> Has(u, k)
  BY <1>1, <1>5, <1>6, <1>7 DEF Has
<1>9. ASSUME NEW v \in Indexes(u) PROVE f[KeyAt(u, v)] = u.m_values[v + 1].value
  <2>1. CASE v = size(t)
    BY <1>5, <1>7, <2>1 DEF PutIn
  <2>2. CASE v \in Indexes(t)
    <3>1. KeyAt(u, v) = KeyAt(t, v) /\ KeyAt(t, v) # key /\ KeyAt(t, v) \in DOMAIN MapOf(t)
      BY <1>0, <1>1, <1>6, <2>2 DEF Has
    <3>2. f[KeyAt(t, v)] = MapOf(t)[KeyAt(t, v)]
      BY <3>1 DEF PutIn
    <3> QED
      BY <1>1, <1>5, <2>2, <3>1, <3>2
  <2> QED
    BY <1>5, <2>1, <2>2
<1>10. f = [k \in DOMAIN MapOf(t) \cup {key} |-> f[k]]
  BY DEF PutIn
<1> HIDE DEF f
<1>11. MapOf(u) = f
  BY <1>0, <1>8, <1>9, <1>10, MapOfIs
<1>12. \A v \in Indexes(u) : KeyAt(u, v) = key => u.m_values[v + 1].value = value
  BY <1>0, <1>5, <1>6, <1>7 DEF Has
<1> QED
  BY <1>5, <1>7, <1>11, <1>12 DEF Has, f

\* What an assignment makes of it.
LEMMA MapAssigned ==
  ASSUME NEW t, NEW X, Whole(t, X), NEW u, NEW key, NEW value, AssignedTo(t, u, X, key, value)
  PROVE  /\ MapOf(u) = PutIn(MapOf(t), key, value) /\ Has(u, key) /\ size(u) = size(t)
         /\ \A v \in Indexes(u) : KeyAt(u, v) = key => u.m_values[v + 1].value = value
<1> DEFINE s == t.m_values
           e == Entry(key, value)
           f == PutIn(MapOf(t), key, value)
<1>1. /\ DOMAIN MapOf(t) = KeysOf(t) /\ \A k : k \in KeysOf(t) <=> Has(t, k)
      /\ \A v \in Indexes(t) : MapOf(t)[KeyAt(t, v)] = t.m_values[v + 1].value
  BY MapIs
<1>2. /\ size(t) \in Nat /\ s \in Seq([key : DOMAIN t.type.hash, value : X]) /\ Whole(u, X)
      /\ DistinctKeys(t, Indexes(t))
  BY WholeIs DEF ValuesTyped, AssignedTo, Stays
<1>3. PICK w \in Indexes(t) : KeyAt(t, w) = key /\ u.m_values = [s EXCEPT ![w + 1] = e]
  BY DEF AssignedTo
<1>4. w + 1 \in 1..Len(s) /\ s = [i \in 1..Len(s) |-> s[i]]
  BY <1>2, <1>3 DEF Indexes, size
<1>5. size(u) = size(t) /\ u.m_values[w + 1] = e
      /\ \A i \in 1..Len(s) : i # w + 1 => u.m_values[i] = s[i]
  <2> DEFINE r == [s EXCEPT ![w + 1] = e]
             Pairs == [key : DOMAIN t.type.hash, value : X]
  <2>1. Len(r) = Len(s) /\ r[w + 1] = e /\ \A i \in 1..Len(s) : i # w + 1 => r[i] = s[i]
    <3>1. s \in Seq(Pairs)
      BY <1>2
    <3> HIDE DEF s, e, Pairs
    <3> QED
      BY <1>4, <3>1
  <2> HIDE DEF r
  <2> QED
    BY <1>3, <2>1 DEF size, r
<1>6. /\ Indexes(u) = Indexes(t)
      /\ \A v \in Indexes(t) : v # w => u.m_values[v + 1] = t.m_values[v + 1]
  BY <1>2, <1>3, <1>5 DEF Indexes, size
<1>7. e.key = key /\ e.value = value
  BY DEF Entry
<1> HIDE DEF e
<1>8. \A v \in Indexes(t) : KeyAt(u, v) = KeyAt(t, v)
  BY <1>3, <1>5, <1>6, <1>7 DEF KeyAt
<1>9. key \in DOMAIN MapOf(t)
  BY <1>1, <1>3 DEF Has
<1>10. \A k : k \in DOMAIN MapOf(t) \cup {key} <=> Has(u, k)
  BY <1>1, <1>6, <1>8, <1>9 DEF Has
<1>11. ASSUME NEW v \in Indexes(u) PROVE f[KeyAt(u, v)] = u.m_values[v + 1].value
  <2>1. CASE v = w
    BY <1>3, <1>5, <1>6, <1>7, <1>8, <2>1 DEF PutIn
  <2>2. CASE v # w
    <3>1. KeyAt(u, v) = KeyAt(t, v) /\ KeyAt(t, v) # key /\ KeyAt(t, v) \in DOMAIN MapOf(t)
      BY <1>1, <1>2, <1>3, <1>6, <1>8, <2>2 DEF Has, DistinctKeys
    <3>2. f[KeyAt(t, v)] = MapOf(t)[KeyAt(t, v)]
      BY <3>1 DEF PutIn
    <3> QED
      BY <1>1, <1>6, <2>2, <3>1, <3>2
  <2> QED
    BY <2>1, <2>2
<1>12. f = [k \in DOMAIN MapOf(t) \cup {key} |-> f[k]]
  BY DEF PutIn
<1> HIDE DEF f
<1>13. MapOf(u) = f
  BY <1>2, <1>10, <1>11, <1>12, MapOfIs
<1>14. ASSUME NEW v \in Indexes(u), KeyAt(u, v) = key PROVE u.m_values[v + 1].value = value
  <2>1. v = w
    BY <1>2, <1>3, <1>6, <1>8, <1>14 DEF DistinctKeys
  <2> QED
    BY <1>5, <1>7, <2>1
<1> QED
  BY <1>3, <1>5, <1>6, <1>8, <1>13, <1>14 DEF Has, f

\* What an erasure leaves, and how many go.
LEMMA MapRemoved ==
  ASSUME NEW t, NEW X, Whole(t, X), NEW u, Whole(u, X), NEW keys,
         EntriesOf(u) = {e \in EntriesOf(t) : e.key \notin keys}
  PROVE  /\ MapOf(u) = Restrict(MapOf(t), DOMAIN MapOf(t) \ keys)
         /\ size(t) - size(u) = Cardinality(DOMAIN MapOf(t) \cap keys)
<1> DEFINE f == Restrict(MapOf(t), DOMAIN MapOf(t) \ keys)
<1>1. /\ DOMAIN MapOf(t) = KeysOf(t) /\ \A k : k \in KeysOf(t) <=> Has(t, k)
      /\ \A v \in Indexes(t) : MapOf(t)[KeyAt(t, v)] = t.m_values[v + 1].value
  BY MapIs
<1>2. ASSUME NEW v \in Indexes(u)
      PROVE  \E w \in Indexes(t) : u.m_values[v + 1] = t.m_values[w + 1] /\ KeyAt(t, w) \notin keys
  <2>1. u.m_values[v + 1] \in EntriesOf(u)
    BY DEF EntriesOf
  <2> QED
    BY <2>1 DEF EntriesOf, KeyAt
<1>3. ASSUME NEW w \in Indexes(t), KeyAt(t, w) \notin keys
      PROVE  \E v \in Indexes(u) : u.m_values[v + 1] = t.m_values[w + 1]
  <2>1. t.m_values[w + 1] \in EntriesOf(u)
    BY <1>3 DEF EntriesOf, KeyAt
  <2> QED
    BY <2>1 DEF EntriesOf
<1>4. \A k : k \in DOMAIN MapOf(t) \ keys <=> Has(u, k)
  BY <1>1, <1>2, <1>3 DEF Has, KeyAt
<1>5. ASSUME NEW v \in Indexes(u) PROVE f[KeyAt(u, v)] = u.m_values[v + 1].value
  <2>1. PICK w \in Indexes(t) : u.m_values[v + 1] = t.m_values[w + 1] /\ KeyAt(t, w) \notin keys
    BY <1>2
  <2>2. KeyAt(u, v) = KeyAt(t, w) /\ KeyAt(t, w) \in DOMAIN MapOf(t) \ keys
    BY <1>1, <2>1 DEF KeyAt, Has
  <2> QED
    BY <1>1, <2>1, <2>2 DEF Restrict
<1>6. f = [k \in DOMAIN MapOf(t) \ keys |-> f[k]]
  BY DEF Restrict
<1> HIDE DEF f
<1>7. MapOf(u) = f
  BY <1>4, <1>5, <1>6, MapOfIs
<1>8. size(t) - size(u) = Cardinality(DOMAIN MapOf(t) \cap keys)
  <2> DEFINE S == KeysOf(t)
  <2>1. /\ IsFiniteSet(S) /\ Cardinality(S) = size(t) /\ Cardinality(KeysOf(u)) = size(u)
    BY SizeIs
  <2>2. KeysOf(u) = S \ keys
    <3>1. DOMAIN MapOf(u) = KeysOf(u)
      BY MapIs
    <3>2. DOMAIN f = DOMAIN MapOf(t) \ keys
      BY <1>6
    <3> QED
      BY <1>1, <1>7, <3>1, <3>2
  <2> HIDE DEF S
  <2>3. /\ IsFiniteSet(S \cap keys) /\ IsFiniteSet(S \ keys)
        /\ Cardinality(S \ keys) = Cardinality(S) - Cardinality(S \cap keys)
    BY <2>1, FS_Difference, FS_Intersection
  <2>4. Cardinality(S) \in Nat /\ Cardinality(S \cap keys) \in Nat
    BY <2>1, <2>3, FS_CardinalityType
  <2> QED
    BY <1>1, <2>1, <2>2, <2>3, <2>4 DEF S
<1> QED
  BY <1>7, <1>8 DEF f

\* Only the values are seen of a table: with the same ones it is the same map, and
\* equal to the table before.
LEMMA MapSame ==
  ASSUME NEW t, NEW X, Whole(t, X), NEW u, Whole(u, X), u.m_values = t.m_values
  PROVE  MapOf(u) = MapOf(t) /\ size(u) = size(t) /\ Equal(u, t) /\ Equal(t, u)
<1>1. size(u) = size(t) /\ KeysOf(u) = KeysOf(t)
  BY DEF size, KeysOf, KeyAt
<1>2. MapOf(u) = MapOf(t)
  BY <1>1 DEF MapOf
<1>3. ASSUME NEW a, Whole(a, X), NEW b, Whole(b, X), a.m_values = b.m_values PROVE Equal(a, b)
  <2>1. size(a) = size(b) /\ size(a) \in Nat
    BY <1>3, WholeIs DEF size
  <2> SUFFICES ASSUME NEW i \in 1..size(b)
               PROVE  /\ do_find(a, b.m_values[i].key)
                      /\ ValueFound(a, b.m_values[i].key) = b.m_values[i].value
    BY <2>1 DEF Equal
  <2> DEFINE v == i - 1
             key == b.m_values[i].key
  <2>2. v \in Indexes(a) /\ v + 1 = i
    BY <2>1 DEF Indexes
  <2>3. KeyAt(a, v) = key
    BY <1>3, <2>2 DEF KeyAt
  <2>4. key \in DOMAIN a.type.hash
    <3> DEFINE Pairs == [key : DOMAIN a.type.hash, value : X]
    <3>1. b.m_values \in Seq(Pairs) /\ i \in 1..Len(b.m_values)
      BY <1>3, <2>1, WholeIs DEF ValuesTyped, size
    <3> HIDE DEF Pairs
    <3>2. b.m_values[i] \in Pairs
      BY <3>1
    <3> QED
      BY <3>2 DEF Pairs
  <2> HIDE DEF v, key
  <2>5. Has(a, key)
    BY <2>2, <2>3 DEF Has
  <2>6. do_find(a, key) /\ ValueFound(a, key) = a.m_values[v + 1].value
    BY <1>3, <2>2, <2>3, <2>4, <2>5, FindsWhole
  <2> QED
    BY <1>3, <2>2, <2>6 DEF key
<1>4. Equal(u, t) /\ Equal(t, u)
  BY <1>3
<1> QED
  BY <1>1, <1>2, <1>4

\* The keys of the values are keys.
LEMMA KeysTyped ==
  ASSUME NEW t, NEW X, Whole(t, X), NEW i \in Indexes(t)
  PROVE  KeyAt(t, i) \in DOMAIN t.type.hash
<1> DEFINE Pairs == [key : DOMAIN t.type.hash, value : X]
<1>1. t.m_values \in Seq(Pairs) /\ size(t) \in Nat
  BY WholeIs DEF ValuesTyped
<1>2. t.m_values[i + 1] \in Pairs
  <2> HIDE DEF Pairs
  <2> QED
    BY <1>1 DEF Indexes, size
<1> QED
  BY <1>2 DEF KeyAt

\* The keys are in the map, and so many.
LEMMA MapHas ==
  ASSUME NEW t, NEW X, Whole(t, X)
  PROVE  /\ \A key : key \in DOMAIN MapOf(t) <=> Has(t, key)
         /\ \A v \in Indexes(t) : KeyAt(t, v) \in DOMAIN MapOf(t)
         /\ Cardinality(DOMAIN MapOf(t)) = size(t) /\ size(t) \in Nat
         /\ size(t) <= t.type.max_bucket_count /\ t.type.max_bucket_count \in Nat
<1>1. DOMAIN MapOf(t) = KeysOf(t) /\ \A key : key \in KeysOf(t) <=> Has(t, key)
  BY MapIs
<1>2. \A v \in Indexes(t) : Has(t, KeyAt(t, v))
  BY DEF Has
<1> QED
  BY <1>1, <1>2, SizeIs, WholeIs

\* What an insertion, or an assignment, does to the map and returns: the key is in it
\* afterwards, or it was full.
MapGrown(t, u, key, value, f) ==
  /\ u.type = t.type
  /\ Present(u, key) =>
       /\ key \in DOMAIN MapOf(t) \/ ~(Cardinality(DOMAIN MapOf(t)) >= t.type.max_bucket_count)
       /\ MapOf(u) = f
       /\ ValueFound(u, key) = f[key]
       /\ size(u) # size(t) <=> key \notin DOMAIN MapOf(t)
  /\ ~Present(u, key) =>
       /\ key \notin DOMAIN MapOf(t) /\ Cardinality(DOMAIN MapOf(t)) >= t.type.max_bucket_count
       /\ MapOf(u) = MapOf(t)

\* A key that is not there is added, or there is no room.
LEMMA MapAdded ==
  ASSUME NEW t, NEW X, Whole(t, X), NEW key \in DOMAIN t.type.hash, NEW value \in X,
         ~Has(t, key), NEW u, AddedTo(t, u, X, key, value)
  PROVE  MapGrown(t, u, key, value, PutIn(MapOf(t), key, value))
<1>1. Whole(u, X) /\ u.type = t.type
  BY DEF AddedTo, Stays
<1>2. Present(u, key) <=> Has(u, key)
  BY <1>1, FindsWhole
<1>3. CASE u.m_values = Append(t.m_values, Entry(key, value))
  <2>1. /\ MapOf(u) = PutIn(MapOf(t), key, value) /\ Has(u, key) /\ size(u) = size(t) + 1
        /\ \A v \in Indexes(u) : KeyAt(u, v) = key => u.m_values[v + 1].value = value
    <3>1. NewLast(t, u, X, key, value)
      BY <1>1, <1>3 DEF NewLast
    <3> QED
      BY <3>1, MapAppended
  <2>2. ValueFound(u, key) = value
    BY <1>1, <2>1, FindsWhole DEF Has
  <2>3. PutIn(MapOf(t), key, value)[key] = value
    BY DEF PutIn
  <2>4. /\ key \notin DOMAIN MapOf(t) /\ Cardinality(DOMAIN MapOf(t)) = size(t) /\ size(t) \in Nat
        /\ size(u) <= u.type.max_bucket_count /\ u.type.max_bucket_count \in Nat
    BY <1>1, MapHas
  <2>5. ~(Cardinality(DOMAIN MapOf(t)) >= t.type.max_bucket_count) /\ size(u) # size(t)
    BY <1>1, <2>1, <2>4
  <2> QED
    BY <1>1, <1>2, <2>1, <2>2, <2>3, <2>4, <2>5 DEF MapGrown
<1>4. CASE u.m_values = t.m_values /\ size(t) >= t.type.max_bucket_count
  <2>1. MapOf(u) = MapOf(t)
    BY <1>1, <1>4, MapSame
  <2>2. key \notin DOMAIN MapOf(t) /\ Cardinality(DOMAIN MapOf(t)) = size(t)
    BY MapHas
  <2>3. ~Has(u, key)
    BY <1>1, <2>1, <2>2, MapHas
  <2> QED
    BY <1>1, <1>2, <1>4, <2>1, <2>2, <2>3 DEF MapGrown
<1> QED
  BY <1>3, <1>4 DEF AddedTo

\* An insertion leaves the value of a key that is there.
LEMMA MapInserted ==
  ASSUME NEW t, NEW X, Whole(t, X), NEW key \in DOMAIN t.type.hash, NEW value \in X, NEW u,
         Has(t, key) => Stays(t, u, X) /\ u.m_values = t.m_values,
         ~Has(t, key) => AddedTo(t, u, X, key, value)
  PROVE  MapGrown(t, u, key, value, IF key \in DOMAIN MapOf(t) THEN MapOf(t)
                                    ELSE PutIn(MapOf(t), key, value))
<1>1. key \in DOMAIN MapOf(t) <=> Has(t, key)
  BY MapHas
<1>2. CASE Has(t, key)
  <2>1. Whole(u, X) /\ u.type = t.type /\ u.m_values = t.m_values
    BY <1>2 DEF Stays
  <2>2. MapOf(u) = MapOf(t) /\ size(u) = size(t)
    BY <2>1, MapSame
  <2>3. Has(u, key)
    BY <1>1, <1>2, <2>1, <2>2, MapHas
  <2>4. Present(u, key)
    BY <2>1, <2>3, FindsWhole
  <2>5. ValueFound(u, key) = MapOf(u)[key]
    BY <2>1, <2>3, FindsWhole, MapIs DEF Has
  <2> QED
    BY <1>1, <1>2, <2>1, <2>2, <2>4, <2>5 DEF MapGrown
<1>3. CASE ~Has(t, key)
  BY <1>1, <1>3, MapAdded
<1> QED
  BY <1>2, <1>3

\* An assignment does not.
LEMMA MapPut ==
  ASSUME NEW t, NEW X, Whole(t, X), NEW key \in DOMAIN t.type.hash, NEW value \in X, NEW u,
         PutTo(t, u, X, key, value)
  PROVE  MapGrown(t, u, key, value, PutIn(MapOf(t), key, value))
<1>1. CASE Has(t, key)
  <2>1. AssignedTo(t, u, X, key, value) /\ Whole(u, X) /\ u.type = t.type
    BY <1>1 DEF PutTo, AssignedTo, Stays
  <2>2. /\ MapOf(u) = PutIn(MapOf(t), key, value) /\ Has(u, key) /\ size(u) = size(t)
        /\ \A v \in Indexes(u) : KeyAt(u, v) = key => u.m_values[v + 1].value = value
    BY <2>1, MapAssigned
  <2>3. Present(u, key) /\ ValueFound(u, key) = value
    BY <2>1, <2>2, FindsWhole DEF Has
  <2>4. PutIn(MapOf(t), key, value)[key] = value
    BY DEF PutIn
  <2>5. key \in DOMAIN MapOf(t)
    BY <1>1, MapHas
  <2> QED
    BY <2>1, <2>2, <2>3, <2>4, <2>5 DEF MapGrown
<1>2. CASE ~Has(t, key)
  BY <1>2, MapAdded DEF PutTo
<1> QED
  BY <1>1, <1>2

\* The value stays, under another key.
Rekeyed(t, u, X, v, new_key) ==
  /\ Stays(t, u, X) /\ size(u) = size(t) /\ ~Has(t, new_key)
  /\ \A i \in Indexes(t) :
       u.m_values[i + 1] = IF i = v THEN Entry(new_key, t.m_values[v + 1].value)
                           ELSE t.m_values[i + 1]

RekeyIn(f, old, new_key) ==
  [k \in (DOMAIN f \ {old}) \cup {new_key} |-> f[IF k = new_key THEN old ELSE k]]

\* The map has the new key in place of the old.
LEMMA MapRekeyed ==
  ASSUME NEW t, NEW X, Whole(t, X), NEW v \in Indexes(t), NEW new_key, NEW u,
         Rekeyed(t, u, X, v, new_key)
  PROVE  MapOf(u) = RekeyIn(MapOf(t), KeyAt(t, v), new_key)
<1> DEFINE old == KeyAt(t, v)
           S == (DOMAIN MapOf(t) \ {old}) \cup {new_key}
           f == [k \in S |-> MapOf(t)[IF k = new_key THEN old ELSE k]]
           e == Entry(new_key, t.m_values[v + 1].value)
<1>1. /\ DOMAIN MapOf(t) = KeysOf(t) /\ \A k : k \in KeysOf(t) <=> Has(t, k)
      /\ \A i \in Indexes(t) : MapOf(t)[KeyAt(t, i)] = t.m_values[i + 1].value
  BY MapIs
<1>2. /\ Whole(u, X) /\ DistinctKeys(t, Indexes(t)) /\ ~Has(t, new_key) /\ Indexes(u) = Indexes(t)
      /\ u.m_values[v + 1] = e
      /\ \A i \in Indexes(t) : i # v => u.m_values[i + 1] = t.m_values[i + 1]
  BY WholeIs DEF Rekeyed, Stays, Indexes
<1>3. e.key = new_key /\ e.value = t.m_values[v + 1].value
  BY DEF Entry
<1> HIDE DEF e
<1>4. KeyAt(u, v) = new_key /\ \A i \in Indexes(t) : i # v => KeyAt(u, i) = KeyAt(t, i)
  BY <1>2, <1>3 DEF KeyAt
<1>5. \A i \in Indexes(t) : i # v => KeyAt(t, i) # old
  BY <1>2 DEF DistinctKeys
<1>6. \A k : k \in S <=> Has(u, k)
  <2>1. ASSUME NEW k \in S PROVE Has(u, k)
    <3>1. CASE k = new_key
      BY <1>2, <1>4, <3>1 DEF Has
    <3>2. CASE k \in DOMAIN MapOf(t) \ {old}
      <4>1. PICK i \in Indexes(t) : KeyAt(t, i) = k
        BY <1>1, <3>2 DEF Has
      <4> QED
        BY <1>2, <1>4, <3>2, <4>1 DEF Has
    <3> QED
      BY <3>1, <3>2
  <2>2. ASSUME NEW k, Has(u, k) PROVE k \in S
    <3>1. PICK i \in Indexes(t) : KeyAt(u, i) = k
      BY <1>2, <2>2 DEF Has
    <3>2. CASE i = v
      BY <1>4, <3>1, <3>2
    <3>3. CASE i # v
      BY <1>1, <1>4, <1>5, <3>1, <3>3 DEF Has
    <3> QED
      BY <3>2, <3>3
  <2> QED
    BY <2>1, <2>2
<1>7. ASSUME NEW i \in Indexes(u) PROVE f[KeyAt(u, i)] = u.m_values[i + 1].value
  <2>1. KeyAt(u, i) \in S
    BY <1>6 DEF Has
  <2>2. f[KeyAt(u, i)] = MapOf(t)[IF KeyAt(u, i) = new_key THEN old ELSE KeyAt(u, i)]
    BY <2>1
  <2>3. CASE i = v
    BY <1>1, <1>2, <1>3, <1>4, <2>2, <2>3
  <2>4. CASE i # v
    <3>1. KeyAt(u, i) = KeyAt(t, i) /\ KeyAt(t, i) # new_key
      BY <1>2, <1>4, <2>4 DEF Has
    <3> QED
      BY <1>1, <1>2, <2>2, <2>4, <3>1
  <2> QED
    BY <2>3, <2>4
<1>8. f = [k \in S |-> f[k]]
  OBVIOUS
<1> HIDE DEF f, S
<1>9. MapOf(u) = f
  BY <1>2, <1>6, <1>7, <1>8, MapOfIs
<1> QED
  BY <1>9 DEF f, S, RekeyIn

\* What replace makes of a container: its keys, each with one of its values.
LEMMA MapReplaced ==
  ASSUME NEW u, NEW X, Whole(u, X), NEW c \in Seq([key : DOMAIN u.type.hash, value : X]), From(u, c)
  PROVE  /\ DOMAIN MapOf(u) = {e.key : e \in Range(c)}
         /\ \A e \in Range(c) : [key |-> e.key, value |-> MapOf(u)[e.key]] \in Range(c)
<1> DEFINE Pairs == [key : DOMAIN u.type.hash, value : X]
<1>1. /\ DOMAIN MapOf(u) = KeysOf(u) /\ \A k : k \in KeysOf(u) <=> Has(u, k)
      /\ \A i \in Indexes(u) : MapOf(u)[KeyAt(u, i)] = u.m_values[i + 1].value
  BY MapIs
<1>2. DOMAIN c = 1..Len(c) /\ Range(c) = {c[j] : j \in DOMAIN c}
  BY DEF Range
<1>3. \A i \in Indexes(u) : u.m_values[i + 1] \in Range(c) /\ KeyAt(u, i) = u.m_values[i + 1].key
  BY <1>2 DEF From, KeyAt
<1>4. \A e \in Range(c) : \E i \in Indexes(u) : KeyAt(u, i) = e.key
  BY <1>2 DEF From
<1>5. DOMAIN MapOf(u) = {e.key : e \in Range(c)}
  <2>1. ASSUME NEW k \in DOMAIN MapOf(u) PROVE \E e \in Range(c) : e.key = k
    BY <1>1, <1>3 DEF Has
  <2>2. ASSUME NEW e \in Range(c) PROVE e.key \in DOMAIN MapOf(u)
    BY <1>1, <1>4 DEF Has
  <2> QED
    BY <2>1, <2>2
<1>6. ASSUME NEW e \in Range(c)
      PROVE  [key |-> e.key, value |-> MapOf(u)[e.key]] \in Range(c)
  <2>1. PICK i \in Indexes(u) : KeyAt(u, i) = e.key
    BY <1>4
  <2> DEFINE d == u.m_values[i + 1]
  <2>2. d \in Range(c) /\ d.key = e.key /\ MapOf(u)[e.key] = d.value
    BY <1>1, <1>3, <2>1
  <2> HIDE DEF d
  <2>3. d \in Pairs
    <3>1. c \in Seq(Pairs)
      OBVIOUS
    <3> HIDE DEF Pairs
    <3> QED
      BY <1>2, <2>2, <3>1
  <2>4. d = [key |-> d.key, value |-> d.value]
    BY <2>3
  <2> QED
    BY <2>2, <2>4
<1> QED
  BY <1>5, <1>6

\* The entries after an erasure, which takes the values from the front or the back.
LEMMA MapErased ==
  ASSUME NEW t, NEW X, Whole(t, X), NEW u, NEW keys, Removed(t, u, X, keys)
  PROVE  /\ MapOf(u) = Restrict(MapOf(t), DOMAIN MapOf(t) \ keys) /\ u.type = t.type
         /\ size(t) - size(u) = Cardinality(DOMAIN MapOf(t) \cap keys)
<1>1. Whole(u, X) /\ u.type = t.type /\ EntriesOf(u) = {e \in EntriesOf(t) : e.key \notin keys}
  BY DEF Removed, Stays
<1> QED
  BY <1>1, MapRemoved

\* A table without values is the map without keys.
LEMMA MapEmpty ==
  ASSUME NEW t, NEW X, Whole(t, X), NEW u, Whole(u, X), u.m_values = << >>
  PROVE  /\ MapOf(u) = << >>
         /\ MapOf(u) = Restrict(MapOf(t), DOMAIN MapOf(t) \ DOMAIN t.type.hash)
         /\ size(t) - size(u) = Cardinality(DOMAIN MapOf(t) \cap DOMAIN t.type.hash)
<1> DEFINE keys == DOMAIN t.type.hash
<1>1. size(u) = 0 /\ Indexes(u) = {}
  BY DEF size, Indexes
<1>2. EntriesOf(u) = {}
  BY <1>1 DEF EntriesOf
<1>3. \A e \in EntriesOf(t) : e.key \in keys
  <2> SUFFICES ASSUME NEW i \in Indexes(t) PROVE t.m_values[i + 1].key \in keys
    BY DEF EntriesOf
  <2> QED
    BY KeysTyped DEF KeyAt
<1> HIDE DEF keys
<1>4. EntriesOf(u) = {e \in EntriesOf(t) : e.key \notin keys}
  BY <1>2, <1>3
<1>5. /\ MapOf(u) = Restrict(MapOf(t), DOMAIN MapOf(t) \ keys)
      /\ size(t) - size(u) = Cardinality(DOMAIN MapOf(t) \cap keys)
  BY <1>4, MapRemoved
<1>6. MapOf(u) = << >>
  <2>1. KeysOf(u) = {}
    BY <1>1 DEF KeysOf
  <2> QED
    BY <2>1 DEF MapOf
<1> QED
  BY <1>5, <1>6 DEF keys

\* The instance's operators are those of the libraries.
LEMMA AbstractIs ==
  /\ \A S : Abstract!Cardinality(S) = Cardinality(S)
  /\ \A f, S : Abstract!Restrict(f, S) = Restrict(f, S)
<1>1. \A S : Abstract!Cardinality(S) = Cardinality(S)
  BY DEF Abstract!Cardinality, Cardinality
<1>2. \A f, S : Abstract!Restrict(f, S) = Restrict(f, S)
  BY DEF Abstract!Restrict, Restrict
<1> QED
  BY <1>1, <1>2

\* The keys of any of the types.
AllKeys == UNION {DOMAIN type.hash : type \in Types}

\* What the invariant says of the keys.
LEMMA KeysAre ==
  ASSUME IInv
  PROVE  Whole(table, XValues) /\ Keys \subseteq AllKeys /\ Keys = DOMAIN table.type.hash
BY DEF IInv, Keys, AllKeys

\* The two outcomes of an insertion.
LEMMA InsertRefines ==
  ASSUME IInv, NEW e \in Inputs, NEW after, Added("insert", e.key, after),
         MapGrown(table, after, e.key, e.value,
                  IF e.key \in DOMAIN MapOf(table) THEN MapOf(table)
                  ELSE PutIn(MapOf(table), e.key, e.value))
  PROVE  Abstract!Next
<1> DEFINE m == MapOf(table)
           k == e.key
           f == IF k \in DOMAIN m THEN m ELSE PutIn(m, k, e.value)
           limit == table.type.max_bucket_count
<1>1. k \in AllKeys /\ e.value \in XValues
  BY KeysAre, InputsAre
<1>2. table' = after /\ limit' = limit
  BY DEF Added, MapGrown
<1>3. CASE Present(after, k)
  <2>1. /\ k \in DOMAIN m \/ ~(Cardinality(DOMAIN m) >= limit)
        /\ MapOf(after) = f /\ ValueFound(after, k) = f[k]
        /\ size(after) # size(table) <=> k \notin DOMAIN m
    BY <1>3 DEF MapGrown
  <2>2. f[k] = IF k \in DOMAIN m THEN m[k] ELSE e.value
    BY DEF PutIn
  <2>3. reply' = [call |-> "insert", key |-> k, new |-> k \notin DOMAIN m,
                  value |-> IF k \in DOMAIN m THEN m[k] ELSE e.value]
    BY <1>3, <2>1, <2>2 DEF Added
  <2>4. Abstract!Insert(k, e.value)
    BY <1>2, <2>1, <2>3, AbstractIs DEF Abstract!Insert, Abstract!Present, Abstract!Full, Abstract!Put, PutIn
  <2> QED
    BY <1>1, <1>2, <2>4 DEF Abstract!Next, AllKeys, XValues
<1>4. CASE ~Present(after, k)
  <2>1. k \notin DOMAIN m /\ Cardinality(DOMAIN m) >= limit /\ MapOf(after) = m
    BY <1>4 DEF MapGrown
  <2>2. reply' = [call |-> "overflow", key |-> k]
    BY <1>4 DEF Added
  <2>3. Abstract!Overflow(k)
    BY <1>2, <2>1, <2>2, AbstractIs DEF Abstract!Overflow, Abstract!Present, Abstract!Full
  <2> QED
    BY <1>1, <1>2, <2>3 DEF Abstract!Next, AllKeys
<1> QED
  BY <1>3, <1>4

\* The two outcomes of an assignment.
LEMMA AssignRefines ==
  ASSUME IInv, NEW e \in Inputs, NEW after, Added("assign", e.key, after),
         MapGrown(table, after, e.key, e.value, PutIn(MapOf(table), e.key, e.value))
  PROVE  Abstract!Next
<1> DEFINE m == MapOf(table)
           k == e.key
           f == PutIn(m, k, e.value)
           limit == table.type.max_bucket_count
<1>1. k \in AllKeys /\ e.value \in XValues
  BY KeysAre, InputsAre
<1>2. table' = after /\ limit' = limit
  BY DEF Added, MapGrown
<1>3. CASE Present(after, k)
  <2>1. /\ k \in DOMAIN m \/ ~(Cardinality(DOMAIN m) >= limit)
        /\ MapOf(after) = f /\ ValueFound(after, k) = f[k]
        /\ size(after) # size(table) <=> k \notin DOMAIN m
    BY <1>3 DEF MapGrown
  <2>2. f[k] = e.value
    BY DEF PutIn
  <2>3. reply' = [call |-> "assign", key |-> k, new |-> k \notin DOMAIN m, value |-> e.value]
    BY <1>3, <2>1, <2>2 DEF Added
  <2>4. Abstract!Assign(k, e.value)
    BY <1>2, <2>1, <2>3, AbstractIs
       DEF Abstract!Assign, Abstract!Present, Abstract!Full, Abstract!Put, PutIn
  <2> QED
    BY <1>1, <1>2, <2>4 DEF Abstract!Next, AllKeys, XValues
<1>4. CASE ~Present(after, k)
  <2>1. k \notin DOMAIN m /\ Cardinality(DOMAIN m) >= limit /\ MapOf(after) = m
    BY <1>4 DEF MapGrown
  <2>2. reply' = [call |-> "overflow", key |-> k]
    BY <1>4 DEF Added
  <2>3. Abstract!Overflow(k)
    BY <1>2, <2>1, <2>2, AbstractIs DEF Abstract!Overflow, Abstract!Present, Abstract!Full
  <2> QED
    BY <1>1, <1>2, <2>3 DEF Abstract!Next, AllKeys
<1> QED
  BY <1>3, <1>4

\* An erasure of any kind.
LEMMA EraseRefines ==
  ASSUME IInv, NEW keys \in SUBSET AllKeys, NEW after, Erased(keys, after),
         /\ MapOf(after) = Restrict(MapOf(table), DOMAIN MapOf(table) \ keys)
         /\ after.type = table.type
         /\ size(table) - size(after) = Cardinality(DOMAIN MapOf(table) \cap keys)
  PROVE  Abstract!Next
<1>1. Abstract!Erase(keys)
  BY AbstractIs DEF Erased, Abstract!Erase
<1>2. UNCHANGED table.type.max_bucket_count
  BY DEF Erased
<1> QED
  BY <1>1, <1>2 DEF Abstract!Next, AllKeys

\* A table reorganized.
LEMMA ReorganizeRefines ==
  ASSUME IInv, NEW after, Reorganized(after), Whole(after, XValues), after.type = table.type,
         after.m_values = table.m_values
  PROVE  Abstract!Next
<1>1. MapOf(after) = MapOf(table) /\ Equal(after, table) /\ Equal(table, after)
  BY KeysAre, MapSame
<1>2. reply' = [call |-> "reorganize", equal |-> TRUE] /\ table' = after
  BY <1>1 DEF Reorganized
<1>3. Abstract!Reorganize
  BY <1>1, <1>2 DEF Abstract!Reorganize
<1> QED
  BY <1>2, <1>3 DEF Abstract!Next

\* The value taken out is the one the key had.
LEMMA ExtractRefines ==
  ASSUME IInv, Extract
  PROVE  Abstract!Next
<1> DEFINE m == MapOf(table)
<1>1. PICK key \in Keys :
        /\ table' = do_erase_key(table, key)
        /\ reply' = [call |-> "extract", key |-> key,
                     value |-> IF do_find(table, key) THEN {ValueFound(table, key)} ELSE {}]
  BY DEF Extract
<1>2. Whole(table, XValues) /\ key \in DOMAIN table.type.hash /\ key \in AllKeys
  BY KeysAre
<1>3. /\ MapOf(table') = Restrict(m, DOMAIN m \ {key})
      /\ table'.type = table.type
  <2>1. Removed(table, table', XValues, {key})
    BY <1>1, <1>2, KeyErased
  <2> QED
    BY <1>2, <2>1, MapErased
<1>4. (IF do_find(table, key) THEN {ValueFound(table, key)} ELSE {})
        = {m[k] : k \in DOMAIN m \cap {key}}
  <2>1. do_find(table, key) <=> key \in DOMAIN m
    BY <1>2, FindsWhole, MapHas
  <2>2. key \in DOMAIN m => ValueFound(table, key) = m[key]
    BY <1>2, FindsWhole, MapIs, MapHas DEF Has
  <2> HIDE DEF m
  <2>3. CASE key \in DOMAIN m
    <3>1. DOMAIN m \cap {key} = {key}
      BY <2>3
    <3> QED
      BY <2>1, <2>2, <2>3, <3>1
  <2>4. CASE key \notin DOMAIN m
    <3>1. DOMAIN m \cap {key} = {}
      BY <2>4
    <3> QED
      BY <2>1, <2>4, <3>1
  <2> QED
    BY <2>3, <2>4
<1>5. Abstract!Extract(key)
  BY <1>1, <1>3, <1>4, AbstractIs DEF Abstract!Extract
<1> QED
  BY <1>2, <1>3, <1>5 DEF Abstract!Next, AllKeys

\* The value stays under its new key, if there was none for that.
LEMMA RekeyRefines ==
  ASSUME IInv, ReplaceKey
  PROVE  Abstract!Next
<1> DEFINE m == MapOf(table)
<1>1. PICK i \in Iterators, new_key \in Keys :
        /\ table' = replace_key(table, i, new_key)
        /\ reply' = [call |-> "rekey", old |-> KeyAt(table, i), key |-> new_key,
                     new |-> ~Present(table, new_key)]
  BY DEF ReplaceKey
<1> DEFINE old == KeyAt(table, i)
<1>2. /\ Whole(table, XValues) /\ new_key \in DOMAIN table.type.hash /\ new_key \in AllKeys
      /\ i \in Indexes(table) /\ old \in DOMAIN m /\ old \in AllKeys
      /\ new_key \in DOMAIN m <=> Has(table, new_key)
      /\ Present(table, new_key) <=> Has(table, new_key)
  <2>1. Whole(table, XValues) /\ Keys \subseteq AllKeys /\ Keys = DOMAIN table.type.hash
    BY KeysAre
  <2>2. i \in Indexes(table)
    BY DEF Indexes, Iterators
  <2>3. old \in Keys
    BY <2>1, <2>2, KeysTyped
  <2> QED
    BY <2>1, <2>2, <2>3, FindsWhole, MapHas
<1>3. table'.type = table.type
      /\ MapOf(table') = IF new_key \in DOMAIN m THEN m ELSE RekeyIn(m, old, new_key)
  <2>1. CASE Has(table, new_key)
    <3>1. table' = table
      BY <1>1, <1>2, <2>1, KeyReplaced
    <3> QED
      BY <1>2, <2>1, <3>1
  <2>2. CASE ~Has(table, new_key)
    <3>1. Rekeyed(table, table', XValues, i, new_key)
      BY <1>1, <1>2, <2>2, KeyReplaced DEF Rekeyed
    <3>2. MapOf(table') = RekeyIn(m, old, new_key)
      BY <1>2, <3>1, MapRekeyed
    <3>3. table'.type = table.type
      BY <3>1 DEF Rekeyed, Stays
    <3> QED
      BY <1>2, <2>2, <3>2, <3>3
  <2> QED
    BY <2>1, <2>2
<1>4. reply' = [call |-> "rekey", old |-> old, key |-> new_key, new |-> new_key \notin DOMAIN m]
  BY <1>1, <1>2
<1>5. Abstract!Rekey(old, new_key)
  BY <1>2, <1>3, <1>4 DEF Abstract!Rekey, Abstract!Present, RekeyIn
<1> QED
  BY <1>2, <1>3, <1>5 DEF Abstract!Next, AllKeys

\* An erasure of the entries of some keys.
LEMMA RemovedRefines ==
  ASSUME IInv, NEW keys \in SUBSET AllKeys, NEW after, Erased(keys, after),
         Removed(table, after, XValues, keys)
  PROVE  Abstract!Next
<1>1. Whole(table, XValues)
  BY KeysAre
<1>2. /\ MapOf(after) = Restrict(MapOf(table), DOMAIN MapOf(table) \ keys)
      /\ after.type = table.type
      /\ size(table) - size(after) = Cardinality(DOMAIN MapOf(table) \cap keys)
  BY <1>1, MapErased
<1> QED
  BY <1>2, EraseRefines

\* An erasure of them all.
LEMMA EmptiedRefines ==
  ASSUME IInv, NEW after, Erased(Keys, after), Whole(after, XValues), after.type = table.type,
         after.m_values = << >>
  PROVE  Abstract!Next
<1>1. Whole(table, XValues) /\ Keys \in SUBSET AllKeys /\ Keys = DOMAIN table.type.hash
  BY KeysAre
<1>2. /\ MapOf(after) = Restrict(MapOf(table), DOMAIN MapOf(table) \ Keys)
      /\ size(table) - size(after) = Cardinality(DOMAIN MapOf(table) \cap Keys)
  BY <1>1, MapEmpty
<1> QED
  BY <1>1, <1>2, EraseRefines

\* Whatever was there is gone.
LEMMA ReplaceRefines ==
  ASSUME IInv, Replace
  PROVE  Abstract!Next
<1>1. PICK c \in Containers : /\ Range(c) \subseteq Inputs /\ Fits(table, Len(c))
                              /\ table' = replace(table, c)
                              /\ reply' = [call |-> "replace", entries |-> Range(c)]
  BY DEF Replace
<1>2. Whole(table, XValues) /\ c \in Seq([key : DOMAIN table.type.hash, value : XValues])
  BY <1>1, KeysAre, ContainerIs
<1>3. Stays(table, table', XValues) /\ From(table', c)
  BY <1>1, <1>2, ReplacedTable
<1>4. Whole(table', XValues) /\ table'.type = table.type
  BY <1>3 DEF Stays
<1>5. /\ DOMAIN MapOf(table') = {e.key : e \in Range(c)}
      /\ \A e \in Range(c) : [key |-> e.key, value |-> MapOf(table')[e.key]] \in Range(c)
  BY <1>2, <1>3, <1>4, MapReplaced
<1>6. Abstract!Replace(Range(c))
  BY <1>1, <1>5 DEF Abstract!Replace
<1>7. Range(c) \in SUBSET [key : AllKeys, value : XValues]
  <2> SUFFICES ASSUME NEW e \in Range(c) PROVE e \in [key : AllKeys, value : XValues]
    OBVIOUS
  <2>1. e \in Inputs /\ e \in Entries
    BY <1>1 DEF Inputs
  <2>2. e = [key |-> e.key, value |-> e.value]
    BY <2>1, EntriesAssumption DEF Entry
  <2>3. e.key \in AllKeys /\ e.value \in XValues
    BY <2>1, KeysAre, InputsAre
  <2> QED
    BY <2>2, <2>3
<1> QED
  BY <1>4, <1>6, <1>7 DEF Abstract!Next, AllKeys, XValues

\* The map is empty after the constructor.
LEMMA InitRefines == Init /\ IInv => Abstract!Init
<1> SUFFICES ASSUME Init, IInv PROVE Abstract!Init
  OBVIOUS
<1>1. PICK type \in Types, count \in Counts : table = NewTable(type, count) /\ Fits(Blank(type), count)
  BY DEF Init
<1>2. Whole(table, XValues) /\ table.type.max_bucket_count \in Nat
  BY KeysAre, MapHas
<1>3. table.m_values = << >>
  BY <1>1, TypesAssumption, CountsAssumption, NewIs
<1>4. MapOf(table) = << >>
  BY <1>2, <1>3, MapEmpty
<1> QED
  BY <1>2, <1>4 DEF Init, Abstract!Init

\* Every call is one of the abstract map.
LEMMA StepRefines == IInv /\ IInv' /\ Next => Abstract!Next
<1> SUFFICES ASSUME IInv, IInv', Next PROVE Abstract!Next
  OBVIOUS
<1> DEFINE X == XValues
<1>0. /\ Whole(table, X) /\ Whole(table', X) /\ Indexes(table) = Iterators /\ size(table) \in Nat
      /\ Keys \subseteq AllKeys /\ Keys = DOMAIN table.type.hash
      /\ \A i \in Indexes(table) : KeyAt(table, i) \in AllKeys
  <2>1. /\ Whole(table, X) /\ Whole(table', X) /\ Indexes(table) = Iterators /\ size(table) \in Nat
        /\ Keys \subseteq AllKeys /\ Keys = DOMAIN table.type.hash
    BY KeysAre, WholeIs DEF IInv, Indexes, Iterators
  <2>2. \A i \in Indexes(table) : KeyAt(table, i) \in Keys
    BY <2>1, KeysTyped
  <2> QED
    BY <2>1, <2>2
<1> HIDE DEF X
<1>1. CASE TryEmplace
  <2>1. PICK e \in Inputs : Added("insert", e.key, do_try_emplace(table, e.key, e.value))
    BY <1>1 DEF TryEmplace
  <2> DEFINE after == do_try_emplace(table, e.key, e.value)
  <2>2. e.key \in DOMAIN table.type.hash /\ e.value \in X
    BY InputsAre DEF X
  <2>3. /\ Has(table, e.key) => Stays(table, after, X) /\ after.m_values = table.m_values
        /\ ~Has(table, e.key) => AddedTo(table, after, X, e.key, e.value)
    BY <1>0, <2>2, TryEmplaced DEF Stays
  <2> HIDE DEF after
  <2>4. MapGrown(table, after, e.key, e.value,
                 IF e.key \in DOMAIN MapOf(table) THEN MapOf(table)
                 ELSE PutIn(MapOf(table), e.key, e.value))
    BY <1>0, <2>2, <2>3, MapInserted
  <2> QED
    BY <2>1, <2>4, InsertRefines DEF after
<1>2. CASE Emplace
  <2>1. PICK e \in Inputs : Added("insert", e.key, emplace(table, e.key, e.value))
    BY <1>2 DEF Emplace
  <2> DEFINE after == emplace(table, e.key, e.value)
  <2>2. e.key \in DOMAIN table.type.hash /\ e.value \in X
    BY InputsAre DEF X
  <2>3. /\ Has(table, e.key) => Stays(table, after, X) /\ after.m_values = table.m_values
        /\ ~Has(table, e.key) => AddedTo(table, after, X, e.key, e.value)
    BY <1>0, <2>2, Emplaced
  <2> HIDE DEF after
  <2>4. MapGrown(table, after, e.key, e.value,
                 IF e.key \in DOMAIN MapOf(table) THEN MapOf(table)
                 ELSE PutIn(MapOf(table), e.key, e.value))
    BY <1>0, <2>2, <2>3, MapInserted
  <2> QED
    BY <2>1, <2>4, InsertRefines DEF after
<1>3. CASE InsertOrAssign
  <2>1. PICK e \in Inputs : Added("assign", e.key, do_insert_or_assign(table, e.key, e.value))
    BY <1>3 DEF InsertOrAssign
  <2> DEFINE after == do_insert_or_assign(table, e.key, e.value)
  <2>2. e.key \in DOMAIN table.type.hash /\ e.value \in X
    BY InputsAre DEF X
  <2>3. PutTo(table, after, X, e.key, e.value)
    BY <1>0, <2>2, InsertedOrAssigned
  <2> HIDE DEF after
  <2>4. MapGrown(table, after, e.key, e.value, PutIn(MapOf(table), e.key, e.value))
    BY <1>0, <2>2, <2>3, MapPut
  <2> QED
    BY <2>1, <2>4, AssignRefines DEF after
<1>4. CASE Index
  <2>1. PICK e \in Inputs : Added("assign", e.key, IndexAssign(table, e.key, e.value))
    BY <1>4 DEF Index
  <2> DEFINE after == IndexAssign(table, e.key, e.value)
  <2>2. e.key \in DOMAIN table.type.hash /\ e.value \in X
    BY InputsAre DEF X
  <2>3. PutTo(table, after, X, e.key, e.value)
    BY <1>0, <2>2, IndexAssigned
  <2> HIDE DEF after
  <2>4. MapGrown(table, after, e.key, e.value, PutIn(MapOf(table), e.key, e.value))
    BY <1>0, <2>2, <2>3, MapPut
  <2> QED
    BY <2>1, <2>4, AssignRefines DEF after
<1>5. CASE EraseKey
  <2>1. PICK key \in Keys : Erased({key}, do_erase_key(table, key))
    BY <1>5 DEF EraseKey
  <2>2. Removed(table, do_erase_key(table, key), X, {key})
    BY <1>0, KeyErased
  <2> QED
    BY <1>0, <2>1, <2>2, RemovedRefines DEF X
<1>6. CASE EraseIterator
  <2>1. PICK i \in Indexes(table) : Erased({KeyAt(table, i)}, EraseAt(table, i))
    BY <1>0, <1>6 DEF EraseIterator
  <2>2. Removed(table, EraseAt(table, i), X, {KeyAt(table, i)})
    BY <1>0, ErasedAt, ShrunkIs
  <2> QED
    BY <1>0, <2>1, <2>2, RemovedRefines DEF X
<1>7. CASE EraseIterators
  <2>1. PICK first \in Iterators : \E last \in first + 1..size(table) :
          Erased({KeyAt(table, i) : i \in first..last - 1}, EraseRange(table, first, last))
    BY <1>7 DEF EraseIterators
  <2>2. PICK last \in first + 1..size(table) :
          Erased({KeyAt(table, i) : i \in first..last - 1}, EraseRange(table, first, last))
    BY <2>1
  <2> DEFINE keys == {KeyAt(table, i) : i \in first..last - 1}
  <2>3. first \in 0..size(table) /\ last \in first..size(table)
    BY <1>0 DEF Iterators
  <2>4. Removed(table, EraseRange(table, first, last), X, keys)
    BY <1>0, <2>3, RangeErased
  <2>5. keys \in SUBSET AllKeys
    <3>1. \A i \in first..last - 1 : i \in Indexes(table)
      BY <1>0, <2>3 DEF Indexes
    <3> QED
      BY <1>0, <3>1
  <2> HIDE DEF keys
  <2> QED
    BY <2>2, <2>4, <2>5, RemovedRefines DEF X, keys
<1>8. CASE EraseWhere
  <2>1. PICK keys \in Predicates : Erased(keys, EraseIf(table, keys))
    BY <1>8 DEF EraseWhere
  <2>2. Removed(table, EraseIf(table, keys), X, keys)
    BY <1>0, Sifted
  <2>3. keys \in SUBSET AllKeys
    BY PredicatesAssumption DEF AllKeys
  <2> QED
    BY <2>1, <2>2, <2>3, RemovedRefines DEF X
<1>9. CASE Clear
  <2>1. Erased(Keys, clear(table))
    BY <1>9 DEF Clear
  <2>2. Stays(table, clear(table), X) /\ clear(table).m_values = << >>
    BY <1>0, ClearIs
  <2> QED
    BY <2>1, <2>2, EmptiedRefines DEF X, Stays
<1>10. CASE Extract
  BY <1>10, ExtractRefines
<1>11. CASE ReplaceKey
  BY <1>11, RekeyRefines
<1>12. CASE Replace
  BY <1>12, ReplaceRefines
<1>13. CASE Reserve
  <2>1. PICK count \in Counts :
          Fits(table, Max2(count, size(table))) /\ Reorganized(reserve(table, count))
    BY <1>13 DEF Reserve
  <2>2. Whole(reserve(table, count), X) /\ Kept(table, reserve(table, count))
    BY <1>0, <2>1, CountsAssumption, ReservedTable
  <2> QED
    BY <2>1, <2>2, ReorganizeRefines DEF Kept, X
<1>14. CASE Rehash
  <2>1. PICK count \in Counts :
          Fits(table, Max2(count, size(table))) /\ Reorganized(rehash(table, count))
    BY <1>14 DEF Rehash
  <2>2. Whole(rehash(table, count), X) /\ Kept(table, rehash(table, count))
    BY <1>0, <2>1, CountsAssumption, ReservedTable
  <2> QED
    BY <2>1, <2>2, ReorganizeRefines DEF Kept, X
<1>15. CASE SetLoadFactor
  <2>1. PICK ml \in LoadFactors : Reorganized(max_load_factor(table, ml))
    BY <1>15 DEF SetLoadFactor
  <2> DEFINE after == max_load_factor(table, ml)
  <2>2. ml \in 1..100
    BY LoadFactorsAssumption
  <2>3. Whole(after, X) /\ after.type = table.type /\ after.m_values = table.m_values
    BY <1>0, <2>2, LoadFactorSet
  <2> QED
    BY <2>1, <2>3, ReorganizeRefines DEF X
<1>16. CASE Copy
  <2>1. Reorganized(CopyOf(table))
    BY <1>16 DEF Copy
  <2>2. Stays(table, CopyOf(table), X) /\ CopyOf(table).m_values = table.m_values
    BY <1>0, CopiedTable
  <2> QED
    BY <2>1, <2>2, ReorganizeRefines DEF Stays, X
<1>17. CASE MoveFrom
  <2>1. Erased(Keys, MovedFrom(table))
    BY <1>17 DEF MoveFrom
  <2>2. /\ Whole(MovedFrom(table), X) /\ MovedFrom(table).type = table.type
        /\ MovedFrom(table).m_values = << >>
    BY <1>0, MovedFromIs
  <2> QED
    BY <2>1, <2>2, EmptiedRefines DEF X
<1> QED
  BY <1>1, <1>2, <1>3, <1>4, <1>5, <1>6, <1>7, <1>8, <1>9, <1>10, <1>11, <1>12, <1>13, <1>14,
     <1>15, <1>16, <1>17 DEF Next

\* The table is a map: whatever is shifted, moved, refilled or reallocated, a call
\* does and returns what it would on a partial function, and a key is turned away only
\* where there is no room for one more.
THEOREM TableIsAMap == Spec => ImplementsMap
<1>1. Init /\ IInv => Abstract!Init
  BY InitRefines
<1>2. IInv /\ IInv' /\ [Next]_vars => [Abstract!Next]_(Abstract!vars)
  <2>1. UNCHANGED vars => UNCHANGED Abstract!vars
    BY DEF vars, Abstract!vars
  <2> QED
    BY <2>1, StepRefines
<1> QED
  BY <1>1, <1>2, Invariance, PTL DEF Spec, ImplementsMap, Abstract!Spec

-----------------------------------------------------------------------------
(* The cache: a list and a table that leads to its nodes.                  *)

\* A sequence without the one at i.
LEMMA WithoutOne ==
  ASSUME NEW S, NEW s \in Seq(S), NEW i \in 1..Len(s)
  PROVE  /\ RemoveAt(s, i) \in Seq(S) /\ Len(RemoveAt(s, i)) = Len(s) - 1
         /\ \A j \in 1..(Len(s) - 1) : RemoveAt(s, i)[j] = s[IF j < i THEN j ELSE j + 1]
<1> DEFINE a == SubSeq(s, 1, i - 1)
           b == SubSeq(s, i + 1, Len(s))
<1>1. Len(s) \in Nat /\ i \in Nat
  BY LenProperties
<1>2. a \in Seq(S) /\ Len(a) = i - 1 /\ \A j \in 1..(i - 1) : a[j] = s[j]
  BY <1>1, SubSeqProperties
<1>3. b \in Seq(S) /\ Len(b) = Len(s) - i /\ \A j \in 1..(Len(s) - i) : b[j] = s[i + j]
  BY <1>1, SubSeqProperties
<1>4. RemoveAt(s, i) = a \o b
  BY DEF RemoveAt
<1> HIDE DEF a, b
<1>5. /\ a \o b \in Seq(S) /\ Len(a \o b) = Len(a) + Len(b)
      /\ \A j \in 1..(Len(a) + Len(b)) : (a \o b)[j] = IF j <= Len(a) THEN a[j] ELSE b[j - Len(a)]
  BY <1>2, <1>3, ConcatProperties
<1>6. ASSUME NEW j \in 1..(Len(s) - 1)
      PROVE  (a \o b)[j] = s[IF j < i THEN j ELSE j + 1]
  <2>1. CASE j < i
    <3>1. j \in 1..(i - 1) /\ j <= Len(a) /\ j \in 1..(Len(a) + Len(b))
      BY <1>1, <1>2, <1>3, <2>1
    <3> QED
      BY <1>2, <1>5, <2>1, <3>1
  <2>2. CASE ~(j < i)
    <3>1. /\ j - Len(a) \in 1..(Len(s) - i) /\ ~(j <= Len(a)) /\ j \in 1..(Len(a) + Len(b))
          /\ i + (j - Len(a)) = j + 1
      BY <1>1, <1>2, <1>3, <2>2
    <3> QED
      BY <1>3, <1>5, <2>2, <3>1
  <2> QED
    BY <2>1, <2>2
<1>7. Len(a) + Len(b) = Len(s) - 1
  BY <1>1, <1>2, <1>3
<1> QED
  BY <1>4, <1>5, <1>6, <1>7

\* A sequence behind a new first element.
LEMMA InFront ==
  ASSUME NEW S, NEW s \in Seq(S), NEW e \in S
  PROVE  /\ << e >> \o s \in Seq(S) /\ Len(<< e >> \o s) = Len(s) + 1 /\ Len(s) \in Nat
         /\ (<< e >> \o s)[1] = e /\ Head(<< e >> \o s) = e
         /\ \A j \in 1..Len(s) : (<< e >> \o s)[j + 1] = s[j]
<1> DEFINE a == << e >>
<1>1. a \in Seq(S) /\ Len(a) = 1 /\ a[1] = e /\ Len(s) \in Nat
  BY LenProperties
<1> HIDE DEF a
<1>2. /\ a \o s \in Seq(S) /\ Len(a \o s) = 1 + Len(s)
      /\ \A j \in 1..(1 + Len(s)) : (a \o s)[j] = IF j <= 1 THEN a[j] ELSE s[j - 1]
  <2>1. /\ a \o s \in Seq(S) /\ Len(a \o s) = Len(a) + Len(s)
        /\ \A j \in 1..(Len(a) + Len(s)) : (a \o s)[j] = IF j <= Len(a) THEN a[j] ELSE s[j - Len(a)]
    BY <1>1, ConcatProperties
  <2> QED
    BY <1>1, <2>1
<1>3. 1 \in 1..(1 + Len(s)) /\ (a \o s)[1] = e
  BY <1>1, <1>2
<1>4. ASSUME NEW j \in 1..Len(s) PROVE (a \o s)[j + 1] = s[j]
  <2>1. j + 1 \in 1..(1 + Len(s)) /\ ~(j + 1 <= 1) /\ (j + 1) - 1 = j
    BY <1>1
  <2> QED
    BY <1>2, <2>1
<1>5. Head(a \o s) = (a \o s)[1]
  BY <1>1, <1>2
<1> QED
  BY <1>1, <1>2, <1>3, <1>4, <1>5 DEF a

\* Removing behind the first element.
LEMMA WithoutBehindFront ==
  ASSUME NEW S, NEW s \in Seq(S), NEW e \in S, NEW i \in 1..Len(s)
  PROVE  RemoveAt(<< e >> \o s, i + 1) = << e >> \o RemoveAt(s, i)
<1> DEFINE p == << e >> \o s
           r == RemoveAt(s, i)
           q == RemoveAt(p, i + 1)
           w == << e >> \o r
<1>1. p \in Seq(S) /\ Len(p) = Len(s) + 1 /\ Len(s) \in Nat /\ p[1] = e
      /\ \A j \in 1..Len(s) : p[j + 1] = s[j]
  BY InFront
<1>2. r \in Seq(S) /\ Len(r) = Len(s) - 1
      /\ \A j \in 1..(Len(s) - 1) : r[j] = s[IF j < i THEN j ELSE j + 1]
  BY WithoutOne
<1> HIDE DEF p, r
<1>3. i + 1 \in 1..Len(p) /\ i \in Nat
  BY <1>1
<1>4. q \in Seq(S) /\ Len(q) = Len(p) - 1
      /\ \A j \in 1..(Len(p) - 1) : q[j] = p[IF j < i + 1 THEN j ELSE j + 1]
  BY <1>1, <1>3, WithoutOne
<1>5. w \in Seq(S) /\ Len(w) = Len(r) + 1 /\ w[1] = e /\ \A j \in 1..Len(r) : w[j + 1] = r[j]
  BY <1>2, InFront
<1> HIDE DEF q, w
<1>6. ASSUME NEW j \in 1..Len(q) PROVE q[j] = w[j]
  <2>1. j \in Nat /\ j \in 1..Len(s) /\ j \in 1..(Len(p) - 1) /\ i \in Nat
    BY <1>1, <1>3, <1>4
  <2>2. CASE j = 1
    <3>1. q[1] = p[1]
      BY <1>3, <1>4, <2>1, <2>2
    <3> QED
      BY <1>1, <1>5, <2>2, <3>1
  <2>3. CASE j > 1 /\ j < i + 1
    <3>1. j - 1 \in 1..Len(r) /\ j - 1 \in 1..Len(s) /\ j - 1 \in 1..(Len(s) - 1) /\ j - 1 < i
          /\ (j - 1) + 1 = j
      BY <1>1, <1>2, <2>1, <2>3
    <3>2. q[j] = p[j] /\ p[j] = s[j - 1] /\ w[j] = r[j - 1] /\ r[j - 1] = s[j - 1]
      BY <1>1, <1>2, <1>4, <1>5, <2>1, <2>3, <3>1
    <3> QED
      BY <3>2
  <2>4. CASE ~(j < i + 1)
    <3>1. j - 1 \in 1..Len(r) /\ j - 1 \in 1..(Len(s) - 1) /\ ~(j - 1 < i) /\ (j - 1) + 1 = j
      BY <1>1, <1>2, <2>1, <2>4
    <3>2. q[j] = p[j + 1] /\ p[j + 1] = s[j] /\ w[j] = r[j - 1] /\ r[j - 1] = s[j]
      BY <1>1, <1>2, <1>4, <1>5, <2>1, <2>4, <3>1
    <3> QED
      BY <3>2
  <2> QED
    BY <2>1, <2>2, <2>3, <2>4
<1>7. Len(q) = Len(w)
  BY <1>1, <1>2, <1>4, <1>5
<1>8. q = w
  BY <1>4, <1>5, <1>6, <1>7, SeqEqual
<1> QED
  BY <1>8 DEF q, w, p, r

NodeIterators == Nat \ {0}
CacheValues == {e.value : e \in CacheEntries}
Nodes == [iterator : NodeIterators, key : Offsets, value : CacheValues]

\* No two nodes have the same key, and none the same iterator.
Distinct(list) ==
  /\ list \in Seq(Nodes)
  /\ \A i, j \in 1..Len(list) :
       list[i].key = list[j].key \/ list[i].iterator = list[j].iterator => i = j

Listed(list, key) == \E i \in 1..Len(list) : list[i].key = key

\* The table has the keys of the list, and leads from each to its node.
Leads(list, t) ==
  /\ Whole(t, NodeIterators) /\ t.type \in Hashes
  /\ \A key : key \in DOMAIN MapOf(t) <=> Listed(list, key)
  /\ \A i \in 1..Len(list) : MapOf(t)[list[i].key] = list[i].iterator

Linked(list, t) == Distinct(list) /\ Leads(list, t)

CacheInv ==
  /\ Linked(item_list_, item_map_)
  /\ max_size_ \in Capacities /\ Len(item_list_) <= max_size_

\* What the list's nodes are.
LEMMA NodesAre ==
  ASSUME NEW list, Distinct(list)
  PROVE  /\ list \in Seq(Nodes) /\ Len(list) \in Nat
         /\ \A i \in 1..Len(list) : /\ list[i] \in Nodes /\ list[i].key \in Offsets
                                    /\ list[i].iterator \in NodeIterators
                                    /\ list[i].value \in CacheValues
<1>1. list \in Seq(Nodes)
  BY DEF Distinct
<1>2. Len(list) \in Nat
  BY <1>1, LenProperties
<1>3. \A i \in 1..Len(list) : list[i] \in Nodes
  BY <1>1, ElementOfSeq
<1>4. \A e \in Nodes : e.key \in Offsets /\ e.iterator \in NodeIterators /\ e.value \in CacheValues
  BY DEF Nodes
<1> QED
  BY <1>1, <1>2, <1>3, <1>4

\* The table's keys are offsets.
LEMMA KeysAreOffsets ==
  ASSUME NEW list, NEW t, Leads(list, t)
  PROVE  DOMAIN t.type.hash = Offsets /\ TypeArguments(t.type)
BY OffsetsAssumption DEF Leads

\* An iterator is that of one node.
LEMMA PlaceOfIs ==
  ASSUME NEW list, Distinct(list), NEW i \in 1..Len(list)
  PROVE  PlaceOf(list, list[i].iterator) = i
<1> DEFINE At(p) == p \in 1..Len(list) /\ list[p].iterator = list[i].iterator
<1>1. PlaceOf(list, list[i].iterator) = CHOOSE p : At(p)
  BY DEF PlaceOf
<1>2. At(i)
  OBVIOUS
<1>3. \A p : At(p) => p = i
  BY DEF Distinct
<1> HIDE DEF At
<1>4. (CHOOSE p : At(p)) = i
  BY <1>2, <1>3
<1> QED
  BY <1>1, <1>4

\* What find tells: whether the key is in the list, and its node.
LEMMA FindsNode ==
  ASSUME NEW list, NEW t, Linked(list, t), NEW key \in Offsets
  PROVE  /\ do_find(t, key) <=> Listed(list, key)
         /\ do_find(t, key) <=> Has(t, key)
         /\ \A i \in 1..Len(list) : list[i].key = key => ValueFound(t, key) = list[i].iterator
<1>1. Whole(t, NodeIterators) /\ Leads(list, t)
  BY DEF Linked, Leads
<1>2. key \in DOMAIN t.type.hash
  BY <1>1, KeysAreOffsets
<1>3. do_find(t, key) <=> Has(t, key)
  BY <1>1, <1>2, FindsWhole
<1>4. Has(t, key) <=> key \in DOMAIN MapOf(t)
  BY <1>1, MapHas
<1>5. key \in DOMAIN MapOf(t) <=> Listed(list, key)
  BY <1>1 DEF Leads
<1>6. ASSUME NEW i \in 1..Len(list), list[i].key = key
      PROVE  ValueFound(t, key) = list[i].iterator
  <2>1. PICK v \in Indexes(t) : KeyAt(t, v) = key
    BY <1>4, <1>5, <1>6 DEF Has, Listed
  <2>2. ValueFound(t, key) = t.m_values[v + 1].value
    BY <1>1, <1>2, <2>1, FindsWhole
  <2>3. MapOf(t)[key] = t.m_values[v + 1].value
    BY <1>1, <2>1, MapIs
  <2>4. MapOf(t)[key] = list[i].iterator
    BY <1>1, <1>6 DEF Leads
  <2> QED
    BY <2>2, <2>3, <2>4
<1> QED
  BY <1>3, <1>4, <1>5, <1>6

\* There are as many nodes as values.
LEMMA ListIsAsLong ==
  ASSUME NEW list, NEW t, Linked(list, t)
  PROVE  Len(list) = size(t) /\ Cardinality(IteratorsOf(list)) = Len(list)
<1> DEFINE n == Len(list)
           f == [i \in 1..n |-> list[i].key]
           g == [i \in 1..n |-> list[i].iterator]
           K == DOMAIN MapOf(t)
           I == IteratorsOf(list)
<1>1. n \in Nat /\ Distinct(list) /\ Leads(list, t)
  BY NodesAre DEF Linked
<1>2. IsFiniteSet(1..n) /\ Cardinality(1..n) = n
  <2>1. IsFiniteSet(1..n) /\ Cardinality(1..n) = IF 1 > n THEN 0 ELSE n - 1 + 1
    BY <1>1, FS_Interval
  <2> QED
    BY <1>1, <2>1
<1>3. f \in Bijection(1..n, K)
  <2>1. \A key : key \in K <=> \E i \in 1..n : list[i].key = key
    BY <1>1 DEF Leads, Listed
  <2>2. f \in [1..n -> K]
    BY <2>1
  <2>3. \A i, j \in 1..n : f[i] = f[j] => i = j
    BY <1>1 DEF Distinct
  <2>4. \A k \in K : \E i \in 1..n : f[i] = k
    BY <2>1
  <2> HIDE DEF f, K, n
  <2> QED
    BY <2>2, <2>3, <2>4 DEF Bijection, Injection, Surjection, IsInjective
<1>4. g \in Bijection(1..n, I)
  <2>1. g \in [1..n -> I] /\ \A k \in I : \E i \in 1..n : g[i] = k
    BY DEF IteratorsOf
  <2>2. \A i, j \in 1..n : g[i] = g[j] => i = j
    BY <1>1 DEF Distinct
  <2> HIDE DEF g, I, n
  <2> QED
    BY <2>1, <2>2 DEF Bijection, Injection, Surjection, IsInjective
<1> HIDE DEF f, g, K, I, n
<1>5. ExistsBijection(1..n, K) /\ ExistsBijection(1..n, I)
  BY <1>3, <1>4 DEF ExistsBijection
<1>6. Cardinality(K) = n /\ Cardinality(I) = n
  BY <1>2, <1>5, FS_Bijection
<1>7. Cardinality(K) = size(t)
  BY <1>1, MapHas DEF Leads, K
<1> QED
  BY <1>6, <1>7 DEF n, I

\* There is always a number that is no iterator.
LEMMA FreeIs ==
  ASSUME NEW list, Distinct(list)
  PROVE  FreeIterator(list) \in NodeIterators /\ FreeIterator(list) \notin IteratorsOf(list)
<1> DEFINE n == Len(list)
           g == [i \in 1..n |-> list[i].iterator]
           I == IteratorsOf(list)
           S == (1..(n + 1)) \ I
<1>1. n \in Nat
  BY NodesAre
<1>2. /\ IsFiniteSet(1..n) /\ Cardinality(1..n) = n
      /\ IsFiniteSet(1..(n + 1)) /\ Cardinality(1..(n + 1)) = n + 1
  <2>1. IsFiniteSet(1..n) /\ Cardinality(1..n) = IF 1 > n THEN 0 ELSE n - 1 + 1
    BY <1>1, FS_Interval
  <2>2. n + 1 \in Int /\ 1 \in Int
    BY <1>1
  <2>3. /\ IsFiniteSet(1..(n + 1))
        /\ Cardinality(1..(n + 1)) = IF 1 > n + 1 THEN 0 ELSE (n + 1) - 1 + 1
    BY <2>2, FS_Interval
  <2> QED
    BY <1>1, <2>1, <2>3
<1>3. IsFiniteSet(I) /\ Cardinality(I) <= n
  <2>1. g \in [1..n -> I] /\ \A k \in I : \E i \in 1..n : g[i] = k
    BY DEF IteratorsOf
  <2> HIDE DEF g, I, n
  <2>2. g \in Surjection(1..n, I)
    BY <2>1 DEF Surjection
  <2> QED
    BY <1>2, <2>2, FS_Surjection
<1>4. S # {}
  <2>1. SUFFICES ASSUME 1..(n + 1) \subseteq I PROVE FALSE
    OBVIOUS
  <2> HIDE DEF I, n
  <2>2. Cardinality(1..(n + 1)) <= Cardinality(I)
    BY <1>3, <2>1, FS_Subset
  <2>3. Cardinality(I) \in Nat
    BY <1>3, FS_CardinalityType
  <2> QED
    BY <1>1, <1>2, <1>3, <2>2, <2>3
<1>5. S \subseteq Nat \ {0}
  BY <1>1
<1> HIDE DEF S
<1>6. \E x \in S : \A y \in S : x <= y
  BY <1>4, <1>5, LeastElement
<1>7. Min(S) \in S
  BY <1>6 DEF Min
<1> QED
  BY <1>5, <1>7 DEF FreeIterator, S, NodeIterators

\* Erasing what find has led to.
LEMMA FoundErased ==
  ASSUME NEW t, NEW X, Whole(t, X), NEW key \in DOMAIN t.type.hash, Has(t, key)
  PROVE  Removed(t, EraseFound(t, key), X, {key})
<1> DEFINE n == ProbeEnd(t, key)
           v == Bucket(t, key, n).m_value_idx
<1>1. Good(t, X, Indexes(t))
  BY WholeIs
<1>2. n \in Steps(t) /\ Holds(t, key, n)
  <2>1. Present(t, key)
    BY FindsWhole
  <2>2. n \in Steps(t)
    BY <1>1, ProbeEndIs
  <2> QED
    BY <2>1, <2>2 DEF Present
<1>3. v \in Indexes(t) /\ KeyAt(t, v) = key
  <2> HIDE DEF n
  <2> QED
    BY <1>1, <1>2, HoldsIs
<1>4. EraseFound(t, key) = EraseAt(t, v)
  BY DEF EraseFound
<1> HIDE DEF v
<1>5. Shrunk(t, EraseAt(t, v), X, v)
  BY <1>3, ErasedAt
<1> QED
  BY <1>3, <1>4, <1>5, ShrunkIs

\* A node and its key go together.
LEMMA Unlinked ==
  ASSUME NEW list, NEW t, Linked(list, t), NEW k \in 1..Len(list),
         NEW u, Removed(t, u, NodeIterators, {list[k].key})
  PROVE  /\ Linked(RemoveAt(list, k), u) /\ ~Listed(RemoveAt(list, k), list[k].key)
         /\ Len(RemoveAt(list, k)) = Len(list) - 1
         /\ IteratorsOf(RemoveAt(list, k)) \subseteq IteratorsOf(list)
<1> DEFINE rest == RemoveAt(list, k)
           old(j) == IF j < k THEN j ELSE j + 1
           gone == list[k].key
<1>1. Distinct(list) /\ Leads(list, t) /\ Whole(t, NodeIterators)
  BY DEF Linked, Leads
<1>2. list \in Seq(Nodes) /\ Len(list) \in Nat /\ k \in Nat
  BY <1>1, NodesAre
<1>3. /\ rest \in Seq(Nodes) /\ Len(rest) = Len(list) - 1
      /\ \A j \in 1..(Len(list) - 1) : rest[j] = list[old(j)]
  BY <1>2, WithoutOne
<1> HIDE DEF rest, gone
<1>4. \A j \in 1..Len(rest) : rest[j] = list[old(j)] /\ old(j) \in 1..Len(list) /\ old(j) # k
  BY <1>2, <1>3
<1>5. \A i, j \in 1..Len(rest) : old(i) = old(j) => i = j
  BY <1>2, <1>3
<1>6. ASSUME NEW i \in 1..Len(list), i # k PROVE \E j \in 1..Len(rest) : old(j) = i
  <2>1. CASE i < k
    <3>1. i \in 1..Len(rest) /\ old(i) = i
      BY <1>2, <1>3, <2>1
    <3> QED
      BY <3>1
  <2>2. CASE ~(i < k)
    <3>1. i - 1 \in 1..Len(rest) /\ old(i - 1) = i
      BY <1>2, <1>3, <1>6, <2>2
    <3> QED
      BY <3>1
  <2> QED
    BY <2>1, <2>2
<1> HIDE DEF old
<1>7. \A i, j \in 1..Len(list) :
        list[i].key = list[j].key \/ list[i].iterator = list[j].iterator => i = j
  BY <1>1 DEF Distinct
<1>8. Distinct(rest)
  <2>1. ASSUME NEW i \in 1..Len(rest), NEW j \in 1..Len(rest),
               rest[i].key = rest[j].key \/ rest[i].iterator = rest[j].iterator
        PROVE  i = j
    <3>1. rest[i] = list[old(i)] /\ rest[j] = list[old(j)]
          /\ old(i) \in 1..Len(list) /\ old(j) \in 1..Len(list)
      BY <1>4
    <3>2. list[old(i)].key = list[old(j)].key \/ list[old(i)].iterator = list[old(j)].iterator
      BY <2>1, <3>1
    <3>3. old(i) = old(j)
      BY <1>7, <3>1, <3>2
    <3> QED
      BY <1>5, <3>3
  <2> QED
    BY <1>3, <2>1 DEF Distinct
<1>9. ASSUME NEW key PROVE Listed(rest, key) <=> Listed(list, key) /\ key # gone
  <2>1. ASSUME Listed(rest, key) PROVE Listed(list, key) /\ key # gone
    <3>1. PICK j \in 1..Len(rest) : rest[j].key = key
      BY <2>1 DEF Listed
    <3>2. list[old(j)].key = key /\ old(j) \in 1..Len(list) /\ old(j) # k
      BY <1>4, <3>1
    <3> QED
      BY <1>7, <3>2 DEF Listed, gone
  <2>2. ASSUME Listed(list, key), key # gone PROVE Listed(rest, key)
    <3>1. PICK i \in 1..Len(list) : list[i].key = key
      BY <2>2 DEF Listed
    <3>2. i # k
      BY <2>2, <3>1 DEF gone
    <3>3. PICK j \in 1..Len(rest) : old(j) = i
      BY <1>6, <3>2
    <3> QED
      BY <1>4, <3>1, <3>3 DEF Listed
  <2> QED
    BY <2>1, <2>2
<1>10. /\ MapOf(u) = Restrict(MapOf(t), DOMAIN MapOf(t) \ {gone}) /\ u.type = t.type
       /\ Whole(u, NodeIterators)
  BY <1>1, MapErased DEF Removed, Stays, gone
<1>11. /\ \A key : key \in DOMAIN MapOf(u) <=> key \in DOMAIN MapOf(t) /\ key # gone
       /\ \A key \in DOMAIN MapOf(t) \ {gone} : MapOf(u)[key] = MapOf(t)[key]
  BY <1>10 DEF Restrict
<1>12. \A key : key \in DOMAIN MapOf(t) <=> Listed(list, key)
  BY <1>1 DEF Leads
<1>13. ASSUME NEW j \in 1..Len(rest) PROVE MapOf(u)[rest[j].key] = rest[j].iterator
  <2>1. Listed(rest, rest[j].key)
    BY DEF Listed
  <2>2. rest[j].key \in DOMAIN MapOf(t) \ {gone}
    BY <1>9, <1>12, <2>1
  <2>3. MapOf(t)[list[old(j)].key] = list[old(j)].iterator
    BY <1>1, <1>4 DEF Leads
  <2> QED
    BY <1>4, <1>11, <2>2, <2>3
<1>14. Leads(rest, u)
  <2>1. t.type \in Hashes
    BY <1>1 DEF Leads
  <2> QED
    BY <1>9, <1>10, <1>11, <1>12, <1>13, <2>1 DEF Leads
<1>15. IteratorsOf(rest) \subseteq IteratorsOf(list)
  BY <1>4 DEF IteratorsOf
<1> QED
  BY <1>3, <1>8, <1>9, <1>14, <1>15 DEF Linked, rest, gone

\* A node at the front whose key and iterator are new, and the table told of it.
LEMMA LinkedFront ==
  ASSUME NEW list, NEW t, Linked(list, t), NEW c \in Capacities, Len(list) <= c,
         NEW key \in Offsets, ~Listed(list, key), NEW value \in CacheValues,
         NEW it \in NodeIterators, it \notin IteratorsOf(list)
  PROVE  LET longer == << Node(it, key, value) >> \o list
         IN  Linked(longer, IndexAssign(t, key, it)) /\ Len(longer) = Len(list) + 1
<1> DEFINE e == Node(it, key, value)
           longer == << e >> \o list
           u == IndexAssign(t, key, it)
<1>1. Distinct(list) /\ Leads(list, t) /\ Whole(t, NodeIterators) /\ t.type \in Hashes
  BY DEF Linked, Leads
<1>2. list \in Seq(Nodes) /\ Len(list) \in Nat
  BY <1>1, NodesAre
<1>3. e \in Nodes /\ e.iterator = it /\ e.key = key
  BY DEF Node, Nodes
<1>4. /\ longer \in Seq(Nodes) /\ Len(longer) = Len(list) + 1 /\ longer[1] = e
      /\ \A j \in 1..Len(list) : longer[j + 1] = list[j]
  BY <1>2, <1>3, InFront
<1>5. key \in DOMAIN t.type.hash
  BY <1>1, KeysAreOffsets
<1>6. PutTo(t, u, NodeIterators, key, it)
  BY <1>1, <1>5, IndexAssigned
<1>7. ~Has(t, key)
  BY <1>1, FindsNode
<1> HIDE DEF u
<1>8. AddedTo(t, u, NodeIterators, key, it)
  BY <1>6, <1>7 DEF PutTo
<1>9. size(t) < t.type.max_bucket_count /\ t.type.max_bucket_count \in Nat
  <2>1. size(t) = Len(list)
    BY ListIsAsLong
  <2>2. c < t.type.max_bucket_count /\ c \in Nat
    BY <1>1, CapacitiesAssumption
  <2>3. t.type.max_bucket_count \in Nat
    BY <1>1, MapHas
  <2> QED
    BY <1>2, <2>1, <2>2, <2>3
<1>10. Stays(t, u, NodeIterators) /\ u.m_values = Append(t.m_values, Entry(key, it))
  <2>1. size(t) \in Nat
    BY <1>1, MapHas
  <2> QED
    BY <1>8, <1>9, <2>1 DEF AddedTo
<1>11. NewLast(t, u, NodeIterators, key, it) /\ Whole(u, NodeIterators) /\ u.type = t.type
  BY <1>7, <1>10 DEF NewLast, Stays
<1>12. MapOf(u) = PutIn(MapOf(t), key, it)
  BY <1>1, <1>5, <1>11, MapAppended
<1>13. /\ \A k : k \in DOMAIN MapOf(u) <=> k \in DOMAIN MapOf(t) \/ k = key
       /\ MapOf(u)[key] = it
       /\ \A k \in DOMAIN MapOf(t) : k # key => MapOf(u)[k] = MapOf(t)[k]
  BY <1>12 DEF PutIn
<1> HIDE DEF e, longer
<1>14. ASSUME NEW j \in 1..Len(longer)
       PROVE  j = 1 \/ (j - 1 \in 1..Len(list) /\ longer[j] = list[j - 1])
  <2>1. CASE j > 1
    <3>1. j - 1 \in 1..Len(list) /\ (j - 1) + 1 = j
      BY <1>2, <1>4, <2>1
    <3> QED
      BY <1>4, <3>1
  <2>2. CASE ~(j > 1)
    BY <1>2, <1>4, <2>2
  <2> QED
    BY <2>1, <2>2
<1>15. \A j \in 1..Len(list) : list[j].key # key /\ list[j].iterator # it
  BY DEF Listed, IteratorsOf
<1>16. Distinct(longer)
  <2>1. ASSUME NEW i \in 1..Len(longer), NEW j \in 1..Len(longer),
               longer[i].key = longer[j].key \/ longer[i].iterator = longer[j].iterator
        PROVE  i = j
    <3>1. CASE i = 1 /\ j = 1
      BY <3>1
    <3>2. CASE i = 1 /\ j # 1
      BY <1>3, <1>4, <1>14, <1>15, <2>1, <3>2
    <3>3. CASE i # 1 /\ j = 1
      BY <1>3, <1>4, <1>14, <1>15, <2>1, <3>3
    <3>4. CASE i # 1 /\ j # 1
      <4>1. /\ i - 1 \in 1..Len(list) /\ longer[i] = list[i - 1]
            /\ j - 1 \in 1..Len(list) /\ longer[j] = list[j - 1]
        BY <1>14, <3>4
      <4>2. i - 1 = j - 1
        BY <1>1, <2>1, <4>1 DEF Distinct
      <4>3. i \in Int /\ j \in Int
        OBVIOUS
      <4> QED
        BY <4>2, <4>3
    <3> QED
      BY <3>1, <3>2, <3>3, <3>4
  <2> QED
    BY <1>4, <2>1 DEF Distinct
<1>17. ASSUME NEW k PROVE Listed(longer, k) <=> Listed(list, k) \/ k = key
  <2>1. 1 \in 1..Len(longer) /\ \A j \in 1..Len(list) : j + 1 \in 1..Len(longer)
    BY <1>2, <1>4
  <2>2. Listed(longer, k) => Listed(list, k) \/ k = key
    BY <1>3, <1>4, <1>14 DEF Listed
  <2>3. Listed(list, k) \/ k = key => Listed(longer, k)
    BY <1>3, <1>4, <2>1 DEF Listed
  <2> QED
    BY <2>2, <2>3
<1>18. \A k : k \in DOMAIN MapOf(t) <=> Listed(list, k)
  BY <1>1 DEF Leads
<1>19. ASSUME NEW j \in 1..Len(longer) PROVE MapOf(u)[longer[j].key] = longer[j].iterator
  <2>1. CASE j = 1
    BY <1>3, <1>4, <1>13, <2>1
  <2>2. CASE j # 1
    <3>1. j - 1 \in 1..Len(list) /\ longer[j] = list[j - 1]
      BY <1>14, <2>2
    <3>2. Listed(list, list[j - 1].key) /\ list[j - 1].key # key
      BY <1>15, <3>1 DEF Listed
    <3>3. MapOf(t)[list[j - 1].key] = list[j - 1].iterator
      BY <1>1, <3>1 DEF Leads
    <3> QED
      BY <1>13, <1>18, <3>1, <3>2, <3>3
  <2> QED
    BY <2>1, <2>2
<1>20. Leads(longer, u)
  BY <1>1, <1>11, <1>13, <1>17, <1>18, <1>19 DEF Leads
<1> QED
  BY <1>4, <1>16, <1>20 DEF Linked, longer, e, u

\* What is left of the list when an entry of the key has gone.
KeptList(key) == IF Contain(key) THEN ListErase(item_list_, Found(key)) ELSE item_list_
KeptMap(key) == IF Contain(key) THEN EraseFound(item_map_, key) ELSE item_map_

\* Where find's iterator is, and what is left when list and map have erased it.
LEMMA FoundIs ==
  ASSUME CacheInv, NEW key \in Offsets, Contain(key)
  PROVE  \E i \in 1..Len(item_list_) :
           /\ item_list_[i].key = key /\ Found(key) = item_list_[i].iterator
           /\ PlaceOf(item_list_, Found(key)) = i
           /\ ListErase(item_list_, Found(key)) = RemoveAt(item_list_, i)
           /\ Linked(RemoveAt(item_list_, i), EraseFound(item_map_, key))
           /\ ~Listed(RemoveAt(item_list_, i), key)
           /\ Len(RemoveAt(item_list_, i)) = Len(item_list_) - 1
           /\ IteratorsOf(RemoveAt(item_list_, i)) \subseteq IteratorsOf(item_list_)
<1>1. /\ Linked(item_list_, item_map_) /\ Distinct(item_list_) /\ Leads(item_list_, item_map_)
      /\ Whole(item_map_, NodeIterators)
  BY DEF CacheInv, Linked, Leads
<1>2. key \in DOMAIN item_map_.type.hash
  BY <1>1, KeysAreOffsets
<1>3. Listed(item_list_, key) /\ Has(item_map_, key)
  BY <1>1, FindsNode DEF Contain
<1>4. PICK i \in 1..Len(item_list_) : item_list_[i].key = key
  BY <1>3 DEF Listed
<1>5. Found(key) = item_list_[i].iterator
  BY <1>1, <1>4, FindsNode DEF Found
<1>6. PlaceOf(item_list_, Found(key)) = i
  BY <1>1, <1>5, PlaceOfIs
<1>7. Removed(item_map_, EraseFound(item_map_, key), NodeIterators, {item_list_[i].key})
  BY <1>1, <1>2, <1>3, <1>4, FoundErased
<1>8. ListErase(item_list_, Found(key)) = RemoveAt(item_list_, i)
  BY <1>6 DEF ListErase
<1> QED
  BY <1>1, <1>4, <1>5, <1>6, <1>7, <1>8, Unlinked

\* What Upsert has before the last entry may have to go.
LEMMA KeptIs ==
  ASSUME CacheInv, NEW key \in Offsets
  PROVE  /\ Linked(KeptList(key), KeptMap(key)) /\ ~Listed(KeptList(key), key)
         /\ Len(KeptList(key)) <= max_size_ /\ Len(KeptList(key)) <= Len(item_list_)
         /\ IteratorsOf(KeptList(key)) \subseteq IteratorsOf(item_list_)
<1>1. /\ Linked(item_list_, item_map_) /\ Len(item_list_) <= max_size_ /\ max_size_ \in Nat
      /\ Len(item_list_) \in Nat
  BY CapacitiesAssumption, NodesAre DEF CacheInv, Linked
<1>2. CASE Contain(key)
  <2>1. PICK i \in 1..Len(item_list_) :
           /\ ListErase(item_list_, Found(key)) = RemoveAt(item_list_, i)
           /\ Linked(RemoveAt(item_list_, i), EraseFound(item_map_, key))
           /\ ~Listed(RemoveAt(item_list_, i), key)
           /\ Len(RemoveAt(item_list_, i)) = Len(item_list_) - 1
           /\ IteratorsOf(RemoveAt(item_list_, i)) \subseteq IteratorsOf(item_list_)
    BY <1>2, FoundIs
  <2>2. KeptList(key) = RemoveAt(item_list_, i) /\ KeptMap(key) = EraseFound(item_map_, key)
    BY <1>2, <2>1 DEF KeptList, KeptMap
  <2>3. Len(item_list_) - 1 <= max_size_ /\ Len(item_list_) - 1 <= Len(item_list_)
    BY <1>1
  <2> QED
    BY <2>1, <2>2, <2>3
<1>3. CASE ~Contain(key)
  <2>1. KeptList(key) = item_list_ /\ KeptMap(key) = item_map_
    BY <1>3 DEF KeptList, KeptMap
  <2>2. ~Listed(item_list_, key)
    BY <1>1, <1>3, FindsNode DEF Contain
  <2> QED
    BY <1>1, <2>1, <2>2
<1> QED
  BY <1>2, <1>3

\* The new entry comes first, and the map leads to it.
LEMMA PushedIs ==
  ASSUME CacheInv, NEW key \in Offsets, NEW value \in CacheValues
  PROVE  LET list == Pushed(key, value)
             e == Node(FreeIterator(item_list_), key, value)
         IN  /\ list = << e >> \o KeptList(key) /\ e \in Nodes
             /\ Linked(list, Mapped(key, list)) /\ Len(list) = Len(KeptList(key)) + 1
<1> DEFINE list == Pushed(key, value)
           it == FreeIterator(item_list_)
           e == Node(it, key, value)
<1>1. Distinct(item_list_) /\ max_size_ \in Capacities
  BY DEF CacheInv, Linked
<1>2. it \in NodeIterators /\ it \notin IteratorsOf(item_list_)
  BY <1>1, FreeIs
<1>3. e \in Nodes /\ e.iterator = it
  BY <1>2 DEF Node, Nodes
<1>4. item_list_ \in Seq(Nodes)
  BY <1>1, NodesAre
<1>5. list = << e >> \o KeptList(key)
  <2>1. CASE Contain(key)
    <3>1. PICK i \in 1..Len(item_list_) :
            /\ Found(key) = item_list_[i].iterator
            /\ ListErase(item_list_, Found(key)) = RemoveAt(item_list_, i)
      BY <2>1, FoundIs
    <3> DEFINE p == << e >> \o item_list_
    <3>2. /\ p \in Seq(Nodes) /\ Len(p) = Len(item_list_) + 1 /\ Len(item_list_) \in Nat
          /\ p[1] = e /\ \A j \in 1..Len(item_list_) : p[j + 1] = item_list_[j]
      BY <1>3, <1>4, InFront
    <3>3. list = RemoveAt(p, PlaceOf(p, Found(key)))
      BY <2>1 DEF Pushed, ListErase
    <3> HIDE DEF p, e
    <3>4. PlaceOf(p, Found(key)) = i + 1
      <4> DEFINE Is(j) == j \in 1..Len(p) /\ p[j].iterator = Found(key)
      <4>1. PlaceOf(p, Found(key)) = CHOOSE j : Is(j)
        BY DEF PlaceOf
      <4>2. Is(i + 1)
        BY <3>1, <3>2
      <4>3. ASSUME NEW j, Is(j) PROVE j = i + 1
        <5>1. p[j].iterator = item_list_[i].iterator /\ j \in 1..(Len(item_list_) + 1)
          BY <3>1, <3>2, <4>3
        <5>2. j # 1
          BY <1>2, <1>3, <3>2, <5>1 DEF IteratorsOf
        <5>3. j - 1 \in 1..Len(item_list_) /\ (j - 1) + 1 = j /\ j \in Int
          BY <3>2, <5>1, <5>2
        <5>4. item_list_[j - 1].iterator = item_list_[i].iterator
          BY <3>2, <5>1, <5>3
        <5>5. j - 1 = i
          BY <1>1, <5>3, <5>4 DEF Distinct
        <5> QED
          BY <5>3, <5>5
      <4> HIDE DEF Is
      <4>4. (CHOOSE j : Is(j)) = i + 1
        BY <4>2, <4>3
      <4> QED
        BY <4>1, <4>4
    <3>5. RemoveAt(p, i + 1) = << e >> \o RemoveAt(item_list_, i)
      BY <1>3, <1>4, WithoutBehindFront DEF p
    <3>6. KeptList(key) = RemoveAt(item_list_, i)
      BY <2>1, <3>1 DEF KeptList
    <3> QED
      BY <3>3, <3>4, <3>5, <3>6
  <2>2. CASE ~Contain(key)
    BY <2>2 DEF Pushed, KeptList
  <2> QED
    BY <2>1, <2>2
<1>6. /\ Linked(KeptList(key), KeptMap(key)) /\ ~Listed(KeptList(key), key)
      /\ Len(KeptList(key)) <= max_size_ /\ it \notin IteratorsOf(KeptList(key))
  BY <1>2, KeptIs
<1>7. LET longer == << Node(it, key, value) >> \o KeptList(key)
      IN  Linked(longer, IndexAssign(KeptMap(key), key, it)) /\ Len(longer) = Len(KeptList(key)) + 1
  <2> HIDE DEF it
  <2> QED
    BY <1>1, <1>2, <1>6, LinkedFront
<1>8. Head(list) = e
  <2>1. KeptList(key) \in Seq(Nodes)
    BY <1>6, NodesAre DEF Linked
  <2> HIDE DEF e, list
  <2> QED
    BY <1>3, <1>5, <2>1, InFront
<1>9. Mapped(key, list) = IndexAssign(KeptMap(key), key, it)
  BY <1>3, <1>8 DEF Mapped, KeptMap
<1> QED
  BY <1>3, <1>5, <1>7, <1>9

\* An empty list, and a table without values.
LEMMA LinkedEmpty ==
  ASSUME NEW t, Whole(t, NodeIterators), t.type \in Hashes, t.m_values = << >>
  PROVE  Linked(<< >>, t)
<1>1. Len(<< >>) = 0 /\ << >> \in Seq(Nodes) /\ 1..0 = {}
  OBVIOUS
<1>2. Indexes(t) = {}
  BY DEF Indexes, size
<1>3. \A key : ~Has(t, key)
  BY <1>2 DEF Has
<1>4. \A key : key \notin DOMAIN MapOf(t)
  BY <1>3, MapHas
<1>5. Distinct(<< >>) /\ \A key : ~Listed(<< >>, key)
  BY <1>1 DEF Distinct, Listed
<1>6. Leads(<< >>, t)
  BY <1>1, <1>4, <1>5 DEF Leads
<1> QED
  BY <1>5, <1>6 DEF Linked

\* A cache that has been given nothing.
LEMMA CacheInitially == CacheInit => CacheInv
<1> SUFFICES ASSUME CacheInit PROVE CacheInv
  OBVIOUS
<1>1. PICK type \in Hashes : item_map_ = NewTable(type, 0)
  BY DEF CacheInit
<1>2. TypeArguments(type)
  BY OffsetsAssumption
<1>3. Fits(Blank(type), 0)
  <2>1. PICK b \in 2..HighBits : type.max_bucket_count = Pow2[b]
    BY <1>2 DEF TypeArguments
  <2>2. type.max_bucket_count \in Nat
    <3>1. b \in 0..56
      BY <2>1, HighBitsAssumption
    <3>2. Pow2[b] \in Nat
      BY <3>1, Pow2Is
    <3> QED
      BY <2>1, <3>2
  <2>3. Blank(type).type = type /\ Blank(type).m_max_load_factor = 80
    BY DEF Blank, default_max_load_factor
  <2>4. \A n \in Nat : 0 <= (n * 80) \div 100
    BY SMT
  <2> QED
    BY <2>2, <2>3, <2>4 DEF Fits, MaxLoad
<1>4. /\ Whole(item_map_, NodeIterators) /\ item_map_.type = type /\ item_map_.m_values = << >>
  BY <1>1, <1>2, <1>3, NewIs
<1>5. Linked(<< >>, item_map_)
  BY <1>4, LinkedEmpty
<1>6. max_size_ \in Capacities /\ max_size_ \in Nat /\ item_list_ = << >>
  BY CapacitiesAssumption DEF CacheInit
<1>7. Len(item_list_) <= max_size_
  BY <1>6
<1> QED
  BY <1>5, <1>6, <1>7 DEF CacheInv

\* The list after an insertion: without its last entry if there was one too many.
LEMMA UpsertIs ==
  ASSUME CacheInv, NEW key \in Offsets, NEW value \in CacheValues, Upsert(key, value)
  PROVE  LET list == Pushed(key, value)
         IN  /\ item_list_' = IF Len(list) > max_size_ THEN RemoveAt(list, Len(list)) ELSE list
             /\ Len(list) \in Nat \ {0}
             /\ Linked(item_list_', item_map_') /\ Len(item_list_') <= max_size_
<1> DEFINE list == Pushed(key, value)
           map == Mapped(key, list)
           n == Len(list)
           last == list[n]
<1>1. /\ list = << Node(FreeIterator(item_list_), key, value) >> \o KeptList(key)
      /\ Linked(list, map) /\ n = Len(KeptList(key)) + 1
  BY PushedIs
<1>2. Len(KeptList(key)) \in Nat /\ Len(KeptList(key)) <= max_size_ /\ max_size_ \in Nat
  <2>1. Linked(KeptList(key), KeptMap(key)) /\ Len(KeptList(key)) <= max_size_
    BY KeptIs
  <2>2. Len(KeptList(key)) \in Nat
    BY <2>1, NodesAre DEF Linked
  <2>3. max_size_ \in Nat
    BY CapacitiesAssumption DEF CacheInv
  <2> QED
    BY <2>1, <2>2, <2>3
<1>3. n \in Nat \ {0} /\ n <= max_size_ + 1 /\ n \in 1..n
  BY <1>1, <1>2
<1>4. size(map) = n
  BY <1>1, ListIsAsLong
<1>5. /\ n > max_size_ => /\ item_map_' = do_erase_key(map, last.key)
                          /\ item_list_' = ListErase(list, last.iterator)
      /\ ~(n > max_size_) => item_map_' = map /\ item_list_' = list
  <2>1. Victim(list) = last
    BY DEF Victim, Last
  <2> HIDE DEF map, n, last
  <2> QED
    BY <1>4, <2>1 DEF Upsert, map
<1> HIDE DEF list, map, n
<1>6. CASE n > max_size_
  <2>1. Distinct(list) /\ Leads(list, map) /\ Whole(map, NodeIterators)
    BY <1>1 DEF Linked, Leads
  <2>2. last.key \in DOMAIN map.type.hash
    <3>1. last.key \in Offsets
      BY <1>3, <2>1, NodesAre DEF n
    <3> QED
      BY <2>1, <3>1, KeysAreOffsets
  <2>3. Removed(map, item_map_', NodeIterators, {last.key})
    BY <1>5, <1>6, <2>1, <2>2, KeyErased
  <2>4. item_list_' = RemoveAt(list, n)
    <3>1. PlaceOf(list, last.iterator) = n
      BY <1>3, <2>1, PlaceOfIs DEF n
    <3> QED
      BY <1>5, <1>6, <3>1 DEF ListErase
  <2>5. n \in 1..Len(list)
    BY <1>3 DEF n
  <2>6. Linked(RemoveAt(list, n), item_map_') /\ Len(RemoveAt(list, n)) = Len(list) - 1
    BY <1>1, <2>3, <2>5, Unlinked
  <2>7. Len(RemoveAt(list, n)) <= max_size_
    BY <1>2, <1>3, <2>6 DEF n
  <2> QED
    BY <1>3, <1>6, <2>4, <2>6, <2>7 DEF list, n
<1>7. CASE ~(n > max_size_)
  <2>1. item_map_' = map /\ item_list_' = list
    BY <1>5, <1>7
  <2>2. n <= max_size_
    BY <1>2, <1>3, <1>7
  <2>3. Len(item_list_') <= max_size_
    BY <2>1, <2>2 DEF n
  <2> QED
    BY <1>1, <1>3, <1>7, <2>1, <2>3 DEF list, n
<1> QED
  BY <1>6, <1>7

\* Every call keeps it.
LEMMA CacheConsecution == CacheInv /\ [CacheNext]_cacheVars => CacheInv'
<1> SUFFICES ASSUME CacheInv, [CacheNext]_cacheVars PROVE CacheInv'
  OBVIOUS
<1>1. CASE \E e \in CacheEntries : Upsert(e.key, e.value)
  <2>1. PICK e \in CacheEntries : Upsert(e.key, e.value)
    BY <1>1
  <2>2. e.key \in Offsets /\ e.value \in CacheValues
    BY OffsetsAssumption DEF CacheValues
  <2>3. Linked(item_list_', item_map_') /\ Len(item_list_') <= max_size_
    BY <2>1, <2>2, UpsertIs
  <2>4. max_size_' = max_size_
    BY <2>1 DEF Upsert
  <2> QED
    BY <2>3, <2>4 DEF CacheInv
<1>2. CASE \E key \in Offsets : GetAndRemove(key)
  <2>1. PICK key \in Offsets : GetAndRemove(key)
    BY <1>2
  <2>2. /\ Contain(key) /\ item_list_' = ListErase(item_list_, Found(key))
        /\ item_map_' = EraseFound(item_map_, key) /\ max_size_' = max_size_
    BY <2>1 DEF GetAndRemove
  <2>3. PICK i \in 1..Len(item_list_) :
           /\ ListErase(item_list_, Found(key)) = RemoveAt(item_list_, i)
           /\ Linked(RemoveAt(item_list_, i), EraseFound(item_map_, key))
           /\ Len(RemoveAt(item_list_, i)) = Len(item_list_) - 1
    BY <2>2, FoundIs
  <2>4. /\ Len(item_list_) \in Nat /\ max_size_ \in Nat /\ Len(item_list_) <= max_size_
        /\ max_size_ \in Capacities
    BY NodesAre, CapacitiesAssumption DEF CacheInv, Linked
  <2>5. Len(item_list_') <= max_size_
    BY <2>2, <2>3, <2>4
  <2> QED
    BY <2>2, <2>3, <2>4, <2>5 DEF CacheInv
<1>3. CASE \E max_size \in Capacities : Reset(max_size)
  <2>1. PICK max_size \in Capacities : Reset(max_size)
    BY <1>3
  <2>2. item_list_' = << >> /\ item_map_' = clear(item_map_) /\ max_size_' = max_size
    BY <2>1 DEF Reset
  <2>3. Whole(item_map_, NodeIterators) /\ item_map_.type \in Hashes
    BY DEF CacheInv, Linked, Leads
  <2>4. Stays(item_map_, item_map_', NodeIterators) /\ item_map_'.m_values = << >>
    BY <2>2, <2>3, ClearIs
  <2>5. Linked(<< >>, item_map_')
    BY <2>3, <2>4, LinkedEmpty DEF Stays
  <2>6. Len(item_list_') <= max_size_'
    BY <2>2, CapacitiesAssumption
  <2> QED
    BY <2>2, <2>5, <2>6 DEF CacheInv
<1>4. CASE UNCHANGED cacheVars
  BY <1>4 DEF CacheInv, cacheVars
<1> QED
  BY <1>1, <1>2, <1>3, <1>4 DEF CacheNext

\* List and table are changed one after the other, by separate calls of separate
\* containers: after each call of the cache they are linked again.
THEOREM CacheInvariance == CacheSpec => []CacheInv
<1>1. CacheInit => CacheInv
  BY CacheInitially
<1>2. CacheInv /\ [CacheNext]_cacheVars => CacheInv'
  BY CacheConsecution
<1> QED
  BY <1>1, <1>2, PTL DEF CacheSpec

\* No iterator in the map is one of an erased node, however the numbers are used
\* again; no node is lost; and no more are kept than the capacity.
THEOREM NoIteratorDangles == CacheSpec => []IteratorsValid
<1>1. CacheInv => IteratorsValid
  <2> SUFFICES ASSUME CacheInv PROVE IteratorsValid
    OBVIOUS
  <2>1. Linked(item_list_, item_map_) /\ Len(item_list_) <= max_size_
    BY DEF CacheInv
  <2>2. Len(item_list_) = size(item_map_) /\ Cardinality(IteratorsOf(item_list_)) = Len(item_list_)
    BY <2>1, ListIsAsLong
  <2>3. ASSUME NEW i \in 1..Len(item_list_)
        PROVE  Contain(item_list_[i].key) /\ Found(item_list_[i].key) = item_list_[i].iterator
    <3>1. item_list_[i].key \in Offsets
      BY <2>1, NodesAre DEF Linked
    <3>2. Listed(item_list_, item_list_[i].key)
      BY DEF Listed
    <3> QED
      BY <2>1, <3>1, <3>2, FindsNode DEF Contain, Found
  <2> QED
    BY <2>1, <2>2, <2>3 DEF IteratorsValid
<1> QED
  BY <1>1, CacheInvariance, PTL

-----------------------------------------------------------------------------
(* The cache implements the list of entries of LRUCacheSpec.               *)

Pair(node) == [key |-> node.key, value |-> node.value]
CachePairs == [key : Offsets, value : CacheValues]

\* What the mapping makes of a list.
Items(list) == [i \in 1..Len(list) |-> [key |-> list[i].key, value |-> list[i].value]]

\* They are pairs, as many as there are nodes.
LEMMA ItemsAre ==
  ASSUME NEW list \in Seq(Nodes)
  PROVE  /\ Items(list) \in Seq(CachePairs) /\ Len(Items(list)) = Len(list) /\ Len(list) \in Nat
         /\ \A i \in 1..Len(list) : Items(list)[i] = Pair(list[i])
<1>1. Len(list) \in Nat
  BY LenProperties
<1>2. \A i \in 1..Len(list) : Pair(list[i]) \in CachePairs
  <2> TAKE i \in 1..Len(list)
  <2>1. list[i] \in Nodes
    BY ElementOfSeq
  <2> QED
    BY <2>1 DEF Nodes, Pair, CachePairs
<1>3. Items(list) = [i \in 1..Len(list) |-> Pair(list[i])]
  BY DEF Items, Pair
<1>4. Items(list) \in [1..Len(list) -> CachePairs]
  BY <1>2, <1>3
<1>5. Items(list) \in Seq(CachePairs) /\ Len(Items(list)) = Len(list)
  BY <1>1, <1>4
<1> QED
  BY <1>1, <1>3, <1>5

\* A node removed is a pair removed.
LEMMA ItemsWithout ==
  ASSUME NEW list \in Seq(Nodes), NEW k \in 1..Len(list)
  PROVE  Items(RemoveAt(list, k)) = RemoveAt(Items(list), k)
<1> DEFINE r == RemoveAt(list, k)
           s == Items(list)
           w == RemoveAt(s, k)
           old(j) == IF j < k THEN j ELSE j + 1
<1>1. /\ r \in Seq(Nodes) /\ Len(r) = Len(list) - 1
      /\ \A j \in 1..(Len(list) - 1) : r[j] = list[old(j)]
  BY WithoutOne
<1>2. /\ s \in Seq(CachePairs) /\ Len(s) = Len(list) /\ Len(list) \in Nat
      /\ \A i \in 1..Len(list) : s[i] = Pair(list[i])
  BY ItemsAre
<1> HIDE DEF s
<1>3. /\ w \in Seq(CachePairs) /\ Len(w) = Len(list) - 1
      /\ \A j \in 1..(Len(list) - 1) : w[j] = s[old(j)]
  BY <1>2, WithoutOne
<1> HIDE DEF r
<1>4. /\ Items(r) \in Seq(CachePairs) /\ Len(Items(r)) = Len(list) - 1
      /\ \A j \in 1..(Len(list) - 1) : Items(r)[j] = Pair(r[j])
  BY <1>1, ItemsAre
<1>5. \A j \in 1..(Len(list) - 1) : old(j) \in 1..Len(list)
  BY <1>2
<1> HIDE DEF w, old
<1>6. \A j \in 1..Len(w) : Items(r)[j] = w[j]
  BY <1>1, <1>2, <1>3, <1>4, <1>5
<1>7. Items(r) = w
  BY <1>3, <1>4, <1>6, SeqEqual
<1> QED
  BY <1>7 DEF r, w, s

\* A node in front is a pair in front.
LEMMA ItemsInFront ==
  ASSUME NEW list \in Seq(Nodes), NEW e \in Nodes
  PROVE  Items(<< e >> \o list) = << Pair(e) >> \o Items(list)
<1> DEFINE p == << e >> \o list
           s == Items(list)
           w == << Pair(e) >> \o s
<1>1. /\ p \in Seq(Nodes) /\ Len(p) = Len(list) + 1 /\ Len(list) \in Nat /\ p[1] = e
      /\ \A j \in 1..Len(list) : p[j + 1] = list[j]
  BY InFront
<1>2. /\ s \in Seq(CachePairs) /\ Len(s) = Len(list) /\ \A i \in 1..Len(list) : s[i] = Pair(list[i])
  BY ItemsAre
<1>3. Pair(e) \in CachePairs
  BY DEF Pair, CachePairs, Nodes
<1> HIDE DEF s, p
<1>4. /\ w \in Seq(CachePairs) /\ Len(w) = Len(s) + 1 /\ w[1] = Pair(e)
      /\ \A j \in 1..Len(s) : w[j + 1] = s[j]
  BY <1>2, <1>3, InFront
<1>5. /\ Items(p) \in Seq(CachePairs) /\ Len(Items(p)) = Len(p)
      /\ \A j \in 1..Len(p) : Items(p)[j] = Pair(p[j])
  BY <1>1, ItemsAre
<1> HIDE DEF w
<1>6. ASSUME NEW j \in 1..Len(w) PROVE Items(p)[j] = w[j]
  <2>1. j \in 1..Len(p)
    BY <1>1, <1>2, <1>4
  <2>2. CASE j = 1
    BY <1>1, <1>4, <1>5, <2>1, <2>2
  <2>3. CASE j # 1
    <3>1. j - 1 \in 1..Len(list) /\ (j - 1) + 1 = j
      BY <1>1, <2>1, <2>3
    <3>2. p[j] = list[j - 1]
      BY <1>1, <3>1
    <3>3. w[j] = s[j - 1] /\ s[j - 1] = Pair(list[j - 1])
      BY <1>2, <1>4, <3>1
    <3>4. Items(p)[j] = Pair(p[j])
      BY <1>5, <2>1
    <3> QED
      BY <3>2, <3>3, <3>4
  <2> QED
    BY <2>2, <2>3
<1>7. Items(p) = w
  BY <1>1, <1>2, <1>4, <1>5, <1>6, SeqEqual
<1> QED
  BY <1>7 DEF p, w, s

\* A sequence without its last one is its front.
LEMMA WithoutLast ==
  ASSUME NEW S, NEW s \in Seq(S), Len(s) # 0
  PROVE  RemoveAt(s, Len(s)) = Front(s)
<1>1. Len(s) \in Nat \ {0}
  BY LenProperties
<1>2. SubSeq(s, Len(s) + 1, Len(s)) = << >>
  BY <1>1
<1>3. SubSeq(s, 1, Len(s) - 1) \in Seq(S)
  BY <1>1, SubSeqProperties
<1>4. SubSeq(s, 1, Len(s) - 1) \o << >> = SubSeq(s, 1, Len(s) - 1)
  BY <1>3, ConcatEmptySeq
<1> QED
  BY <1>2, <1>4 DEF RemoveAt, Front

\* The instance's operators are those of the library.
LEMMA AbstractCacheIs ==
  /\ \A s, i : AbstractCache!RemoveAt(s, i) = RemoveAt(s, i)
  /\ \A s : AbstractCache!Front(s) = Front(s)
<1>1. \A s, i : AbstractCache!RemoveAt(s, i) = RemoveAt(s, i)
  BY DEF AbstractCache!RemoveAt, RemoveAt
<1>2. \A s : AbstractCache!Front(s) = Front(s)
  BY DEF AbstractCache!Front, Front
<1> QED
  BY <1>1, <1>2

CacheOf(list, max_size) == [items |-> Items(list), max_size |-> max_size]

\* The fields of a cache.
LEMMA CacheFields ==
  \A list, c : /\ CacheOf(list, c).items = Items(list) /\ CacheOf(list, c).max_size = c
               /\ CacheOf(list, c) = [items |-> Items(list), max_size |-> c]
BY DEF CacheOf

\* The fields of a pair.
LEMMA PairIs == \A node : Pair(node).key = node.key /\ Pair(node).value = node.value
BY DEF Pair

\* Where the abstract cache finds a key.
LEMMA PositionIs ==
  ASSUME NEW list, Distinct(list), NEW c, NEW key
  PROVE  /\ AbstractCache!Contain(CacheOf(list, c), key) <=> Listed(list, key)
         /\ \A i \in 1..Len(list) : list[i].key = key =>
              AbstractCache!PositionOf(CacheOf(list, c), key) = i
<1> DEFINE cache == CacheOf(list, c)
           At(p) == p \in 1..Len(list) /\ list[p].key = key
<1>1. /\ cache.items = Items(list) /\ Len(Items(list)) = Len(list)
      /\ \A i \in 1..Len(list) : Items(list)[i].key = list[i].key
  <2>1. list \in Seq(Nodes)
    BY NodesAre
  <2>2. Len(Items(list)) = Len(list) /\ \A i \in 1..Len(list) : Items(list)[i] = Pair(list[i])
    BY <2>1, ItemsAre
  <2>3. \A i \in 1..Len(list) : Items(list)[i].key = list[i].key
    BY <2>2, PairIs
  <2> QED
    BY <2>2, <2>3, CacheFields
<1> HIDE DEF cache
<1>2. AbstractCache!Contain(cache, key) <=> Listed(list, key)
  BY <1>1 DEF AbstractCache!Contain, AbstractCache!CachedKeys, Listed
<1>3. AbstractCache!PositionOf(cache, key) = CHOOSE p : At(p)
  <2>1. \A p : p \in 1..Len(cache.items) /\ cache.items[p].key = key <=> At(p)
    BY <1>1
  <2>2. AbstractCache!PositionOf(cache, key) =
          CHOOSE p : p \in 1..Len(cache.items) /\ cache.items[p].key = key
    BY DEF AbstractCache!PositionOf
  <2> HIDE DEF At
  <2> QED
    BY <2>1, <2>2
<1>4. ASSUME NEW i \in 1..Len(list), list[i].key = key
      PROVE  (CHOOSE p : At(p)) = i
  <2>1. At(i)
    BY <1>4
  <2>2. \A p : At(p) => p = i
    BY <1>4 DEF Distinct
  <2> HIDE DEF At
  <2> QED
    BY <2>1, <2>2
<1> QED
  BY <1>2, <1>3, <1>4 DEF cache

\* The mapping of the state.
LEMMA CacheIs ==
  [items |-> [i \in 1..Len(item_list_) |->
                [key |-> item_list_[i].key, value |-> item_list_[i].value]],
   max_size |-> max_size_] = CacheOf(item_list_, max_size_)
BY DEF CacheOf, Items

\* What the abstract cache is left with when an entry of the key has gone.
LEMMA WithoutIs ==
  ASSUME CacheInv, NEW key \in Offsets
  PROVE  AbstractCache!Without(CacheOf(item_list_, max_size_), key) = CacheOf(KeptList(key), max_size_)
<1> DEFINE cache == CacheOf(item_list_, max_size_)
<1>1. Distinct(item_list_) /\ item_list_ \in Seq(Nodes) /\ Linked(item_list_, item_map_)
  BY NodesAre DEF CacheInv, Linked
<1>2. AbstractCache!Contain(cache, key) <=> Contain(key)
  <2>1. AbstractCache!Contain(cache, key) <=> Listed(item_list_, key)
    BY <1>1, PositionIs
  <2> QED
    BY <1>1, <2>1, FindsNode DEF Contain
<1>3. CASE Contain(key)
  <2>1. PICK i \in 1..Len(item_list_) :
           /\ item_list_[i].key = key
           /\ ListErase(item_list_, Found(key)) = RemoveAt(item_list_, i)
    BY <1>3, FoundIs
  <2>2. AbstractCache!PositionOf(cache, key) = i
    BY <1>1, <2>1, PositionIs
  <2>3. cache.items = Items(item_list_) /\ cache = [items |-> cache.items, max_size |-> max_size_]
    BY DEF CacheOf
  <2> HIDE DEF cache
  <2>4. AbstractCache!Without(cache, key) = [cache EXCEPT !.items = RemoveAt(cache.items, i)]
    BY <1>2, <1>3, <2>2, AbstractCacheIs DEF AbstractCache!Without
  <2>5. RemoveAt(Items(item_list_), i) = Items(RemoveAt(item_list_, i))
    BY <1>1, ItemsWithout
  <2>6. KeptList(key) = RemoveAt(item_list_, i)
    BY <1>3, <2>1 DEF KeptList
  <2>7. AbstractCache!Without(cache, key) =
          [cache EXCEPT !.items = Items(RemoveAt(item_list_, i))]
    BY <2>3, <2>4, <2>5
  <2>8. [cache EXCEPT !.items = Items(RemoveAt(item_list_, i))] =
          [items |-> Items(RemoveAt(item_list_, i)), max_size |-> max_size_]
    BY <2>3
  <2> QED
    BY <2>6, <2>7, <2>8 DEF CacheOf, cache
<1>4. CASE ~Contain(key)
  <2> HIDE DEF cache
  <2>1. AbstractCache!Without(cache, key) = cache /\ KeptList(key) = item_list_
    BY <1>2, <1>4 DEF AbstractCache!Without, KeptList
  <2> QED
    BY <2>1 DEF cache
<1> QED
  BY <1>3, <1>4

\* Upsert is that of the abstract cache.
LEMMA UpsertRefines ==
  ASSUME CacheInv, NEW key \in Offsets, NEW value \in CacheValues, Upsert(key, value)
  PROVE  AbstractCache!Next
<1> DEFINE cache == CacheOf(item_list_, max_size_)
           list == Pushed(key, value)
           e == Node(FreeIterator(item_list_), key, value)
           x == [key |-> key, value |-> value]
           items == << x >> \o AbstractCache!Without(cache, key).items
           left == IF Len(list) > max_size_ THEN RemoveAt(list, Len(list)) ELSE list
<1>1. list = << e >> \o KeptList(key) /\ e \in Nodes /\ Linked(KeptList(key), KeptMap(key))
      /\ Linked(list, Mapped(key, list))
  BY PushedIs, KeptIs
<1>2. KeptList(key) \in Seq(Nodes) /\ list \in Seq(Nodes)
  BY <1>1, NodesAre DEF Linked
<1>3. item_list_' = left /\ Len(list) \in Nat \ {0}
  BY UpsertIs
<1>4. max_size_' = max_size_ /\ answer' = <<"Upsert", key, value>>
  BY DEF Upsert
<1>5. Pair(e) = x
  BY DEF Pair, Node
<1> HIDE DEF e
<1>6. items = Items(list)
  <2>1. AbstractCache!Without(cache, key).items = Items(KeptList(key))
    BY WithoutIs, CacheFields
  <2>2. Items(<< e >> \o KeptList(key)) = << Pair(e) >> \o Items(KeptList(key))
    BY <1>1, <1>2, ItemsInFront
  <2> HIDE DEF cache, list, x
  <2> QED
    BY <1>1, <1>5, <2>1, <2>2
<1>7. Len(Items(list)) = Len(list) /\ Items(list) \in Seq(CachePairs)
  BY <1>2, ItemsAre
<1>8. Items(RemoveAt(list, Len(list))) = Front(Items(list))
  <2>1. Len(list) \in 1..Len(list)
    BY <1>3
  <2>2. Items(RemoveAt(list, Len(list))) = RemoveAt(Items(list), Len(Items(list)))
    BY <1>2, <1>7, <2>1, ItemsWithout
  <2>3. Len(Items(list)) # 0
    BY <1>3, <1>7
  <2> HIDE DEF list
  <2> QED
    BY <1>7, <2>2, <2>3, WithoutLast
<1>9. cache.max_size = max_size_ /\ cache = [items |-> cache.items, max_size |-> max_size_]
  BY DEF CacheOf
<1> HIDE DEF cache, list, x
<1>10. AbstractCache!Upsert(cache, key, value) =
         [cache EXCEPT !.items = IF Len(items) > cache.max_size THEN Front(items) ELSE items]
  BY AbstractCacheIs DEF AbstractCache!Upsert, x
<1> HIDE DEF items
<1>11. (IF Len(items) > cache.max_size THEN Front(items) ELSE items) = Items(left)
  BY <1>6, <1>7, <1>8, <1>9
<1> HIDE DEF left
<1>12. [cache EXCEPT !.items = Items(left)] = CacheOf(left, max_size_)
  BY <1>9 DEF CacheOf
<1>13. CacheOf(item_list_', max_size_') = AbstractCache!Upsert(cache, key, value)
  BY <1>3, <1>4, <1>10, <1>11, <1>12
<1>14. AbstractCache!CallUpsert(key, value)
  <2>1. CacheOf(item_list_, max_size_)' = CacheOf(item_list_', max_size_')
    BY DEF CacheOf, Items
  <2> QED
    BY <1>4, <1>13, <2>1, CacheIs DEF AbstractCache!CallUpsert, cache, CacheOf, Items
<1> QED
  BY <1>14 DEF AbstractCache!Next, CacheValues

\* So is GetAndRemove, and it returns what the abstract one returns.
LEMMA GetAndRemoveRefines ==
  ASSUME CacheInv, NEW key \in Offsets, GetAndRemove(key)
  PROVE  AbstractCache!Next
<1> DEFINE cache == CacheOf(item_list_, max_size_)
<1>1. Distinct(item_list_) /\ item_list_ \in Seq(Nodes) /\ Linked(item_list_, item_map_)
  BY NodesAre DEF CacheInv, Linked
<1>2. /\ Contain(key) /\ item_list_' = ListErase(item_list_, Found(key))
      /\ answer' = <<"GetAndRemove", key, Deref(item_list_, Found(key)).value>>
      /\ max_size_' = max_size_
  BY DEF GetAndRemove
<1>3. PICK i \in 1..Len(item_list_) :
         /\ item_list_[i].key = key /\ PlaceOf(item_list_, Found(key)) = i
         /\ ListErase(item_list_, Found(key)) = RemoveAt(item_list_, i)
  BY <1>2, FoundIs
<1>4. AbstractCache!Contain(cache, key) /\ AbstractCache!PositionOf(cache, key) = i
  <2>1. Listed(item_list_, key)
    BY <1>3 DEF Listed
  <2> QED
    BY <1>1, <1>3, <2>1, PositionIs
<1>5. AbstractCache!ValueOf(cache, key) = Deref(item_list_, Found(key)).value
  <2>1. cache.items[i] = Pair(item_list_[i])
    BY <1>1, ItemsAre, CacheFields
  <2>2. Deref(item_list_, Found(key)) = item_list_[i]
    BY <1>3 DEF Deref
  <2> HIDE DEF cache
  <2>3. AbstractCache!ValueOf(cache, key) = cache.items[i].value
    BY <1>4 DEF AbstractCache!ValueOf
  <2> QED
    BY <2>1, <2>2, <2>3, PairIs
<1>6. item_list_' = KeptList(key)
  BY <1>2 DEF KeptList
<1>7. AbstractCache!GetAndRemove(cache, key) = CacheOf(item_list_', max_size_')
  BY <1>2, <1>6, WithoutIs DEF AbstractCache!GetAndRemove
<1>8. AbstractCache!CallGetAndRemove(key)
  <2>1. CacheOf(item_list_, max_size_)' = CacheOf(item_list_', max_size_')
    BY DEF CacheOf, Items
  <2> QED
    BY <1>2, <1>4, <1>5, <1>7, <2>1, CacheIs DEF AbstractCache!CallGetAndRemove, CacheOf, Items
<1> QED
  BY <1>8 DEF AbstractCache!Next

\* Every call is one of the abstract cache.
LEMMA CacheStepRefines ==
  CacheInv /\ [CacheNext]_cacheVars => [AbstractCache!Next]_(AbstractCache!vars)
<1> SUFFICES ASSUME CacheInv, [CacheNext]_cacheVars
             PROVE  [AbstractCache!Next]_(AbstractCache!vars)
  OBVIOUS
<1>1. CASE \E e \in CacheEntries : Upsert(e.key, e.value)
  <2>1. PICK e \in CacheEntries : Upsert(e.key, e.value)
    BY <1>1
  <2>2. e.key \in Offsets /\ e.value \in CacheValues
    BY OffsetsAssumption DEF CacheValues
  <2> QED
    BY <2>1, <2>2, UpsertRefines
<1>2. CASE \E key \in Offsets : GetAndRemove(key)
  BY <1>2, GetAndRemoveRefines
<1>3. CASE \E max_size \in Capacities : Reset(max_size)
  <2>1. PICK max_size \in Capacities : Reset(max_size)
    BY <1>3
  <2>2. item_list_' = << >> /\ max_size_' = max_size /\ answer' = <<"Reset", max_size>>
    BY <2>1 DEF Reset
  <2>3. Items(<< >>) = << >>
    BY DEF Items
  <2>4. CacheOf(item_list_', max_size_') = AbstractCache!NewCache(max_size)
    BY <2>2, <2>3 DEF CacheOf, AbstractCache!NewCache
  <2>5. CacheOf(item_list_, max_size_)' = CacheOf(item_list_', max_size_')
    BY DEF CacheOf, Items
  <2>6. AbstractCache!CallReset(max_size)
    BY <2>2, <2>4, <2>5, CacheIs DEF AbstractCache!CallReset, CacheOf, Items
  <2> QED
    BY <2>6 DEF AbstractCache!Next
<1>4. CASE UNCHANGED cacheVars
  BY <1>4 DEF cacheVars, AbstractCache!vars
<1> QED
  BY <1>1, <1>2, <1>3, <1>4 DEF CacheNext

\* The cache is empty after the constructor.
LEMMA CacheInitRefines == CacheInit => AbstractCache!Init
<1> SUFFICES ASSUME CacheInit PROVE AbstractCache!Init
  OBVIOUS
<1>1. item_list_ = << >> /\ max_size_ \in Capacities /\ answer = << >>
  BY DEF CacheInit
<1>2. Items(<< >>) = << >>
  BY DEF Items
<1>3. CacheOf(item_list_, max_size_) = AbstractCache!NewCache(max_size_)
  BY <1>1, <1>2 DEF CacheOf, AbstractCache!NewCache
<1> QED
  BY <1>1, <1>3, CacheIs DEF AbstractCache!Init, CacheOf, Items

\* The list and the map of iterators together are the list of entries the matchers
\* are checked with: every call keeps, evicts and returns the same.
THEOREM CacheIsAList == CacheSpec => ImplementsCache
<1>1. CacheInit => AbstractCache!Init
  BY CacheInitRefines
<1>2. CacheInv /\ [CacheNext]_cacheVars => [AbstractCache!Next]_(AbstractCache!vars)
  BY CacheStepRefines
<1> QED
  BY <1>1, <1>2, CacheInvariance, PTL DEF CacheSpec, ImplementsCache, AbstractCache!Spec

=============================================================================
