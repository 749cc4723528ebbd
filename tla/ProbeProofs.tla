----------------------------- MODULE ProbeProofs -----------------------------
(***************************************************************************)
(* What holds of Probe for every set of inputs: the matchers start each    *)
(* row as if they were new; what a step emits is what occurs in the text   *)
(* and ends there; the state has its type; a match finds the segment it is *)
(* for, and none is handled late; and a simple pattern that is reported is *)
(* LIKE the row.                                                           *)
(***************************************************************************)
EXTENDS Probe, AutomatonProofs

-----------------------------------------------------------------------------
(* A new row. *)

IsMatcher(i) ==
  i = [segment_idx |-> i.segment_idx, min_text_start_pos |-> i.min_text_start_pos,
       match |-> i.match]

\* A matcher that is not marked dirty is as good as new, and only marked ones are
\* waited for; at the start of a row none is marked.
RowInv ==
  /\ texts \in Seq(Seq(Byte)) /\ row \in 0..Len(texts)
  /\ text_offset \in 0..Len(text)
  /\ instances = [p \in PatternIds |-> instances[p]]
  /\ \A p \in PatternIds : IsMatcher(instances[p])
  /\ \A p \in PatternIds \ dirty : instances[p] = NewMatcher(build, p)
  /\ \A item \in queue : item.pattern_id \in dirty
  /\ text_offset = 0 => emit = << >> /\ queue = {} /\ dirty = {}

\* Rows are byte sequences.
LEMMA TextType ==
  ASSUME RowInv
  PROVE  text \in Seq(Byte) /\ Len(text) \in Nat
<1>1. text \in Seq(Byte)
  BY DEF RowInv, text
<1> QED
  BY <1>1

\* It holds before the first row.
LEMMA RowInit ==
  ASSUME Init
  PROVE  RowInv
<1>1. PICK inputs \in Inputs : \E input \in inputs :
        build = Compile(input.patterns, input.escape) /\ texts = input.texts
  BY DEF Init
<1>2. texts \in Seq(Seq(Byte))
  BY <1>1, InputsAssumption
<1>3. text = << >>
  BY DEF Init, text
<1>4. \A p \in PatternIds : IsMatcher(NewMatcher(build, p))
  BY DEF IsMatcher, NewMatcher
<1> QED
  BY <1>2, <1>3, <1>4 DEF Init, RowInv

\* A new row resets every matcher that is marked, and unmarks it.
LEMMA RowDrive ==
  ASSUME RowInv, Drive
  PROVE  RowInv'
<1>1. /\ texts' = texts /\ build' = build /\ row' \in 0..Len(texts) /\ texts \in Seq(Seq(Byte))
      /\ text_offset' = 0 /\ queue' = {} /\ dirty' = {} /\ emit' = << >>
  BY DEF RowInv, Drive, buildVars, Clear, CodePointDone
<1>2. Len(text') \in Nat
  <2>1. text' = IF row' = 0 THEN << >> ELSE texts[row']
    BY <1>1 DEF text
  <2> QED
    BY <1>1, <2>1
<1>3. /\ instances' = [q \in PatternIds |-> instances'[q]]
      /\ \A p \in PatternIds : instances'[p] = NewMatcher(build, p)
  BY DEF RowInv, Drive, ResetMatcher
<1>4. \A p \in PatternIds : IsMatcher(NewMatcher(build, p))
  BY DEF IsMatcher, NewMatcher
<1> QED
  BY <1>1, <1>2, <1>3, <1>4 DEF RowInv, PatternIds

\* Reading a code point touches no matcher, and moves on in the text.
LEMMA RowContinue ==
  ASSUME RowInv, ContinueParseText
  PROVE  RowInv' /\ text_offset' \in (text_offset + 1)..Len(text)
<1>1. /\ text_offset' = NextOffset(text, text_offset) /\ text_offset < Len(text)
      /\ UNCHANGED <<build, texts, row, result, queue, instances, dirty>>
  BY DEF ContinueParseText, buildVars
<1>2. text_offset \in 0..(Len(text) - 1)
  BY <1>1, TextType DEF RowInv
<1>3. text_offset' \in (text_offset + 1)..Len(text)
  BY <1>1, <1>2, TextType, NextOffsetMoves
<1>4. text_offset' \in 0..Len(text) /\ text_offset' # 0
  BY <1>2, <1>3, TextType
<1>5. text' = text
  BY <1>1 DEF text
<1> QED
  BY <1>1, <1>3, <1>4, <1>5 DEF RowInv, PatternIds, NewMatcher

\* A matcher stays a record whatever is tried.
LEMMA AfterTryIs ==
  ASSUME NEW m, NEW i, NEW seg, IsMatcher(i)
  PROVE  /\ IsMatcher(AfterTry(m, i, seg))
         /\ AfterTry(m, i, seg).segment_idx = i.segment_idx
         /\ AfterTry(m, i, seg).min_text_start_pos = i.min_text_start_pos
<1>1. ASSUME NEW c
      PROVE  /\ IsMatcher([i EXCEPT !.match = c])
             /\ [i EXCEPT !.match = c].segment_idx = i.segment_idx
             /\ [i EXCEPT !.match = c].min_text_start_pos = i.min_text_start_pos
  BY DEF IsMatcher
<1> QED
  BY <1>1 DEF AfterTry

\* A match that is handled marks its matcher, whatever becomes of it.
LEMMA RowHandle ==
  ASSUME RowInv, HandleMatch
  PROVE  RowInv'
<1> DEFINE p == Head(emit).pattern_id
           tried == AfterTry(Head(emit), instances[p], CurrentSegment(p))
<1>1. /\ emit # << >> /\ dirty' = dirty \cup {p}
      /\ UNCHANGED <<build, texts, row, text_offset>>
  BY DEF HandleMatch, buildVars, textVars
<1>2. \E new : instances' = [instances EXCEPT ![p] = new] /\ (p \in PatternIds => IsMatcher(new))
  <2>1. p \in PatternIds => IsMatcher(tried)
    BY AfterTryIs DEF RowInv
  <2>2. \A i, tail : IsMatcher(AdvanceNextSegment(p, i, tail))
    BY DEF AdvanceNextSegment, IsMatcher
  <2>3. \/ instances' = [instances EXCEPT ![p] = tried]
        \/ \E i, tail : instances' = [instances EXCEPT ![p] = AdvanceNextSegment(p, i, tail)]
    BY DEF HandleMatch
  <2> HIDE DEF tried, p
  <2> QED
    BY <2>1, <2>2, <2>3
<1>3. \A item \in queue' : item \in queue \/ item.pattern_id = p
  BY DEF HandleMatch, Schedule
<1>4. text_offset # 0
  BY <1>1 DEF RowInv
<1>5. text' = text /\ PatternIds' = PatternIds
  BY <1>1 DEF text, PatternIds
<1> HIDE DEF p
<1>6. /\ instances' = [q \in PatternIds |-> instances'[q]]
      /\ \A q \in PatternIds : IsMatcher(instances'[q])
      /\ \A q \in PatternIds \ dirty' : instances'[q] = NewMatcher(build, q)
  BY <1>1, <1>2 DEF RowInv
<1> QED
  BY <1>1, <1>3, <1>4, <1>5, <1>6 DEF RowInv, NewMatcher

\* A scheduled match that becomes ready touches a matcher that is marked already.
LEMMA RowProcess ==
  ASSUME RowInv, ProcessDelayedMatching
  PROVE  RowInv'
<1>1. PICK item \in Fronts :
        /\ queue' = queue \ {item}
        /\ instances' =
            [instances EXCEPT ![item.pattern_id].match =
               Upsert(@, text_offset - item.next_pattern_pos, ToU16(item.prev_pattern_pos))]
  BY DEF ProcessDelayedMatching
<1>2. UNCHANGED <<build, texts, row, text_offset, dirty, emit>>
  BY DEF ProcessDelayedMatching, buildVars, textVars
<1>3. item \in queue /\ item.pattern_id \in dirty /\ text_offset # 0
  BY <1>1 DEF Fronts, RowInv
<1>4. PICK c : instances' = [instances EXCEPT ![item.pattern_id].match = c]
  BY <1>1
<1>5. \A i : IsMatcher(i) => IsMatcher([i EXCEPT !.match = c])
  BY DEF IsMatcher
<1>6. /\ instances' = [q \in PatternIds |-> instances'[q]]
      /\ \A q \in PatternIds : IsMatcher(instances'[q])
      /\ \A q \in PatternIds \ dirty : instances'[q] = instances[q]
  BY <1>3, <1>4, <1>5 DEF RowInv
<1>7. text' = text /\ PatternIds' = PatternIds
  BY <1>2 DEF text, PatternIds
<1> QED
  BY <1>1, <1>2, <1>3, <1>6, <1>7 DEF RowInv, NewMatcher

\* Every step keeps RowInv.
LEMMA RowNext ==
  ASSUME RowInv, [Next]_vars
  PROVE  RowInv'
<1>1. CASE UNCHANGED vars
  BY <1>1 DEF vars, buildVars, textVars, RowInv, text, PatternIds, NewMatcher
<1>2. CASE SkipMatch
  BY <1>2 DEF SkipMatch, buildVars, textVars, RowInv, text, PatternIds, NewMatcher
<1> QED
  BY <1>1, <1>2, RowDrive, RowContinue, RowHandle, RowProcess DEF Next, Finished

\* ResetText finds every matcher that needs it: a row starts with new matchers and
\* an empty queue, whatever the rows before did.
THEOREM RowsStartFresh == Spec => []FreshAtRowStart
<1>1. RowInv => FreshAtRowStart
  BY DEF RowInv, FreshAtRowStart
<1> QED
  BY <1>1, RowInit, RowNext, PTL DEF Spec

-----------------------------------------------------------------------------
(* What a code point emits. *)

IsLiteral(lit) ==
  /\ lit = [keyword |-> lit.keyword, pattern_id |-> lit.pattern_id, start_pos |-> lit.start_pos]
  /\ lit.pattern_id \in Int /\ lit.start_pos \in Int
  /\ lit.keyword # << >> /\ ValidText(lit.keyword)

\* The automaton is that of the literals.
BuildOk(b) ==
  /\ IsFiniteSet(b.literals) /\ \A lit \in b.literals : IsLiteral(lit)
  /\ b.trie = TrieOf({lit.keyword : lit \in b.literals})
  /\ b.suffixLink = SuffixLinksOf(b.trie) /\ b.outputLink = OutputLinksOf(b.trie)

MatchFor(lit, end) ==
  [pattern_id     |-> lit.pattern_id,
   start_pos      |-> lit.start_pos,
   literal_len    |-> Len(lit.keyword),
   text_start_pos |-> end - Len(lit.keyword)]

\* The matches of a set of literals, each of them once.
AreMatches(r, L, end) ==
  /\ Len(r) \in Nat /\ r = [i \in 1..Len(r) |-> r[i]]
  /\ \A i \in 1..Len(r) : \E lit \in L : r[i] = MatchFor(lit, end)
  /\ \A lit \in L : \E i \in 1..Len(r) : r[i] = MatchFor(lit, end)
  /\ \A i, j \in 1..Len(r) : r[i] = r[j] => i = j

LiteralsOf(n) == {lit \in build.literals : lit.keyword = n}

\* AppendResult emits what the bitmap of a literal holds, each entry once.
LEMMA MatchesOfAre ==
  ASSUME BuildOk(build), NEW n, NEW end
  PROVE  AreMatches(MatchesOf(n, end), LiteralsOf(n), end)
<1> DEFINE S == LiteralsOf(n)
           R == {xy \in S \X S : Before(xy[1], xy[2])}
           s == InOrder(S, Before)
           r == MatchesOf(n, end)
<1>1. IsFiniteSet(S) /\ \A x \in S : IsLiteral(x) /\ x.keyword = n
  <2>1. S \subseteq build.literals
    BY DEF LiteralsOf
  <2> QED
    BY <2>1, FS_Subset DEF BuildOk, LiteralsOf
<1> HIDE DEF S
<1>2. \A x \in S : x.pattern_id \in Int /\ x.start_pos \in Int
  BY <1>1 DEF IsLiteral
<1>3. \A x, y \in S : x # y => x.pattern_id # y.pattern_id \/ x.start_pos # y.start_pos
  BY <1>1 DEF IsLiteral
<1>4. Orders(R, S)
  <2>1. \A x, y \in S : <<x, y>> \in R <=> Before(x, y)
    OBVIOUS
  <2>2. \A x, y \in S : x # y => Before(x, y) \/ Before(y, x)
    BY <1>2, <1>3 DEF Before
  <2>3. \A x, y, z \in S : Before(x, y) /\ Before(y, z) => Before(x, z)
    BY <1>2 DEF Before
  <2>4. \A x \in S : ~Before(x, x)
    BY <1>2 DEF Before
  <2> HIDE DEF R
  <2> QED
    BY <2>1, <2>2, <2>3, <2>4 DEF Orders
<1>5. /\ s = [i \in 1..Cardinality(S) |-> s[i]]
      /\ \A i \in 1..Cardinality(S) :
           (\E x \in S : Rank(R, S, x) = i - 1) => s[i] \in S /\ Rank(R, S, s[i]) = i - 1
  <2>1. \A x \in S : {y \in S : Before(y, x)} = {y \in S : <<y, x>> \in R}
    OBVIOUS
  <2>2. \A x \in S : Cardinality({y \in S : Before(y, x)}) = Rank(R, S, x)
    BY <2>1 DEF Rank
  <2> DEFINE e(i) == CHOOSE x \in S : Cardinality({y \in S : Before(y, x)}) = i - 1
  <2>3. s = [i \in 1..Cardinality(S) |-> e(i)]
    BY DEF InOrder
  <2> HIDE DEF R, s
  <2>4. ASSUME NEW i \in 1..Cardinality(S), \E x \in S : Rank(R, S, x) = i - 1
        PROVE  s[i] \in S /\ Rank(R, S, s[i]) = i - 1
    <3>1. \E x \in S : Cardinality({y \in S : Before(y, x)}) = i - 1
      BY <2>2, <2>4
    <3>2. e(i) \in S /\ Cardinality({y \in S : Before(y, e(i))}) = i - 1
      BY <3>1
    <3>3. s[i] = e(i)
      BY <2>3
    <3> HIDE DEF e
    <3> QED
      BY <2>2, <3>2, <3>3
  <2> HIDE DEF e
  <2> QED
    BY <2>3, <2>4
<1> HIDE DEF R, s
<1>6. /\ Len(s) \in Nat /\ s \in [1..Len(s) -> S]
      /\ \A x \in S : \E i \in 1..Len(s) : s[i] = x
      /\ \A i, j \in 1..Len(s) : i < j => <<s[i], s[j]>> \in R
  <2>1. IsInOrder(R, S, s)
    BY <1>1, <1>4, <1>5 DEF IsInOrder
  <2> QED
    BY <2>1, InOrderIs
<1>7. \A i, j \in 1..Len(s) : s[i] = s[j] => i = j
  <2>1. \A x \in S : <<x, x>> \notin R
    BY <1>4 DEF Orders
  <2> SUFFICES ASSUME NEW i \in 1..Len(s), NEW j \in 1..Len(s), s[i] = s[j], i # j PROVE FALSE
    OBVIOUS
  <2>2. s[i] \in S /\ (i < j \/ j < i)
    BY <1>6
  <2>3. <<s[i], s[j]>> \in R \/ <<s[j], s[i]>> \in R
    BY <1>6, <2>2
  <2> QED
    BY <2>1, <2>2, <2>3
<1>8. r = [i \in 1..Len(s) |-> MatchFor(s[i], end)]
  <2>1. \A i \in 1..Len(s) : s[i].keyword = n
    BY <1>1, <1>6
  <2>2. MatchesOf(n, end) =
          [i \in 1..Len(s) |->
             [pattern_id |-> s[i].pattern_id, start_pos |-> s[i].start_pos,
              literal_len |-> Len(n), text_start_pos |-> end - Len(n)]]
    BY DEF MatchesOf, s, S, LiteralsOf
  <2>3. \A i \in 1..Len(s) :
          [pattern_id |-> s[i].pattern_id, start_pos |-> s[i].start_pos,
           literal_len |-> Len(n), text_start_pos |-> end - Len(n)] = MatchFor(s[i], end)
    BY <2>1 DEF MatchFor
  <2> QED
    BY <2>2, <2>3
<1> HIDE DEF r
<1>9. Len(r) = Len(s) /\ r = [i \in 1..Len(r) |-> r[i]] /\ \A i \in 1..Len(s) : r[i] = MatchFor(s[i], end)
  BY <1>6, <1>8
<1>10. \A x, y \in S : MatchFor(x, end) = MatchFor(y, end) => x = y
  <2>1. \A x, y \in S : MatchFor(x, end) = MatchFor(y, end) =>
          x.pattern_id = y.pattern_id /\ x.start_pos = y.start_pos
    BY DEF MatchFor
  <2> QED
    BY <1>3, <2>1
<1>11. AreMatches(r, S, end)
  BY <1>6, <1>7, <1>9, <1>10 DEF AreMatches
<1> QED
  BY <1>11 DEF S, r

\* Matches that are put together.
LEMMA Concatenated ==
  ASSUME NEW r1, NEW L1, NEW r2, NEW L2, NEW end,
         AreMatches(r1, L1, end), AreMatches(r2, L2, end),
         \A x \in L1 : \A y \in L2 : MatchFor(x, end) # MatchFor(y, end)
  PROVE  AreMatches(r1 \o r2, L1 \cup L2, end)
<1> DEFINE r == r1 \o r2
           M == Len(r1)
           N == Len(r2)
<1>1. /\ M \in Nat /\ r1 = [i \in 1..M |-> r1[i]]
      /\ \A i \in 1..M : \E lit \in L1 : r1[i] = MatchFor(lit, end)
      /\ \A lit \in L1 : \E i \in 1..M : r1[i] = MatchFor(lit, end)
      /\ \A i, j \in 1..M : r1[i] = r1[j] => i = j
  BY DEF AreMatches
<1>2. /\ N \in Nat /\ r2 = [i \in 1..N |-> r2[i]]
      /\ \A i \in 1..N : \E lit \in L2 : r2[i] = MatchFor(lit, end)
      /\ \A lit \in L2 : \E i \in 1..N : r2[i] = MatchFor(lit, end)
      /\ \A i, j \in 1..N : r2[i] = r2[j] => i = j
  BY DEF AreMatches
<1>3. /\ Len(r) = M + N /\ r = [i \in 1..Len(r) |-> r[i]]
      /\ \A i \in 1..M : r[i] = r1[i]
      /\ \A i \in 1..N : r[M + i] = r2[i]
  <2> DEFINE V == {r1[i] : i \in 1..M} \cup {r2[i] : i \in 1..N}
  <2>1. r1 \in [1..M -> V] /\ r2 \in [1..N -> V]
    BY <1>1, <1>2
  <2> HIDE DEF V
  <2>2. r1 \in Seq(V) /\ r2 \in Seq(V)
    BY <1>1, <1>2, <2>1
  <2>3. /\ r \in Seq(V) /\ Len(r) = M + N
        /\ \A i \in 1..(M + N) : r[i] = IF i <= M THEN r1[i] ELSE r2[i - M]
    BY <2>2, ConcatProperties
  <2> HIDE DEF r
  <2>4. r = [i \in 1..Len(r) |-> r[i]]
    BY <2>3
  <2>5. ASSUME NEW i \in 1..M PROVE r[i] = r1[i]
    <3>1. i \in 1..(M + N) /\ i <= M
      BY <1>1, <1>2
    <3> QED
      BY <2>3, <3>1
  <2>6. ASSUME NEW i \in 1..N PROVE r[M + i] = r2[i]
    <3> DEFINE k == M + i
    <3>1. k \in 1..(M + N) /\ ~(k <= M) /\ k - M = i
      BY <1>1, <1>2
    <3> HIDE DEF k
    <3>2. r[k] = r2[k - M]
      BY <2>3, <3>1
    <3> QED
      BY <3>1, <3>2 DEF k
  <2> QED
    BY <2>3, <2>4, <2>5, <2>6
<1> HIDE DEF r, M, N
<1>4. \A i \in 1..(M + N) : i \in 1..M \/ \E j \in 1..N : i = M + j
  <2> SUFFICES ASSUME NEW i \in 1..(M + N), i \notin 1..M PROVE \E j \in 1..N : i = M + j
    OBVIOUS
  <2>1. i - M \in 1..N /\ i = M + (i - M)
    BY <1>1, <1>2
  <2> QED
    BY <2>1
<1>5. \A i \in 1..M : i \in 1..(M + N)
  BY <1>1, <1>2
<1>6. \A i \in 1..N : M + i \in 1..(M + N)
  BY <1>1, <1>2
<1>7. \A i \in 1..Len(r) : \E lit \in L1 \cup L2 : r[i] = MatchFor(lit, end)
  BY <1>1, <1>2, <1>3, <1>4
<1>8. \A lit \in L1 \cup L2 : \E i \in 1..Len(r) : r[i] = MatchFor(lit, end)
  <2> SUFFICES ASSUME NEW lit \in L1 \cup L2 PROVE \E i \in 1..Len(r) : r[i] = MatchFor(lit, end)
    OBVIOUS
  <2>1. CASE lit \in L1
    BY <1>1, <1>3, <1>5, <2>1
  <2>2. CASE lit \in L2
    BY <1>2, <1>3, <1>6, <2>2
  <2> QED
    BY <2>1, <2>2
<1>9. ASSUME NEW i \in 1..M, NEW j \in 1..N PROVE r1[i] # r2[j]
  BY <1>1, <1>2
<1>10. ASSUME NEW i \in 1..Len(r), NEW j \in 1..Len(r), r[i] = r[j] PROVE i = j
  <2>1. CASE i \in 1..M /\ j \in 1..M
    BY <1>1, <1>3, <1>10, <2>1
  <2>2. ASSUME NEW k \in 1..N, i = M + k, j \in 1..M PROVE FALSE
    BY <1>3, <1>9, <1>10, <2>2
  <2>3. ASSUME NEW k \in 1..N, j = M + k, i \in 1..M PROVE FALSE
    BY <1>3, <1>9, <1>10, <2>3
  <2>4. ASSUME NEW k \in 1..N, i = M + k, NEW l \in 1..N, j = M + l PROVE i = j
    <3>1. r2[k] = r2[l]
      BY <1>3, <1>10, <2>4
    <3> QED
      BY <1>2, <2>4, <3>1
  <2> QED
    BY <1>3, <1>4, <2>1, <2>2, <2>3, <2>4
<1>11. Len(r) \in Nat
  BY <1>1, <1>2, <1>3
<1>12. AreMatches(r, L1 \cup L2, end)
  BY <1>3, <1>7, <1>8, <1>10, <1>11 DEF AreMatches
<1> QED
  BY <1>12 DEF r

\* The keywords of the automaton.
Keywords == {lit.keyword : lit \in build.literals}

\* They are what the lemmas on tries ask for.
LEMMA KeywordsAre ==
  ASSUME BuildOk(build)
  PROVE  /\ AreKeywords(Keywords) /\ build.trie = TrieOf(Keywords)
         /\ build.trie.keywords = Keywords
         /\ \A lit \in build.literals : lit.keyword \in Keywords
         /\ \A k \in Keywords : ValidText(k) /\ k # << >>
<1>1. \A lit \in build.literals : ValidText(lit.keyword) /\ lit.keyword # << >>
  BY DEF BuildOk, IsLiteral
<1>2. \A k \in Keywords : ValidText(k) /\ k # << >>
  BY <1>1 DEF Keywords
<1>3. AreKeywords(Keywords)
  BY <1>2 DEF AreKeywords, ValidText
<1>4. build.trie = TrieOf(Keywords)
  BY DEF BuildOk, Keywords
<1> QED
  BY <1>2, <1>3, <1>4 DEF TrieOf, Keywords

\* One turn of the loop over the output links, and all of them.
Follow(x, end) ==
  IF x.out = Null THEN x
  ELSE [out |-> build.outputLink[x.out], result |-> x.result \o MatchesOf(x.out, end)]

Follows(n, end, f) ==
  f = [i \in 0..Len(n) |->
         IF i = 0 THEN [out |-> build.outputLink[n], result |-> << >>] ELSE Follow(f[i - 1], end)]

\* The loop is well defined, and OutputMatches is what it leaves.
LEMMA FollowExists ==
  ASSUME BuildOk(build), NEW n \in LinkNodesOf(build.trie), NEW end
  PROVE  \E f : Follows(n, end, f) /\ OutputMatches(n, end) = f[Len(n)].result
<1> DEFINE LN == LinkNodesOf(build.trie)
           V == {MatchFor(lit, end) : lit \in build.literals}
           S == [out : Keywords \cup {Null}, result : Seq(V)]
           N == Len(n)
           base == [out |-> build.outputLink[n], result |-> << >>]
           step == [i \in 1..N |-> [x \in S |-> Follow(x, end)]]
<1>1. /\ AreKeywords(Keywords) /\ build.trie = TrieOf(Keywords) /\ Keywords \subseteq LN
      /\ n \in Seq(Byte)
  BY KeywordsAre, TrieNodes
<1>2. \A k \in LN : build.outputLink[k] \in Keywords \cup {Null}
  <2> SUFFICES ASSUME NEW k \in LN PROVE build.outputLink[k] \in Keywords \cup {Null}
    OBVIOUS
  <2>1. build.outputLink[k] = LongestSuffixKeyword(build.trie, k)
    BY <1>1, FinishedLinks DEF BuildOk
  <2> QED
    BY <1>1, <2>1, KeywordChain
<1>3. \A k : MatchesOf(k, end) \in Seq(V)
  <2> SUFFICES ASSUME NEW k PROVE MatchesOf(k, end) \in Seq(V)
    OBVIOUS
  <2> DEFINE r == MatchesOf(k, end)
  <2>1. AreMatches(r, LiteralsOf(k), end) /\ LiteralsOf(k) \subseteq build.literals
    BY MatchesOfAre DEF LiteralsOf
  <2> HIDE DEF r
  <2>2. /\ Len(r) \in Nat /\ r = [i \in 1..Len(r) |-> r[i]]
        /\ \A i \in 1..Len(r) : \E lit \in LiteralsOf(k) : r[i] = MatchFor(lit, end)
    BY <2>1 DEF AreMatches
  <2>3. \A i \in 1..Len(r) : r[i] \in V
    BY <2>1, <2>2
  <2> HIDE DEF V
  <2>4. r \in [1..Len(r) -> V]
    BY <2>2, <2>3
  <2>5. r \in Seq(V)
    BY <2>2, <2>4
  <2> QED
    BY <2>5 DEF r
<1>4. N \in Nat
  BY <1>1
<1> HIDE DEF V, LN, N
<1>5. base \in S
  BY <1>2 DEF LN
<1>6. \A x \in S : Follow(x, end) \in S
  <2> SUFFICES ASSUME NEW x \in S, x.out # Null PROVE Follow(x, end) \in S
    BY DEF Follow
  <2>1. x.out \in Keywords /\ x.result \in Seq(V)
    OBVIOUS
  <2>2. build.outputLink[x.out] \in Keywords \cup {Null}
    BY <1>1, <1>2, <2>1
  <2>3. x.result \o MatchesOf(x.out, end) \in Seq(V)
    BY <1>3, <2>1, ConcatProperties
  <2> QED
    BY <2>2, <2>3 DEF Follow
<1> HIDE DEF S, base
<1>7. step \in [1..N -> [S -> S]]
  BY <1>6
<1>8. PICK f \in [0..N -> S] : f[0] = base /\ \A i \in 1..N : f[i] = step[i][f[i - 1]]
  <2> HIDE DEF step
  <2>1. \A st \in [1..N -> [S -> S]] :
          \E f \in [0..N -> S] : f[0] = base /\ \A i \in 1..N : f[i] = st[i][f[i - 1]]
    BY <1>4, <1>5, Iteration
  <2> QED
    BY <1>7, <2>1
<1>9. \A i \in 1..N : f[i] = Follow(f[i - 1], end)
  <2> SUFFICES ASSUME NEW i \in 1..N PROVE f[i] = Follow(f[i - 1], end)
    OBVIOUS
  <2>1. i - 1 \in 0..N
    BY <1>4
  <2>2. f[i - 1] \in S
    BY <2>1
  <2> QED
    BY <1>8, <2>2
<1>10. Follows(n, end, f)
  <2>1. f = [i \in 0..N |-> f[i]]
    OBVIOUS
  <2>2. \A i \in 0..N : i = 0 \/ i \in 1..N
    BY <1>4
  <2>3. \A i \in 0..N : f[i] = IF i = 0 THEN base ELSE Follow(f[i - 1], end)
    BY <1>4, <1>8, <1>9, <2>2
  <2>4. f = [i \in 0..N |-> IF i = 0 THEN base ELSE Follow(f[i - 1], end)]
    BY <2>1, <2>3
  <2> QED
    BY <2>4 DEF Follows, N, base
<1>11. OutputMatches(n, end) = (CHOOSE g : Follows(n, end, g))[Len(n)].result
  BY DEF OutputMatches, Follows, Follow
<1>12. PICK g : Follows(n, end, g) /\ g = CHOOSE h : Follows(n, end, h)
  BY <1>10
<1> QED
  BY <1>11, <1>12

\* The literals that are proper suffixes of a node, and those of them that are longer
\* than the keyword k, which is one of these suffixes.
EndsIn(n) == {lit \in build.literals : lit.keyword \in ProperSuffixes(n)}
LongerIn(n, k) == {lit \in EndsIn(n) : lit.keyword # k /\ lit.keyword \notin ProperSuffixes(k)}

\* The output links of a node lead to all its proper suffixes that are literals, to each
\* of them once.
LEMMA OutputMatchesAre ==
  ASSUME BuildOk(build), NEW n \in LinkNodesOf(build.trie), NEW end
  PROVE  AreMatches(OutputMatches(n, end), EndsIn(n), end)
<1>1. /\ AreKeywords(Keywords) /\ build.trie = TrieOf(Keywords)
      /\ Keywords \subseteq LinkNodesOf(build.trie)
      /\ LinkNodesOf(build.trie) = {y \in build.trie.nodes : WholeCodePoints(y)}
      /\ build.trie.nodes \subseteq Seq(Byte)
      /\ \A lit \in build.literals : lit.keyword \in Keywords
  BY KeywordsAre, TrieNodes
<1>2. n \in Seq(Byte) /\ WholeCodePoints(n) /\ Len(n) \in Nat
  BY <1>1
<1>3. \A y \in LinkNodesOf(build.trie) : build.outputLink[y] = LongestSuffixKeyword(build.trie, y)
  BY <1>1, FinishedLinks DEF BuildOk
<1>4. PICK f : Follows(n, end, f) /\ OutputMatches(n, end) = f[Len(n)].result
  BY FollowExists
<1>5. /\ f[0] = [out |-> build.outputLink[n], result |-> << >>]
      /\ \A i \in 1..Len(n) : f[i] = Follow(f[i - 1], end)
  BY <1>2, <1>4 DEF Follows
<1> DEFINE Done(i) == f[i].out = Null /\ AreMatches(f[i].result, EndsIn(n), end)
           Going(i, k) == /\ f[i].out = k /\ k # Null /\ k \in Keywords /\ k \in ProperSuffixes(n)
                          /\ Len(k) + i < Len(n)
                          /\ AreMatches(f[i].result, LongerIn(n, k), end)
           S == {i \in 0..Len(n) : Done(i) \/ \E k : Going(i, k)}
<1>6. AreMatches(<< >>, {}, end)
  BY DEF AreMatches
<1>7. 0 \in S
  <2> DEFINE m == LongestSuffixKeyword(build.trie, n)
  <2>1. f[0].out = m /\ f[0].result = << >>
    BY <1>3, <1>5
  <2>2. CASE m = Null /\ ProperSuffixes(n) \cap Keywords = {}
    <3>1. EndsIn(n) = {}
      BY <1>1, <2>2 DEF EndsIn
    <3>2. Done(0)
      BY <1>6, <2>1, <2>2, <3>1
    <3> QED
      BY <1>2, <3>2
  <2>3. CASE /\ m \in Keywords /\ m \in ProperSuffixes(n) /\ m # Null /\ Len(m) < Len(n)
             /\ \A t \in ProperSuffixes(n) \cap Keywords : t = m \/ t \in ProperSuffixes(m)
    <3> HIDE DEF m
    <3>1. LongerIn(n, m) = {}
      BY <1>1, <2>3 DEF EndsIn, LongerIn
    <3>2. Len(m) + 0 < Len(n)
      BY <1>1, <2>3
    <3>3. Going(0, m)
      BY <1>6, <2>1, <2>3, <3>1, <3>2
    <3> QED
      BY <1>2, <3>3
  <2> QED
    BY <1>1, <2>2, <2>3, KeywordChain
<1>8. ASSUME NEW i \in 0..(Len(n) - 1), i \in S PROVE i + 1 \in S
  <2>1. i + 1 \in 1..Len(n) /\ i + 1 \in 0..Len(n) /\ (i + 1) - 1 = i
    BY <1>2
  <2>2. f[i + 1] = Follow(f[i], end)
    BY <1>5, <2>1
  <2>3. CASE Done(i)
    <3>1. Done(i + 1)
      BY <2>2, <2>3 DEF Follow
    <3> QED
      BY <2>1, <3>1
  <2>4. ASSUME NEW k, Going(i, k) PROVE i + 1 \in S
    <3> DEFINE m == LongestSuffixKeyword(build.trie, k)
               r == f[i].result \o MatchesOf(k, end)
    <3>1. k \in LinkNodesOf(build.trie) /\ k \in Seq(Byte) /\ WholeCodePoints(k) /\ k # Null
      BY <1>1, <2>4
    <3>2. f[i + 1].out = m /\ f[i + 1].result = r
      BY <1>3, <2>2, <2>4, <3>1 DEF Follow
    <3>3. \A t \in ProperSuffixes(n) : t = k \/ t \in ProperSuffixes(k) \/ Len(k) < Len(t)
      BY <1>2, <2>4, SuffixOfSuffix
    <3>4. AreMatches(r, LongerIn(n, k) \cup LiteralsOf(k), end)
      <4>1. ASSUME NEW x \in LongerIn(n, k), NEW y \in LiteralsOf(k)
            PROVE  MatchFor(x, end) # MatchFor(y, end)
        <5>1. Len(k) < Len(x.keyword) /\ y.keyword = k
          BY <3>3 DEF EndsIn, LongerIn, LiteralsOf
        <5>2. MatchFor(x, end).literal_len = Len(x.keyword) /\ MatchFor(y, end).literal_len = Len(k)
          BY <5>1 DEF MatchFor
        <5>3. Len(k) \in Nat
          BY <3>1
        <5> QED
          BY <5>1, <5>2, <5>3
      <4>2. AreMatches(MatchesOf(k, end), LiteralsOf(k), end)
        BY MatchesOfAre
      <4>3. AreMatches(f[i].result, LongerIn(n, k), end)
        BY <2>4
      <4> QED
        BY <4>1, <4>2, <4>3, Concatenated
    <3>5. LiteralsOf(k) \subseteq EndsIn(n)
      BY <2>4 DEF LiteralsOf, EndsIn
    <3> HIDE DEF r
    <3>6. CASE m = Null /\ ProperSuffixes(k) \cap Keywords = {}
      <4>1. LongerIn(n, k) \cup LiteralsOf(k) = EndsIn(n)
        BY <1>1, <3>5, <3>6 DEF LongerIn, EndsIn, LiteralsOf
      <4>2. Done(i + 1)
        BY <3>2, <3>4, <3>6, <4>1
      <4> QED
        BY <2>1, <4>2
    <3>7. CASE /\ m \in Keywords /\ m \in ProperSuffixes(k) /\ m # Null /\ Len(m) < Len(k)
               /\ m \in LinkNodesOf(build.trie)
               /\ ProperSuffixes(m) \subseteq ProperSuffixes(k)
               /\ \A t \in ProperSuffixes(k) \cap Keywords : t = m \/ t \in ProperSuffixes(m)
      <4> HIDE DEF m
      <4>1. ProperSuffixes(k) \subseteq ProperSuffixes(n) /\ Len(m) \in Nat /\ Len(k) \in Nat
        <5>1. ProperSuffixes(k) \subseteq ProperSuffixes(n)
          BY <1>2, <2>4, SuffixOfSuffix
        <5>2. m \in Seq(Byte)
          BY <1>1, <3>7
        <5> QED
          BY <3>1, <5>1, <5>2
      <4>2. k # m /\ k \notin ProperSuffixes(m)
        <5>1. ~(Len(k) < Len(m)) /\ Len(k) # Len(m)
          BY <3>7, <4>1
        <5>2. m \in Seq(Byte) /\ WholeCodePoints(m)
          BY <1>1, <3>7
        <5>3. \A t \in ProperSuffixes(m) : Len(t) < Len(m)
          BY <5>2, SuffixType
        <5> QED
          BY <5>1, <5>3
      <4>3. LongerIn(n, k) \cup LiteralsOf(k) = LongerIn(n, m)
        <5>1. ASSUME NEW x \in LongerIn(n, m) PROVE x \in LongerIn(n, k) \cup LiteralsOf(k)
          BY <1>1, <3>7 DEF LongerIn, EndsIn, LiteralsOf
        <5>2. ASSUME NEW x \in LongerIn(n, k) PROVE x \in LongerIn(n, m)
          BY <3>7 DEF LongerIn
        <5>3. ASSUME NEW x \in LiteralsOf(k) PROVE x \in LongerIn(n, m)
          BY <3>5, <4>2 DEF LongerIn, LiteralsOf
        <5> QED
          BY <5>1, <5>2, <5>3
      <4>4. Len(m) + (i + 1) < Len(n)
        <5>1. Len(k) + i < Len(n) /\ Len(m) < Len(k)
          BY <2>4, <3>7
        <5> QED
          BY <1>2, <4>1, <5>1
      <4>5. m \in ProperSuffixes(n)
        BY <3>7, <4>1
      <4>6. Going(i + 1, m)
        BY <3>2, <3>4, <3>7, <4>3, <4>4, <4>5
      <4> QED
        BY <2>1, <4>6
    <3> QED
      BY <1>1, <3>1, <3>6, <3>7, KeywordChain
  <2> QED
    BY <1>8, <2>3, <2>4
<1>9. Len(n) \in S
  <2> HIDE DEF S
  <2>1. \A i \in 0..Len(n) : i \in S
    BY <1>2, <1>7, <1>8, InductionUpTo
  <2> QED
    BY <1>2, <2>1
<1>10. \A k : ~Going(Len(n), k)
  <2> SUFFICES ASSUME NEW k, Going(Len(n), k) PROVE FALSE
    OBVIOUS
  <2>1. k \in Seq(Byte) /\ Len(k) + Len(n) < Len(n)
    BY <1>1
  <2> QED
    BY <1>2, <2>1
<1> QED
  BY <1>4, <1>9, <1>10

-----------------------------------------------------------------------------
(* What is compiled from the patterns. *)

\* What a function makes of a finite set is finite.
LEMMA FiniteImage ==
  ASSUME NEW S, IsFiniteSet(S), NEW f
  PROVE  IsFiniteSet({f[x] : x \in S})
<1> DEFINE T == {f[x] : x \in S}
           g == [x \in S |-> f[x]]
<1>1. g \in [S -> T] /\ \A t \in T : \E x \in S : g[x] = t
  OBVIOUS
<1> HIDE DEF T, g
<1>2. g \in Surjection(S, T)
  BY <1>1 DEF Surjection
<1>3. IsFiniteSet(T)
  BY <1>2, FS_Surjection
<1> QED
  BY <1>3 DEF T

\* The runs between delimiters lie within the bounds, one behind the other.
LEMMA SpansAre ==
  ASSUME NEW lo \in Nat, NEW hi \in Nat, NEW delims
  PROVE  LET s == Spans(lo, hi, delims)
         IN  /\ Len(s) \in Nat /\ DOMAIN s = 1..Len(s)
             /\ \A n \in 1..Len(s) : /\ s[n].start \in lo..(hi - 1) /\ s[n].len \in Nat
                                     /\ End(s[n]) \in s[n].start..hi
             /\ \A m, n \in 1..Len(s) : m < n => End(s[m]) < s[n].start
             /\ \A n \in 1..Len(s) : /\ s[n].start..(End(s[n]) - 1) \cap delims = {}
                                     /\ s[n].start < End(s[n])
                                     /\ s[n].start = lo \/ s[n].start - 1 \in delims
                                     /\ End(s[n]) = hi \/ End(s[n]) \in delims
             /\ \A x \in lo..(hi - 1) :
                  x \in delims \/ \E n \in 1..Len(s) : s[n].start <= x /\ x < End(s[n])
<1> DEFINE S == {i \in lo..(hi - 1) : i \notin delims /\ (i = lo \/ i - 1 \in delims)}
           StopOf(i) == CHOOSE e \in i..hi : i..(e - 1) \cap delims = {} /\ (e = hi \/ e \in delims)
           R == {xy \in S \X S : xy[1] < xy[2]}
           sorted == InOrder(S, <)
           s == Spans(lo, hi, delims)
<1>1. IsFiniteSet(S) /\ S \subseteq lo..(hi - 1) /\ S \subseteq Int
  <2>1. IsFiniteSet(lo..(hi - 1)) /\ S \in SUBSET (lo..(hi - 1))
    BY FS_Interval
  <2>2. lo..(hi - 1) \subseteq Int
    OBVIOUS
  <2> HIDE DEF S
  <2>3. IsFiniteSet(S)
    BY <2>1, FS_Subset
  <2> QED
    BY <2>1, <2>2, <2>3
<1>2. s = [n \in 1..Len(sorted) |->
             [start |-> sorted[n], len |-> StopOf(sorted[n]) - sorted[n]]]
  BY DEF Spans
<1>3. ASSUME NEW i \in lo..(hi - 1)
      PROVE  /\ StopOf(i) \in i..hi /\ i..(StopOf(i) - 1) \cap delims = {}
             /\ StopOf(i) = hi \/ StopOf(i) \in delims
  <2> DEFINE T == {e \in i..hi : e = hi \/ e \in delims}
  <2>1. T \subseteq Nat /\ T # {}
    <3>1. hi \in T
      OBVIOUS
    <3> QED
      BY <3>1
  <2>2. PICK e \in T : \A x \in T : e <= x
    <3> HIDE DEF T
    <3> QED
      BY <2>1, LeastElement
  <2>3. i..(e - 1) \cap delims = {}
    <3> SUFFICES ASSUME NEW x \in i..(e - 1), x \in delims PROVE FALSE
      OBVIOUS
    <3>1. x \in T /\ x < e /\ e \in Nat
      OBVIOUS
    <3>2. e <= x /\ x \in Nat
      BY <2>1, <2>2, <3>1
    <3> QED
      BY <3>1, <3>2
  <2> QED
    BY <2>2, <2>3
<1>4. \A i \in S : i \notin delims /\ (i = lo \/ i - 1 \in delims)
  OBVIOUS
\* Every offset that is no delimiter is reached from the start of a run.
<1>13. ASSUME NEW x \in lo..(hi - 1), x \notin delims
       PROVE  \E i \in S : i <= x /\ i..x \cap delims = {}
  <2> DEFINE T == {i \in lo..x : i..x \cap delims = {}}
  <2>1. T \subseteq Nat /\ x \in T
    <3>1. x..x \cap delims = {}
      BY <1>13
    <3> QED
      BY <3>1
  <2>2. PICK i \in T : \A k \in T : i <= k
    <3> HIDE DEF T
    <3> QED
      BY <2>1, LeastElement
  <2>3. i \in lo..x /\ i..x \cap delims = {} /\ i \in lo..(hi - 1) /\ i \notin delims
    <3>1. i \in lo..x /\ i..x \cap delims = {} /\ i \in i..x
      BY <2>2
    <3> QED
      BY <3>1
  <2>4. ASSUME i # lo, i - 1 \notin delims PROVE FALSE
    <3>1. i - 1 \in lo..x
      BY <2>3, <2>4
    <3>2. \A k \in (i - 1)..x : k = i - 1 \/ k \in i..x
      BY <2>3
    <3>3. (i - 1)..x \cap delims = {}
      BY <2>3, <2>4, <3>2
    <3>4. i - 1 \in T
      BY <3>1, <3>3
    <3>5. i <= i - 1
      BY <2>2, <3>4
    <3> QED
      BY <2>3, <3>5
  <2>5. i \in S
    BY <2>3, <2>4
  <2> QED
    BY <2>3, <2>5
<1> HIDE DEF S, StopOf
<1>5. Orders(R, S)
  <2>1. \A x, y \in S : <<x, y>> \in R <=> x < y
    OBVIOUS
  <2> HIDE DEF R
  <2> QED
    BY <1>1, <2>1 DEF Orders
<1>6. /\ sorted = [i \in 1..Cardinality(S) |-> sorted[i]]
      /\ \A i \in 1..Cardinality(S) :
           (\E x \in S : Rank(R, S, x) = i - 1) => sorted[i] \in S /\ Rank(R, S, sorted[i]) = i - 1
  <2>1. \A x \in S : {y \in S : y < x} = {y \in S : <<y, x>> \in R}
    OBVIOUS
  <2>2. \A x \in S : Cardinality({y \in S : y < x}) = Rank(R, S, x)
    BY <2>1 DEF Rank
  <2> DEFINE e(i) == CHOOSE x \in S : Cardinality({y \in S : y < x}) = i - 1
  <2>3. sorted = [i \in 1..Cardinality(S) |-> e(i)]
    BY DEF InOrder
  <2> HIDE DEF R, sorted
  <2>4. ASSUME NEW i \in 1..Cardinality(S), \E x \in S : Rank(R, S, x) = i - 1
        PROVE  sorted[i] \in S /\ Rank(R, S, sorted[i]) = i - 1
    <3>1. \E x \in S : Cardinality({y \in S : y < x}) = i - 1
      BY <2>2, <2>4
    <3>2. e(i) \in S /\ Cardinality({y \in S : y < e(i)}) = i - 1
      BY <3>1
    <3>3. sorted[i] = e(i)
      BY <2>3
    <3> HIDE DEF e
    <3> QED
      BY <2>2, <3>2, <3>3
  <2> HIDE DEF e
  <2> QED
    BY <2>3, <2>4
<1>7. \A x, y : <<x, y>> \in R => x < y
  OBVIOUS
<1> HIDE DEF R, sorted
<1>8. /\ Len(sorted) \in Nat /\ sorted \in [1..Len(sorted) -> S]
      /\ \A m, n \in 1..Len(sorted) : m < n => sorted[m] < sorted[n]
      /\ \A x \in S : \E n \in 1..Len(sorted) : sorted[n] = x
  <2>1. IsInOrder(R, S, sorted)
    BY <1>1, <1>5, <1>6 DEF IsInOrder
  <2>2. /\ Len(sorted) \in Nat /\ sorted \in [1..Len(sorted) -> S]
        /\ \A x \in S : \E n \in 1..Len(sorted) : sorted[n] = x
        /\ \A m, n \in 1..Len(sorted) : m < n => <<sorted[m], sorted[n]>> \in R
    BY <2>1, InOrderIs
  <2> QED
    BY <1>7, <2>2
<1>9. Len(s) = Len(sorted) /\ DOMAIN s = 1..Len(s)
  <2> HIDE DEF s
  <2> QED
    BY <1>2, <1>8
<1>10. ASSUME NEW n \in 1..Len(s)
      PROVE  s[n].start \in lo..(hi - 1) /\ s[n].len \in Nat /\ End(s[n]) \in s[n].start..hi
  <2> DEFINE i == sorted[n]
  <2>1. n \in 1..Len(sorted)
    BY <1>9
  <2>2. i \in lo..(hi - 1)
    BY <1>1, <1>8, <2>1
  <2>3. StopOf(i) \in i..hi
    BY <1>3, <2>2
  <2>4. s[n] = [start |-> i, len |-> StopOf(i) - i]
    BY <1>2, <2>1
  <2> HIDE DEF i, s
  <2>5. s[n].start = i /\ s[n].len = StopOf(i) - i
    BY <2>4
  <2> QED
    BY <2>2, <2>3, <2>5 DEF End
<1>11. ASSUME NEW m \in 1..Len(s), NEW n \in 1..Len(s), m < n PROVE End(s[m]) < s[n].start
  <2> DEFINE i == sorted[m]
             j == sorted[n]
             e == StopOf(i)
  <2>1. m \in 1..Len(sorted) /\ n \in 1..Len(sorted)
    BY <1>9
  <2>2. i \in S /\ j \in S /\ i < j
    BY <1>8, <1>11, <2>1
  <2>3. i \in lo..(hi - 1) /\ j \in lo..(hi - 1)
    BY <1>1, <2>2
  <2>4. e \in i..hi /\ i..(e - 1) \cap delims = {}
    BY <1>3, <2>3
  <2>5. s[m] = [start |-> i, len |-> e - i] /\ s[n] = [start |-> j, len |-> StopOf(j) - j]
    BY <1>2, <2>1
  <2> HIDE DEF i, j, e, s
  <2>6. End(s[m]) = e /\ s[n].start = j
    <3>1. s[m].start = i /\ s[m].len = e - i /\ s[n].start = j
      BY <2>5
    <3> QED
      BY <2>3, <2>4, <3>1 DEF End
  <2>7. j - 1 \in delims
    <3>1. j # lo
      BY <2>2, <2>3
    <3> QED
      BY <1>4, <2>2, <3>1
  <2>8. ~(j - 1 \in i..(e - 1))
    BY <2>4, <2>7
  <2> QED
    BY <2>2, <2>3, <2>4, <2>6, <2>8
<1>14. ASSUME NEW n \in 1..Len(s)
       PROVE  /\ s[n].start..(End(s[n]) - 1) \cap delims = {}
              /\ s[n].start < End(s[n])
              /\ s[n].start = lo \/ s[n].start - 1 \in delims
              /\ End(s[n]) = hi \/ End(s[n]) \in delims
              /\ s[n].start = sorted[n] /\ End(s[n]) = StopOf(sorted[n])
  <2> DEFINE i == sorted[n]
             e == StopOf(i)
  <2>1. n \in 1..Len(sorted)
    BY <1>9
  <2>2. i \in S /\ i \in lo..(hi - 1)
    BY <1>1, <1>8, <2>1
  <2>3. e \in i..hi /\ i..(e - 1) \cap delims = {} /\ (e = hi \/ e \in delims)
    BY <1>3, <2>2
  <2>4. s[n] = [start |-> i, len |-> e - i]
    BY <1>2, <2>1
  <2>5. i \notin delims /\ (i = lo \/ i - 1 \in delims)
    BY <1>4, <2>2
  <2> HIDE DEF i, e, s
  <2>6. s[n].start = i /\ s[n].len = e - i
    BY <2>4
  <2>7. End(s[n]) = e
    BY <2>2, <2>3, <2>6 DEF End
  <2>8. e # i
    BY <2>2, <2>3, <2>5
  <2>9. i < e
    BY <2>2, <2>3, <2>8
  <2> QED
    BY <2>3, <2>5, <2>6, <2>7, <2>9 DEF i, e
<1>15. ASSUME NEW x \in lo..(hi - 1), x \notin delims
       PROVE  \E n \in 1..Len(s) : s[n].start <= x /\ x < End(s[n])
  <2>1. PICK i \in S : i <= x /\ i..x \cap delims = {}
    BY <1>13, <1>15
  <2>2. PICK n \in 1..Len(sorted) : sorted[n] = i
    BY <1>8
  <2>3. n \in 1..Len(s) /\ s[n].start = i /\ End(s[n]) = StopOf(i)
    BY <1>9, <1>14, <2>2
  <2>4. i \in lo..(hi - 1)
    BY <1>1
  <2> DEFINE e == StopOf(i)
  <2>5. e \in i..hi /\ (e = hi \/ e \in delims)
    BY <1>3, <2>4
  <2> HIDE DEF e
  <2>6. ~(e \in i..x)
    BY <1>15, <2>1, <2>4, <2>5
  <2>7. x < e
    BY <2>4, <2>5, <2>6
  <2> HIDE DEF s
  <2> QED
    BY <2>1, <2>3, <2>7 DEF e
<1> HIDE DEF s
<1>12. /\ Len(s) \in Nat /\ DOMAIN s = 1..Len(s)
       /\ \A n \in 1..Len(s) : s[n].start \in lo..(hi - 1) /\ s[n].len \in Nat /\ End(s[n]) \in s[n].start..hi
       /\ \A m, n \in 1..Len(s) : m < n => End(s[m]) < s[n].start
       /\ \A n \in 1..Len(s) : /\ s[n].start..(End(s[n]) - 1) \cap delims = {}
                               /\ s[n].start < End(s[n])
                               /\ s[n].start = lo \/ s[n].start - 1 \in delims
                               /\ End(s[n]) = hi \/ End(s[n]) \in delims
       /\ \A x \in lo..(hi - 1) :
            x \in delims \/ \E n \in 1..Len(s) : s[n].start <= x /\ x < End(s[n])
  BY <1>8, <1>9, <1>10, <1>11, <1>14, <1>15
<1> QED
  BY <1>12 DEF s

\* The segments of a pattern and their literals.
LEMMA SegmentsAre ==
  ASSUME NEW p \in Seq(Byte), NEW esc
  PROVE  LET segs == Segments(p, esc)
         IN  /\ Len(segs) \in Nat /\ DOMAIN segs = 1..Len(segs)
             /\ \A n \in 1..Len(segs) :
                  LET lits == Literals(p, esc, segs[n])
                  IN  /\ segs[n].start \in Nat /\ segs[n].len \in Nat
                      /\ End(segs[n]) \in segs[n].start..Len(p)
                      /\ Len(lits) \in Nat /\ DOMAIN lits = 1..Len(lits)
                      /\ \A i \in 1..Len(lits) :
                           /\ lits[i].start \in segs[n].start..(End(segs[n]) - 1)
                           /\ lits[i].len \in Nat /\ End(lits[i]) \in lits[i].start..End(segs[n])
                      /\ \A i, j \in 1..Len(lits) : i < j => End(lits[i]) < lits[j].start
<1>1. Len(p) \in Nat
  OBVIOUS
<1> DEFINE segs == Segments(p, esc)
           D == {i \in 0..(Len(p) - 1) : IsSegmentDelim(p, esc, i)}
<1>2. /\ Len(segs) \in Nat /\ DOMAIN segs = 1..Len(segs)
      /\ \A n \in 1..Len(segs) : /\ segs[n].start \in 0..(Len(p) - 1) /\ segs[n].len \in Nat
                                 /\ End(segs[n]) \in segs[n].start..Len(p)
  <2>1. segs = Spans(0, Len(p), D)
    BY DEF Segments
  <2> HIDE DEF segs, D
  <2> QED
    BY <1>1, <2>1, SpansAre
<1> HIDE DEF segs
<1>3. ASSUME NEW n \in 1..Len(segs)
      PROVE  LET lits == Literals(p, esc, segs[n])
             IN  /\ Len(lits) \in Nat /\ DOMAIN lits = 1..Len(lits)
                 /\ \A i \in 1..Len(lits) :
                      /\ lits[i].start \in segs[n].start..(End(segs[n]) - 1)
                      /\ lits[i].len \in Nat /\ End(lits[i]) \in lits[i].start..End(segs[n])
                 /\ \A i, j \in 1..Len(lits) : i < j => End(lits[i]) < lits[j].start
  <2> DEFINE lits == Literals(p, esc, segs[n])
             lo == segs[n].start
             hi == End(segs[n])
             E == {i \in lo..(hi - 1) : IsLiteralDelim(p, esc, i)}
  <2>1. lo \in Nat /\ hi \in Nat
    BY <1>1, <1>2
  <2>2. lits = Spans(lo, hi, E)
    BY DEF Literals
  <2> HIDE DEF lits, lo, hi, E
  <2>3. /\ Len(lits) \in Nat /\ DOMAIN lits = 1..Len(lits)
        /\ \A i \in 1..Len(lits) : /\ lits[i].start \in lo..(hi - 1) /\ lits[i].len \in Nat
                                   /\ End(lits[i]) \in lits[i].start..hi
        /\ \A i, j \in 1..Len(lits) : i < j => End(lits[i]) < lits[j].start
    BY <2>1, <2>2, SpansAre
  <2> QED
    BY <2>3 DEF lits, lo, hi
<1>4. \A n \in 1..Len(segs) : segs[n].start \in Nat
  BY <1>1, <1>2
<1> QED
  BY <1>2, <1>3, <1>4 DEF segs

\* The escapes before a literal are counted.
LEMMA EscapesAre ==
  ASSUME NEW p, NEW esc, NEW seg, seg.start \in Int, NEW lit, lit.start \in Int
  PROVE  EscapesBefore(p, esc, seg, lit) \in Nat
<1> DEFINE I == seg.start..(lit.start - 1)
           X == {x \in I : /\ ~IsLiteralDelim(p, esc, x)
                           /\ IsEscaped(p, esc, x)
                           /\ IsEscapable(p, esc, x)}
<1>1. IsFiniteSet(I)
  <2>1. lit.start - 1 \in Int
    OBVIOUS
  <2> QED
    BY <2>1, FS_Interval
<1>2. X \in SUBSET I /\ EscapesBefore(p, esc, seg, lit) = Cardinality(X)
  BY DEF EscapesBefore
<1> HIDE DEF I, X
<1> QED
  BY <1>1, <1>2, FS_Subset, FS_CardinalityType

\* The literals of a pattern are finitely many, and start at whole numbers.
LEMMA LiteralsAre ==
  ASSUME NEW p \in Seq(Byte), NEW esc
  PROVE  /\ IsFiniteSet(PatternLiterals(p, esc))
         /\ \A lit \in PatternLiterals(p, esc) : lit.start_pos \in Int
<1> DEFINE segs == Segments(p, esc)
           lits(n) == Literals(p, esc, segs[n])
           Lit(seg, lit) == [keyword |-> StripEscapes(p, esc, lit),
                             start_pos |-> lit.start - EscapesBefore(p, esc, seg, lit)]
           Of(n) == {Lit(segs[n], lits(n)[i]) : i \in 1..Len(lits(n))}
<1>1. /\ Len(segs) \in Nat /\ DOMAIN segs = 1..Len(segs)
      /\ \A n \in 1..Len(segs) :
           /\ segs[n].start \in Nat
           /\ Len(lits(n)) \in Nat /\ DOMAIN lits(n) = 1..Len(lits(n))
           /\ \A i \in 1..Len(lits(n)) : lits(n)[i].start \in segs[n].start..(End(segs[n]) - 1)
  BY SegmentsAre
<1>2. PatternLiterals(p, esc) = UNION {Of(n) : n \in 1..Len(segs)}
  <2> DEFINE OfSegment(seg) == {Lit(seg, lit) : lit \in ToSet(Literals(p, esc, seg))}
  <2>1. PatternLiterals(p, esc) = UNION {OfSegment(seg) : seg \in ToSet(segs)}
    BY DEF PatternLiterals
  <2>2. ToSet(segs) = {segs[n] : n \in 1..Len(segs)}
    BY <1>1 DEF ToSet
  <2>3. \A n \in 1..Len(segs) : ToSet(lits(n)) = {lits(n)[i] : i \in 1..Len(lits(n))}
    BY <1>1 DEF ToSet
  <2> HIDE DEF segs, Lit
  <2>4. \A n \in 1..Len(segs) : OfSegment(segs[n]) = Of(n)
    BY <2>3
  <2> HIDE DEF OfSegment, Of
  <2> QED
    BY <2>1, <2>2, <2>4
<1> HIDE DEF segs, lits, Lit
<1>3. ASSUME NEW n \in 1..Len(segs) PROVE IsFiniteSet(Of(n))
  <2> DEFINE I == 1..Len(lits(n))
             f == [i \in I |-> Lit(segs[n], lits(n)[i])]
  <2>1. IsFiniteSet(I)
    BY <1>1, FS_Interval
  <2>2. Of(n) = {f[i] : i \in I}
    OBVIOUS
  <2> HIDE DEF I, f
  <2> QED
    BY <2>1, <2>2, FiniteImage
<1>4. ASSUME NEW n \in 1..Len(segs), NEW lit \in Of(n) PROVE lit.start_pos \in Int
  <2>1. PICK i \in 1..Len(lits(n)) : lit = Lit(segs[n], lits(n)[i])
    OBVIOUS
  <2> DEFINE l == lits(n)[i]
  <2>2. segs[n].start \in Int /\ l.start \in Int
    BY <1>1
  <2>3. EscapesBefore(p, esc, segs[n], l) \in Nat
    BY <2>2, EscapesAre
  <2>4. lit.start_pos = l.start - EscapesBefore(p, esc, segs[n], l)
    BY <2>1 DEF Lit
  <2> HIDE DEF l
  <2> QED
    BY <2>2, <2>3, <2>4
<1> DEFINE All == {Of(n) : n \in 1..Len(segs)}
<1>5. IsFiniteSet(All) /\ \A T \in All : IsFiniteSet(T)
  <2> DEFINE I == 1..Len(segs)
             f == [n \in I |-> Of(n)]
  <2>1. IsFiniteSet(I)
    BY <1>1, FS_Interval
  <2>2. All = {f[n] : n \in I}
    OBVIOUS
  <2>3. \A T \in All : IsFiniteSet(T)
    BY <1>3
  <2> HIDE DEF I, f, All
  <2>4. IsFiniteSet(All)
    BY <2>1, <2>2, FiniteImage
  <2> QED
    BY <2>3, <2>4
<1>6. IsFiniteSet(UNION All)
  <2> HIDE DEF All
  <2> QED
    BY <1>5, FS_UNION
<1> QED
  BY <1>2, <1>4, <1>6

\* The automaton that is compiled is that of the literals.
LEMMA CompileIsOk ==
  ASSUME NEW patterns \in Seq(Seq(Byte)), NEW escape,
         \A p \in DOMAIN patterns : \A lit \in PatternLiterals(patterns[p], escape) :
           lit.keyword # << >> /\ ValidText(lit.keyword)
  PROVE  BuildOk(Compile(patterns, escape))
<1> DEFINE b == Compile(patterns, escape)
           L(p) == PatternLiterals(patterns[p], escape)
           With(p, lit) == [keyword |-> lit.keyword, pattern_id |-> p, start_pos |-> lit.start_pos]
           Of(p) == {With(p, lit) : lit \in L(p)}
           I == 1..Len(patterns)
           All == {Of(p) : p \in I}
<1>1. Len(patterns) \in Nat /\ DOMAIN patterns = I /\ IsFiniteSet(I)
  BY FS_Interval
<1>2. /\ b.literals = UNION All
      /\ b.trie = TrieOf({lit.keyword : lit \in b.literals})
      /\ b.suffixLink = SuffixLinksOf(b.trie) /\ b.outputLink = OutputLinksOf(b.trie)
  BY <1>1 DEF Compile
<1> HIDE DEF b
<1>3. ASSUME NEW p \in I
      PROVE  /\ IsFiniteSet(L(p))
             /\ \A lit \in L(p) : lit.start_pos \in Int /\ lit.keyword # << >> /\ ValidText(lit.keyword)
  <2>1. patterns[p] \in Seq(Byte)
    BY <1>1
  <2> QED
    BY <1>1, <2>1, LiteralsAre
<1> HIDE DEF L
<1>4. ASSUME NEW p \in I, NEW lit \in Of(p) PROVE IsLiteral(lit)
  <2>1. PICK l \in L(p) : lit = With(p, l)
    OBVIOUS
  <2>2. p \in Int
    BY <1>1
  <2> QED
    BY <1>3, <2>1, <2>2 DEF IsLiteral
<1>5. ASSUME NEW p \in I PROVE IsFiniteSet(Of(p))
  <2> DEFINE S == L(p)
             f == [lit \in S |-> With(p, lit)]
             T == {f[lit] : lit \in S}
  <2>1. Of(p) = T
    OBVIOUS
  <2>2. IsFiniteSet(S)
    BY <1>3
  <2>3. IsFiniteSet(T)
    <3> HIDE DEF S, f
    <3> QED
      BY <2>2, FiniteImage
  <2> QED
    BY <2>1, <2>3
<1>6. IsFiniteSet(All)
  <2> DEFINE f == [p \in I |-> Of(p)]
  <2>1. All = {f[p] : p \in I}
    OBVIOUS
  <2> HIDE DEF f, I, All
  <2> QED
    BY <1>1, <2>1, FiniteImage
<1>7. IsFiniteSet(b.literals)
  <2>1. \A T \in All : IsFiniteSet(T)
    BY <1>5
  <2> HIDE DEF All
  <2> QED
    BY <1>2, <1>6, <2>1, FS_UNION
<1>8. \A lit \in b.literals : IsLiteral(lit)
  BY <1>2, <1>4
<1>9. BuildOk(b)
  BY <1>2, <1>7, <1>8 DEF BuildOk
<1> QED
  BY <1>9 DEF b

-----------------------------------------------------------------------------
(* The walk over a row. *)

\* The automaton is at the longest node that what was read of the row ends with.
ReadInv ==
  /\ BuildOk(build)
  /\ texts \in Seq(Seq(Byte)) /\ \A t \in DOMAIN texts : ValidText(texts[t])
  /\ text_offset \in CodePointStarts(text)
  /\ IsLongestNode(build.trie, SubSeq(text, 1, text_offset), ptr)

\* Before anything is read, the root is that node.
LEMMA NothingRead ==
  ASSUME NEW b, BuildOk(b), NEW s \in Seq(Byte)
  PROVE  /\ ValidText(<< >>) /\ 0 \in CodePointStarts(s)
         /\ IsLongestNode(b.trie, SubSeq(s, 1, 0), Root)
<1> DEFINE K == {lit.keyword : lit \in b.literals}
<1>1. AreKeywords(K) /\ b.trie = TrieOf(K)
  BY DEF BuildOk, IsLiteral, ValidText, AreKeywords
<1>2. /\ LinkNodesOf(b.trie) = {n \in b.trie.nodes : WholeCodePoints(n)} /\ Root \in b.trie.nodes
  <2> HIDE DEF K
  <2> QED
    BY <1>1, TrieNodes
<1>3. SubSeq(s, 1, 0) = Root
  <2>1. 0 \in 0..Len(s)
    OBVIOUS
  <2>2. SubSeq(s, 1, 0) \in Seq(Byte) /\ Len(SubSeq(s, 1, 0)) = 0
    BY <2>1, Cut
  <2> QED
    BY <2>2, EmptySeq DEF Root
<1>4. ProperSuffixes(Root) = {} /\ WholeCodePoints(Root)
  BY SuffixesOfRoot
<1>5. IsLongestNode(b.trie, Root, Root)
  <2>1. CodePointSuffixes(Root) = {Root} /\ Root \in LinkNodesOf(b.trie)
    BY <1>2, <1>4 DEF CodePointSuffixes
  <2>2. Len(Root) <= Len(Root)
    BY DEF Root
  <2> QED
    BY <2>1, <2>2 DEF IsLongestNode
<1>6. ValidText(<< >>)
  <2>1. << >> \in Seq(Byte) /\ Len(<< >>) = 0
    OBVIOUS
  <2>2. \A x \in 0..(Len(<< >>) - 1) : FALSE
    BY <2>1
  <2> QED
    BY <1>4, <2>1, <2>2 DEF ValidText, Root
<1>7. 0 \in CodePointStarts(s)
  BY StartsAre
<1> QED
  BY <1>3, <1>5, <1>6, <1>7

\* It is so before the first row.
LEMMA ReadInit ==
  ASSUME Init
  PROVE  ReadInv
<1>1. PICK inputs \in Inputs : \E input \in inputs :
        build = Compile(input.patterns, input.escape) /\ texts = input.texts
  BY DEF Init
<1>2. PICK input \in inputs : build = Compile(input.patterns, input.escape) /\ texts = input.texts
  BY <1>1
<1>3. BuildOk(build)
  BY <1>2, CompileIsOk, InputsAssumption
<1>4. texts \in Seq(Seq(Byte)) /\ \A t \in DOMAIN texts : ValidText(texts[t])
  BY <1>2, InputsAssumption
<1>5. text = << >> /\ text_offset = 0 /\ ptr = Root
  BY DEF Init, text
<1>6. << >> \in Seq(Byte)
  OBVIOUS
<1> QED
  BY <1>3, <1>4, <1>5, <1>6, NothingRead DEF ReadInv

\* One code point more.
LEMMA ReadStep ==
  ASSUME RowInv, ReadInv, ContinueParseText
  PROVE  LET read == SubSeq(text, 1, text_offset')
         IN  /\ text' = text /\ build' = build /\ texts' = texts
             /\ text_offset' \in CodePointStarts(text)
             /\ ValidText(read) /\ Len(read) = text_offset'
             /\ IsLongestNode(build.trie, read, ptr')
             /\ emit' = MatchesOf(ptr', text_offset') \o OutputMatches(ptr', text_offset')
<1> DEFINE o == text_offset
           end == NextOffset(text, o)
           c == SubSeq(text, o + 1, end)
           s == SubSeq(text, 1, o)
           read == SubSeq(text, 1, end)
<1>1. /\ o < Len(text) /\ text_offset' = end /\ ptr' = Transition(ptr, c)
      /\ emit' = MatchesOf(ptr', end) \o OutputMatches(ptr', end)
      /\ build' = build /\ texts' = texts /\ row' = row
  BY DEF ContinueParseText, buildVars
<1>2. ValidText(text) /\ text \in Seq(Byte) /\ WholeCodePoints(text) /\ Len(text) \in Nat
  <2>1. ValidText(text)
    <3>1. CASE row = 0
      <4>1. text = << >> /\ << >> \in Seq(Byte)
        BY <3>1 DEF text
      <4> QED
        BY <4>1, NothingRead DEF ReadInv
    <3>2. CASE row # 0
      <4>1. row \in DOMAIN texts /\ text = texts[row]
        BY <3>2 DEF RowInv, text
      <4> QED
        BY <4>1 DEF ReadInv
    <3> QED
      BY <3>1, <3>2
  <2> QED
    BY <2>1 DEF ValidText
<1>3. /\ o \in CodePointStarts(text) \ {Len(text)} /\ o \in 0..(Len(text) - 1)
      /\ end \in CodePointStarts(text) /\ end \in (o + 1)..Len(text)
  <2>1. o \in CodePointStarts(text) /\ CodePointStarts(text) \subseteq 0..Len(text)
    BY <1>2, StartsAre DEF ReadInv
  <2>2. o \in 0..(Len(text) - 1) /\ o # Len(text)
    BY <1>1, <1>2, <2>1
  <2>3. end \in CodePointStarts(text)
    BY <1>2, <2>1, <2>2, StartsAre
  <2>4. end \in (o + 1)..Len(text)
    BY <1>2, <2>2, NextOffsetMoves
  <2> QED
    BY <2>1, <2>2, <2>3, <2>4
<1>4. end = o + CodePointLength(text[o + 1])
  <2>1. o + CodePointLength(text[o + 1]) <= Len(text)
    BY <1>2, <1>3 DEF WholeCodePoints
  <2>2. text[o + 1] \in Byte
    <3>1. o + 1 \in 1..Len(text)
      BY <1>2, <1>3
    <3> QED
      BY <1>2, <3>1
  <2>3. CodePointLength(text[o + 1]) \in Nat
    BY <2>2, CodePointLengthPositive
  <2> QED
    BY <1>2, <1>3, <2>1, <2>2, <2>3 DEF NextOffset, CodePointLength, Byte
<1>5. ValidText(s) /\ ValidText(read) /\ Len(read) = end
  BY <1>2, <1>3, ValidPrefix DEF ReadInv
<1> HIDE DEF end
<1>6. IsCodePoint(c) /\ s \o c = read
  <2>1. /\ s \in Seq(Byte) /\ Len(s) = o /\ \A i \in 1..o : s[i] = text[i]
        /\ read \in Seq(Byte) /\ Len(read) = end /\ \A i \in 1..end : read[i] = text[i]
    <3>1. o \in 0..Len(text) /\ end \in 0..Len(text)
      BY <1>2, <1>3
    <3> HIDE DEF o
    <3> QED
      BY <1>2, <3>1, Cut
  <2>2. c \in Seq(Byte) /\ Len(c) = end - o /\ \A i \in 1..(end - o) : c[i] = text[o + i]
    <3>1. o + 1 \in 1..Len(text) /\ end \in 1..Len(text) /\ o + 1 <= end
      BY <1>2, <1>3
    <3>2. c = [i \in 1..(end - o) |-> text[o + i]]
      BY <1>2, <1>3 DEF SubSeq
    <3>3. \A i \in 1..(end - o) : text[o + i] \in Byte
      BY <1>2, <1>3
    <3> HIDE DEF c
    <3>4. c \in [1..(end - o) -> Byte] /\ end - o \in Nat
      BY <1>2, <1>3, <3>2, <3>3
    <3> QED
      BY <3>2, <3>4
  <2> HIDE DEF s, c, read
  <2>3. IsCodePoint(c)
    <3>1. 1 \in 1..(end - o) /\ Len(c) # 0
      BY <1>2, <1>3, <2>2
    <3>2. c[1] = text[o + 1] /\ c # << >>
      BY <2>2, <3>1
    <3>3. Len(c) = CodePointLength(c[1])
      <4>1. text[o + 1] \in Byte
        BY <1>2, <1>3
      <4>2. CodePointLength(text[o + 1]) \in Nat
        BY <4>1, CodePointLengthPositive
      <4> QED
        BY <1>2, <1>3, <1>4, <2>2, <3>2, <4>2
    <3> QED
      BY <2>2, <3>2, <3>3 DEF IsCodePoint
  <2>4. s \o c = read
    <3> DEFINE j == s \o c
    <3>1. j \in Seq(Byte) /\ Len(j) = end
      BY <1>2, <1>3, <2>1, <2>2
    <3>2. ASSUME NEW i \in 1..end PROVE j[i] = read[i]
      <4>1. CASE i <= o
        <5>1. j[i] = s[i] /\ i \in 1..o
          BY <1>2, <1>3, <2>1, <2>2, <4>1
        <5> QED
          BY <2>1, <5>1
      <4>2. CASE ~(i <= o)
        <5>1. j[i] = c[i - o] /\ i - o \in 1..(end - o) /\ o + (i - o) = i
          BY <1>2, <1>3, <2>1, <2>2, <4>2
        <5> QED
          BY <2>1, <2>2, <5>1
      <4> QED
        BY <4>1, <4>2
    <3> HIDE DEF j
    <3>3. j = read
      BY <2>1, <3>1, <3>2, SeqEqual
    <3> QED
      BY <3>3 DEF j
  <2> QED
    BY <2>3, <2>4
<1>7. IsLongestNode(build.trie, read, ptr')
  <2>1. /\ AreKeywords(Keywords) /\ build.trie = TrieOf(Keywords)
        /\ IsLongestNode(build.trie, s, ptr) /\ s \in Seq(Byte) /\ WholeCodePoints(s)
        /\ c \in Seq(Byte) /\ ptr \in LinkNodesOf(build.trie)
    BY <1>5, <1>6, KeywordsAre DEF ReadInv, IsLongestNode, ValidText, IsCodePoint
  <2>2. /\ LinksRight(build.trie, build.suffixLink) /\ Linked(build.suffixLink, ptr)
    BY <2>1, FinishedLinks DEF ReadInv, BuildOk
  <2>3. Transition(ptr, c) = Best(build.trie, ptr, c)
    <3> HIDE DEF c
    <3> QED
      BY <2>1, <2>2, ClimbFindsBest DEF Transition
  <2> HIDE DEF c, s, read
  <2>4. IsLongestNode(build.trie, s \o c, Best(build.trie, ptr, c))
    BY <1>6, <2>1, ReadKeepsLongest
  <2> QED
    BY <1>1, <1>6, <2>3, <2>4
<1>8. text' = text
  BY <1>1 DEF text
<1> QED
  BY <1>1, <1>3, <1>5, <1>7, <1>8

\* At the longest node of what was read, all that ends here is emitted, each once.
LEMMA EmittedAre ==
  ASSUME BuildOk(build), NEW read, ValidText(read), NEW n, IsLongestNode(build.trie, read, n),
         NEW end
  PROVE  AreMatches(MatchesOf(n, end) \o OutputMatches(n, end),
                    {lit \in build.literals : IsSuffix(lit.keyword, read)}, end)
<1>1. /\ AreKeywords(Keywords) /\ build.trie = TrieOf(Keywords)
      /\ Keywords \subseteq build.trie.nodes
      /\ \A lit \in build.literals : lit.keyword \in Keywords
      /\ \A k \in Keywords : ValidText(k) /\ k # << >>
  BY KeywordsAre, TrieNodes
<1>2. /\ read \in Seq(Byte) /\ WholeCodePoints(read)
      /\ n \in LinkNodesOf(build.trie) /\ n \in CodePointSuffixes(read)
      /\ \A t \in CodePointSuffixes(read) \cap build.trie.nodes : Len(t) <= Len(n)
  BY DEF IsLongestNode, ValidText
<1>3. /\ n \in Seq(Byte) /\ WholeCodePoints(n)
      /\ CodePointSuffixes(n) \subseteq CodePointSuffixes(read)
      /\ \A t \in CodePointSuffixes(read) : Len(t) <= Len(n) => t \in CodePointSuffixes(n)
  BY <1>2, SuffixesNest
<1>4. ASSUME NEW lit \in build.literals
      PROVE  IsSuffix(lit.keyword, read) <=> lit.keyword \in CodePointSuffixes(n)
  <2>1. /\ lit.keyword \in build.trie.nodes /\ ValidText(lit.keyword) /\ lit.keyword # << >>
    BY <1>1
  <2>2. IsSuffix(lit.keyword, read) <=> lit.keyword \in CodePointSuffixes(read)
    BY <2>1, EndingIs
  <2> QED
    BY <1>2, <1>3, <2>1, <2>2
<1>5. {lit \in build.literals : IsSuffix(lit.keyword, read)} = LiteralsOf(n) \cup EndsIn(n)
  BY <1>4 DEF LiteralsOf, EndsIn, CodePointSuffixes
<1>6. ASSUME NEW x \in LiteralsOf(n), NEW y \in EndsIn(n) PROVE MatchFor(x, end) # MatchFor(y, end)
  <2>1. x.keyword = n /\ y.keyword \in ProperSuffixes(n)
    BY DEF LiteralsOf, EndsIn
  <2>2. Len(y.keyword) < Len(n) /\ y.keyword \in Seq(Byte)
    BY <1>3, <2>1, SuffixType
  <2>3. Len(y.keyword) # Len(n)
    BY <1>3, <2>2
  <2>4. MatchFor(x, end).literal_len = Len(n) /\ MatchFor(y, end).literal_len = Len(y.keyword)
    BY <2>1 DEF MatchFor
  <2> QED
    BY <2>3, <2>4
<1>7. AreMatches(MatchesOf(n, end), LiteralsOf(n), end) /\ AreMatches(OutputMatches(n, end), EndsIn(n), end)
  BY <1>2, MatchesOfAre, OutputMatchesAre
<1> QED
  BY <1>5, <1>6, <1>7, Concatenated

\* A sequence of matches as a set.
LEMMA MatchesAsSet ==
  ASSUME NEW r, NEW L, NEW end, AreMatches(r, L, end)
  PROVE  ToSet(r) = {MatchFor(lit, end) : lit \in L} /\ Cardinality(ToSet(r)) = Len(r)
<1> DEFINE N == Len(r)
           T == ToSet(r)
           f == [i \in 1..N |-> r[i]]
<1>1. /\ N \in Nat /\ DOMAIN r = 1..N
      /\ \A i \in 1..N : \E lit \in L : r[i] = MatchFor(lit, end)
      /\ \A lit \in L : \E i \in 1..N : r[i] = MatchFor(lit, end)
      /\ \A i, j \in 1..N : r[i] = r[j] => i = j
  BY DEF AreMatches
<1> HIDE DEF N
<1>2. T = {f[i] : i \in 1..N} /\ T = {r[i] : i \in 1..N}
  BY <1>1 DEF ToSet
<1>3. T = {MatchFor(lit, end) : lit \in L}
  <2> HIDE DEF T, f
  <2> QED
    BY <1>1, <1>2
<1>4. IsFiniteSet(1..N) /\ Cardinality(1..N) = N
  BY <1>1, FS_Interval
<1>5. f \in Injection(1..N, T) /\ f \in Surjection(1..N, T)
  <2>1. /\ f \in [1..N -> T] /\ \A i, j \in 1..N : f[i] = f[j] => i = j
        /\ \A t \in T : \E i \in 1..N : f[i] = t
    <3> HIDE DEF T
    <3> QED
      BY <1>1, <1>2
  <2> HIDE DEF f, T
  <2> QED
    BY <2>1 DEF Injection, IsInjective, Surjection
<1>6. Cardinality(T) = N
  <2> HIDE DEF f, T
  <2> QED
    BY <1>4, <1>5, FS_Surjection
<1> QED
  BY <1>3, <1>6 DEF N

\* What ReadInv says is kept by every step, and a code point that is read emits
\* what ends behind it.
LEMMA ReadNext ==
  ASSUME RowInv, ReadInv, [Next]_vars
  PROVE  ReadInv' /\ [EmitWhatEndsHere]_vars
<1>1. CASE ContinueParseText
  <2> DEFINE read == SubSeq(text, 1, text_offset')
             L == {lit \in build.literals : IsSuffix(lit.keyword, read)}
  <2>1. /\ text' = text /\ build' = build /\ texts' = texts
        /\ text_offset' \in CodePointStarts(text)
        /\ ValidText(read) /\ Len(read) = text_offset'
        /\ IsLongestNode(build.trie, read, ptr')
        /\ emit' = MatchesOf(ptr', text_offset') \o OutputMatches(ptr', text_offset')
    BY <1>1, ReadStep
  <2>2. BuildOk(build)
    BY DEF ReadInv
  <2>3. AreMatches(emit', L, text_offset')
    <3> HIDE DEF read
    <3>1. AreMatches(MatchesOf(ptr', text_offset') \o OutputMatches(ptr', text_offset'), L, text_offset')
      BY <2>1, <2>2, EmittedAre
    <3> QED
      BY <2>1, <3>1
  <2>4. ToSet(emit') = {MatchFor(lit, text_offset') : lit \in L} /\ Cardinality(ToSet(emit')) = Len(emit')
    <3> HIDE DEF L
    <3> QED
      BY <2>3, MatchesAsSet
  <2>5. EmitWhatEndsHere
    BY <2>1, <2>4 DEF EmitWhatEndsHere, MatchFor
  <2>6. ReadInv'
    BY <2>1 DEF ReadInv
  <2> QED
    BY <2>5, <2>6
<1>2. CASE Drive
  <2>1. /\ row' = row + 1 /\ row < Len(texts) /\ text_offset' = 0 /\ ptr' = Root
        /\ build' = build /\ texts' = texts
    BY <1>2 DEF Drive, buildVars
  <2>2. text_offset \in Nat
    <3>1. Len(text) \in Nat
      BY TextType
    <3> QED
      BY <3>1 DEF RowInv
  <2>3. ~(text_offset' > text_offset)
    BY <2>1, <2>2
  <2>4. text' \in Seq(Byte)
    <3>1. text' = texts[row + 1] /\ row + 1 \in 1..Len(texts)
      BY <2>1 DEF text, RowInv
    <3> QED
      BY <3>1 DEF RowInv
  <2>5. 0 \in CodePointStarts(text') /\ IsLongestNode(build.trie, SubSeq(text', 1, 0), Root)
    BY <2>4, NothingRead DEF ReadInv
  <2>6. ReadInv'
    BY <2>1, <2>5 DEF ReadInv
  <2> QED
    BY <2>3, <2>6 DEF EmitWhatEndsHere
<1>3. CASE \/ UNCHANGED vars \/ SkipMatch \/ HandleMatch \/ ProcessDelayedMatching
  <2>1. /\ text_offset' = text_offset /\ row' = row /\ ptr' = ptr /\ build' = build /\ texts' = texts
    BY <1>3 DEF vars, SkipMatch, HandleMatch, ProcessDelayedMatching, buildVars, textVars
  <2>2. text' = text
    BY <2>1 DEF text
  <2>3. text_offset \in Nat
    <3>1. Len(text) \in Nat
      BY TextType
    <3> QED
      BY <3>1 DEF RowInv
  <2>4. ~(text_offset' > text_offset)
    BY <2>1, <2>3
  <2>5. ReadInv'
    BY <2>1, <2>2 DEF ReadInv
  <2> QED
    BY <2>4, <2>5 DEF EmitWhatEndsHere
<1> QED
  BY <1>1, <1>2, <1>3 DEF Next, Finished

\* Whatever the patterns and the row: each code point that is read emits exactly the
\* literals that end behind it, and none twice.
THEOREM EmitsExactly == Spec => EmitsWhatEndsHere
<1>1. Init => RowInv /\ ReadInv
  BY RowInit, ReadInit
<1>2. RowInv /\ ReadInv /\ [Next]_vars => RowInv' /\ ReadInv' /\ [EmitWhatEndsHere]_vars
  BY RowNext, ReadNext
<1> QED
  BY <1>1, <1>2, PTL DEF Spec, EmitsWhatEndsHere

-----------------------------------------------------------------------------
(* The skeleton and the matchers. *)

Segment ==
  [literal_offset : Seq(Nat), prefix_underscore_cnt : Nat, suffix_underscore_cnt : Nat,
   max_underscore_cnt : Nat, has_prefix_percent : BOOLEAN, has_suffix_percent : BOOLEAN]

\* A segment stays one when counts of it change.
LEMMA SegmentWith ==
  ASSUME NEW seg \in Segment, NEW v \in Nat
  PROVE  /\ [seg EXCEPT !.suffix_underscore_cnt = v] \in Segment
         /\ [seg EXCEPT !.max_underscore_cnt = v] \in Segment
         /\ [seg EXCEPT !.prefix_underscore_cnt = v, !.has_prefix_percent = TRUE] \in Segment
BY DEF Segment

\* The largest of numbers that have a bound.
LEMMA LargestIs ==
  ASSUME NEW S, S \subseteq Nat, S # {}, NEW bound \in Nat, \A x \in S : x <= bound
  PROVE  Largest(S) \in S /\ \A x \in S : x <= Largest(S)
<1>1. \E x \in S : \A y \in S : y <= x
  BY GreatestElement
<1> QED
  BY <1>1 DEF Largest

\* What the constructor makes of a segment.
LEMMA RawSegmentIs ==
  ASSUME NEW p \in Seq(Byte), NEW esc, NEW idx \in 1..Len(Segments(p, esc))
  PROVE  RawSegment(p, esc, idx) \in Segment
<1> DEFINE segs == Segments(p, esc)
           seg == segs[idx]
           lits == Literals(p, esc, seg)
           last == IF lits = << >> THEN seg.start ELSE End(Last(lits))
           gap(n) == lits[n].start - (IF n = 1 THEN seg.start ELSE End(lits[n - 1]))
           suffix == End(seg) - last
           Gaps == {gap(n) : n \in 1..Len(lits)} \cup {suffix}
           offsets == [n \in 1..Len(lits) |-> ToU16(lits[n].start - EscapesBefore(p, esc, seg, lits[n]))]
<1>1. /\ Len(segs) \in Nat /\ seg.start \in Nat /\ seg.len \in Nat /\ End(seg) \in seg.start..Len(p)
      /\ Len(lits) \in Nat /\ DOMAIN lits = 1..Len(lits)
      /\ \A i \in 1..Len(lits) : /\ lits[i].start \in seg.start..(End(seg) - 1)
                                 /\ End(lits[i]) \in lits[i].start..End(seg)
      /\ \A i, j \in 1..Len(lits) : i < j => End(lits[i]) < lits[j].start
  BY SegmentsAre
<1>2. Len(p) \in Nat
  OBVIOUS
<1>3. RawSegment(p, esc, idx) =
        [literal_offset        |-> offsets,
         prefix_underscore_cnt |-> IF lits = << >> THEN 0 ELSE gap(1),
         suffix_underscore_cnt |-> suffix,
         max_underscore_cnt    |-> Largest(Gaps),
         has_prefix_percent    |-> idx > 1 \/ seg.start > 0,
         has_suffix_percent    |-> idx < Len(segs) \/ Pos(p, esc) # Len(p)]
  BY DEF RawSegment
<1> HIDE DEF segs, seg, lits
<1>4. lits # << >> => Len(lits) \in Nat \ {0}
  <2>1. lits = [i \in 1..Len(lits) |-> lits[i]] => (Len(lits) = 0 => lits = << >>)
    BY <1>1
  <2>2. CASE Len(lits) = 0
    <3>1. DOMAIN lits = {}
      BY <1>1, <2>2
    <3> QED
      BY <1>1, <2>2
  <2> QED
    BY <1>1, <2>2
<1>5. suffix \in 0..Len(p)
  <2>1. last \in seg.start..End(seg)
    <3>1. CASE lits = << >>
      BY <1>1, <3>1
    <3>2. CASE lits # << >>
      <4>1. Len(lits) \in 1..Len(lits) /\ last = End(lits[Len(lits)])
        BY <1>1, <1>4, <3>2 DEF Last
      <4>2. /\ lits[Len(lits)].start \in seg.start..(End(seg) - 1)
            /\ End(lits[Len(lits)]) \in lits[Len(lits)].start..End(seg)
        BY <1>1, <4>1
      <4> HIDE DEF last
      <4> QED
        BY <1>1, <1>2, <4>1, <4>2
    <3> QED
      BY <3>1, <3>2
  <2> HIDE DEF last
  <2> QED
    BY <1>1, <1>2, <2>1
<1>6. ASSUME NEW n \in 1..Len(lits) PROVE gap(n) \in 0..Len(p)
  <2>1. lits[n].start \in seg.start..(End(seg) - 1)
    BY <1>1
  <2>2. CASE n = 1
    BY <1>1, <1>2, <2>1, <2>2
  <2>3. CASE n # 1
    <3>1. n - 1 \in 1..Len(lits) /\ n - 1 < n
      BY <1>1, <2>3
    <3>2. /\ End(lits[n - 1]) < lits[n].start
          /\ lits[n - 1].start \in seg.start..(End(seg) - 1)
          /\ End(lits[n - 1]) \in lits[n - 1].start..End(seg)
      BY <1>1, <3>1
    <3>3. /\ seg.start \in Nat /\ End(seg) \in seg.start..Len(p)
          /\ gap(n) = lits[n].start - End(lits[n - 1])
      BY <1>1, <2>3
    <3> DEFINE start == lits[n].start
               e == End(lits[n - 1])
               before == lits[n - 1].start
    <3>4. /\ start \in seg.start..(End(seg) - 1) /\ before \in seg.start..(End(seg) - 1)
          /\ e < start /\ e \in before..End(seg) /\ gap(n) = start - e
      BY <2>1, <3>2, <3>3
    <3> HIDE DEF gap, start, e, before
    <3> QED
      BY <1>2, <3>3, <3>4
  <2> QED
    BY <2>2, <2>3
<1>7. Largest(Gaps) \in Nat
  <2>1. Gaps \subseteq 0..Len(p) /\ suffix \in Gaps
    <3> HIDE DEF gap, suffix
    <3> QED
      BY <1>5, <1>6
  <2> HIDE DEF Gaps
  <2>2. Gaps \subseteq Nat /\ Gaps # {} /\ \A x \in Gaps : x <= Len(p)
    BY <1>2, <2>1
  <2> QED
    BY <1>2, <2>2, LargestIs
<1>8. offsets \in Seq(Nat)
  <2>1. ASSUME NEW n \in 1..Len(lits)
        PROVE  ToU16(lits[n].start - EscapesBefore(p, esc, seg, lits[n])) \in Nat
    <3> DEFINE e == EscapesBefore(p, esc, seg, lits[n])
    <3>1. lits[n].start \in Int
      BY <1>1
    <3>2. e \in Nat
      BY <1>1, <3>1, EscapesAre
    <3> HIDE DEF e
    <3>3. ToU16(lits[n].start - e) \in Nat
      BY <3>1, <3>2, U16SizeAssumption DEF ToU16
    <3> QED
      BY <3>3 DEF e
  <2>2. offsets \in [1..Len(lits) -> Nat]
    BY <2>1
  <2> HIDE DEF offsets
  <2>3. Len(lits) \in Nat
    BY <1>1
  <2> QED
    BY <2>2, <2>3
<1>9. (IF lits = << >> THEN 0 ELSE gap(1)) \in Nat
  <2>1. CASE lits # << >>
    <3>1. 1 \in 1..Len(lits)
      BY <1>4, <2>1
    <3> HIDE DEF gap
    <3>2. gap(1) \in 0..Len(p)
      BY <1>6, <3>1
    <3> QED
      BY <1>2, <3>2
  <2> QED
    BY <2>1
<1>10. suffix \in Nat
  <2> HIDE DEF suffix
  <2> QED
    BY <1>2, <1>5
<1> HIDE DEF offsets, suffix, Gaps, gap
<1> QED
  BY <1>3, <1>7, <1>8, <1>9, <1>10 DEF Segment

\* Folding in one more segment keeps them segments, and at least one of them.
LEMMA FoldSegmentIs ==
  ASSUME NEW folded \in Seq(Segment), NEW seg \in Segment
  PROVE  FoldSegment(folded, seg) \in Seq(Segment) /\ FoldSegment(folded, seg) # << >>
<1>1. ASSUME NEW x \in Segment PROVE << x >> \in Seq(Segment) /\ << x >> # << >>
  BY <1>1
<1>2. CASE folded = << >>
  BY <1>1, <1>2 DEF FoldSegment
<1>3. CASE folded # << >> /\ ~HasLiteral(Last(folded))
  <2>1. Len(folded) \in 1..Len(folded) /\ Last(folded) \in Segment
    <3>1. Len(folded) \in Nat \ {0}
      BY <1>3, EmptySeq
    <3> QED
      BY <3>1 DEF Last
  <2> DEFINE l == Last(folded)
             new == [seg EXCEPT !.prefix_underscore_cnt = @ + Underscores(l),
                                !.has_prefix_percent = TRUE]
  <2>2. Underscores(l) \in Nat
    <3>1. \A x \in Segment : Underscores(x) \in Nat
      BY DEF Underscores, Segment
    <3> HIDE DEF l
    <3> QED
      BY <2>1, <3>1 DEF l
  <2>3. new \in Segment
    <3> DEFINE v == seg.prefix_underscore_cnt + Underscores(l)
    <3>1. v \in Nat
      <4> HIDE DEF l
      <4> QED
        BY <2>2 DEF Segment
    <3> HIDE DEF v
    <3>2. [seg EXCEPT !.prefix_underscore_cnt = v, !.has_prefix_percent = TRUE] \in Segment
      BY <3>1, SegmentWith
    <3> QED
      BY <3>2 DEF v
  <2>4. FoldSegment(folded, seg) = << new >>
    BY <1>3 DEF FoldSegment
  <2> HIDE DEF new
  <2> QED
    BY <1>1, <2>3, <2>4
<1>4. CASE folded # << >> /\ HasLiteral(Last(folded)) /\ ~HasLiteral(seg)
  <2> DEFINE N == Len(folded)
             new == [folded[N] EXCEPT !.suffix_underscore_cnt = @ + Underscores(seg)]
             all == [folded EXCEPT ![N] = new]
  <2>1. N \in 1..N /\ folded \in [1..N -> Segment] /\ folded[N] \in Segment /\ N \in Nat
    <3>1. Len(folded) \in Nat \ {0}
      BY <1>4, EmptySeq
    <3> QED
      BY <3>1
  <2>2. Underscores(seg) \in Nat
    BY DEF Underscores, Segment
  <2>3. FoldSegment(folded, seg) = all
    BY <1>4 DEF FoldSegment
  <2> HIDE DEF N
  <2>4. new \in Segment
    <3> DEFINE v == folded[N].suffix_underscore_cnt + Underscores(seg)
    <3>1. v \in Nat
      BY <2>1, <2>2 DEF Segment
    <3> HIDE DEF v
    <3>2. [folded[N] EXCEPT !.suffix_underscore_cnt = v] \in Segment
      BY <2>1, <3>1, SegmentWith
    <3> QED
      BY <3>2 DEF v
  <2> HIDE DEF new
  <2>5. all \in [1..N -> Segment]
    BY <2>1, <2>4
  <2> HIDE DEF all
  <2>6. all \in Seq(Segment) /\ Len(all) = N
    BY <2>1, <2>5
  <2> QED
    BY <2>1, <2>3, <2>6
<1>5. CASE folded # << >> /\ HasLiteral(Last(folded)) /\ HasLiteral(seg)
  <2>1. FoldSegment(folded, seg) = Append(folded, seg)
    BY <1>5 DEF FoldSegment
  <2>2. Append(folded, seg) \in Seq(Segment) /\ Len(Append(folded, seg)) = Len(folded) + 1
    OBVIOUS
  <2>3. Len(folded) + 1 # 0
    OBVIOUS
  <2> QED
    BY <2>1, <2>2, <2>3
<1> QED
  BY <1>2, <1>3, <1>4, <1>5

\* The fold over the segments is well defined: from the first of them on it has some.
FoldOf(segs, fold) ==
  fold = [n \in 0..Len(segs) |-> IF n = 0 THEN << >> ELSE FoldSegment(fold[n - 1], segs[n])]

\* Two segments that differ in the largest count alone.
SameButMost(seg1, seg2) ==
  /\ seg1.literal_offset = seg2.literal_offset
  /\ seg1.prefix_underscore_cnt = seg2.prefix_underscore_cnt
  /\ seg1.suffix_underscore_cnt = seg2.suffix_underscore_cnt
  /\ seg1.has_prefix_percent = seg2.has_prefix_percent
  /\ seg1.has_suffix_percent = seg2.has_suffix_percent

\* So folding a list of segments gives a list of segments, empty only when it was.
LEMMA FoldIs ==
  ASSUME NEW N \in Nat, NEW segs, segs \in [1..N -> Segment]
  PROVE  LET folded == FoldLiteralFreeSegments(segs)
         IN  /\ folded \in Seq(Segment) /\ (N > 0 => folded # << >>)
             /\ \E fold :
                  /\ \A n \in 0..N : fold[n] \in Seq(Segment)
                  /\ fold[0] = << >> /\ \A n \in 1..N : fold[n] = FoldSegment(fold[n - 1], segs[n])
                  /\ Len(folded) = Len(fold[N])
                  /\ \A n \in 1..Len(folded) : SameButMost(folded[n], fold[N][n])
<1> DEFINE S == Seq(Segment)
           base == << >>
           step == [n \in 1..N |-> [x \in S |-> FoldSegment(x, segs[n])]]
<1>1. Len(segs) = N /\ \A n \in 1..N : segs[n] \in Segment
  OBVIOUS
<1>2. step \in [1..N -> [S -> S]] /\ base \in S
  BY <1>1, FoldSegmentIs
<1>3. PICK f \in [0..N -> S] : f[0] = base /\ \A n \in 1..N : f[n] = step[n][f[n - 1]]
  <2> HIDE DEF S, step, base
  <2>1. \A st \in [1..N -> [S -> S]] :
          \E f \in [0..N -> S] : f[0] = base /\ \A i \in 1..N : f[i] = st[i][f[i - 1]]
    <3>1. base \in S
      BY <1>2
    <3> QED
      BY ONLY <3>1, Iteration
  <2> QED
    BY <1>2, <2>1
<1>4. ASSUME NEW n \in 1..N PROVE f[n] = FoldSegment(f[n - 1], segs[n])
  <2>1. n - 1 \in 0..N
    OBVIOUS
  <2>2. f[n - 1] \in S
    BY <2>1
  <2> QED
    BY <1>3, <2>2
<1>5. FoldOf(segs, f)
  <2>1. f = [n \in 0..N |-> f[n]]
    OBVIOUS
  <2>2. \A n \in 0..N : f[n] = IF n = 0 THEN << >> ELSE FoldSegment(f[n - 1], segs[n])
    <3>1. \A n \in 0..N : n = 0 \/ n \in 1..N
      OBVIOUS
    <3> QED
      BY <1>3, <1>4, <3>1
  <2>3. f = [n \in 0..N |-> IF n = 0 THEN << >> ELSE FoldSegment(f[n - 1], segs[n])]
    BY <2>1, <2>2
  <2> QED
    BY <1>1, <2>3 DEF FoldOf
<1>6. PICK fold : FoldOf(segs, fold) /\ fold = CHOOSE g : FoldOf(segs, g)
  BY <1>5
<1> DEFINE folded == fold[N]
           cnt(n) == Largest({folded[n].max_underscore_cnt, folded[n].prefix_underscore_cnt,
                              folded[n].suffix_underscore_cnt})
           all == [n \in 1..Len(folded) |-> [folded[n] EXCEPT !.max_underscore_cnt = cnt(n)]]
<1>7. FoldLiteralFreeSegments(segs) = all
  <2> DEFINE F == (CHOOSE g : FoldOf(segs, g))[Len(segs)]
  <2>1. FoldLiteralFreeSegments(segs) =
          [n \in 1..Len(F) |->
             [F[n] EXCEPT !.max_underscore_cnt =
                Largest({@, F[n].prefix_underscore_cnt, F[n].suffix_underscore_cnt})]]
    BY DEF FoldLiteralFreeSegments, FoldOf
  <2>2. F = folded
    BY <1>1, <1>6
  <2> HIDE DEF F, folded
  <2> QED
    BY <2>1, <2>2
<1>18. /\ \A n \in 0..N : fold[n] \in S /\ (n > 0 => fold[n] # << >>)
       /\ fold[0] = << >> /\ \A n \in 1..N : fold[n] = FoldSegment(fold[n - 1], segs[n])
  <2> DEFINE T == {n \in 0..N : fold[n] \in S /\ (n > 0 => fold[n] # << >>)}
  <2>1. fold[0] = << >> /\ \A n \in 1..N : fold[n] = FoldSegment(fold[n - 1], segs[n])
    BY <1>1, <1>6 DEF FoldOf
  <2>2. 0 \in T
    <3> HIDE DEF S
    <3> QED
      BY <1>2, <2>1
  <2>3. ASSUME NEW n \in 0..(N - 1), n \in T PROVE n + 1 \in T
    <3>1. n + 1 \in 1..N /\ (n + 1) - 1 = n /\ n + 1 \in 0..N
      OBVIOUS
    <3>2. fold[n + 1] = FoldSegment(fold[n], segs[n + 1])
      BY <2>1, <3>1
    <3>3. fold[n + 1] \in S /\ fold[n + 1] # << >>
      BY <1>1, <2>3, <3>1, <3>2, FoldSegmentIs
    <3> QED
      BY <3>1, <3>3
  <2>4. \A n \in 0..N : n \in T
    <3> HIDE DEF T
    <3> QED
      BY <2>2, <2>3, InductionUpTo
  <2>5. \A n \in 0..N : fold[n] \in S /\ (n > 0 => fold[n] # << >>)
    BY <2>4
  <2> QED
    BY <2>1, <2>5
<1>8. folded \in S /\ (N > 0 => folded # << >>)
  BY <1>18
<1> HIDE DEF folded
<1>9. Len(folded) \in Nat /\ \A n \in 1..Len(folded) : folded[n] \in Segment
  BY <1>8
<1>10. ASSUME NEW n \in 1..Len(folded)
       PROVE  [folded[n] EXCEPT !.max_underscore_cnt = cnt(n)] \in Segment
  <2> DEFINE a == folded[n].max_underscore_cnt
             b == folded[n].prefix_underscore_cnt
             c == folded[n].suffix_underscore_cnt
             C == {a, b, c}
  <2>1. a \in Nat /\ b \in Nat /\ c \in Nat
    BY <1>9 DEF Segment
  <2> HIDE DEF a, b, c
  <2>2. C \subseteq Nat /\ C # {} /\ a + b + c \in Nat /\ \A x \in C : x <= a + b + c
    BY <2>1
  <2>3. Largest(C) \in C
    <3> HIDE DEF C
    <3> QED
      BY <2>2, LargestIs
  <2>4. Largest(C) \in Nat
    BY <2>2, <2>3
  <2>5. cnt(n) = Largest(C)
    BY DEF a, b, c
  <2>6. folded[n] \in Segment
    BY <1>9
  <2> HIDE DEF C, cnt
  <2> QED
    BY <2>4, <2>5, <2>6, SegmentWith
<1>15. ASSUME NEW n \in 1..Len(folded)
       PROVE  SameButMost([folded[n] EXCEPT !.max_underscore_cnt = cnt(n)], folded[n])
  <2>1. folded[n] \in Segment
    BY <1>9
  <2> HIDE DEF cnt
  <2> QED
    BY <2>1 DEF Segment, SameButMost
<1> HIDE DEF cnt
<1>16. \A n \in 1..Len(folded) : SameButMost(all[n], folded[n])
  BY <1>15
<1>11. all \in [1..Len(folded) -> Segment]
  BY <1>10
<1>12. all \in Seq(Segment) /\ Len(all) = Len(folded)
  <2> DEFINE L == Len(folded)
  <2>1. L \in Nat /\ all \in [1..L -> Segment]
    BY <1>9, <1>11
  <2> HIDE DEF L, all
  <2>2. all \in Seq(Segment) /\ Len(all) = L
    BY ONLY <2>1
  <2> QED
    BY <2>2 DEF L
<1>13. N > 0 => Len(folded) # 0
  BY <1>8, EmptySeq DEF S
<1> HIDE DEF all
<1>14. N > 0 => all # << >>
  BY <1>12, <1>13
<1>17. /\ \A n \in 0..N : fold[n] \in Seq(Segment)
       /\ fold[0] = << >> /\ \A n \in 1..N : fold[n] = FoldSegment(fold[n - 1], segs[n])
       /\ Len(all) = Len(fold[N]) /\ \A n \in 1..Len(all) : SameButMost(all[n], fold[N][n])
  BY <1>12, <1>16, <1>18 DEF folded
<1> QED
  BY <1>7, <1>12, <1>14, <1>17

\* A pattern with a literal has a segment.
LEMMA SkeletonIs ==
  ASSUME NEW p \in Seq(Byte), NEW esc
  PROVE  /\ SkeletonOf(p, esc) \in Seq(Segment)
         /\ ~OnlyWildcard(p, esc) => SkeletonOf(p, esc) # << >>
<1> DEFINE N == Len(Segments(p, esc))
           segs == [idx \in 1..N |-> RawSegment(p, esc, idx)]
<1>1. N \in Nat /\ DOMAIN Segments(p, esc) = 1..N
  BY SegmentsAre
<1>2. segs \in [1..N -> Segment]
  BY RawSegmentIs
<1>3. SkeletonOf(p, esc) = FoldLiteralFreeSegments(segs)
  BY DEF SkeletonOf
<1>4. ~OnlyWildcard(p, esc) => N > 0
  <2>1. CASE N = 0
    <3>1. ToSet(Segments(p, esc)) = {}
      BY <1>1, <2>1 DEF ToSet
    <3>2. PatternLiterals(p, esc) = {}
      BY <3>1 DEF PatternLiterals
    <3> QED
      BY <3>2 DEF OnlyWildcard
  <2> QED
    BY <1>1, <2>1
<1> HIDE DEF N, segs
<1> QED
  BY <1>1, <1>2, <1>3, <1>4, FoldIs

\* The offsets the text may be advanced to.
LEMMA AdvanceIs ==
  ASSUME NEW s, Len(s) \in Nat, NEW from, from \in CodePointStarts(s), NEW count \in Nat
  PROVE  Utf8Advance(s, from, count) \in CodePointStarts(s) \cup {NoOffset}
<1> DEFINE S == CodePointStarts(s) \cup {NoOffset}
           Next1(o) == IF o = NoOffset \/ o >= Len(s) THEN NoOffset ELSE NextOffset(s, o)
           step == [n \in 1..count |-> [o \in S |-> Next1(o)]]
           Is(cur) == cur = [n \in 0..count |-> IF n = 0 THEN from ELSE Next1(cur[n - 1])]
<1>1. \A o \in S : Next1(o) \in S
  <2> SUFFICES ASSUME NEW o \in S PROVE Next1(o) \in S
    OBVIOUS
  <2>1. ASSUME o \in CodePointStarts(s), ~(o >= Len(s)) PROVE NextOffset(s, o) \in S
    BY <2>1, StartsAre
  <2> QED
    BY <2>1
<1> HIDE DEF Next1
<1>2. step \in [1..count -> [S -> S]] /\ from \in S
  BY <1>1
<1> HIDE DEF S
<1>3. PICK f \in [0..count -> S] : f[0] = from /\ \A n \in 1..count : f[n] = step[n][f[n - 1]]
  <2> HIDE DEF step
  <2>1. \A st \in [1..count -> [S -> S]] :
          \E f \in [0..count -> S] : f[0] = from /\ \A i \in 1..count : f[i] = st[i][f[i - 1]]
    <3>1. from \in S
      BY <1>2
    <3> QED
      BY ONLY <3>1, Iteration
  <2> QED
    BY <1>2, <2>1
<1>4. Is(f)
  <2>1. f = [n \in 0..count |-> f[n]]
    OBVIOUS
  <2>2. \A n \in 0..count : n = 0 \/ (n \in 1..count /\ n - 1 \in 0..count)
    OBVIOUS
  <2>3. \A n \in 0..count : f[n] = IF n = 0 THEN from ELSE Next1(f[n - 1])
    BY <1>3, <2>2
  <2> QED
    BY <2>1, <2>3
<1>5. PICK cur : Is(cur) /\ cur = CHOOSE g : Is(g)
  BY <1>4
<1>6. Utf8Advance(s, from, count) = cur[count]
  BY <1>5 DEF Utf8Advance, Next1
<1>7. cur[count] \in S
  <2> DEFINE T == {n \in 0..count : cur[n] \in S}
  <2>1. 0 \in T
    BY <1>2, <1>5
  <2>2. ASSUME NEW n \in 0..(count - 1), n \in T PROVE n + 1 \in T
    <3>1. n + 1 \in 0..count /\ n + 1 # 0 /\ (n + 1) - 1 = n
      OBVIOUS
    <3>2. cur[n + 1] = Next1(cur[n])
      BY <1>5, <3>1
    <3> QED
      BY <1>1, <2>2, <3>1, <3>2
  <2> HIDE DEF T
  <2>3. \A n \in 0..count : n \in T
    BY <2>1, <2>2, InductionUpTo
  <2> QED
    BY <2>3 DEF T
<1> QED
  BY <1>6, <1>7 DEF S

\* A cache with no more entries than it may have.
Caches ==
  {c \in [items : Seq([key : Int, value : Int]), max_size : Nat] : Len(c.items) <= c.max_size}

\* It stays one whatever is asked of it.
LEMMA CachesAre ==
  /\ \A n \in Nat : NewCache(n) \in Caches
  /\ \A c \in Caches : \A key : GetAndRemove(c, key) \in Caches
  /\ \A c \in Caches : \A key, value \in Int : Upsert(c, key, value) \in Caches
<1> DEFINE Entry == [key : Int, value : Int]
<1>1. ASSUME NEW n \in Nat PROVE NewCache(n) \in Caches
  BY DEF NewCache, Caches
<1>2. ASSUME NEW c \in Caches, NEW items \in Seq(Entry), Len(items) <= c.max_size
      PROVE  [c EXCEPT !.items = items] \in Caches
  BY <1>2 DEF Caches
<1>3. ASSUME NEW c \in Caches, NEW key
      PROVE  Without(c, key) \in Caches /\ Without(c, key).max_size = c.max_size
  <2>1. CASE Contain(c, key)
    <3> DEFINE i == PositionOf(c, key)
               items == c.items
               rest == RemoveAt(items, i)
    <3>1. items \in Seq(Entry) /\ Len(items) \in Nat /\ c.max_size \in Nat /\ Len(items) <= c.max_size
      BY DEF Caches
    <3>2. i \in 1..Len(items)
      BY <2>1 DEF Contain, CachedKeys, PositionOf
    <3> HIDE DEF i, items, Entry
    <3>3. rest \in Seq(Entry) /\ Len(rest) <= Len(items)
      <4> DEFINE a == SubSeq(items, 1, i - 1)
                 b == SubSeq(items, i + 1, Len(items))
      <4>1. a \in Seq(Entry) /\ Len(a) = i - 1
        BY <3>1, <3>2, SubSeqProperties
      <4>2. b \in Seq(Entry) /\ Len(b) = Len(items) - i
        BY <3>1, <3>2, SubSeqProperties
      <4> HIDE DEF a, b
      <4>3. a \o b \in Seq(Entry) /\ Len(a \o b) = Len(a) + Len(b)
        BY <4>1, <4>2, ConcatProperties
      <4>4. rest = a \o b
        BY DEF RemoveAt, a, b
      <4> HIDE DEF rest
      <4> QED
        BY <3>1, <3>2, <4>1, <4>2, <4>3, <4>4
    <3> HIDE DEF rest
    <3>4. Len(rest) <= c.max_size
      BY <3>1, <3>3
    <3>5. Without(c, key) = [c EXCEPT !.items = rest]
      BY <2>1 DEF Without, rest, i, items
    <3>6. [c EXCEPT !.items = rest] \in Caches
      BY <1>2, <3>3, <3>4
    <3>7. [c EXCEPT !.items = rest].max_size = c.max_size
      BY DEF Caches
    <3> QED
      BY <3>5, <3>6, <3>7
  <2>2. CASE ~Contain(c, key)
    BY <2>2 DEF Without
  <2> QED
    BY <2>1, <2>2
<1>4. ASSUME NEW c \in Caches, NEW key \in Int, NEW value \in Int PROVE Upsert(c, key, value) \in Caches
  <2> DEFINE old == Without(c, key).items
             e == [key |-> key, value |-> value]
             items == << e >> \o old
             new == IF Len(items) > c.max_size THEN Front(items) ELSE items
  <2>1. old \in Seq(Entry) /\ Len(old) \in Nat /\ c.max_size \in Nat /\ Len(old) <= c.max_size
    BY <1>3 DEF Caches
  <2>2. << e >> \in Seq(Entry) /\ Len(<< e >>) = 1
    OBVIOUS
  <2>3. Upsert(c, key, value) = [c EXCEPT !.items = new]
    BY DEF Upsert
  <2> HIDE DEF old, e, Entry
  <2>4. items \in Seq(Entry) /\ Len(items) = 1 + Len(old)
    BY <2>1, <2>2, ConcatProperties
  <2> HIDE DEF items
  <2>5. Front(items) \in Seq(Entry) /\ Len(Front(items)) = Len(old)
    <3>1. Len(items) \in Nat \ {0} /\ Len(items) - 1 = Len(old)
      BY <2>1, <2>4
    <3> QED
      BY <2>4, <3>1 DEF Front
  <2>6. new \in Seq(Entry) /\ Len(new) <= c.max_size
    BY <2>1, <2>4, <2>5
  <2> HIDE DEF new
  <2>7. [c EXCEPT !.items = new] \in Caches
    BY <1>2, <2>6
  <2> QED
    BY <2>3, <2>7
<1> QED
  BY <1>1, <1>3, <1>4 DEF GetAndRemove

\* How many alignments a matcher may keep is a number.
LEMMA CapIs ==
  ASSUME NEW seg \in Segment
  PROVE  LruCapForSegment(seg) \in Nat
<1> DEFINE o == seg.literal_offset
           m == seg.max_underscore_cnt
           S == {m + 1} \cup {o[n] + 1 : n \in {Len(o)} \ {0}}
           last == IF Len(o) = 0 THEN 0 ELSE o[Len(o)]
<1>1. o \in Seq(Nat) /\ m \in Nat
  BY DEF Segment
<1> HIDE DEF o, m
<1>2. last \in Nat /\ S \subseteq {m + 1, last + 1} /\ m + 1 \in S
  BY <1>1
<1>3. LruCapForSegment(seg) = Largest(S)
  BY DEF LruCapForSegment, o, m
<1> HIDE DEF last, S
<1>4. S \subseteq Nat /\ S # {} /\ m + last + 1 \in Nat /\ \A x \in S : x <= m + last + 1
  BY <1>1, <1>2
<1>5. Largest(S) \in S
  BY <1>4, LargestIs
<1> QED
  BY <1>3, <1>4, <1>5

\* What of the build side the matchers rely on.
SkeletonOk(b) ==
  /\ \A p \in DOMAIN b.patterns :
       b.skeleton[p] \in Seq(Segment) /\ (p \notin b.wildcard => b.skeleton[p] # << >>)
  /\ \A lit \in b.literals : lit.pattern_id \in DOMAIN b.patterns \ b.wildcard

\* Compiling gives every pattern that waits for a literal some segment, and every literal
\* to such a pattern.
LEMMA CompiledSkeleton ==
  ASSUME NEW patterns \in Seq(Seq(Byte)), NEW escape
  PROVE  SkeletonOk(Compile(patterns, escape))
<1> DEFINE b == Compile(patterns, escape)
           L(p) == PatternLiterals(patterns[p], escape)
<1>1. /\ b.patterns = patterns
      /\ b.skeleton = [p \in DOMAIN patterns |-> SkeletonOf(patterns[p], escape)]
      /\ b.wildcard = {p \in DOMAIN patterns : OnlyWildcard(patterns[p], escape)}
      /\ b.literals =
           UNION {{[keyword |-> lit.keyword, pattern_id |-> p, start_pos |-> lit.start_pos] :
                     lit \in L(p)} : p \in DOMAIN patterns}
  BY DEF Compile
<1> HIDE DEF b
<1>2. ASSUME NEW p \in DOMAIN b.patterns
      PROVE  b.skeleton[p] \in Seq(Segment) /\ (p \notin b.wildcard => b.skeleton[p] # << >>)
  <2>1. patterns[p] \in Seq(Byte) /\ p \in DOMAIN patterns
    BY <1>1
  <2> QED
    BY <1>1, <2>1, SkeletonIs
<1> HIDE DEF L
<1>3. ASSUME NEW lit \in b.literals PROVE lit.pattern_id \in DOMAIN b.patterns \ b.wildcard
  <2>1. PICK p \in DOMAIN patterns :
          lit \in {[keyword |-> l.keyword, pattern_id |-> p, start_pos |-> l.start_pos] : l \in L(p)}
    BY <1>1
  <2>2. lit.pattern_id = p /\ L(p) # {}
    BY <2>1
  <2>3. ~OnlyWildcard(patterns[p], escape)
    BY <2>2 DEF OnlyWildcard, L
  <2> QED
    BY <1>1, <2>2, <2>3
<1>4. SkeletonOk(b)
  BY <1>2, <1>3 DEF SkeletonOk
<1> QED
  BY <1>4 DEF b

\* The matches of a code point that are still to be handled are of literals that end
\* here; a scheduled one is not overdue; a matcher looks for a segment that exists.
EmitOk == emit \in Seq({MatchFor(lit, text_offset) : lit \in build.literals})

QueueOk ==
  \A item \in queue :
    /\ item.pattern_id \in PatternIds
    /\ item.next_pattern_pos \in Int /\ item.prev_pattern_pos \in Int
    /\ item.ready_cp_idx \in Int /\ item.ready_cp_idx >= codepoint_idx

MatcherOk(i) == i.min_text_start_pos \in CodePointStarts(text) /\ i.match \in Caches

MatchInv ==
  /\ SkeletonOk(build)
  /\ EmitOk
  /\ result \in [PatternIds -> BOOLEAN]
  /\ codepoint_idx \in 0..text_offset
  /\ dirty \subseteq PatternIds
  /\ QueueOk
  /\ \A p \in PatternIds : MatcherOk(instances[p])
  /\ SegmentExists

\* A new matcher may start a row.
LEMMA NewMatcherIs ==
  ASSUME SkeletonOk(build), NEW p \in PatternIds
  PROVE  /\ NewMatcher(build, p).min_text_start_pos = 0 /\ NewMatcher(build, p).match \in Caches
         /\ NewMatcher(build, p).segment_idx = 1
         /\ p \notin build.wildcard => 1 \in 1..Len(Skel(p))
<1> DEFINE n == IF p \in build.wildcard THEN 0 ELSE LruCapForSegment(build.skeleton[p][1])
<1>1. build.skeleton[p] \in Seq(Segment) /\ (p \notin build.wildcard => build.skeleton[p] # << >>)
  BY DEF SkeletonOk, PatternIds
<1>2. p \notin build.wildcard => 1 \in 1..Len(Skel(p))
  BY <1>1, EmptySeq DEF Skel
<1>3. n \in Nat
  <2>1. CASE p \in build.wildcard
    BY <2>1
  <2>2. CASE p \notin build.wildcard
    <3>1. build.skeleton[p][1] \in Segment
      BY <1>1, <1>2, <2>2 DEF Skel
    <3> QED
      BY <2>2, <3>1, CapIs
  <2> QED
    BY <2>1, <2>2
<1>4. NewMatcher(build, p) = [segment_idx |-> 1, min_text_start_pos |-> 0, match |-> NewCache(n)]
  BY DEF NewMatcher
<1> HIDE DEF n
<1> QED
  BY <1>2, <1>3, <1>4, CachesAre

\* All of that holds before the first row.
LEMMA MatchInit ==
  ASSUME Init
  PROVE  MatchInv
<1>1. PICK inputs \in Inputs : \E input \in inputs :
        build = Compile(input.patterns, input.escape) /\ texts = input.texts
  BY DEF Init
<1>2. PICK input \in inputs : build = Compile(input.patterns, input.escape)
  BY <1>1
<1>3. SkeletonOk(build)
  BY <1>2, CompiledSkeleton, InputsAssumption
<1>4. /\ text = << >> /\ text_offset = 0 /\ codepoint_idx = 0 /\ emit = << >> /\ queue = {} /\ dirty = {}
      /\ result = [p \in PatternIds |-> FALSE]
      /\ instances = [p \in PatternIds |-> NewMatcher(build, p)]
  BY DEF Init, text
<1>5. 0 \in CodePointStarts(text)
  <2>1. text \in Seq(Byte) /\ Len(text) \in Nat
    BY <1>4
  <2> QED
    BY <2>1, StartsAre
<1>6. \A p \in PatternIds : MatcherOk(instances[p])
  BY <1>3, <1>4, <1>5, NewMatcherIs DEF MatcherOk
<1>7. SegmentExists
  BY <1>3, <1>4, NewMatcherIs DEF SegmentExists
<1>8. EmitOk /\ QueueOk
  BY <1>4 DEF EmitOk, QueueOk
<1> QED
  BY <1>3, <1>4, <1>6, <1>7, <1>8 DEF MatchInv

\* A new row.
LEMMA MatchDrive ==
  ASSUME RowInv, MatchInv, Drive
  PROVE  MatchInv'
<1>1. /\ build' = build /\ texts' = texts /\ text_offset' = 0 /\ codepoint_idx' = 0 /\ queue' = {}
      /\ dirty' = {} /\ emit' = << >> /\ row' = row + 1 /\ row < Len(texts)
  BY DEF Drive, buildVars, Clear, CodePointDone
<1>2. PatternIds' = PatternIds /\ SkeletonOk(build) /\ \A p : Skel(p)' = Skel(p)
  BY <1>1 DEF PatternIds, MatchInv, Skel
<1>3. \A p \in PatternIds : instances'[p] = NewMatcher(build, p)
  BY DEF RowInv, Drive, ResetMatcher
<1>4. /\ result' \in [PatternIds -> BOOLEAN]
      /\ \A p \in PatternIds \ build.wildcard : result'[p] = FALSE
  BY DEF Drive
<1>5. 0 \in CodePointStarts(text')
  <2>1. text' = texts[row + 1] /\ row + 1 \in 1..Len(texts)
    BY <1>1 DEF text, RowInv
  <2>2. Len(text') \in Nat
    BY <2>1 DEF RowInv
  <2> QED
    BY <2>2, StartsAre
<1>6. \A p \in PatternIds : MatcherOk(instances[p])'
  BY <1>2, <1>3, <1>5, NewMatcherIs DEF MatcherOk
<1>7. SegmentExists'
  BY <1>1, <1>2, <1>3, <1>4, NewMatcherIs DEF SegmentExists
<1>8. EmitOk' /\ QueueOk'
  BY <1>1 DEF EmitOk, QueueOk
<1> QED
  BY <1>1, <1>2, <1>4, <1>6, <1>7, <1>8 DEF MatchInv

\* No scheduled match is ready when a code point is done.
LEMMA NoneIsReady ==
  ASSUME RowInv, MatchInv, CodePointDone
  PROVE  \A item \in queue : item.ready_cp_idx - (codepoint_idx + 1) \in Nat
<1>1. codepoint_idx \in Nat
  BY TextType DEF RowInv, MatchInv
<1>2. ASSUME NEW item \in queue PROVE item.ready_cp_idx >= codepoint_idx + 1
  <2> SUFFICES ASSUME item.ready_cp_idx <= codepoint_idx PROVE FALSE
    BY <1>1 DEF MatchInv, QueueOk
  <2> DEFINE R == {i.ready_cp_idx : i \in queue}
  <2>1. R \subseteq Nat /\ R # {}
    BY <1>1 DEF MatchInv, QueueOk
  <2>2. PICK r \in R : \A x \in R : r <= x
    <3> HIDE DEF R
    <3> QED
      BY <2>1, LeastElement
  <2>3. PICK first \in queue : r = first.ready_cp_idx
    BY <2>2
  <2>4. first \in Fronts
    BY <2>2, <2>3 DEF Fronts
  <2>5. first.ready_cp_idx <= codepoint_idx
    <3>1. item.ready_cp_idx \in R /\ r <= item.ready_cp_idx /\ r \in Nat /\ item.ready_cp_idx \in Nat
      BY <2>1, <2>2
    <3> QED
      BY <1>1, <2>3, <3>1
  <2>6. FrontReady
    BY <2>4, <2>5 DEF FrontReady, IsReady
  <2> QED
    BY <2>6 DEF CodePointDone
<1> QED
  BY <1>1, <1>2 DEF MatchInv, QueueOk

\* A code point is only read when no scheduled match is ready, so that none of them
\* is overdue afterwards.
LEMMA MatchContinue ==
  ASSUME RowInv, ReadInv, MatchInv, ContinueParseText
  PROVE  MatchInv'
<1>1. /\ build' = build /\ texts' = texts /\ row' = row /\ codepoint_idx' = codepoint_idx + 1
      /\ UNCHANGED <<result, queue, instances, dirty>> /\ CodePointDone
  BY DEF ContinueParseText, buildVars
<1>2. /\ text' = text /\ PatternIds' = PatternIds
      /\ \A p : Skel(p)' = Skel(p)
  BY <1>1 DEF text, PatternIds, Skel
<1>3. text_offset' \in (text_offset + 1)..Len(text) /\ text_offset \in Nat /\ Len(text) \in Nat
  BY RowContinue, TextType DEF RowInv
<1>4. codepoint_idx \in 0..text_offset /\ codepoint_idx' \in 0..text_offset'
  BY <1>1, <1>3 DEF MatchInv
<1>5. ASSUME NEW item \in queue PROVE item.ready_cp_idx >= codepoint_idx + 1
  <2>1. item.ready_cp_idx - (codepoint_idx + 1) \in Nat /\ item.ready_cp_idx \in Int
    BY <1>1, NoneIsReady DEF MatchInv, QueueOk
  <2> QED
    BY <1>3, <1>4, <2>1
<1>6. QueueOk'
  BY <1>1, <1>2, <1>5 DEF MatchInv, QueueOk
<1>7. EmitOk'
  <2> DEFINE read == SubSeq(text, 1, text_offset')
             L == {lit \in build.literals : IsSuffix(lit.keyword, read)}
             V == {MatchFor(lit, text_offset') : lit \in build.literals}
  <2>1. /\ ValidText(read) /\ IsLongestNode(build.trie, read, ptr')
        /\ emit' = MatchesOf(ptr', text_offset') \o OutputMatches(ptr', text_offset')
    BY ReadStep
  <2>2. AreMatches(emit', L, text_offset')
    <3> HIDE DEF read
    <3>1. AreMatches(MatchesOf(ptr', text_offset') \o OutputMatches(ptr', text_offset'), L, text_offset')
      BY <2>1, EmittedAre DEF ReadInv
    <3> QED
      BY <2>1, <3>1
  <2>3. L \subseteq build.literals
    OBVIOUS
  <2> HIDE DEF L
  <2> DEFINE N == Len(emit')
  <2>4. /\ N \in Nat /\ emit' = [i \in 1..N |-> emit'[i]]
        /\ \A i \in 1..N : \E lit \in L : emit'[i] = MatchFor(lit, text_offset')
    BY <2>2 DEF AreMatches
  <2>5. \A i \in 1..N : emit'[i] \in V
    BY <2>3, <2>4
  <2> HIDE DEF V, N
  <2>6. emit' \in [1..N -> V]
    BY <2>4, <2>5
  <2>7. emit' \in Seq(V)
    BY ONLY <2>4, <2>6
  <2> QED
    BY <1>1, <2>7 DEF EmitOk, V
<1>8. \A p \in PatternIds : MatcherOk(instances[p])'
  BY <1>1, <1>2 DEF MatchInv, MatcherOk
<1>9. SegmentExists'
  BY <1>1, <1>2 DEF MatchInv, SegmentExists
<1> QED
  BY <1>1, <1>2, <1>4, <1>6, <1>7, <1>8, <1>9 DEF MatchInv

\* A match is of a literal of its pattern, and ends here.
LEMMA MatchIs ==
  ASSUME RowInv, ReadInv, MatchInv, emit # << >>
  PROVE  LET m == Head(emit)
         IN  /\ m.pattern_id \in PatternIds \ build.wildcard /\ m.start_pos \in Int
             /\ m.literal_len \in Nat /\ m.text_start_pos \in Int
             /\ m.text_start_pos + m.literal_len = text_offset
             /\ Tail(emit) \in Seq({MatchFor(lit, text_offset) : lit \in build.literals})
<1> DEFINE V == {MatchFor(lit, text_offset) : lit \in build.literals}
<1>1. emit \in Seq(V)
  BY DEF MatchInv, EmitOk
<1>2. Head(emit) \in V /\ Tail(emit) \in Seq(V)
  <2> HIDE DEF V
  <2> QED
    BY <1>1
<1>3. PICK lit \in build.literals : Head(emit) = MatchFor(lit, text_offset)
  BY <1>2
<1>4. /\ lit.keyword \in Seq(Byte) /\ lit.start_pos \in Int
      /\ lit.pattern_id \in PatternIds \ build.wildcard
  BY DEF ReadInv, BuildOk, IsLiteral, ValidText, MatchInv, SkeletonOk, PatternIds
<1>5. text_offset \in Int
  BY TextType DEF RowInv
<1> QED
  BY <1>2, <1>3, <1>4, <1>5 DEF MatchFor

\* Where the next literal of a segment starts, and how long it has to wait for.
LEMMA NextLiteralIs ==
  ASSUME NEW seg \in Segment, NEW m, m.start_pos \in Int, m.literal_len \in Nat,
         HasOffset(seg, m.start_pos), ~IsLastLiteral(seg, m.start_pos)
  PROVE  /\ GetNextLiteralOffset(seg, m.start_pos) \in Nat /\ UnderscoreCount(m, seg) \in Nat
         /\ \E n \in 1..(Len(seg.literal_offset) - 1) :
              /\ seg.literal_offset[n] = ToU16(m.start_pos)
              /\ seg.literal_offset[n + 1] = GetNextLiteralOffset(seg, m.start_pos)
<1> DEFINE o == seg.literal_offset
           pos == ToU16(m.start_pos)
           T == {n \in 1..Len(o) : o[n] = pos}
           i == IndexOf(seg, m.start_pos)
<1>1. o \in Seq(Nat) /\ Len(o) \in Nat
  BY DEF Segment
<1>2. T \subseteq Nat /\ T # {}
  <2>1. \E n \in 1..Len(o) : o[n] = pos
    BY DEF HasOffset, OffsetsOf
  <2> QED
    BY <2>1
<1>3. PICK n \in T : \A k \in T : n <= k
  <2> HIDE DEF T
  <2> QED
    BY <1>2, LeastElement
<1>4. \A earlier \in 1..n - 1 : o[earlier] # pos
  <2> SUFFICES ASSUME NEW earlier \in 1..n - 1, o[earlier] = pos PROVE FALSE
    OBVIOUS
  <2>1. n \in 1..Len(o)
    OBVIOUS
  <2>2. earlier \in T /\ earlier < n /\ n \in Nat /\ earlier \in Nat
    BY <1>1, <2>1
  <2> QED
    BY <1>3, <2>2
<1>5. i \in 1..Len(o) /\ o[i] = pos
  <2>1. n \in 1..Len(o) /\ o[n] = pos
    OBVIOUS
  <2>2. i = CHOOSE k \in 1..Len(o) : o[k] = pos /\ \A earlier \in 1..k - 1 : o[earlier] # pos
    BY DEF IndexOf
  <2> HIDE DEF o, pos, i
  <2> QED
    BY <1>4, <2>1, <2>2
<1>6. i # Len(o)
  BY DEF IsLastLiteral
<1>7. GetNextLiteralOffset(seg, m.start_pos) = o[i + 1]
  BY DEF GetNextLiteralOffset
<1> HIDE DEF o, i
<1>8. o[i + 1] \in Nat /\ i \in 1..(Len(o) - 1)
  BY <1>1, <1>5, <1>6
<1> DEFINE next == GetNextLiteralOffset(seg, m.start_pos)
           d == next - m.start_pos - m.literal_len
<1>9. next \in Nat /\ d \in Int
  BY <1>7, <1>8
<1>10. UnderscoreCount(m, seg) = d % U32Size /\ U32Size \in Nat \ {0}
  BY DEF UnderscoreCount, U32Size
<1> HIDE DEF d
<1>11. d % U32Size \in Nat
  BY <1>9, <1>10
<1> QED
  BY <1>5, <1>7, <1>8, <1>9, <1>10, <1>11 DEF o

\* Handling a match.
LEMMA MatchHandle ==
  ASSUME RowInv, ReadInv, MatchInv, HandleMatch
  PROVE  MatchInv'
<1> DEFINE m == Head(emit)
           p == m.pattern_id
           i == instances[p]
           seg == CurrentSegment(p)
           tried == AfterTry(m, i, seg)
           tail == SegmentTailEnd(m, seg)
<1>1. /\ build' = build /\ texts' = texts /\ row' = row /\ text_offset' = text_offset
      /\ codepoint_idx' = codepoint_idx /\ emit # << >> /\ ~result[p] /\ emit' = Tail(emit)
      /\ dirty' = dirty \cup {p}
  BY DEF HandleMatch, buildVars, textVars
<1>2. /\ p \in PatternIds \ build.wildcard /\ m.start_pos \in Int
      /\ m.literal_len \in Nat /\ m.text_start_pos \in Int
      /\ m.text_start_pos + m.literal_len = text_offset
      /\ Tail(emit) \in Seq({MatchFor(lit, text_offset) : lit \in build.literals})
  BY <1>1, MatchIs
<1>3. \/ /\ instances' = [instances EXCEPT ![p] = tried]
         /\ UNCHANGED <<result, queue>>
      \/ /\ TryMatchingLiteral(m, i, seg) /\ ~IsLastLiteral(seg, m.start_pos)
         /\ instances' = [instances EXCEPT ![p] = tried]
         /\ queue' = Schedule(queue, p, UnderscoreCount(m, seg) + codepoint_idx,
                              GetNextLiteralOffset(seg, m.start_pos), m.start_pos)
         /\ UNCHANGED result
      \/ /\ tail # NoOffset
         /\ instances' = [instances EXCEPT ![p] = AdvanceNextSegment(p, tried, tail)]
         /\ result' = [result EXCEPT ![p] = i.segment_idx = Len(Skel(p))]
         /\ UNCHANGED queue
  BY DEF HandleMatch
<1>4. text' = text /\ PatternIds' = PatternIds /\ \A q : Skel(q)' = Skel(q)
  BY <1>1 DEF text, PatternIds, Skel
<1> HIDE DEF m
<1>5. /\ Skel(p) \in Seq(Segment) /\ i.segment_idx \in 1..Len(Skel(p)) /\ Len(Skel(p)) \in Nat
      /\ seg \in Segment
  <2>1. Skel(p) \in Seq(Segment) /\ i.segment_idx \in 1..Len(Skel(p))
    BY <1>1, <1>2 DEF MatchInv, SkeletonOk, SegmentExists, PatternIds, Skel
  <2> QED
    BY <2>1 DEF CurrentSegment
<1>6. /\ MatcherOk(tried) /\ tried.segment_idx = i.segment_idx
  <2>1. IsMatcher(i) /\ MatcherOk(i)
    BY <1>2 DEF RowInv, MatchInv
  <2>2. tried.segment_idx = i.segment_idx /\ tried.min_text_start_pos = i.min_text_start_pos
    BY <2>1, AfterTryIs
  <2>3. tried = i \/ tried = [i EXCEPT !.match = GetAndRemove(i.match, Diff(m))]
    BY DEF AfterTry
  <2>4. tried.match \in Caches
    <3> DEFINE c == GetAndRemove(i.match, Diff(m))
    <3>1. i.match \in Caches /\ c \in Caches
      BY <2>1, CachesAre DEF MatcherOk
    <3> HIDE DEF c, tried, i
    <3>2. [i EXCEPT !.match = c].match = c
      BY <2>1 DEF IsMatcher
    <3> QED
      BY <2>3, <3>1, <3>2 DEF c
  <2> QED
    BY <2>1, <2>2, <2>4 DEF MatcherOk
<1>7. ASSUME tail # NoOffset
      PROVE  LET new == AdvanceNextSegment(p, tried, tail)
             IN  MatcherOk(new) /\ new.segment_idx = i.segment_idx + 1
  <2> DEFINE new == AdvanceNextSegment(p, tried, tail)
  <2>1. tail \in CodePointStarts(text)
    <3>1. tail = Utf8Advance(text, text_offset, seg.suffix_underscore_cnt)
      BY <1>2 DEF SegmentTailEnd
    <3>2. seg.suffix_underscore_cnt \in Nat
      BY <1>5 DEF Segment
    <3>3. text_offset \in CodePointStarts(text) /\ Len(text) \in Nat
      BY TextType DEF ReadInv
    <3> HIDE DEF tail, seg
    <3> QED
      BY <1>7, <3>1, <3>2, <3>3, AdvanceIs
  <2>2. /\ new.segment_idx = tried.segment_idx + 1 /\ new.min_text_start_pos = tail
        /\ new.match = IF tried.segment_idx < Len(Skel(p))
                       THEN NewCache(LruCapForSegment(Skel(p)[tried.segment_idx + 1])) ELSE tried.match
    BY DEF AdvanceNextSegment
  <2> HIDE DEF tried, tail, new
  <2>3. new.match \in Caches
    <3>1. CASE tried.segment_idx < Len(Skel(p))
      <4> DEFINE next == Skel(p)[tried.segment_idx + 1]
      <4>1. tried.segment_idx + 1 \in 1..Len(Skel(p))
        BY <1>5, <1>6, <3>1
      <4>2. next \in Segment
        BY <1>5, <4>1
      <4> HIDE DEF next
      <4>3. LruCapForSegment(next) \in Nat
        BY <4>2, CapIs
      <4> QED
        BY <2>2, <3>1, <4>3, CachesAre DEF next
    <3>2. CASE ~(tried.segment_idx < Len(Skel(p)))
      BY <1>6, <2>2, <3>2 DEF MatcherOk
    <3> QED
      BY <3>1, <3>2
  <2>4. MatcherOk(new) /\ new.segment_idx = i.segment_idx + 1
    BY <1>6, <2>1, <2>2, <2>3 DEF MatcherOk
  <2> QED
    BY <2>4 DEF new
<1> DEFINE Fits(new, r) == /\ MatcherOk(new)
                           /\ IF r THEN new.segment_idx = Len(Skel(p)) + 1
                              ELSE new.segment_idx \in 1..Len(Skel(p))
<1>8. \E new, r : /\ instances' = [instances EXCEPT ![p] = new]
                  /\ r \in BOOLEAN /\ result' = [result EXCEPT ![p] = r] /\ Fits(new, r)
  <2>1. CASE instances' = [instances EXCEPT ![p] = tried] /\ result' = result
    <3>1. Fits(tried, FALSE)
      BY <1>5, <1>6
    <3>2. result' = [result EXCEPT ![p] = FALSE]
      <4>1. result \in [PatternIds -> BOOLEAN] /\ result[p] = FALSE
        BY <1>1, <1>2 DEF MatchInv
      <4> QED
        BY <2>1, <4>1
    <3> QED
      BY <2>1, <3>1, <3>2
  <2>2. CASE /\ tail # NoOffset
             /\ instances' = [instances EXCEPT ![p] = AdvanceNextSegment(p, tried, tail)]
             /\ result' = [result EXCEPT ![p] = i.segment_idx = Len(Skel(p))]
    <3> DEFINE new == AdvanceNextSegment(p, tried, tail)
               r == i.segment_idx = Len(Skel(p))
    <3>1. MatcherOk(new) /\ new.segment_idx = i.segment_idx + 1
      BY <1>7, <2>2
    <3> HIDE DEF new
    <3>2. Fits(new, r) /\ r \in BOOLEAN
      BY <1>5, <3>1
    <3> QED
      BY <2>2, <3>2 DEF new
  <2> QED
    BY <1>3, <2>1, <2>2
<1>9. PICK new, r : /\ instances' = [instances EXCEPT ![p] = new]
                    /\ r \in BOOLEAN /\ result' = [result EXCEPT ![p] = r] /\ Fits(new, r)
  BY <1>8
<1>10. result' \in [PatternIds -> BOOLEAN]
  BY <1>9 DEF MatchInv
<1>11. ASSUME NEW q \in PatternIds
       PROVE  /\ MatcherOk(instances'[q])
              /\ q \notin build.wildcard =>
                   IF result'[q] THEN instances'[q].segment_idx = Len(Skel(q)) + 1
                   ELSE instances'[q].segment_idx \in 1..Len(Skel(q))
  <2>1. /\ instances = [x \in PatternIds |-> instances[x]] /\ result \in [PatternIds -> BOOLEAN]
        /\ MatcherOk(instances[q])
        /\ q \notin build.wildcard =>
             IF result[q] THEN instances[q].segment_idx = Len(Skel(q)) + 1
             ELSE instances[q].segment_idx \in 1..Len(Skel(q))
    BY DEF RowInv, MatchInv, SegmentExists
  <2>2. CASE q = p
    <3>1. instances'[q] = new /\ result'[q] = r
      BY <1>9, <2>1, <2>2
    <3> QED
      BY <1>9, <2>2, <3>1
  <2>3. CASE q # p
    <3>1. instances'[q] = instances[q] /\ result'[q] = result[q]
      BY <1>9, <2>1, <2>3
    <3> QED
      BY <2>1, <3>1
  <2> QED
    BY <2>2, <2>3
<1>12. SegmentExists' /\ \A q \in PatternIds : MatcherOk(instances[q])'
  BY <1>1, <1>4, <1>11 DEF SegmentExists, MatcherOk
<1>13. QueueOk'
  <2>1. CASE queue' = queue
    BY <1>1, <1>4, <2>1 DEF MatchInv, QueueOk
  <2>2. CASE /\ TryMatchingLiteral(m, i, seg) /\ ~IsLastLiteral(seg, m.start_pos)
             /\ queue' = Schedule(queue, p, UnderscoreCount(m, seg) + codepoint_idx,
                                  GetNextLiteralOffset(seg, m.start_pos), m.start_pos)
    <3> DEFINE next == GetNextLiteralOffset(seg, m.start_pos)
               wait == UnderscoreCount(m, seg)
               item == [pattern_id |-> p, next_pattern_pos |-> next,
                        prev_pattern_pos |-> m.start_pos, ready_cp_idx |-> wait + codepoint_idx]
    <3>1. next \in Nat /\ wait \in Nat
      <4>1. HasOffset(seg, m.start_pos)
        BY <2>2 DEF TryMatchingLiteral, BelongsHere
      <4> HIDE DEF seg
      <4> QED
        BY <1>2, <1>5, <2>2, <4>1, NextLiteralIs
    <3>2. queue' = queue \cup {item}
      BY <2>2 DEF Schedule
    <3>3. codepoint_idx \in Nat
      BY TextType DEF MatchInv, RowInv
    <3> HIDE DEF next, wait, p
    <3>4. /\ item.pattern_id \in PatternIds /\ item.next_pattern_pos \in Int
          /\ item.prev_pattern_pos \in Int /\ item.ready_cp_idx \in Int
          /\ item.ready_cp_idx >= codepoint_idx
      BY <1>2, <3>1, <3>3
    <3> HIDE DEF item
    <3> QED
      BY <1>1, <1>4, <3>2, <3>4 DEF MatchInv, QueueOk
  <2> QED
    BY <1>3, <2>1, <2>2
<1>14. EmitOk' /\ dirty' \subseteq PatternIds
  BY <1>1, <1>2 DEF EmitOk, MatchInv
<1> QED
  BY <1>1, <1>4, <1>10, <1>12, <1>13, <1>14 DEF MatchInv

\* A match of a pattern that is reported already.
LEMMA MatchSkip ==
  ASSUME RowInv, ReadInv, MatchInv, SkipMatch
  PROVE  MatchInv'
<1>1. /\ emit # << >> /\ emit' = Tail(emit)
      /\ UNCHANGED <<build, texts, row, text_offset, codepoint_idx, result, queue, instances, dirty>>
  BY DEF SkipMatch, buildVars, textVars
<1>2. text' = text /\ PatternIds' = PatternIds /\ \A q : Skel(q)' = Skel(q)
  BY <1>1 DEF text, PatternIds, Skel
<1>3. EmitOk'
  BY <1>1, MatchIs DEF EmitOk
<1> QED
  BY <1>1, <1>2, <1>3 DEF MatchInv, QueueOk, MatcherOk, SegmentExists

\* A scheduled match that is ready becomes an alignment of its matcher.
LEMMA MatchProcess ==
  ASSUME RowInv, ReadInv, MatchInv, ProcessDelayedMatching
  PROVE  MatchInv'
<1>1. PICK item \in Fronts :
        /\ queue' = queue \ {item}
        /\ instances' =
            [instances EXCEPT ![item.pattern_id].match =
               Upsert(@, text_offset - item.next_pattern_pos, ToU16(item.prev_pattern_pos))]
  BY DEF ProcessDelayedMatching
<1>2. UNCHANGED <<build, texts, row, text_offset, codepoint_idx, dirty, emit, result>>
  BY DEF ProcessDelayedMatching, buildVars, textVars
<1>3. text' = text /\ PatternIds' = PatternIds /\ \A q : Skel(q)' = Skel(q)
  BY <1>2 DEF text, PatternIds, Skel
<1> DEFINE p == item.pattern_id
           key == text_offset - item.next_pattern_pos
           value == ToU16(item.prev_pattern_pos)
           c == Upsert(instances[p].match, key, value)
<1>4. p \in PatternIds /\ key \in Int /\ value \in Int
  <2>1. item \in queue
    BY <1>1 DEF Fronts
  <2>2. text_offset \in Int
    BY TextType DEF RowInv
  <2>3. /\ item.pattern_id \in PatternIds /\ item.next_pattern_pos \in Int
        /\ item.prev_pattern_pos \in Int
    BY <2>1 DEF MatchInv, QueueOk
  <2> QED
    BY <2>2, <2>3, U16SizeAssumption DEF ToU16
<1>5. c \in Caches
  <2> HIDE DEF key, value, p
  <2> QED
    BY <1>4, CachesAre DEF MatchInv, MatcherOk
<1>6. instances' = [instances EXCEPT ![p].match = c]
  BY <1>1
<1> HIDE DEF c
<1>7. ASSUME NEW q \in PatternIds
      PROVE  MatcherOk(instances'[q]) /\ instances'[q].segment_idx = instances[q].segment_idx
  <2>1. /\ instances = [x \in PatternIds |-> instances[x]]
        /\ MatcherOk(instances[q]) /\ IsMatcher(instances[q])
    BY DEF RowInv, MatchInv
  <2>2. CASE q = p
    <3>1. instances'[q] = [instances[q] EXCEPT !.match = c]
      BY <1>4, <1>6, <2>1, <2>2
    <3>2. /\ instances'[q].match = c /\ instances'[q].segment_idx = instances[q].segment_idx
          /\ instances'[q].min_text_start_pos = instances[q].min_text_start_pos
      BY <2>1, <3>1 DEF IsMatcher
    <3> QED
      BY <1>5, <2>1, <3>2 DEF MatcherOk
  <2>3. CASE q # p
    <3>1. instances'[q] = instances[q]
      BY <1>6, <2>1, <2>3
    <3> QED
      BY <2>1, <3>1
  <2> QED
    BY <2>2, <2>3
<1>8. QueueOk'
  BY <1>1, <1>2, <1>3 DEF MatchInv, QueueOk
<1> QED
  BY <1>2, <1>3, <1>7, <1>8 DEF MatchInv, EmitOk, MatcherOk, SegmentExists

\* What the proofs know of a state, kept by every step.
ProbeInv == RowInv /\ ReadInv /\ MatchInv

\* So it holds of every state that is reached.
LEMMA ProbeInvHolds == Spec => []ProbeInv
<1>1. Init => ProbeInv
  BY RowInit, ReadInit, MatchInit DEF ProbeInv
<1>2. ASSUME ProbeInv, [Next]_vars PROVE MatchInv'
  <2>1. CASE UNCHANGED vars
    BY <1>2, <2>1 DEF ProbeInv, vars, buildVars, textVars, MatchInv, EmitOk, QueueOk, MatcherOk,
       SegmentExists, text, PatternIds, Skel
  <2> QED
    BY <1>2, <2>1, MatchDrive, MatchContinue, MatchSkip, MatchHandle, MatchProcess
    DEF ProbeInv, Next, Finished
<1>3. ProbeInv /\ [Next]_vars => ProbeInv'
  BY <1>2, RowNext, ReadNext DEF ProbeInv
<1> QED
  BY <1>1, <1>3, PTL DEF Spec

\* A matcher whose pattern is not reported looks for a segment that exists.
THEOREM SegmentsExist == Spec => []SegmentExists
<1>1. ProbeInv => SegmentExists
  BY DEF ProbeInv, MatchInv
<1> QED
  BY <1>1, ProbeInvHolds, PTL

\* No code point is read past a scheduled match: it is applied at the very code point
\* it waits for.
THEOREM NothingIsLate == Spec => []NothingLate
<1>1. ProbeInv => NothingLate
  BY DEF ProbeInv, MatchInv, QueueOk, NothingLate
<1> QED
  BY <1>1, ProbeInvHolds, PTL

-----------------------------------------------------------------------------
(* What LIKE means: the table of the reference, and how to get through it. *)

\* What NljRecursiveMatch makes of the rest of p behind i and the rest of s behind j,
\* given what f says of shorter rests.
LikeStep(p, s, esc, f, i, j) ==
  IF i = Len(p) THEN j = Len(s)
  ELSE IF esc # NoEscape /\ p[i + 1] = esc
       THEN /\ i + 1 < Len(p) /\ j < Len(s)
            /\ SameCodePoint(p, i + 1, s, j)
            /\ f[<<NextOffset(p, i + 1), NextOffset(s, j)>>]
  ELSE IF p[i + 1] = PERCENTAGE
       THEN \/ f[<<i + 1, j>>]
            \/ j < Len(s) /\ f[<<i, NextOffset(s, j)>>]
  ELSE /\ j < Len(s)
       /\ p[i + 1] = UNDERSCORE \/ SameCodePoint(p, i, s, j)
       /\ f[<<NextOffset(p, i), NextOffset(s, j)>>]

IsLikeTable(p, s, esc, f) ==
  f = [at \in (0..Len(p)) \X (0..Len(s)) |-> LikeStep(p, s, esc, f, at[1], at[2])]

LikeTable(p, s, esc) == CHOOSE f : IsLikeTable(p, s, esc, f)

\* Matches reads its answer off that table.
LEMMA MatchesIs ==
  ASSUME NEW p, NEW s, NEW esc
  PROVE  Matches(p, s, esc) = LikeTable(p, s, esc)[<<0, 0>>]
BY DEF Matches, LikeTable, IsLikeTable, LikeStep

\* The table exists: every entry is made of entries of shorter rests.
LEMMA LikeTableIs ==
  ASSUME NEW p, Len(p) \in Nat, NEW s, Len(s) \in Nat, NEW esc
  PROVE  LET f == LikeTable(p, s, esc)
         IN  \A i \in 0..Len(p), j \in 0..Len(s) : f[<<i, j>>] = LikeStep(p, s, esc, f, i, j)
<1> DEFINE D == (0..Len(p)) \X (0..Len(s))
           S == [D -> BOOLEAN]
           F(f) == [at \in D |-> LikeStep(p, s, esc, f, at[1], at[2])]
           N == Len(p) + Len(s) + 2
           Rest(at) == (Len(p) - at[1]) + (Len(s) - at[2])
<1>1. ASSUME NEW f \in S PROVE F(f) \in S
  <2>1. ASSUME NEW at \in D PROVE LikeStep(p, s, esc, f, at[1], at[2]) \in BOOLEAN
    BY DEF LikeStep
  <2> QED
    BY <2>1
<1>2. ASSUME NEW f \in S, NEW g \in S, NEW i \in 0..Len(p), NEW j \in 0..Len(s),
             \A at \in D : Rest(at) < Rest(<<i, j>>) => f[at] = g[at]
      PROVE  LikeStep(p, s, esc, f, i, j) = LikeStep(p, s, esc, g, i, j)
  <2>1. ASSUME NEW k \in 0..(Len(p) - 1) PROVE NextOffset(p, k) \in (k + 1)..Len(p)
    BY NextOffsetMoves
  <2>2. ASSUME NEW l \in 0..(Len(s) - 1) PROVE NextOffset(s, l) \in (l + 1)..Len(s)
    BY NextOffsetMoves
  <2>3. ASSUME NEW k \in i..Len(p), NEW l \in j..Len(s), k > i \/ l > j
        PROVE  f[<<k, l>>] = g[<<k, l>>]
    <3>1. <<k, l>> \in D
      OBVIOUS
    <3>2. Rest(<<k, l>>) < Rest(<<i, j>>)
      BY <2>3
    <3> HIDE DEF D, Rest
    <3> QED
      BY <1>2, <3>1, <3>2
  <2> HIDE DEF D, S, Rest
  <2>4. CASE i = Len(p)
    BY <2>4 DEF LikeStep
  <2>5. CASE i # Len(p) /\ esc # NoEscape /\ p[i + 1] = esc
    <3>1. ASSUME i + 1 < Len(p), j < Len(s)
          PROVE  f[<<NextOffset(p, i + 1), NextOffset(s, j)>>] = g[<<NextOffset(p, i + 1), NextOffset(s, j)>>]
      <4>1. NextOffset(p, i + 1) \in (i + 2)..Len(p) /\ NextOffset(s, j) \in (j + 1)..Len(s)
        BY <2>1, <2>2, <3>1
      <4>2. NextOffset(p, i + 1) \in i..Len(p) /\ NextOffset(s, j) \in j..Len(s) /\ NextOffset(s, j) > j
        BY <4>1
      <4> QED
        BY <2>3, <4>2
    <3> QED
      BY <2>5, <3>1 DEF LikeStep
  <2>6. CASE i # Len(p) /\ ~(esc # NoEscape /\ p[i + 1] = esc) /\ p[i + 1] = PERCENTAGE
    <3>1. f[<<i + 1, j>>] = g[<<i + 1, j>>]
      <4>1. i + 1 \in i..Len(p) /\ j \in j..Len(s) /\ i + 1 > i
        BY <2>6
      <4> QED
        BY <2>3, <4>1
    <3>2. ASSUME j < Len(s)
          PROVE  f[<<i, NextOffset(s, j)>>] = g[<<i, NextOffset(s, j)>>]
      <4>1. NextOffset(s, j) \in (j + 1)..Len(s)
        BY <2>2, <3>2
      <4>2. i \in i..Len(p) /\ NextOffset(s, j) \in j..Len(s) /\ NextOffset(s, j) > j
        BY <4>1
      <4> QED
        BY <2>3, <4>2
    <3> QED
      BY <2>6, <3>1, <3>2 DEF LikeStep
  <2>7. CASE i # Len(p) /\ ~(esc # NoEscape /\ p[i + 1] = esc) /\ p[i + 1] # PERCENTAGE
    <3>1. ASSUME j < Len(s)
          PROVE  f[<<NextOffset(p, i), NextOffset(s, j)>>] = g[<<NextOffset(p, i), NextOffset(s, j)>>]
      <4>1. NextOffset(p, i) \in (i + 1)..Len(p) /\ NextOffset(s, j) \in (j + 1)..Len(s)
        BY <2>1, <2>2, <2>7, <3>1
      <4>2. NextOffset(p, i) \in i..Len(p) /\ NextOffset(s, j) \in j..Len(s) /\ NextOffset(s, j) > j
        BY <4>1
      <4> QED
        BY <2>3, <4>2
    <3> QED
      BY <2>7, <3>1 DEF LikeStep
  <2> QED
    BY <2>4, <2>5, <2>6, <2>7
<1> DEFINE base == [at \in D |-> FALSE]
           step == [n \in 1..N |-> [f \in S |-> F(f)]]
<1>3. step \in [1..N -> [S -> S]] /\ base \in S /\ N \in Nat
  <2>1. base \in S /\ N \in Nat
    OBVIOUS
  <2> HIDE DEF S, F, N
  <2> QED
    BY <1>1, <2>1
<1>4. PICK t \in [0..N -> S] : t[0] = base /\ \A n \in 1..N : t[n] = step[n][t[n - 1]]
  <2> HIDE DEF S, step, base, N
  <2>1. \A st \in [1..N -> [S -> S]] :
          \E f \in [0..N -> S] : f[0] = base /\ \A i \in 1..N : f[i] = st[i][f[i - 1]]
    <3>1. base \in S /\ N \in Nat
      BY <1>3
    <3> QED
      BY ONLY <3>1, Iteration
  <2> QED
    BY <1>3, <2>1
<1>5. ASSUME NEW n \in 0..(N - 1) PROVE t[n] \in S /\ t[n + 1] \in S /\ t[n + 1] = F(t[n])
  <2>1. n \in 0..N /\ n + 1 \in 1..N /\ n + 1 \in 0..N /\ (n + 1) - 1 = n
    BY <1>3
  <2> HIDE DEF S, F, N, base
  <2>2. t[n] \in S /\ t[n + 1] \in S
    BY <2>1
  <2> QED
    BY <1>4, <2>1, <2>2
\* After n rounds the entries of the rests shorter than n stay as they are.
<1> DEFINE Settled == {n \in 0..(N - 1) : \A at \in D : Rest(at) < n => t[n][at] = t[n + 1][at]}
<1>6. 0 \in Settled
  <2>1. \A at \in D : ~(Rest(at) < 0) /\ 0 \in 0..(N - 1)
    OBVIOUS
  <2> HIDE DEF D, S, F, N, base, step, Rest
  <2> QED
    BY <2>1, <1>3
<1>7. ASSUME NEW n \in 0..((N - 1) - 1), n \in Settled PROVE n + 1 \in Settled
  <2>0. n \in 0..(N - 1) /\ n + 1 \in 0..(N - 1) /\ n \in Nat
    BY <1>3
  <2>1. ASSUME NEW at \in D, Rest(at) < n + 1 PROVE t[n + 1][at] = t[(n + 1) + 1][at]
    <3>1. PICK i \in 0..Len(p), j \in 0..Len(s) : at = <<i, j>>
      OBVIOUS
    <3>2. ASSUME NEW x \in D, Rest(x) < Rest(<<i, j>>) PROVE t[n][x] = t[n + 1][x]
      <4>1. Rest(x) < n
        <5>1. Rest(x) \in Int /\ Rest(at) \in Int
          <6>1. x[1] \in Nat /\ x[2] \in Nat /\ at[1] \in Nat /\ at[2] \in Nat
            OBVIOUS
          <6> QED
            BY <6>1
        <5> HIDE DEF Rest, D
        <5> QED
          BY <2>0, <2>1, <3>1, <3>2, <5>1
      <4> HIDE DEF D, S, F, N, base, step, Rest
      <4> QED
        BY <1>7, <4>1
    <3>3. LikeStep(p, s, esc, t[n], i, j) = LikeStep(p, s, esc, t[n + 1], i, j)
      <4> HIDE DEF D, S, F, N, base, step, Rest
      <4> QED
        BY <1>2, <1>5, <2>0, <3>2
    <3>4. \A f : F(f)[at] = LikeStep(p, s, esc, f, i, j)
      BY <3>1
    <3> HIDE DEF D, S, F, N, base, step, Rest
    <3> QED
      BY <1>5, <2>0, <3>3, <3>4
  <2> HIDE DEF D, S, F, N, base, step, Rest
  <2> QED
    BY <2>0, <2>1
<1> DEFINE last == t[N - 1]
<1>8. last = F(last)
  <2>1. N - 1 \in Settled
    <3>1. \A n \in 0..(N - 1) : n \in Settled
      <4>1. N - 1 \in Nat /\ 0 \in Nat
        OBVIOUS
      <4> HIDE DEF Settled, N
      <4> QED
        BY <1>6, <1>7, <4>1, InductionUpTo
    <3>2. N - 1 \in 0..(N - 1)
      OBVIOUS
    <3> HIDE DEF Settled, N
    <3> QED
      BY <3>1, <3>2
  <2>2. N - 1 \in 0..(N - 1) /\ \A at \in D : Rest(at) < N - 1
    OBVIOUS
  <2> HIDE DEF D, S, F, N, base, step, Rest
  <2>3. \A at \in D : last[at] = t[(N - 1) + 1][at]
    BY <2>1, <2>2
  <2>4. last \in S /\ t[(N - 1) + 1] \in S /\ t[(N - 1) + 1] = F(last)
    BY <1>5, <2>2
  <2>5. last = t[(N - 1) + 1]
    BY <2>3, <2>4 DEF S
  <2> QED
    BY <2>4, <2>5
<1>9. IsLikeTable(p, s, esc, last)
  <2> HIDE DEF last
  <2> QED
    BY <1>8 DEF IsLikeTable
<1>10. IsLikeTable(p, s, esc, LikeTable(p, s, esc))
  <2> HIDE DEF last
  <2> QED
    BY <1>9 DEF LikeTable
<1> DEFINE f == LikeTable(p, s, esc)
<1>11. f = F(f)
  BY <1>10 DEF IsLikeTable
<1> HIDE DEF f
<1>12. ASSUME NEW i \in 0..Len(p), NEW j \in 0..Len(s)
       PROVE  f[<<i, j>>] = LikeStep(p, s, esc, f, i, j)
  <2>1. <<i, j>> \in D /\ <<i, j>>[1] = i /\ <<i, j>>[2] = j
    OBVIOUS
  <2>2. F(f)[<<i, j>>] = LikeStep(p, s, esc, f, i, j)
    BY <2>1
  <2> HIDE DEF F
  <2> QED
    BY <1>11, <2>2
<1> QED
  BY <1>12 DEF f
\* An entry of the table.
LEMMA LikeTableAt ==
  ASSUME NEW p \in Seq(Byte), NEW s \in Seq(Byte), NEW esc,
         NEW i \in 0..Len(p), NEW j \in 0..Len(s)
  PROVE  LikeTable(p, s, esc)[<<i, j>>] = LikeStep(p, s, esc, LikeTable(p, s, esc), i, j)
<1>1. Len(p) \in Nat /\ Len(s) \in Nat
  OBVIOUS
<1>2. \A a \in 0..Len(p), b \in 0..Len(s) :
        LikeTable(p, s, esc)[<<a, b>>] = LikeStep(p, s, esc, LikeTable(p, s, esc), a, b)
  BY <1>1, LikeTableIs
<1> QED
  BY <1>2

\* If p matches s from i and j on, then p matches s.
Reaches(p, s, esc, i, j) ==
  LikeTable(p, s, esc)[<<i, j>>] => LikeTable(p, s, esc)[<<0, 0>>]

\* An underscore takes a code point.
LEMMA UnderscoreTakes ==
  ASSUME NEW p \in Seq(Byte), NEW s \in Seq(Byte), NEW esc, esc # UNDERSCORE,
         NEW i \in 0..(Len(p) - 1), NEW j \in 0..(Len(s) - 1), p[i + 1] = UNDERSCORE,
         Reaches(p, s, esc, i, j)
  PROVE  Reaches(p, s, esc, i + 1, NextOffset(s, j))
<1> DEFINE f == LikeTable(p, s, esc)
<1>1. f[<<i, j>>] = LikeStep(p, s, esc, f, i, j)
  <2>1. i \in 0..Len(p) /\ j \in 0..Len(s)
    OBVIOUS
  <2> QED
    BY <2>1, LikeTableAt
<1>2. NextOffset(p, i) = i + 1
  BY DEF NextOffset, UNDERSCORE
<1>3. f[<<i + 1, NextOffset(s, j)>>] => LikeStep(p, s, esc, f, i, j)
  <2> HIDE DEF f
  <2>1. i # Len(p) /\ j < Len(s) /\ p[i + 1] # esc /\ p[i + 1] # PERCENTAGE
    BY DEF UNDERSCORE, PERCENTAGE
  <2> QED
    BY <1>2, <2>1 DEF LikeStep
<1> QED
  BY <1>1, <1>3 DEF Reaches

\* A percent takes nothing, or a code point and may take more.
LEMMA PercentTakes ==
  ASSUME NEW p \in Seq(Byte), NEW s \in Seq(Byte), NEW esc, esc # PERCENTAGE,
         NEW i \in 0..(Len(p) - 1), NEW j \in 0..Len(s), p[i + 1] = PERCENTAGE,
         Reaches(p, s, esc, i, j)
  PROVE  /\ Reaches(p, s, esc, i + 1, j)
         /\ j < Len(s) => Reaches(p, s, esc, i, NextOffset(s, j))
<1> DEFINE f == LikeTable(p, s, esc)
<1>1. f[<<i, j>>] = LikeStep(p, s, esc, f, i, j)
  <2>1. i \in 0..Len(p) /\ j \in 0..Len(s)
    OBVIOUS
  <2> QED
    BY <2>1, LikeTableAt
<1>2. LikeStep(p, s, esc, f, i, j) = (f[<<i + 1, j>>] \/ (j < Len(s) /\ f[<<i, NextOffset(s, j)>>]))
  <2> HIDE DEF f
  <2>1. i # Len(p) /\ p[i + 1] # esc
    OBVIOUS
  <2> QED
    BY <2>1 DEF LikeStep
<1> QED
  BY <1>1, <1>2 DEF Reaches

\* A code point takes itself.
LEMMA CodePointTakes ==
  ASSUME NEW p \in Seq(Byte), NEW s \in Seq(Byte), NEW esc,
         NEW i \in 0..(Len(p) - 1), NEW j \in 0..(Len(s) - 1),
         p[i + 1] # PERCENTAGE, p[i + 1] # esc, SameCodePoint(p, i, s, j),
         Reaches(p, s, esc, i, j)
  PROVE  Reaches(p, s, esc, NextOffset(p, i), NextOffset(s, j))
<1> DEFINE f == LikeTable(p, s, esc)
<1>1. f[<<i, j>>] = LikeStep(p, s, esc, f, i, j)
  <2>1. i \in 0..Len(p) /\ j \in 0..Len(s)
    OBVIOUS
  <2> QED
    BY <2>1, LikeTableAt
<1>2. f[<<NextOffset(p, i), NextOffset(s, j)>>] => LikeStep(p, s, esc, f, i, j)
  <2> HIDE DEF f
  <2>1. i # Len(p) /\ j < Len(s)
    OBVIOUS
  <2> QED
    BY <2>1 DEF LikeStep
<1> QED
  BY <1>1, <1>2 DEF Reaches

\* A stretch of bytes.
LEMMA StretchIs ==
  ASSUME NEW q \in Seq(Byte), NEW o \in Nat, NEW l \in Nat, o + l <= Len(q)
  PROVE  /\ SubSeq(q, o + 1, o + l) \in Seq(Byte) /\ Len(SubSeq(q, o + 1, o + l)) = l
         /\ \A r \in 1..l : SubSeq(q, o + 1, o + l)[r] = q[o + r]
<1> DEFINE m == o + 1
           n == o + l
           x == SubSeq(q, m, n)
<1>1. m \in Int /\ n \in Int /\ n - m + 1 = l /\ (m <= n <=> l > 0)
  OBVIOUS
<1>2. \A i \in m..n : q[i] \in Byte
  OBVIOUS
<1>3. \A r \in 1..l : m + r - 1 = o + r
  OBVIOUS
<1> HIDE DEF m, n
<1>4. /\ x \in Seq(Byte) /\ Len(x) = IF m <= n THEN n - m + 1 ELSE 0
      /\ \A r \in 1..(n - m + 1) : x[r] = q[m + r - 1]
  BY <1>1, <1>2, SubSeqProperties
<1> HIDE DEF x
<1>5. x \in Seq(Byte) /\ Len(x) = l /\ \A r \in 1..l : x[r] = q[o + r]
  <2>1. Len(x) = l
    BY <1>1, <1>4
  <2>2. \A r \in 1..l : x[r] = q[m + r - 1]
    BY <1>1, <1>4
  <2>3. \A r \in 1..l : x[r] = q[o + r]
    BY <1>3, <2>2
  <2> QED
    BY <1>4, <2>1, <2>3
<1> QED
  BY <1>5 DEF x, m, n

\* A stretch of one byte.
LEMMA OneByte ==
  ASSUME NEW q \in Seq(Byte), NEW k \in 1..Len(q)
  PROVE  SubSeq(q, k, k) = << q[k] >>
<1> DEFINE a == SubSeq(q, k, k)
           b == << q[k] >>
<1>1. a \in Seq(Byte) /\ Len(a) = 1 /\ a[1] = q[k]
  <2>1. k - 1 \in Nat /\ 1 \in Nat /\ (k - 1) + 1 = k /\ (k - 1) + 1 <= Len(q) /\ 1 \in 1..1
    OBVIOUS
  <2> HIDE DEF a
  <2> QED
    BY <2>1, StretchIs DEF a
<1>2. b \in Seq(Byte) /\ Len(b) = 1 /\ b[1] = q[k]
  <2>1. q[k] \in Byte
    OBVIOUS
  <2> QED
    BY <2>1
<1> HIDE DEF a, b
<1>3. \A i \in 1..1 : a[i] = b[i]
  BY <1>1, <1>2
<1>4. a = b
  BY <1>1, <1>2, <1>3, SeqEqual
<1> QED
  BY <1>4 DEF a, b

\* An escape byte takes what the byte behind it is.
LEMMA EscapeTakes ==
  ASSUME NEW p \in Seq(Byte), NEW s \in Seq(Byte), NEW esc, esc # NoEscape,
         NEW i \in 0..(Len(p) - 1), NEW j \in 0..(Len(s) - 1), p[i + 1] = esc,
         i + 1 < Len(p), p[i + 2] < 128, s[j + 1] = p[i + 2],
         Reaches(p, s, esc, i, j)
  PROVE  Reaches(p, s, esc, i + 2, j + 1)
<1> DEFINE f == LikeTable(p, s, esc)
<1>1. f[<<i, j>>] = LikeStep(p, s, esc, f, i, j)
  <2>1. i \in 0..Len(p) /\ j \in 0..Len(s)
    OBVIOUS
  <2> QED
    BY <2>1, LikeTableAt
<1>2. NextOffset(p, i + 1) = i + 2 /\ NextOffset(s, j) = j + 1
  BY DEF NextOffset
<1>3. SameCodePoint(p, i + 1, s, j)
  <2>1. SubSeq(p, i + 2, i + 2) = << p[i + 2] >> /\ SubSeq(s, j + 1, j + 1) = << s[j + 1] >>
    <3>1. i + 2 \in 1..Len(p) /\ j + 1 \in 1..Len(s)
      OBVIOUS
    <3> QED
      BY <3>1, OneByte
  <2>2. (i + 1) + 1 = i + 2
    OBVIOUS
  <2> QED
    BY <1>2, <2>1, <2>2 DEF SameCodePoint
<1>4. f[<<i + 2, j + 1>>] => LikeStep(p, s, esc, f, i, j)
  <2> HIDE DEF f
  <2>1. i # Len(p) /\ j < Len(s)
    OBVIOUS
  <2> QED
    BY <1>2, <1>3, <2>1 DEF LikeStep
<1> QED
  BY <1>1, <1>4 DEF Reaches

\* What has been reached at both ends is a match.
LEMMA EndIsReached ==
  ASSUME NEW p \in Seq(Byte), NEW s \in Seq(Byte), NEW esc,
         Reaches(p, s, esc, Len(p), Len(s))
  PROVE  Matches(p, s, esc)
<1> DEFINE f == LikeTable(p, s, esc)
<1>1. f[<<Len(p), Len(s)>>] = LikeStep(p, s, esc, f, Len(p), Len(s))
  <2>1. Len(p) \in 0..Len(p) /\ Len(s) \in 0..Len(s) /\ Len(p) \in Nat /\ Len(s) \in Nat
    OBVIOUS
  <2> QED
    BY <2>1, LikeTableAt
<1>2. LikeStep(p, s, esc, f, Len(p), Len(s))
  BY DEF LikeStep
<1> QED
  BY <1>1, <1>2, MatchesIs DEF Reaches

-----------------------------------------------------------------------------
(* Code points of the text. *)

OneFurther(s, o) == IF o = NoOffset \/ o >= Len(s) THEN NoOffset ELSE NextOffset(s, o)

\* Advancing takes a code point at a time.
LEMMA AdvanceSteps ==
  ASSUME NEW s, Len(s) \in Nat, NEW from, from \in CodePointStarts(s)
  PROVE  /\ Utf8Advance(s, from, 0) = from
         /\ \A n \in Nat : Utf8Advance(s, from, n + 1) = OneFurther(s, Utf8Advance(s, from, n))
         /\ \A n \in Nat : Utf8Advance(s, from, n) \in CodePointStarts(s) \cup {NoOffset}
<1> DEFINE S == CodePointStarts(s) \cup {NoOffset}
           Is(N, cur) == cur = [n \in 0..N |-> IF n = 0 THEN from ELSE OneFurther(s, cur[n - 1])]
           C(N) == CHOOSE g : Is(N, g)
<1>1. \A o \in S : OneFurther(s, o) \in S
  <2> SUFFICES ASSUME NEW o \in S PROVE OneFurther(s, o) \in S
    OBVIOUS
  <2>1. ASSUME o \in CodePointStarts(s), ~(o >= Len(s)) PROVE NextOffset(s, o) \in S
    BY <2>1, StartsAre
  <2> QED
    BY <2>1 DEF OneFurther
<1>2. ASSUME NEW N \in Nat PROVE Is(N, C(N))
  <2> DEFINE step == [n \in 1..N |-> [o \in S |-> OneFurther(s, o)]]
  <2>1. step \in [1..N -> [S -> S]] /\ from \in S
    BY <1>1
  <2> HIDE DEF S
  <2>2. PICK f \in [0..N -> S] : f[0] = from /\ \A n \in 1..N : f[n] = step[n][f[n - 1]]
    <3> HIDE DEF step
    <3>1. \A st \in [1..N -> [S -> S]] :
            \E f \in [0..N -> S] : f[0] = from /\ \A i \in 1..N : f[i] = st[i][f[i - 1]]
      <4>1. from \in S
        BY <2>1
      <4> QED
        BY ONLY <4>1, Iteration
    <3> QED
      BY <2>1, <3>1
  <2>3. Is(N, f)
    <3>1. f = [n \in 0..N |-> f[n]]
      OBVIOUS
    <3>2. \A n \in 0..N : n = 0 \/ (n \in 1..N /\ n - 1 \in 0..N)
      OBVIOUS
    <3>3. \A n \in 0..N : f[n] = IF n = 0 THEN from ELSE OneFurther(s, f[n - 1])
      BY <2>2, <3>2
    <3> QED
      BY <3>1, <3>3
  <2> HIDE DEF Is
  <2> QED
    BY <2>3
<1>3. ASSUME NEW N \in Nat
      PROVE  /\ C(N)[0] = from
             /\ \A n \in 0..(N - 1) : C(N)[n + 1] = OneFurther(s, C(N)[n])
  <2> DEFINE cur == C(N)
  <2>1. Is(N, cur)
    BY <1>2
  <2> HIDE DEF cur
  <2>2. cur[0] = from
    BY <2>1
  <2>3. ASSUME NEW n \in 0..(N - 1) PROVE cur[n + 1] = OneFurther(s, cur[n])
    <3>1. n + 1 \in 0..N /\ n + 1 # 0 /\ (n + 1) - 1 = n
      OBVIOUS
    <3> QED
      BY <2>1, <3>1
  <2> QED
    BY <2>2, <2>3 DEF cur
<1>4. ASSUME NEW N \in Nat PROVE Utf8Advance(s, from, N) = C(N)[N]
  BY DEF Utf8Advance, OneFurther
<1> HIDE DEF C
<1>5. ASSUME NEW M \in Nat, NEW N \in Nat, M <= N PROVE C(N)[M] = C(M)[M]
  <2> DEFINE T == {n \in 0..M : C(N)[n] = C(M)[n]}
  <2>1. 0 \in T
    BY <1>3
  <2>2. ASSUME NEW n \in 0..(M - 1), n \in T PROVE n + 1 \in T
    <3>1. n \in 0..(N - 1) /\ n + 1 \in 0..M
      BY <1>5
    <3> QED
      BY <1>3, <2>2, <3>1
  <2>3. \A n \in 0..M : n \in T
    <3> HIDE DEF T
    <3> QED
      BY <2>1, <2>2, InductionUpTo
  <2>4. M \in 0..M
    OBVIOUS
  <2> QED
    BY <2>3, <2>4
<1>6. Utf8Advance(s, from, 0) = from
  BY <1>3, <1>4
<1>7. ASSUME NEW n \in Nat
      PROVE  Utf8Advance(s, from, n + 1) = OneFurther(s, Utf8Advance(s, from, n))
  <2>1. n + 1 \in Nat /\ n <= n + 1 /\ n \in 0..((n + 1) - 1)
    OBVIOUS
  <2>2. C(n + 1)[n + 1] = OneFurther(s, C(n + 1)[n])
    BY <1>3, <2>1
  <2>3. C(n + 1)[n] = C(n)[n]
    BY <1>5, <2>1
  <2> QED
    BY <1>4, <2>1, <2>2, <2>3
<1>8. \A n \in Nat : Utf8Advance(s, from, n) \in S
  <2> DEFINE T == {n \in Nat : Utf8Advance(s, from, n) \in S}
  <2>1. 0 \in T
    BY <1>6
  <2>2. ASSUME NEW n \in Nat, n \in T PROVE n + 1 \in T
    <3>1. n + 1 \in Nat /\ Utf8Advance(s, from, n) \in S
      BY <2>2
    <3> HIDE DEF S
    <3> QED
      BY <1>1, <1>7, <3>1
  <2> HIDE DEF T
  <2>3. \A n \in Nat : n \in T
    BY <2>1, <2>2, Induction
  <2> QED
    BY <2>3 DEF T
<1> QED
  BY <1>6, <1>7, <1>8

\* Advancing twice is advancing by the sum.
LEMMA AdvanceAgain ==
  ASSUME NEW s, Len(s) \in Nat, NEW from, from \in CodePointStarts(s), NEW m \in Nat,
         Utf8Advance(s, from, m) # NoOffset
  PROVE  \A n \in Nat : Utf8Advance(s, Utf8Advance(s, from, m), n) = Utf8Advance(s, from, m + n)
<1> DEFINE mid == Utf8Advance(s, from, m)
           T == {n \in Nat : Utf8Advance(s, mid, n) = Utf8Advance(s, from, m + n)}
<1>1. mid \in CodePointStarts(s)
  BY AdvanceSteps
<1> HIDE DEF mid
<1>2. 0 \in T
  <2>1. m + 0 = m /\ Utf8Advance(s, mid, 0) = mid
    BY <1>1, AdvanceSteps
  <2> QED
    BY <2>1 DEF mid
<1>3. ASSUME NEW n \in Nat, n \in T PROVE n + 1 \in T
  <2>1. Utf8Advance(s, mid, n + 1) = OneFurther(s, Utf8Advance(s, mid, n))
    BY <1>1, AdvanceSteps
  <2>2. Utf8Advance(s, from, (m + n) + 1) = OneFurther(s, Utf8Advance(s, from, m + n))
    <3>1. m + n \in Nat
      OBVIOUS
    <3> QED
      BY <3>1, AdvanceSteps
  <2>3. (m + n) + 1 = m + (n + 1) /\ n + 1 \in Nat
    OBVIOUS
  <2> QED
    BY <1>3, <2>1, <2>2, <2>3
<1>4. \A n \in Nat : n \in T
  <2> HIDE DEF T
  <2> QED
    BY <1>2, <1>3, Induction
<1> QED
  BY <1>4 DEF mid

\* Every code point start but the first has one right before it.
LEMMA StartBefore ==
  ASSUME NEW s, Len(s) \in Nat, NEW e, e \in CodePointStarts(s), NEW t, t \in CodePointStarts(s), e < t
  PROVE  \E o \in CodePointStarts(s) : e <= o /\ o < t /\ NextOffset(s, o) = t
<1> DEFINE X == {o \in CodePointStarts(s) : o < t}
<1>1. /\ CodePointStarts(s) \subseteq 0..Len(s)
      /\ \A o \in CodePointStarts(s) \ {Len(s)} : NextOffset(s, o) \in CodePointStarts(s)
      /\ \A o, x \in CodePointStarts(s) : x < o => NextOffset(s, x) <= o
  BY StartsAre
<1>2. X \subseteq Nat /\ X # {} /\ t \in Nat /\ \A o \in X : o <= t
  BY <1>1
<1>3. PICK o \in X : \A x \in X : x <= o
  <2> HIDE DEF X
  <2> QED
    BY <1>2, GreatestElement
<1>4. o # Len(s) /\ e <= o
  BY <1>1, <1>3
<1>5. NextOffset(s, o) \in CodePointStarts(s) /\ NextOffset(s, o) <= t
  BY <1>1, <1>3, <1>4
<1>6. NextOffset(s, o) > o
  <2>1. o \in 0..(Len(s) - 1)
    BY <1>1, <1>3, <1>4
  <2> QED
    BY <2>1, NextOffsetMoves
<1>7. NextOffset(s, o) = t
  <2>1. NextOffset(s, o) \notin X
    <3> SUFFICES ASSUME NextOffset(s, o) \in X PROVE FALSE
      OBVIOUS
    <3>1. NextOffset(s, o) <= o /\ NextOffset(s, o) \in Nat /\ o \in Nat
      BY <1>2, <1>3
    <3> QED
      BY <1>6, <3>1
  <2> QED
    BY <1>1, <1>5, <2>1
<1> QED
  BY <1>3, <1>4, <1>7

\* The wildcards of p between a and b take c code points, and with any more after them.
Leads(p, s, esc, a, b, c, any) ==
  \A j, t \in CodePointStarts(s) :
    LET e == Utf8Advance(s, j, c)
    IN  /\ Reaches(p, s, esc, a, j)
        /\ e # NoOffset
        /\ t = e \/ (any /\ e <= t)
        => Reaches(p, s, esc, b, t)

\* No wildcard takes no code point.
LEMMA LeadsNowhere ==
  ASSUME NEW p, NEW s \in Seq(Byte), NEW esc, NEW a
  PROVE  Leads(p, s, esc, a, a, 0, FALSE)
<1>1. \A j \in CodePointStarts(s) : Utf8Advance(s, j, 0) = j
  <2>1. Len(s) \in Nat
    OBVIOUS
  <2> QED
    BY <2>1, AdvanceSteps
<1> QED
  BY <1>1 DEF Leads

\* What may take any more may take no more.
LEMMA LeadsLess ==
  ASSUME NEW p, NEW s, NEW esc, NEW a, NEW b, NEW c, NEW any \in BOOLEAN,
         Leads(p, s, esc, a, b, c, TRUE)
  PROVE  Leads(p, s, esc, a, b, c, any)
BY DEF Leads

\* An underscore more takes a code point more.
LEMMA LeadsUnderscore ==
  ASSUME NEW p \in Seq(Byte), NEW s \in Seq(Byte), NEW esc, esc # UNDERSCORE, NEW a,
         NEW b \in 0..(Len(p) - 1), p[b + 1] = UNDERSCORE, NEW c \in Nat, NEW any \in BOOLEAN,
         Leads(p, s, esc, a, b, c, any)
  PROVE  Leads(p, s, esc, a, b + 1, c + 1, any)
<1>1. /\ Len(s) \in Nat /\ CodePointStarts(s) \subseteq 0..Len(s)
      /\ \A o, x \in CodePointStarts(s) : x < o => NextOffset(s, x) <= o
  BY StartsAre
<1> SUFFICES ASSUME NEW j \in CodePointStarts(s), NEW t \in CodePointStarts(s),
                    Reaches(p, s, esc, a, j), Utf8Advance(s, j, c + 1) # NoOffset,
                    t = Utf8Advance(s, j, c + 1) \/ (any /\ Utf8Advance(s, j, c + 1) <= t)
             PROVE  Reaches(p, s, esc, b + 1, t)
  BY DEF Leads
<1> DEFINE e == Utf8Advance(s, j, c)
           e1 == Utf8Advance(s, j, c + 1)
<1>2. e1 = OneFurther(s, e) /\ e \in CodePointStarts(s) \cup {NoOffset}
  BY <1>1, AdvanceSteps
<1>3. e # NoOffset /\ ~(e >= Len(s)) /\ e1 = NextOffset(s, e)
  BY <1>2 DEF OneFurther
<1> HIDE DEF e, e1
<1>4. e \in 0..(Len(s) - 1)
  BY <1>1, <1>2, <1>3
<1>5. e1 \in (e + 1)..Len(s)
  BY <1>1, <1>3, <1>4, NextOffsetMoves
<1>6. t \in 0..Len(s) /\ e \in CodePointStarts(s) /\ e < t
  BY <1>1, <1>2, <1>3, <1>4, <1>5 DEF e1
<1>7. \E o \in CodePointStarts(s) : /\ NextOffset(s, o) = t /\ o < t
                                    /\ o = e \/ (any /\ e <= o)
  <2>1. CASE any
    BY <1>1, <1>6, <2>1, StartBefore
  <2>2. CASE ~any
    BY <1>3, <1>6, <2>2 DEF e1
  <2> QED
    BY <2>1, <2>2
<1>8. PICK o \in CodePointStarts(s) : NextOffset(s, o) = t /\ o < t /\ (o = e \/ (any /\ e <= o))
  BY <1>7
<1>9. Reaches(p, s, esc, b, o)
  BY <1>3, <1>8 DEF Leads, e
<1>10. o \in 0..(Len(s) - 1)
  BY <1>1, <1>6, <1>8
<1> QED
  BY <1>8, <1>9, <1>10, UnderscoreTakes

\* A percent more takes any more.
LEMMA LeadsPercent ==
  ASSUME NEW p \in Seq(Byte), NEW s \in Seq(Byte), NEW esc, esc # PERCENTAGE, NEW a,
         NEW b \in 0..(Len(p) - 1), p[b + 1] = PERCENTAGE, NEW c \in Nat, NEW any \in BOOLEAN,
         Leads(p, s, esc, a, b, c, any)
  PROVE  Leads(p, s, esc, a, b + 1, c, TRUE)
<1>1. /\ Len(s) \in Nat /\ CodePointStarts(s) \subseteq 0..Len(s)
      /\ \A o \in CodePointStarts(s) \ {Len(s)} : NextOffset(s, o) \in CodePointStarts(s)
      /\ \A o, x \in CodePointStarts(s) : x < o => NextOffset(s, x) <= o
  BY StartsAre
<1> SUFFICES ASSUME NEW j \in CodePointStarts(s), NEW t \in CodePointStarts(s),
                    Reaches(p, s, esc, a, j), Utf8Advance(s, j, c) # NoOffset,
                    t = Utf8Advance(s, j, c) \/ Utf8Advance(s, j, c) <= t
             PROVE  Reaches(p, s, esc, b + 1, t)
  BY DEF Leads
<1> DEFINE e == Utf8Advance(s, j, c)
<1>2. e \in CodePointStarts(s)
  BY <1>1, AdvanceSteps
<1>3. Reaches(p, s, esc, b, e)
  BY <1>2 DEF Leads
<1>4. e <= t
  BY <1>1, <1>2
<1> HIDE DEF e
<1> DEFINE X == {o \in CodePointStarts(s) : o <= t /\ Reaches(p, s, esc, b, o)}
<1>5. X \subseteq Nat /\ X # {} /\ t \in Nat /\ \A o \in X : o <= t
  BY <1>1, <1>2, <1>3, <1>4
<1>6. PICK o \in X : \A x \in X : x <= o
  <2> HIDE DEF X
  <2> QED
    BY <1>5, GreatestElement
<1>7. o = t
  <2> SUFFICES ASSUME o # t PROVE FALSE
    OBVIOUS
  <2>1. o \in CodePointStarts(s) /\ o < t /\ o \in 0..(Len(s) - 1)
    BY <1>1, <1>6
  <2>2. NextOffset(s, o) \in CodePointStarts(s) /\ NextOffset(s, o) <= t
    BY <1>1, <2>1
  <2>3. NextOffset(s, o) \in (o + 1)..Len(s)
    BY <1>1, <2>1, NextOffsetMoves
  <2>4. Reaches(p, s, esc, b, NextOffset(s, o))
    <3>1. Reaches(p, s, esc, b, o) /\ o \in 0..Len(s) /\ o < Len(s)
      BY <1>6, <2>1
    <3> QED
      BY <3>1, PercentTakes
  <2>5. NextOffset(s, o) \in X
    BY <2>2, <2>4
  <2>6. NextOffset(s, o) <= o
    BY <1>6, <2>5
  <2> QED
    BY <2>1, <2>3, <2>6
<1>8. Reaches(p, s, esc, b, t) /\ t \in 0..Len(s)
  BY <1>1, <1>6, <1>7
<1> QED
  BY <1>8, PercentTakes

\* So a run of underscores takes as many code points.
LEMMA LeadsUnderscores ==
  ASSUME NEW p \in Seq(Byte), NEW s \in Seq(Byte), NEW esc, esc # UNDERSCORE, NEW a,
         NEW b \in 0..Len(p), NEW d \in b..Len(p), \A x \in b..(d - 1) : p[x + 1] = UNDERSCORE,
         NEW c \in Nat, NEW any \in BOOLEAN, Leads(p, s, esc, a, b, c, any)
  PROVE  Leads(p, s, esc, a, d, c + (d - b), any)
<1> DEFINE T == {x \in b..d : Leads(p, s, esc, a, x, c + (x - b), any)}
<1>1. b \in T
  <2>1. c + (b - b) = c /\ b \in b..d
    OBVIOUS
  <2> QED
    BY <2>1
<1>2. ASSUME NEW x \in b..(d - 1), x \in T PROVE x + 1 \in T
  <2>1. x \in 0..(Len(p) - 1) /\ c + (x - b) \in Nat /\ x + 1 \in b..d
    OBVIOUS
  <2>2. p[x + 1] = UNDERSCORE /\ Leads(p, s, esc, a, x, c + (x - b), any)
    BY <1>2
  <2>3. Leads(p, s, esc, a, x + 1, (c + (x - b)) + 1, any)
    BY <2>1, <2>2, LeadsUnderscore
  <2>4. (c + (x - b)) + 1 = c + ((x + 1) - b)
    OBVIOUS
  <2> QED
    BY <2>1, <2>3, <2>4
<1>3. \A x \in b..d : x \in T
  <2>1. b \in Nat /\ d \in Nat
    OBVIOUS
  <2> HIDE DEF T
  <2> QED
    BY <1>1, <1>2, <2>1, InductionUpTo
<1>4. d \in b..d
  OBVIOUS
<1> QED
  BY <1>3, <1>4

\* And a run of percents takes any more.
LEMMA LeadsPercents ==
  ASSUME NEW p \in Seq(Byte), NEW s \in Seq(Byte), NEW esc, esc # PERCENTAGE, NEW a,
         NEW b \in 0..Len(p), NEW d \in b..Len(p), \A x \in b..(d - 1) : p[x + 1] = PERCENTAGE,
         NEW c \in Nat, NEW any \in BOOLEAN, Leads(p, s, esc, a, b, c, any)
  PROVE  /\ b < d => Leads(p, s, esc, a, d, c, TRUE)
         /\ Leads(p, s, esc, a, d, c, any)
<1> DEFINE T == {x \in b..d : Leads(p, s, esc, a, x, c, x > b \/ any)}
<1>1. b \in T
  <2>1. (b > b \/ any) = any /\ b \in b..d
    OBVIOUS
  <2> QED
    BY <2>1
<1>2. ASSUME NEW x \in b..(d - 1), x \in T PROVE x + 1 \in T
  <2>1. x \in 0..(Len(p) - 1) /\ x + 1 \in b..d /\ (x + 1 > b \/ any) = TRUE
    OBVIOUS
  <2>2. p[x + 1] = PERCENTAGE /\ Leads(p, s, esc, a, x, c, x > b \/ any) /\ (x > b \/ any) \in BOOLEAN
    BY <1>2
  <2>3. Leads(p, s, esc, a, x + 1, c, TRUE)
    BY <2>1, <2>2, LeadsPercent
  <2> QED
    BY <2>1, <2>3
<1>3. \A x \in b..d : x \in T
  <2>1. b \in Nat /\ d \in Nat
    OBVIOUS
  <2> HIDE DEF T
  <2> QED
    BY <1>1, <1>2, <2>1, InductionUpTo
<1>4. Leads(p, s, esc, a, d, c, d > b \/ any)
  <2>1. d \in b..d
    OBVIOUS
  <2> QED
    BY <1>3, <2>1
<1>5. CASE b < d
  <2>1. (d > b \/ any) = TRUE
    BY <1>5
  <2> QED
    BY <1>4, <2>1, LeadsLess
<1>6. CASE ~(b < d)
  <2>1. d = b
    BY <1>6
  <2> QED
    BY <1>6, <2>1
<1> QED
  BY <1>5, <1>6

-----------------------------------------------------------------------------
(* How far a literal takes the table. *)

\* The escape byte is one of ASCII and no wildcard, and stands before wildcards only.
OnlyWildcardsEscaped(p, esc) ==
  /\ esc \in {NoEscape} \cup (0..127 \ {PERCENTAGE, UNDERSCORE})
  /\ \A i \in 1..Len(p) : p[i] = esc => i < Len(p) /\ p[i + 1] \in {PERCENTAGE, UNDERSCORE}

Stripping(p, esc, a, before, n) ==
  IF p[a + n] = esc /\ ~before.verbatim THEN [out |-> before.out, verbatim |-> TRUE]
  ELSE [out |-> Append(before.out, p[a + n]), verbatim |-> FALSE]

\* How far StripEscapes has come: every byte that is no escape byte is appended.
StripsTo(p, esc, a, len, kw, c) ==
  /\ c \in [0..len -> 0..Len(kw)] /\ c[0] = 0 /\ c[len] = Len(kw)
  /\ \A n \in 0..(len - 1) :
       IF p[a + n + 1] = esc THEN c[n + 1] = c[n]
       ELSE c[n + 1] = c[n] + 1 /\ kw[c[n] + 1] = p[a + n + 1]

\* So at the end it has the bytes of the literal but for the escape bytes.
LEMMA StripEscapesIs ==
  ASSUME NEW p \in Seq(Byte), NEW esc, OnlyWildcardsEscaped(p, esc),
         NEW lit, lit.start \in Nat, lit.len \in Nat, lit.start + lit.len <= Len(p),
         ~IsEscaped(p, esc, lit.start)
  PROVE  LET kw == StripEscapes(p, esc, lit)
         IN  kw \in Seq(Byte) /\ \E c : StripsTo(p, esc, lit.start, lit.len, kw, c)
<1> DEFINE a == lit.start
           len == lit.len
           S == [out : Seq(Byte), verbatim : BOOLEAN]
           base == [out |-> << >>, verbatim |-> FALSE]
           step == [n \in 1..len |-> [x \in S |-> Stripping(p, esc, a, x, n)]]
           Is(t) == t = [n \in 0..len |-> IF n = 0 THEN base ELSE Stripping(p, esc, a, t[n - 1], n)]
<1>1. /\ a \in Nat /\ len \in Nat /\ a + len <= Len(p)
      /\ \A n \in 1..len : a + n \in 1..Len(p) /\ p[a + n] \in Byte
  OBVIOUS
<1> HIDE DEF a, len
<1>2. ASSUME NEW n \in 1..len, NEW x \in S PROVE Stripping(p, esc, a, x, n) \in S
  <2>1. [out |-> x.out, verbatim |-> TRUE] \in S
    OBVIOUS
  <2>2. [out |-> Append(x.out, p[a + n]), verbatim |-> FALSE] \in S
    <3>1. Append(x.out, p[a + n]) \in Seq(Byte)
      BY <1>1
    <3> QED
      BY <3>1
  <2> QED
    BY <2>1, <2>2 DEF Stripping
<1>3. step \in [1..len -> [S -> S]] /\ base \in S
  <2>1. base \in S
    OBVIOUS
  <2> HIDE DEF S
  <2> QED
    BY <1>2, <2>1
<1>4. PICK f \in [0..len -> S] : f[0] = base /\ \A n \in 1..len : f[n] = step[n][f[n - 1]]
  <2> HIDE DEF S, step, base
  <2>1. \A st \in [1..len -> [S -> S]] :
          \E f \in [0..len -> S] : f[0] = base /\ \A i \in 1..len : f[i] = st[i][f[i - 1]]
    <3>1. base \in S /\ len \in Nat
      BY <1>1, <1>3
    <3> QED
      BY ONLY <3>1, Iteration
  <2> QED
    BY <1>3, <2>1
<1>5. Is(f)
  <2> HIDE DEF S, base
  <2>1. f = [n \in 0..len |-> f[n]]
    OBVIOUS
  <2>2. \A n \in 0..len : n = 0 \/ (n \in 1..len /\ n - 1 \in 0..len)
    BY <1>1
  <2>3. \A n \in 0..len : f[n] = IF n = 0 THEN base ELSE Stripping(p, esc, a, f[n - 1], n)
    BY <1>4, <2>2
  <2> QED
    BY <2>1, <2>3
<1>6. PICK t : Is(t) /\ t = CHOOSE g : Is(g)
  BY <1>5
<1> DEFINE kw == StripEscapes(p, esc, lit)
<1>7. kw = t[len].out
  <2> DEFINE C == CHOOSE g : Is(g)
  <2>1. StripEscapes(p, esc, lit) = C[len].out
    BY DEF StripEscapes, Stripping, a, len
  <2> HIDE DEF C
  <2> QED
    BY <1>6, <2>1 DEF C
<1> HIDE DEF kw
<1>8. /\ t[0] = base
      /\ \A n \in 0..(len - 1) : t[n + 1] = Stripping(p, esc, a, t[n], n + 1)
  <2> HIDE DEF base
  <2>1. \A n \in 0..(len - 1) : n + 1 \in 0..len /\ n + 1 # 0 /\ (n + 1) - 1 = n
    BY <1>1
  <2>2. 0 \in 0..len
    BY <1>1
  <2> QED
    BY <1>6, <2>1, <2>2
\* The next byte is taken verbatim exactly if it is escaped.
<1> DEFINE T == {n \in 0..len : t[n] \in S /\ (t[n].verbatim <=> IsEscaped(p, esc, a + n))}
<1>9. 0 \in T
  <2>1. a + 0 = a /\ ~IsEscaped(p, esc, a)
    BY <1>1 DEF a
  <2>2. t[0] \in S /\ ~t[0].verbatim /\ 0 \in 0..len
    <3>1. ~base.verbatim
      OBVIOUS
    <3> HIDE DEF S, base
    <3> QED
      BY <1>1, <1>3, <1>8, <3>1
  <2> HIDE DEF S, base
  <2> QED
    BY <2>1, <2>2
<1>10. ASSUME NEW n \in 0..(len - 1), n \in T PROVE n + 1 \in T
  <2>1. n + 1 \in 1..len /\ n + 1 \in 0..len /\ a + (n + 1) \in 1..Len(p) /\ a + n \in Nat /\ a + n + 1 = a + (n + 1)
    BY <1>1
  <2>2. t[n + 1] = Stripping(p, esc, a, t[n], n + 1) /\ t[n] \in S
        /\ (t[n].verbatim <=> IsEscaped(p, esc, a + n))
    BY <1>8, <1>10
  <2>3. t[n + 1] \in S
    BY <1>2, <2>1, <2>2
  <2>4. IsEscaped(p, esc, a + (n + 1)) <=> (esc # NoEscape /\ p[a + (n + 1)] = esc)
    BY <2>1 DEF IsEscaped
  <2>5. t[n + 1].verbatim <=> (p[a + (n + 1)] = esc /\ ~t[n].verbatim)
    BY <2>2 DEF Stripping
  <2>6. t[n].verbatim => p[a + (n + 1)] # esc
    <3> SUFFICES ASSUME IsEscaped(p, esc, a + n) PROVE p[a + (n + 1)] # esc
      BY <2>2
    <3>1. a + n \in 1..Len(p) /\ p[a + n] = esc /\ esc # NoEscape
      BY <2>1 DEF IsEscaped
    <3>2. p[(a + n) + 1] \in {PERCENTAGE, UNDERSCORE}
      BY <3>1 DEF OnlyWildcardsEscaped
    <3>3. esc \notin {PERCENTAGE, UNDERSCORE}
      BY <3>1 DEF OnlyWildcardsEscaped
    <3> QED
      BY <2>1, <3>2, <3>3
  <2>7. p[a + (n + 1)] = esc => esc # NoEscape
    <3>1. p[a + (n + 1)] \in Byte
      BY <1>1, <2>1
    <3>2. \A x \in Byte : x # NoEscape
      BY DEF Byte, NoEscape
    <3> QED
      BY <3>1, <3>2
  <2> QED
    BY <2>1, <2>3, <2>4, <2>5, <2>6, <2>7
<1>11. \A n \in 0..len : t[n] \in S /\ (t[n].verbatim <=> IsEscaped(p, esc, a + n))
  <2>1. \A n \in 0..len : n \in T
    <3> HIDE DEF T
    <3> QED
      BY <1>1, <1>9, <1>10, InductionUpTo
  <2> QED
    BY <2>1
<1> HIDE DEF T
<1>12. ASSUME NEW n \in 0..(len - 1)
       PROVE  /\ p[a + n + 1] = esc => t[n + 1].out = t[n].out
              /\ p[a + n + 1] # esc => t[n + 1].out = Append(t[n].out, p[a + n + 1])
  <2>1. n + 1 \in 1..len /\ n \in 0..len /\ a + (n + 1) \in 1..Len(p) /\ a + n \in Nat /\ a + n + 1 = a + (n + 1)
    BY <1>1
  <2>2. t[n + 1] = Stripping(p, esc, a, t[n], n + 1)
    BY <1>8
  <2>3. t[n] \in S /\ (t[n].verbatim <=> IsEscaped(p, esc, a + n))
    BY <1>11, <2>1
  <2>4. IsEscaped(p, esc, a + n) => p[a + (n + 1)] # esc
    <3> SUFFICES ASSUME IsEscaped(p, esc, a + n) PROVE p[a + (n + 1)] # esc
      OBVIOUS
    <3>1. a + n \in 1..Len(p) /\ p[a + n] = esc /\ esc # NoEscape
      BY <2>1 DEF IsEscaped
    <3>2. p[(a + n) + 1] \in {PERCENTAGE, UNDERSCORE}
      BY <3>1 DEF OnlyWildcardsEscaped
    <3>3. esc \notin {PERCENTAGE, UNDERSCORE}
      BY <3>1 DEF OnlyWildcardsEscaped
    <3> QED
      BY <2>1, <3>2, <3>3
  <2> QED
    BY <2>1, <2>2, <2>3, <2>4 DEF Stripping
<1> DEFINE c == [n \in 0..len |-> Len(t[n].out)]
<1>13. \A n \in 0..len : t[n].out \in Seq(Byte) /\ c[n] \in Nat /\ c[n] = Len(t[n].out)
  <2>1. \A n \in 0..len : t[n].out \in Seq(Byte)
    BY <1>11
  <2> QED
    BY <2>1
\* What is out stays out.
<1>14. ASSUME NEW n \in 0..len, NEW m \in n..len
       PROVE  c[n] <= c[m] /\ \A i \in 1..c[n] : t[m].out[i] = t[n].out[i]
  <2> DEFINE U == {x \in n..len : c[n] <= c[x] /\ \A i \in 1..c[n] : t[x].out[i] = t[n].out[i]}
  <2>1. n \in U
    BY <1>1, <1>13
  <2>2. ASSUME NEW x \in n..(len - 1), x \in U PROVE x + 1 \in U
    <3>1. x \in 0..(len - 1) /\ x \in 0..len /\ x + 1 \in n..len /\ x + 1 \in 0..len
      BY <1>1
    <3>2. /\ p[a + x + 1] = esc => t[x + 1].out = t[x].out
          /\ p[a + x + 1] # esc => t[x + 1].out = Append(t[x].out, p[a + x + 1])
      BY <1>12, <3>1
    <3>3. p[a + x + 1] \in Byte
      <4>1. x + 1 \in 1..len /\ a + (x + 1) = a + x + 1
        BY <1>1, <3>1
      <4> QED
        BY <1>1, <4>1
    <3>4. t[x].out \in Seq(Byte) /\ c[x] = Len(t[x].out) /\ c[x + 1] = Len(t[x + 1].out) /\ c[n] \in Nat
      BY <1>13, <3>1
    <3>5. c[n] <= c[x] /\ \A i \in 1..c[n] : t[x].out[i] = t[n].out[i]
      BY <2>2
    <3> HIDE DEF c
    <3>6. CASE p[a + x + 1] = esc
      BY <3>1, <3>2, <3>4, <3>5, <3>6
    <3>7. CASE p[a + x + 1] # esc
      <4> DEFINE o == t[x].out
                 e == p[a + x + 1]
      <4>1. Len(Append(o, e)) = Len(o) + 1 /\ \A i \in 1..Len(o) : Append(o, e)[i] = o[i]
        BY <3>3, <3>4
      <4>2. t[x + 1].out = Append(o, e)
        BY <3>2, <3>7
      <4> HIDE DEF o, e
      <4>3. Len(o) \in Nat /\ c[x] = Len(o)
        BY <3>4 DEF o
      <4>4. c[n] <= c[x + 1]
        BY <3>4, <3>5, <4>1, <4>2, <4>3
      <4>5. \A i \in 1..c[n] : i \in 1..Len(o)
        BY <3>4, <3>5, <4>3
      <4>6. \A i \in 1..c[n] : t[x + 1].out[i] = t[n].out[i]
        BY <3>5, <4>1, <4>2, <4>5 DEF o
      <4> QED
        BY <3>1, <4>4, <4>6
    <3> QED
      BY <3>6, <3>7
  <2>3. \A x \in n..len : x \in U
    <3>1. n \in Nat
      BY <1>1
    <3> HIDE DEF U
    <3> QED
      BY <1>1, <2>1, <2>2, <3>1, InductionUpTo
  <2> QED
    BY <2>3
<1>15. kw \in Seq(Byte) /\ c[0] = 0 /\ c[len] = Len(kw)
  <2>1. len \in 0..len /\ 0 \in 0..len
    BY <1>1
  <2>2. t[0].out = << >>
    BY <1>8
  <2> QED
    BY <1>7, <1>13, <2>1, <2>2
<1>16. c \in [0..len -> 0..Len(kw)]
  <2>1. ASSUME NEW n \in 0..len PROVE c[n] \in 0..Len(kw)
    <3>1. len \in n..len
      BY <1>1
    <3>2. c[n] <= c[len] /\ c[n] \in Nat
      BY <1>13, <1>14, <3>1
    <3> HIDE DEF c
    <3> QED
      BY <1>15, <3>2
  <2> QED
    BY <2>1
<1>17. ASSUME NEW n \in 0..(len - 1)
       PROVE  IF p[a + n + 1] = esc THEN c[n + 1] = c[n]
              ELSE c[n + 1] = c[n] + 1 /\ kw[c[n] + 1] = p[a + n + 1]
  <2>1. n \in 0..len /\ n + 1 \in 0..len /\ len \in (n + 1)..len /\ len \in 0..len
    BY <1>1
  <2>2. /\ p[a + n + 1] = esc => t[n + 1].out = t[n].out
        /\ p[a + n + 1] # esc => t[n + 1].out = Append(t[n].out, p[a + n + 1])
    BY <1>12
  <2>3. t[n].out \in Seq(Byte) /\ c[n] = Len(t[n].out) /\ c[n + 1] = Len(t[n + 1].out)
    BY <1>13, <2>1
  <2>4. \A i \in 1..c[n + 1] : kw[i] = t[n + 1].out[i]
    BY <1>7, <1>14, <2>1
  <2>5. p[a + n + 1] \in Byte
    <3>1. n + 1 \in 1..len /\ a + (n + 1) = a + n + 1
      BY <1>1
    <3> QED
      BY <1>1, <3>1
  <2> HIDE DEF c
  <2>6. CASE p[a + n + 1] = esc
    BY <2>2, <2>3, <2>6
  <2>7. CASE p[a + n + 1] # esc
    <3> DEFINE o == t[n].out
               e == p[a + n + 1]
    <3>1. Len(Append(o, e)) = Len(o) + 1 /\ Append(o, e)[Len(o) + 1] = e /\ Len(o) \in Nat
      BY <2>3, <2>5
    <3>2. t[n + 1].out = Append(o, e)
      BY <2>2, <2>7
    <3> HIDE DEF o, e
    <3>3. c[n + 1] = Len(o) + 1 /\ c[n] = Len(o) /\ c[n] + 1 \in 1..c[n + 1]
      BY <2>3, <3>1, <3>2 DEF o
    <3>4. kw[c[n] + 1] = e
      BY <2>4, <3>1, <3>2, <3>3
    <3> QED
      BY <2>7, <3>3, <3>4 DEF e
  <2> QED
    BY <2>6, <2>7
<1>18. StripsTo(p, esc, a, len, kw, c)
  <2> HIDE DEF c
  <2> QED
    BY <1>15, <1>16, <1>17 DEF StripsTo
<1>19. kw \in Seq(Byte) /\ \E d : StripsTo(p, esc, a, len, kw, d)
  <2> HIDE DEF c
  <2> QED
    BY <1>15, <1>18
<1> QED
  BY <1>19 DEF kw, a, len

\* The string kw stands in s at offset t.
StandsAt(s, t, kw) == t + Len(kw) <= Len(s) /\ \A i \in 1..Len(kw) : s[t + i] = kw[i]

\* A valid text that stands in another one starts where a code point starts, and
\* has its code points where that one has them.
LEMMA CodePointsMatch ==
  ASSUME NEW s, ValidText(s), NEW kw, ValidText(kw), NEW t \in Nat, StandsAt(s, t, kw), Len(kw) > 0
  PROVE  /\ t \in CodePointStarts(s)
         /\ \A k \in CodePointStarts(kw) \ {Len(kw)} :
              /\ NextOffset(kw, k) = k + CodePointLength(kw[k + 1])
              /\ NextOffset(kw, k) \in CodePointStarts(kw)
              /\ NextOffset(s, t + k) = t + NextOffset(kw, k)
              /\ \A x \in (k + 1)..(NextOffset(kw, k) - 1) : kw[x + 1] >= 128
         /\ t + Len(kw) \in CodePointStarts(s)
<1>1. /\ s \in Seq(Byte) /\ kw \in Seq(Byte) /\ WholeCodePoints(kw)
      /\ \A o \in 0..(Len(s) - 1) : o \in CodePointStarts(s) <=> s[o + 1] \notin 128..191
      /\ \A o \in 0..(Len(kw) - 1) : o \in CodePointStarts(kw) <=> kw[o + 1] \notin 128..191
  BY DEF ValidText
<1>2. Len(s) \in Nat /\ Len(kw) \in Nat \ {0} /\ t + Len(kw) <= Len(s)
  BY <1>1 DEF StandsAt
<1>3. /\ 0 \in CodePointStarts(kw) /\ Len(kw) \in CodePointStarts(kw)
      /\ CodePointStarts(kw) \subseteq 0..Len(kw)
      /\ \A o \in CodePointStarts(kw) \ {Len(kw)} : NextOffset(kw, o) \in CodePointStarts(kw)
      /\ \A o, x \in CodePointStarts(kw) : x < o => NextOffset(kw, x) <= o
      /\ 0 \in CodePointStarts(s) /\ Len(s) \in CodePointStarts(s)
  BY <1>2, StartsAre
<1>4. ASSUME NEW k \in CodePointStarts(kw) \ {Len(kw)}
      PROVE  t + k \in CodePointStarts(s) /\ k \in 0..(Len(kw) - 1) /\ s[(t + k) + 1] = kw[k + 1]
             /\ t + k \in 0..(Len(s) - 1)
  <2>1. k \in 0..(Len(kw) - 1)
    BY <1>2, <1>3
  <2>2. k + 1 \in 1..Len(kw) /\ t + (k + 1) = (t + k) + 1 /\ t + k \in 0..(Len(s) - 1)
    BY <1>2, <2>1
  <2>3. s[(t + k) + 1] = kw[k + 1]
    BY <2>2 DEF StandsAt
  <2>4. kw[k + 1] \notin 128..191
    BY <1>1, <2>1
  <2>5. s[(t + k) + 1] \notin 128..191
    BY <2>3, <2>4
  <2> QED
    BY <1>1, <2>1, <2>2, <2>3, <2>5
<1>5. t \in CodePointStarts(s)
  <2>1. 0 \in CodePointStarts(kw) \ {Len(kw)} /\ t + 0 = t
    BY <1>2, <1>3
  <2> QED
    BY <1>4, <2>1
<1>6. ASSUME NEW k \in CodePointStarts(kw) \ {Len(kw)}
      PROVE  /\ NextOffset(kw, k) = k + CodePointLength(kw[k + 1])
             /\ NextOffset(kw, k) \in CodePointStarts(kw)
             /\ NextOffset(s, t + k) = t + NextOffset(kw, k)
             /\ \A x \in (k + 1)..(NextOffset(kw, k) - 1) : kw[x + 1] >= 128
  <2> DEFINE l == CodePointLength(kw[k + 1])
  <2>1. k + l <= Len(kw) /\ l \in Nat \ {0} /\ k \in 0..(Len(kw) - 1)
    <3>1. k + l <= Len(kw)
      BY <1>1 DEF WholeCodePoints
    <3> QED
      BY <1>4, <3>1, CodePointLengthPositive
  <2>2. NextOffset(kw, k) = k + l
    BY <1>2, <2>1, NextOffsetMoves
  <2>3. NextOffset(kw, k) \in CodePointStarts(kw)
    BY <1>3
  <2>4. NextOffset(s, t + k) = (t + k) + l
    <3>1. t + k \in 0..(Len(s) - 1) /\ s[(t + k) + 1] = kw[k + 1]
      BY <1>4
    <3>2. (t + k) + CodePointLength(s[(t + k) + 1]) = (t + k) + l
      BY <3>1
    <3> HIDE DEF l
    <3>3. (t + k) + l <= Len(s)
      BY <1>2, <2>1
    <3> QED
      BY <1>2, <3>1, <3>2, <3>3, NextOffsetMoves
  <2>5. ASSUME NEW x \in (k + 1)..(NextOffset(kw, k) - 1) PROVE kw[x + 1] >= 128
    <3> HIDE DEF l
    <3>1. x \in 0..(Len(kw) - 1) /\ k < x /\ x < NextOffset(kw, k)
      BY <1>2, <2>1, <2>2
    <3>2. x \notin CodePointStarts(kw)
      <4> SUFFICES ASSUME x \in CodePointStarts(kw) PROVE FALSE
        OBVIOUS
      <4>1. NextOffset(kw, k) <= x
        BY <1>3, <3>1
      <4> QED
        BY <2>1, <2>2, <3>1, <4>1
    <3>3. kw[x + 1] \in 128..191
      <4>1. x \in CodePointStarts(kw) <=> kw[x + 1] \notin 128..191
        BY <1>1, <3>1
      <4> QED
        BY <3>2, <4>1
    <3>4. \A b \in 128..191 : b >= 128
      OBVIOUS
    <3> QED
      BY <3>3, <3>4
  <2> HIDE DEF l
  <2>6. NextOffset(s, t + k) = t + NextOffset(kw, k)
    BY <2>1, <2>2, <2>4
  <2> QED
    BY <2>2, <2>3, <2>5, <2>6 DEF l
<1>7. t + Len(kw) \in CodePointStarts(s)
  <2>1. PICK k \in CodePointStarts(kw) : 0 <= k /\ k < Len(kw) /\ NextOffset(kw, k) = Len(kw)
    BY <1>2, <1>3, StartBefore
  <2>2. k \in CodePointStarts(kw) \ {Len(kw)}
    BY <1>2, <1>3, <2>1
  <2>3. NextOffset(s, t + k) = t + Len(kw)
    BY <1>6, <2>1, <2>2
  <2>4. t + k \in CodePointStarts(s) \ {Len(s)}
    BY <1>2, <1>4, <2>2
  <2> QED
    BY <1>2, <2>3, <2>4, StartsAre
<1> QED
  BY <1>5, <1>6, <1>7

\* No byte of p from a on for len bytes is a delimiter.
IsBare(p, esc, a, len) ==
  \A x \in a..(a + len - 1) : ~IsSegmentDelim(p, esc, x) /\ ~IsLiteralDelim(p, esc, x)

\* A literal of the pattern takes what it stands for without its escape bytes.
LEMMA LiteralTakes ==
  ASSUME NEW p \in Seq(Byte), NEW esc, OnlyWildcardsEscaped(p, esc),
         NEW s, ValidText(s),
         NEW a \in Nat, NEW len \in Nat, a + len <= Len(p), IsBare(p, esc, a, len),
         ~IsEscaped(p, esc, a), ~IsEscaped(p, esc, a + len),
         NEW kw, ValidText(kw), Len(kw) > 0, NEW c, StripsTo(p, esc, a, len, kw, c),
         NEW t \in Nat, StandsAt(s, t, kw), Reaches(p, s, esc, a, t)
  PROVE  Reaches(p, s, esc, a + len, t + Len(kw))
<1>1. /\ s \in Seq(Byte) /\ kw \in Seq(Byte)
      /\ Len(s) \in Nat /\ Len(kw) \in Nat \ {0} /\ t + Len(kw) <= Len(s)
      /\ \A i \in 1..Len(kw) : s[t + i] = kw[i]
  BY DEF ValidText, StandsAt
<1>2. /\ c \in [0..len -> 0..Len(kw)] /\ c[0] = 0 /\ c[len] = Len(kw)
      /\ \A n \in 0..(len - 1) :
           IF p[a + n + 1] = esc THEN c[n + 1] = c[n]
           ELSE c[n + 1] = c[n] + 1 /\ kw[c[n] + 1] = p[a + n + 1]
  BY DEF StripsTo
<1>3. /\ 0 \in CodePointStarts(kw) /\ Len(kw) \in CodePointStarts(kw)
      /\ CodePointStarts(kw) \subseteq 0..Len(kw)
  BY <1>1, StartsAre
\* A byte of the literal is the escape byte before a wildcard, or comes after one, or
\* is neither.
<1>4. ASSUME NEW n \in 0..(len - 1), p[a + n + 1] = esc
      PROVE  /\ n + 2 <= len /\ p[a + n + 2] \in {PERCENTAGE, UNDERSCORE}
             /\ p[a + n + 2] # esc /\ ~IsEscaped(p, esc, a + n + 2)
             /\ IsEscaped(p, esc, a + n + 1) /\ esc # NoEscape
  <2>1. a + n + 1 \in 1..Len(p) /\ (a + n + 1) + 1 = a + n + 2 /\ a + (n + 1) = a + n + 1
    OBVIOUS
  <2>2. a + n + 1 < Len(p) /\ p[a + n + 2] \in {PERCENTAGE, UNDERSCORE}
    BY <1>4, <2>1 DEF OnlyWildcardsEscaped
  <2>3. esc # NoEscape
    <3>1. p[a + n + 1] \in Byte
      BY <2>1
    <3>2. \A x \in Byte : x # NoEscape
      BY DEF Byte, NoEscape
    <3> QED
      BY <1>4, <3>1, <3>2
  <2>4. IsEscaped(p, esc, a + n + 1)
    BY <1>4, <2>1, <2>3 DEF IsEscaped
  <2>5. n + 1 # len
    BY <2>1, <2>4
  <2>6. esc \notin {PERCENTAGE, UNDERSCORE}
    BY <2>3 DEF OnlyWildcardsEscaped
  <2>7. ~IsEscaped(p, esc, a + n + 2)
    BY <2>2, <2>6 DEF IsEscaped
  <2> QED
    BY <2>2, <2>3, <2>4, <2>5, <2>6, <2>7
<1>5. ASSUME NEW n \in 0..(len - 1), ~IsEscaped(p, esc, a + n)
      PROVE  p[a + n + 1] \notin {PERCENTAGE, UNDERSCORE}
  <2>1. a + n \in a..(a + len - 1)
    OBVIOUS
  <2>2. ~IsSegmentDelim(p, esc, a + n) /\ ~IsLiteralDelim(p, esc, a + n)
    BY <2>1 DEF IsBare
  <2> QED
    BY <1>5, <2>2 DEF IsSegmentDelim, IsLiteralDelim
<1> DEFINE Come == {n \in 0..len : /\ ~IsEscaped(p, esc, a + n)
                                   /\ c[n] \in CodePointStarts(kw)
                                   /\ Reaches(p, s, esc, a + n, t + c[n])}
<1>6. 0 \in Come
  <2>1. a + 0 = a /\ t + 0 = t /\ 0 \in 0..len
    OBVIOUS
  <2> QED
    BY <1>2, <1>3, <2>1
<1>7. PICK n \in Come : \A m \in Come : m <= n
  <2>1. Come \subseteq Nat /\ Come # {} /\ \A m \in Come : m <= len
    BY <1>6
  <2> HIDE DEF Come
  <2> QED
    BY <2>1, GreatestElement
<1> DEFINE k == c[n]
<1>8. /\ n \in 0..len /\ ~IsEscaped(p, esc, a + n) /\ k \in CodePointStarts(kw) /\ k \in 0..Len(kw)
      /\ Reaches(p, s, esc, a + n, t + k)
  BY <1>2, <1>7
<1>9. ASSUME n # len PROVE FALSE
  <2>1. n \in 0..(len - 1) /\ a + n \in 0..(Len(p) - 1) /\ n \in Nat /\ (a + n) + 1 = a + n + 1
        /\ (a + n) + 2 = a + n + 2
    BY <1>8, <1>9
  <2>2. CASE p[a + n + 1] = esc
    <3>1. /\ n + 2 \in 0..len /\ n + 1 \in 0..(len - 1) /\ a + n + 2 = a + (n + 2)
          /\ a + (n + 1) + 1 = a + n + 2 /\ (n + 1) + 1 = n + 2 /\ (a + n) + 2 = a + (n + 2)
          /\ p[a + n + 2] \in {PERCENTAGE, UNDERSCORE} /\ p[a + n + 2] # esc
          /\ ~IsEscaped(p, esc, a + (n + 2)) /\ esc # NoEscape
      <4>1. /\ n + 2 <= len /\ p[a + n + 2] \in {PERCENTAGE, UNDERSCORE}
            /\ p[a + n + 2] # esc /\ ~IsEscaped(p, esc, a + n + 2) /\ esc # NoEscape
        BY <1>4, <2>1, <2>2
      <4>2. /\ n + 2 \in 0..len /\ n + 1 \in 0..(len - 1) /\ a + n + 2 = a + (n + 2)
            /\ a + (n + 1) + 1 = a + n + 2 /\ (n + 1) + 1 = n + 2 /\ (a + n) + 2 = a + (n + 2)
        BY <2>1, <4>1
      <4> QED
        BY <4>1, <4>2
    <3>2. c[n + 1] = k
      BY <1>2, <2>1, <2>2
    <3>3. c[n + 2] = k + 1 /\ kw[k + 1] = p[a + n + 2]
      <4>1. c[(n + 1) + 1] = c[n + 1] + 1 /\ kw[c[n + 1] + 1] = p[a + (n + 1) + 1]
        BY <1>2, <3>1
      <4> QED
        BY <3>1, <3>2, <4>1
    <3>4. k \in 0..(Len(kw) - 1) /\ k + 1 \in 1..Len(kw)
      <4>1. c[n + 2] \in 0..Len(kw) /\ Len(kw) \in Nat /\ k \in 0..Len(kw) /\ c[n + 2] = k + 1
        BY <1>1, <1>2, <1>8, <3>1, <3>3
      <4> HIDE DEF k
      <4> QED
        BY <4>1
    <3>5. s[(t + k) + 1] = p[a + n + 2] /\ t + k \in 0..(Len(s) - 1)
      <4>1. t + (k + 1) = (t + k) + 1
        BY <1>8
      <4> HIDE DEF k
      <4> QED
        <5>1. s[t + (k + 1)] = kw[k + 1]
          BY <1>1, <3>4
        <5>2. t + k \in 0..(Len(s) - 1)
          BY <1>1, <3>4
        <5> QED
          BY <3>3, <4>1, <5>1, <5>2
    <3>6. k + 1 \in CodePointStarts(kw)
      <4>1. NextOffset(kw, k) = k + 1
        BY <3>1, <3>3 DEF NextOffset, PERCENTAGE, UNDERSCORE
      <4>2. k \in CodePointStarts(kw) \ {Len(kw)}
        BY <1>1, <1>8, <3>4
      <4> QED
        BY <1>1, <4>1, <4>2, StartsAre
    <3>7. Reaches(p, s, esc, (a + n) + 2, (t + k) + 1)
      <4>1. p[(a + n) + 2] < 128 /\ (a + n) + 1 < Len(p)
        BY <2>1, <3>1 DEF PERCENTAGE, UNDERSCORE
      <4>2. p[(a + n) + 1] = esc /\ s[(t + k) + 1] = p[(a + n) + 2]
        BY <2>1, <2>2, <3>5
      <4> HIDE DEF k
      <4> QED
        BY <1>1, <1>8, <2>1, <3>1, <3>5, <4>1, <4>2, EscapeTakes
    <3>8. (t + k) + 1 = t + (k + 1)
      BY <1>8
    <3>9. n + 2 \in Come
      <4> HIDE DEF k
      <4> QED
        BY <3>1, <3>3, <3>6, <3>7, <3>8
    <3> HIDE DEF Come
    <3>10. n + 2 <= n
      BY <1>7, <3>9
    <3> QED
      BY <2>1, <3>10
  <2>3. CASE p[a + n + 1] # esc
    <3>1. p[a + n + 1] \notin {PERCENTAGE, UNDERSCORE}
      BY <1>5, <1>8, <2>1
    <3>2. c[n + 1] = k + 1 /\ kw[k + 1] = p[a + n + 1] /\ k \in 0..(Len(kw) - 1)
      <4>1. c[n + 1] = k + 1 /\ kw[k + 1] = p[a + n + 1]
        BY <1>2, <2>1, <2>3
      <4>2. c[n + 1] \in 0..Len(kw)
        BY <1>2, <2>1
      <4> HIDE DEF k
      <4> QED
        BY <1>1, <1>8, <4>1, <4>2
    <3> DEFINE l == CodePointLength(kw[k + 1])
    <3>3. k \in CodePointStarts(kw) \ {Len(kw)}
      BY <1>1, <1>8, <3>2
    <3>4. /\ NextOffset(kw, k) = k + l /\ k + l \in CodePointStarts(kw)
          /\ NextOffset(s, t + k) = t + (k + l)
          /\ \A x \in (k + 1)..(k + l - 1) : kw[x + 1] >= 128
      <4>1. \A x \in CodePointStarts(kw) \ {Len(kw)} :
              /\ NextOffset(kw, x) = x + CodePointLength(kw[x + 1])
              /\ NextOffset(kw, x) \in CodePointStarts(kw)
              /\ NextOffset(s, t + x) = t + NextOffset(kw, x)
              /\ \A y \in (x + 1)..(NextOffset(kw, x) - 1) : kw[y + 1] >= 128
        BY CodePointsMatch
      <4>2. NextOffset(kw, k) = k + l
        BY <3>3, <4>1
      <4>3. NextOffset(kw, k) \in CodePointStarts(kw) /\ NextOffset(s, t + k) = t + NextOffset(kw, k)
        BY <3>3, <4>1
      <4>4. \A y \in (k + 1)..(NextOffset(kw, k) - 1) : kw[y + 1] >= 128
        BY <3>3, <4>1
      <4>8. k \in Nat /\ l \in Nat
        BY <3>2, CodePointLengthPositive
      <4> HIDE DEF k, l
      <4>5. k + l \in CodePointStarts(kw)
        BY <4>2, <4>3
      <4>6. NextOffset(s, t + k) = t + (k + l)
        BY <4>2, <4>3
      <4>7. \A x \in (k + 1)..(k + l - 1) : kw[x + 1] >= 128
        <5>1. (k + l) - 1 = NextOffset(kw, k) - 1
          BY <4>2
        <5>2. \A x \in (k + 1)..(k + l - 1) : x \in (k + 1)..(NextOffset(kw, k) - 1)
          BY <4>2, <4>8
        <5> QED
          BY <4>4, <5>2
      <4> QED
        BY <4>2, <4>5, <4>6, <4>7
    <3>5. l \in Nat \ {0} /\ k + l <= Len(kw) /\ k \in Nat
      <4>1. l \in Nat \ {0}
        BY CodePointLengthPositive
      <4> HIDE DEF l, k
      <4> QED
        BY <1>1, <1>3, <1>8, <3>4, <4>1
    <3> HIDE DEF l, k
    \* The bytes of this code point stand one behind the other in the pattern.
    <3> DEFINE Same == {r \in 1..l : /\ n + r <= len /\ c[n + r] = k + r
                                     /\ p[a + n + r] = kw[k + r] /\ p[a + n + r] # esc}
    <3>6. 1 \in Same
      BY <2>1, <2>3, <3>2, <3>5
    <3>7. ASSUME NEW r \in 1..(l - 1), r \in Same PROVE r + 1 \in Same
      <4>1. n + r <= len /\ c[n + r] = k + r /\ r \in Nat /\ r + 1 \in 1..l
        <5>1. r \in Nat /\ r + 1 \in 1..l
          BY <3>5
        <5>2. n + r <= len /\ c[n + r] = k + r
          BY <3>7
        <5> QED
          BY <5>1, <5>2
      <4>2. n + r # len
        <5>1. k + r # Len(kw)
          BY <3>5, <4>1
        <5> QED
          BY <1>2, <4>1, <5>1
      <4> DEFINE m == n + r
      <4>3. m \in 0..(len - 1) /\ c[m] = k + r
        BY <2>1, <4>1, <4>2
      <4> HIDE DEF m
      <4>4. kw[(k + r) + 1] >= 128
        <5>1. k + r \in (k + 1)..(k + l - 1)
          BY <3>5
        <5> QED
          BY <3>4, <5>1
      <4>5. p[a + m + 1] # esc
        <5> SUFFICES ASSUME p[a + m + 1] = esc PROVE FALSE
          OBVIOUS
        <5>1. m + 2 <= len /\ p[a + m + 2] \in {PERCENTAGE, UNDERSCORE} /\ p[a + m + 2] # esc
          BY <1>4, <4>3
        <5>2. c[m + 1] = k + r
          BY <1>2, <4>3
        <5>3. m + 1 \in 0..(len - 1) /\ a + (m + 1) + 1 = a + m + 2
          BY <4>3, <5>1
        <5>4. kw[c[m + 1] + 1] = p[a + (m + 1) + 1]
          BY <1>2, <5>1, <5>3
        <5>5. kw[(k + r) + 1] = p[a + m + 2]
          BY <5>2, <5>3, <5>4
        <5> QED
          BY <4>4, <5>1, <5>5 DEF PERCENTAGE, UNDERSCORE
      <4>6. c[m + 1] = (k + r) + 1 /\ kw[(k + r) + 1] = p[a + m + 1]
        BY <1>2, <4>3, <4>5
      <4>7. m + 1 = n + (r + 1) /\ (k + r) + 1 = k + (r + 1) /\ a + m + 1 = a + n + (r + 1) /\ m + 1 <= len
        BY <2>1, <3>5, <4>1, <4>3 DEF m
      <4> QED
        BY <4>1, <4>5, <4>6, <4>7
    <3>8. \A r \in 1..l : r \in Same
      <4>1. l \in Nat /\ 1 \in Nat
        BY <3>5
      <4> HIDE DEF Same
      <4> QED
        BY <3>6, <3>7, <4>1, InductionUpTo
    <3>9. /\ n + l <= len /\ c[n + l] = k + l /\ p[a + n + l] # esc
          /\ \A r \in 1..l : p[a + n + r] = kw[k + r]
      <4>1. l \in 1..l
        BY <3>5
      <4> QED
        BY <3>8, <4>1
    <3> HIDE DEF Same
    <3>10. NextOffset(p, a + n) = (a + n) + l
      <4>1. p[(a + n) + 1] = kw[k + 1]
        BY <2>1, <3>2
      <4>2. (a + n) + CodePointLength(p[(a + n) + 1]) = (a + n) + l
        BY <4>1 DEF l
      <4>3. (a + n) + l <= Len(p) /\ Len(p) \in Nat
        BY <2>1, <3>5, <3>9
      <4> QED
        BY <2>1, <4>2, <4>3, NextOffsetMoves
    <3>11. t + k \in 0..(Len(s) - 1)
      BY <1>1, <3>2
    <3>12. SameCodePoint(p, a + n, s, t + k)
      <4> DEFINE x == SubSeq(p, (a + n) + 1, (a + n) + l)
                 y == SubSeq(s, (t + k) + 1, (t + k) + l)
      <4>1. /\ a + n \in Nat /\ t + k \in Nat /\ l \in Nat
            /\ (a + n) + l <= Len(p) /\ (t + k) + l <= Len(s)
        BY <1>1, <2>1, <3>5, <3>9, <3>11
      <4>2. /\ x \in Seq(Byte) /\ Len(x) = l
            /\ \A r \in 1..l : x[r] = p[(a + n) + r]
        BY <4>1, StretchIs
      <4>3. /\ y \in Seq(Byte) /\ Len(y) = l
            /\ \A r \in 1..l : y[r] = s[(t + k) + r]
        BY <1>1, <4>1, StretchIs
      <4>4. ASSUME NEW r \in 1..l PROVE x[r] = y[r]
        <5>1. (a + n) + r = a + n + r /\ (t + k) + r = t + (k + r)
          BY <2>1, <3>5
        <5>2. k + r \in 1..Len(kw)
          BY <3>5
        <5>3. s[t + (k + r)] = kw[k + r] /\ p[a + n + r] = kw[k + r]
          BY <1>1, <3>9, <5>2
        <5> HIDE DEF x, y
        <5> QED
          BY <4>2, <4>3, <5>1, <5>3
      <4> HIDE DEF x, y
      <4>5. x = y
        BY <4>2, <4>3, <4>4, SeqEqual
      <4>6. NextOffset(s, t + k) = (t + k) + l
        BY <3>4, <3>5
      <4> QED
        BY <3>10, <4>5, <4>6 DEF SameCodePoint, x, y
    <3>13. Reaches(p, s, esc, (a + n) + l, t + (k + l))
      <4>1. p[(a + n) + 1] # PERCENTAGE /\ p[(a + n) + 1] # esc
        BY <2>1, <2>3, <3>1
      <4>2. Reaches(p, s, esc, NextOffset(p, a + n), NextOffset(s, t + k))
        BY <1>1, <1>8, <2>1, <3>11, <3>12, <4>1, CodePointTakes
      <4> QED
        BY <3>4, <3>10, <4>2
    <3>14. n + l \in Come
      <4>1. (a + n) + l = a + (n + l) /\ n + l \in 0..len /\ a + n + l = a + (n + l)
        BY <2>1, <3>5, <3>9
      <4>2. ~IsEscaped(p, esc, a + (n + l))
        BY <3>9, <4>1 DEF IsEscaped
      <4> QED
        BY <3>4, <3>9, <3>13, <4>1, <4>2
    <3> HIDE DEF Come
    <3>15. n + l <= n
      BY <1>7, <3>14
    <3> QED
      BY <2>1, <3>5, <3>15
  <2> QED
    BY <2>2, <2>3
<1> QED
  BY <1>2, <1>8, <1>9

-----------------------------------------------------------------------------
(* How a pattern is cut up: the gaps between segments and between literals. *)

\* Where the n-th run ends, and where it starts; the bounds are runs of their own.
Behind(s, lo, n) == IF n = 0 THEN lo ELSE End(s[n])
Ahead(s, hi, n)  == IF n = Len(s) + 1 THEN hi ELSE s[n].start

\* Between two runs there are delimiters only.
LEMMA GapsAre ==
  ASSUME NEW lo \in Nat, NEW hi \in Nat, lo <= hi, NEW delims
  PROVE  LET s == Spans(lo, hi, delims)
         IN  \A n \in 0..Len(s) :
               /\ Behind(s, lo, n) \in lo..hi /\ Ahead(s, hi, n + 1) \in lo..hi
               /\ Behind(s, lo, n) <= Ahead(s, hi, n + 1)
               /\ Behind(s, lo, n)..(Ahead(s, hi, n + 1) - 1) \subseteq delims
<1> DEFINE s == Spans(lo, hi, delims)
<1>1. /\ Len(s) \in Nat
      /\ \A n \in 1..Len(s) : s[n].start \in lo..(hi - 1) /\ End(s[n]) \in s[n].start..hi
      /\ \A m, n \in 1..Len(s) : m < n => End(s[m]) < s[n].start
      /\ \A x \in lo..(hi - 1) :
           x \in delims \/ \E n \in 1..Len(s) : s[n].start <= x /\ x < End(s[n])
  BY SpansAre
<1> HIDE DEF s
<1>2. ASSUME NEW n \in 0..Len(s)
      PROVE  /\ Behind(s, lo, n) \in lo..hi /\ Ahead(s, hi, n + 1) \in lo..hi
             /\ Behind(s, lo, n) <= Ahead(s, hi, n + 1)
             /\ Behind(s, lo, n)..(Ahead(s, hi, n + 1) - 1) \subseteq delims
  <2> DEFINE a == Behind(s, lo, n)
             b == Ahead(s, hi, n + 1)
  <2>1. a \in lo..hi /\ (n # 0 => n \in 1..Len(s) /\ a = End(s[n]))
    <3>1. CASE n = 0
      BY <3>1 DEF Behind
    <3>2. CASE n # 0
      <4>1. n \in 1..Len(s)
        BY <1>1, <3>2
      <4> QED
        BY <1>1, <3>2, <4>1 DEF Behind
    <3> QED
      BY <3>1, <3>2
  <2>2. b \in lo..hi /\ (n # Len(s) => n + 1 \in 1..Len(s) /\ b = s[n + 1].start)
    <3>1. CASE n = Len(s)
      BY <1>1, <3>1 DEF Ahead
    <3>2. CASE n # Len(s)
      <4>1. n + 1 \in 1..Len(s)
        BY <1>1, <3>2
      <4> QED
        BY <1>1, <3>2, <4>1 DEF Ahead
    <3> QED
      BY <3>1, <3>2
  <2>3. n = 0 => a = lo
    BY DEF Behind
  <2>4. n = Len(s) => b = hi
    BY DEF Ahead
  <2> HIDE DEF a, b
  <2>5. a <= b
    <3>1. CASE n # 0 /\ n # Len(s)
      <4>1. n < n + 1
        OBVIOUS
      <4>2. End(s[n]) < s[n + 1].start
        BY <1>1, <2>1, <2>2, <3>1, <4>1
      <4> QED
        BY <2>1, <2>2, <3>1, <4>2
    <3>2. CASE n = 0
      BY <2>2, <2>3, <3>2
    <3>3. CASE n = Len(s)
      BY <2>1, <2>4, <3>3
    <3> QED
      BY <3>1, <3>2, <3>3
  <2>6. ASSUME NEW x \in a..(b - 1) PROVE x \in delims
    <3>1. x \in lo..(hi - 1) /\ a <= x /\ x < b
      BY <2>1, <2>2
    <3> SUFFICES ASSUME x \notin delims PROVE FALSE
      OBVIOUS
    <3>2. PICK m \in 1..Len(s) : s[m].start <= x /\ x < End(s[m])
      BY <1>1, <3>1
    <3>3. s[m].start \in Int /\ End(s[m]) \in Int /\ x \in Int
      BY <1>1, <3>1
    <3>4. CASE m <= n
      <4>1. n \in 1..Len(s) /\ a = End(s[n])
        BY <1>1, <2>1, <3>4
      <4>2. End(s[m]) <= End(s[n])
        <5>1. CASE m = n
          BY <3>3, <5>1
        <5>2. CASE m # n
          <6>1. m < n /\ End(s[m]) < s[n].start /\ s[n].start \in Int /\ End(s[n]) \in s[n].start..hi
            BY <1>1, <3>4, <4>1, <5>2
          <6> QED
            BY <3>3, <6>1
        <5> QED
          BY <5>1, <5>2
      <4> QED
        BY <2>1, <3>1, <3>2, <3>3, <4>1, <4>2
    <3>5. CASE ~(m <= n)
      <4>1. n + 1 \in 1..Len(s) /\ b = s[n + 1].start
        BY <1>1, <2>2, <3>5
      <4>2. s[n + 1].start <= s[m].start
        <5>1. CASE m = n + 1
          BY <3>3, <5>1
        <5>2. CASE m # n + 1
          <6>1. n + 1 < m /\ End(s[n + 1]) < s[m].start /\ s[n + 1].start \in Int
                /\ End(s[n + 1]) \in s[n + 1].start..hi
            BY <1>1, <3>5, <4>1, <5>2
          <6> QED
            BY <3>3, <6>1
        <5> QED
          BY <5>1, <5>2
      <4> QED
        BY <2>2, <3>1, <3>2, <3>3, <4>1, <4>2
    <3> QED
      BY <3>4, <3>5
  <2>7. a..(b - 1) \subseteq delims
    BY <2>6
  <2> QED
    BY <2>1, <2>2, <2>5, <2>7 DEF a, b
<1> QED
  BY <1>2 DEF s

\* A delimiter is no escape byte, and the byte behind it is not escaped.
LEMMA DelimIs ==
  ASSUME NEW p \in Seq(Byte), NEW esc, OnlyWildcardsEscaped(p, esc), NEW x \in 0..(Len(p) - 1),
         IsSegmentDelim(p, esc, x) \/ IsLiteralDelim(p, esc, x)
  PROVE  ~IsEscaped(p, esc, x) /\ ~IsEscaped(p, esc, x + 1)
<1>1. esc \notin {PERCENTAGE, UNDERSCORE} /\ p[x + 1] \in {PERCENTAGE, UNDERSCORE}
  BY DEF OnlyWildcardsEscaped, IsSegmentDelim, IsLiteralDelim, NoEscape, PERCENTAGE, UNDERSCORE
<1> QED
  BY <1>1 DEF IsEscaped, IsSegmentDelim, IsLiteralDelim

\* Nothing is escaped behind the end, or at the start.
LEMMA EndsAreFree ==
  ASSUME NEW p \in Seq(Byte), NEW esc, OnlyWildcardsEscaped(p, esc)
  PROVE  ~IsEscaped(p, esc, 0) /\ ~IsEscaped(p, esc, Len(p))
<1>1. ~IsEscaped(p, esc, 0)
  BY DEF IsEscaped
<1>2. ~IsEscaped(p, esc, Len(p))
  <2> SUFFICES ASSUME Len(p) > 0, p[Len(p)] = esc PROVE FALSE
    BY DEF IsEscaped
  <2>1. Len(p) \in 1..Len(p)
    OBVIOUS
  <2>2. Len(p) < Len(p)
    BY <2>1 DEF OnlyWildcardsEscaped
  <2> QED
    BY <2>2
<1> QED
  BY <1>1, <1>2

SegStart(p, esc, n) == Ahead(Segments(p, esc), Len(p), n)
SegEnd(p, esc, n)   == Behind(Segments(p, esc), 0, n)

\* The segments of a pattern: percents around them, none inside that is not escaped.
LEMMA SegmentsShape ==
  ASSUME NEW p \in Seq(Byte), NEW esc, OnlyWildcardsEscaped(p, esc)
  PROVE  LET segs == Segments(p, esc)
         IN  /\ Len(segs) \in Nat
             /\ \A n \in 0..Len(segs) :
                  /\ SegEnd(p, esc, n) \in 0..Len(p) /\ SegStart(p, esc, n + 1) \in SegEnd(p, esc, n)..Len(p)
                  /\ \A x \in SegEnd(p, esc, n)..(SegStart(p, esc, n + 1) - 1) : p[x + 1] = PERCENTAGE
             /\ SegEnd(p, esc, 0) = 0 /\ SegStart(p, esc, Len(segs) + 1) = Len(p)
             /\ \A n \in 1..Len(segs) :
                  /\ segs[n].start = SegStart(p, esc, n) /\ End(segs[n]) = SegEnd(p, esc, n)
                  /\ segs[n].start \in 0..Len(p) /\ End(segs[n]) \in (segs[n].start + 1)..Len(p)
                  /\ \A x \in segs[n].start..(End(segs[n]) - 1) : ~IsSegmentDelim(p, esc, x)
                  /\ ~IsEscaped(p, esc, segs[n].start) /\ ~IsEscaped(p, esc, End(segs[n]))
             /\ \A m, n \in 1..Len(segs) : m < n => End(segs[m]) < segs[n].start
<1> DEFINE segs == Segments(p, esc)
           D == {i \in 0..(Len(p) - 1) : IsSegmentDelim(p, esc, i)}
<1>1. Len(p) \in Nat /\ segs = Spans(0, Len(p), D)
  BY DEF Segments
<1>2. \A x \in D : x \in 0..(Len(p) - 1) /\ IsSegmentDelim(p, esc, x) /\ p[x + 1] = PERCENTAGE
  BY DEF IsSegmentDelim
<1>3. \A x \in 0..(Len(p) - 1) : IsSegmentDelim(p, esc, x) => x \in D
  OBVIOUS
<1> HIDE DEF segs, D
<1>4. /\ Len(segs) \in Nat
      /\ \A n \in 1..Len(segs) : segs[n].start \in 0..(Len(p) - 1) /\ End(segs[n]) \in segs[n].start..Len(p)
      /\ \A m, n \in 1..Len(segs) : m < n => End(segs[m]) < segs[n].start
      /\ \A n \in 1..Len(segs) : /\ segs[n].start..(End(segs[n]) - 1) \cap D = {}
                                 /\ segs[n].start < End(segs[n])
                                 /\ segs[n].start = 0 \/ segs[n].start - 1 \in D
                                 /\ End(segs[n]) = Len(p) \/ End(segs[n]) \in D
  BY <1>1, SpansAre
<1>5. \A n \in 0..Len(segs) :
        /\ Behind(segs, 0, n) \in 0..Len(p) /\ Ahead(segs, Len(p), n + 1) \in 0..Len(p)
        /\ Behind(segs, 0, n) <= Ahead(segs, Len(p), n + 1)
        /\ Behind(segs, 0, n)..(Ahead(segs, Len(p), n + 1) - 1) \subseteq D
  BY <1>1, GapsAre
<1>6. \A n : SegStart(p, esc, n) = Ahead(segs, Len(p), n) /\ SegEnd(p, esc, n) = Behind(segs, 0, n)
  BY DEF SegStart, SegEnd, segs
<1>7. ASSUME NEW n \in 0..Len(segs)
      PROVE  /\ SegEnd(p, esc, n) \in 0..Len(p) /\ SegStart(p, esc, n + 1) \in SegEnd(p, esc, n)..Len(p)
             /\ \A x \in SegEnd(p, esc, n)..(SegStart(p, esc, n + 1) - 1) : p[x + 1] = PERCENTAGE
  <2> DEFINE a == SegEnd(p, esc, n)
             b == SegStart(p, esc, n + 1)
  <2>1. a \in 0..Len(p) /\ b \in 0..Len(p) /\ a <= b /\ a..(b - 1) \subseteq D
    BY <1>5, <1>6
  <2> HIDE DEF a, b
  <2>2. b \in a..Len(p)
    BY <1>1, <2>1
  <2>3. \A x \in a..(b - 1) : p[x + 1] = PERCENTAGE
    BY <1>2, <2>1
  <2> QED
    BY <2>1, <2>2, <2>3 DEF a, b
<1>8. SegEnd(p, esc, 0) = 0 /\ SegStart(p, esc, Len(segs) + 1) = Len(p)
  BY <1>6 DEF Ahead, Behind
<1>9. ASSUME NEW n \in 1..Len(segs)
      PROVE  /\ segs[n].start = SegStart(p, esc, n) /\ End(segs[n]) = SegEnd(p, esc, n)
             /\ segs[n].start \in 0..Len(p) /\ End(segs[n]) \in (segs[n].start + 1)..Len(p)
             /\ \A x \in segs[n].start..(End(segs[n]) - 1) : ~IsSegmentDelim(p, esc, x)
             /\ ~IsEscaped(p, esc, segs[n].start) /\ ~IsEscaped(p, esc, End(segs[n]))
  <2>1. n # Len(segs) + 1 /\ n # 0
    BY <1>4
  <2>2. segs[n].start = SegStart(p, esc, n) /\ End(segs[n]) = SegEnd(p, esc, n)
    BY <1>6, <2>1 DEF Ahead, Behind
  <2> DEFINE a == segs[n].start
             b == End(segs[n])
  <2>3. /\ a \in 0..(Len(p) - 1) /\ b \in a..Len(p) /\ a < b
        /\ a..(b - 1) \cap D = {} /\ (a = 0 \/ a - 1 \in D) /\ (b = Len(p) \/ b \in D)
    BY <1>4
  <2> HIDE DEF a, b
  <2>4. a \in 0..Len(p) /\ b \in (a + 1)..Len(p)
    BY <1>1, <2>3
  <2>5. ASSUME NEW x \in a..(b - 1) PROVE ~IsSegmentDelim(p, esc, x)
    <3>1. x \in 0..(Len(p) - 1) /\ x \notin D
      BY <1>1, <2>3
    <3> QED
      BY <1>3, <3>1
  <2>6. ~IsEscaped(p, esc, a)
    <3>1. CASE a = 0
      BY <3>1, EndsAreFree
    <3>2. CASE a - 1 \in D
      <4>1. a - 1 \in 0..(Len(p) - 1) /\ IsSegmentDelim(p, esc, a - 1) /\ (a - 1) + 1 = a
        BY <1>2, <2>3, <3>2
      <4>2. ~IsEscaped(p, esc, (a - 1) + 1)
        BY <4>1, DelimIs
      <4> QED
        BY <4>1, <4>2
    <3> QED
      BY <2>3, <3>1, <3>2
  <2>7. ~IsEscaped(p, esc, b)
    <3>1. CASE b = Len(p)
      BY <3>1, EndsAreFree
    <3>2. CASE b \in D
      BY <1>2, <3>2, DelimIs
    <3> QED
      BY <2>3, <3>1, <3>2
  <2> QED
    BY <2>2, <2>4, <2>5, <2>6, <2>7 DEF a, b
<1> QED
  BY <1>4, <1>7, <1>8, <1>9 DEF segs

LitStart(p, esc, seg, n) == Ahead(Literals(p, esc, seg), End(seg), n)
LitEnd(p, esc, seg, n)   == Behind(Literals(p, esc, seg), seg.start, n)

\* The literals of a segment: underscores around them, and no delimiter inside.
LEMMA LiteralsShape ==
  ASSUME NEW p \in Seq(Byte), NEW esc, OnlyWildcardsEscaped(p, esc),
         NEW k \in 1..Len(Segments(p, esc))
  PROVE  LET seg == Segments(p, esc)[k]
             lits == Literals(p, esc, seg)
         IN  /\ Len(lits) \in Nat
             /\ \A n \in 0..Len(lits) :
                  /\ LitEnd(p, esc, seg, n) \in seg.start..End(seg)
                  /\ LitStart(p, esc, seg, n + 1) \in LitEnd(p, esc, seg, n)..End(seg)
                  /\ \A x \in LitEnd(p, esc, seg, n)..(LitStart(p, esc, seg, n + 1) - 1) :
                       IsLiteralDelim(p, esc, x) /\ p[x + 1] = UNDERSCORE
             /\ LitEnd(p, esc, seg, 0) = seg.start /\ LitStart(p, esc, seg, Len(lits) + 1) = End(seg)
             /\ \A n \in 1..Len(lits) :
                  /\ lits[n].start = LitStart(p, esc, seg, n) /\ End(lits[n]) = LitEnd(p, esc, seg, n)
                  /\ lits[n].start \in seg.start..End(seg)
                  /\ End(lits[n]) \in (lits[n].start + 1)..End(seg)
                  /\ lits[n].len \in Nat /\ End(lits[n]) = lits[n].start + lits[n].len
                  /\ IsBare(p, esc, lits[n].start, lits[n].len)
                  /\ ~IsEscaped(p, esc, lits[n].start) /\ ~IsEscaped(p, esc, End(lits[n]))
             /\ \A m, n \in 1..Len(lits) : m < n => End(lits[m]) < lits[n].start
<1> DEFINE seg == Segments(p, esc)[k]
           lits == Literals(p, esc, seg)
           lo == seg.start
           hi == End(seg)
           D == {i \in lo..(hi - 1) : IsLiteralDelim(p, esc, i)}
<1>1. Len(p) \in Nat /\ lits = Spans(lo, hi, D)
  BY DEF Literals
<1>2. /\ lo \in 0..Len(p) /\ hi \in (lo + 1)..Len(p)
      /\ \A x \in lo..(hi - 1) : ~IsSegmentDelim(p, esc, x)
      /\ ~IsEscaped(p, esc, lo) /\ ~IsEscaped(p, esc, hi)
  BY SegmentsShape
<1>3. \A x \in D : x \in lo..(hi - 1) /\ IsLiteralDelim(p, esc, x) /\ p[x + 1] = UNDERSCORE
  BY DEF IsLiteralDelim
<1>4. \A x \in lo..(hi - 1) : IsLiteralDelim(p, esc, x) => x \in D
  OBVIOUS
<1>5. \A n : /\ LitStart(p, esc, seg, n) = Ahead(lits, hi, n)
             /\ LitEnd(p, esc, seg, n) = Behind(lits, lo, n)
  BY DEF LitStart, LitEnd
<1> HIDE DEF lits, D
<1>6. lo \in Nat /\ hi \in Nat /\ lo <= hi
  <2> HIDE DEF lo, hi
  <2> QED
    BY <1>1, <1>2
<1> HIDE DEF seg, lo, hi
<1>7. /\ Len(lits) \in Nat
      /\ \A n \in 1..Len(lits) : lits[n].start \in lo..(hi - 1) /\ lits[n].len \in Nat
                                 /\ End(lits[n]) \in lits[n].start..hi
      /\ \A m, n \in 1..Len(lits) : m < n => End(lits[m]) < lits[n].start
      /\ \A n \in 1..Len(lits) : /\ lits[n].start..(End(lits[n]) - 1) \cap D = {}
                                 /\ lits[n].start < End(lits[n])
                                 /\ lits[n].start = lo \/ lits[n].start - 1 \in D
                                 /\ End(lits[n]) = hi \/ End(lits[n]) \in D
  BY <1>1, <1>6, SpansAre
<1>8. \A n \in 0..Len(lits) :
        /\ Behind(lits, lo, n) \in lo..hi /\ Ahead(lits, hi, n + 1) \in lo..hi
        /\ Behind(lits, lo, n) <= Ahead(lits, hi, n + 1)
        /\ Behind(lits, lo, n)..(Ahead(lits, hi, n + 1) - 1) \subseteq D
  BY <1>1, <1>6, GapsAre
<1>9. ASSUME NEW n \in 0..Len(lits)
      PROVE  /\ LitEnd(p, esc, seg, n) \in lo..hi
             /\ LitStart(p, esc, seg, n + 1) \in LitEnd(p, esc, seg, n)..hi
             /\ \A x \in LitEnd(p, esc, seg, n)..(LitStart(p, esc, seg, n + 1) - 1) :
                  IsLiteralDelim(p, esc, x) /\ p[x + 1] = UNDERSCORE
  <2> DEFINE a == LitEnd(p, esc, seg, n)
             b == LitStart(p, esc, seg, n + 1)
  <2>1. a \in lo..hi /\ b \in lo..hi /\ a <= b /\ a..(b - 1) \subseteq D
    BY <1>5, <1>8
  <2> HIDE DEF a, b
  <2>2. b \in a..hi /\ \A x \in a..(b - 1) : IsLiteralDelim(p, esc, x) /\ p[x + 1] = UNDERSCORE
    BY <1>3, <1>6, <2>1
  <2> QED
    BY <2>1, <2>2 DEF a, b
<1>10. LitEnd(p, esc, seg, 0) = lo /\ LitStart(p, esc, seg, Len(lits) + 1) = hi
  BY <1>5 DEF Ahead, Behind
<1>11. ASSUME NEW n \in 1..Len(lits)
       PROVE  /\ lits[n].start = LitStart(p, esc, seg, n) /\ End(lits[n]) = LitEnd(p, esc, seg, n)
              /\ lits[n].start \in lo..hi
              /\ End(lits[n]) \in (lits[n].start + 1)..hi
              /\ lits[n].len \in Nat /\ End(lits[n]) = lits[n].start + lits[n].len
              /\ IsBare(p, esc, lits[n].start, lits[n].len)
              /\ ~IsEscaped(p, esc, lits[n].start) /\ ~IsEscaped(p, esc, End(lits[n]))
  <2>1. n # Len(lits) + 1 /\ n # 0
    BY <1>7
  <2>2. lits[n].start = LitStart(p, esc, seg, n) /\ End(lits[n]) = LitEnd(p, esc, seg, n)
    BY <1>5, <2>1 DEF Ahead, Behind
  <2> DEFINE a == lits[n].start
             b == End(lits[n])
             l == lits[n].len
  <2>3. /\ a \in lo..(hi - 1) /\ b \in a..hi /\ a < b /\ l \in Nat /\ b = a + l
        /\ a..(b - 1) \cap D = {} /\ (a = lo \/ a - 1 \in D) /\ (b = hi \/ b \in D)
    BY <1>7 DEF End
  <2> HIDE DEF a, b, l
  <2>4. a \in lo..hi /\ b \in (a + 1)..hi
    BY <1>6, <2>3
  <2>5. IsBare(p, esc, a, l)
    <3>1. ASSUME NEW x \in a..(a + l - 1) PROVE ~IsSegmentDelim(p, esc, x) /\ ~IsLiteralDelim(p, esc, x)
      <4>1. x \in lo..(hi - 1) /\ x \in a..(b - 1)
        BY <1>6, <2>3
      <4> QED
        BY <1>2, <1>4, <2>3, <4>1
    <3> QED
      BY <3>1 DEF IsBare
  <2>6. \A x \in D : x \in 0..(Len(p) - 1) /\ IsLiteralDelim(p, esc, x)
    BY <1>1, <1>2, <1>3, <1>6
  <2>7. ~IsEscaped(p, esc, a)
    <3>1. CASE a = lo
      BY <1>2, <3>1
    <3>2. CASE a - 1 \in D
      <4>1. a - 1 \in 0..(Len(p) - 1) /\ IsLiteralDelim(p, esc, a - 1) /\ (a - 1) + 1 = a
        BY <1>6, <2>3, <2>6, <3>2
      <4>2. ~IsEscaped(p, esc, (a - 1) + 1)
        BY <4>1, DelimIs
      <4> QED
        BY <4>1, <4>2
    <3> QED
      BY <2>3, <3>1, <3>2
  <2>8. ~IsEscaped(p, esc, b)
    <3>1. CASE b = hi
      BY <1>2, <3>1
    <3>2. CASE b \in D
      BY <2>6, <3>2, DelimIs
    <3> QED
      BY <2>3, <3>1, <3>2
  <2> QED
    BY <2>2, <2>3, <2>4, <2>5, <2>7, <2>8 DEF a, b, l
<1> QED
  BY <1>7, <1>9, <1>10, <1>11 DEF seg, lits, lo, hi

\* What EscapesBefore counts, and how many of it there are from lo on before y.
CountsAt(p, esc, x) ==
  ~IsLiteralDelim(p, esc, x) /\ IsEscaped(p, esc, x) /\ IsEscapable(p, esc, x)
EscapesTo(p, esc, lo, y) == Cardinality({x \in lo..(y - 1) : CountsAt(p, esc, x)})

\* One byte further there may be one more.
LEMMA EscapesToIs ==
  ASSUME NEW p, NEW esc, NEW lo \in Nat
  PROVE  /\ EscapesTo(p, esc, lo, lo) = 0
         /\ \A y \in Nat : lo <= y =>
              /\ EscapesTo(p, esc, lo, y) \in 0..(y - lo)
              /\ EscapesTo(p, esc, lo, y + 1) =
                   EscapesTo(p, esc, lo, y) + (IF CountsAt(p, esc, y) THEN 1 ELSE 0)
<1> DEFINE S(y) == {x \in lo..(y - 1) : CountsAt(p, esc, x)}
<1>1. \A y \in Nat : IsFiniteSet(S(y)) /\ Cardinality(S(y)) \in Nat
  <2> SUFFICES ASSUME NEW y \in Nat PROVE IsFiniteSet(S(y)) /\ Cardinality(S(y)) \in Nat
    OBVIOUS
  <2>1. IsFiniteSet(lo..(y - 1)) /\ S(y) \subseteq lo..(y - 1)
    <3>1. y - 1 \in Int /\ lo \in Int
      OBVIOUS
    <3> QED
      BY <3>1, FS_Interval
  <2> HIDE DEF S
  <2> QED
    BY <2>1, FS_Subset, FS_CardinalityType
<1>2. S(lo) = {}
  OBVIOUS
<1>3. ASSUME NEW y \in Nat, lo <= y
      PROVE  Cardinality(S(y + 1)) = Cardinality(S(y)) + (IF CountsAt(p, esc, y) THEN 1 ELSE 0)
  <2>1. CASE CountsAt(p, esc, y)
    <3>1. S(y + 1) = S(y) \cup {y} /\ y \notin S(y)
      BY <1>3, <2>1
    <3> HIDE DEF S
    <3>2. Cardinality(S(y) \cup {y}) = Cardinality(S(y)) + 1
      BY <1>1, <3>1, FS_AddElement
    <3> QED
      BY <2>1, <3>1, <3>2
  <2>2. CASE ~CountsAt(p, esc, y)
    <3>1. S(y + 1) = S(y)
      BY <1>3, <2>2
    <3> HIDE DEF S
    <3> QED
      BY <1>1, <2>2, <3>1
  <2> QED
    BY <2>1, <2>2
<1>4. \A y : EscapesTo(p, esc, lo, y) = Cardinality(S(y))
  BY DEF EscapesTo
<1> HIDE DEF S
<1>5. Cardinality(S(lo)) = 0
  BY <1>2, FS_EmptySet
<1> DEFINE T == {d \in Nat : Cardinality(S(lo + d)) <= d}
<1>6. 0 \in T
  BY <1>5
<1>7. ASSUME NEW d \in Nat, d \in T PROVE d + 1 \in T
  <2>1. lo + d \in Nat /\ lo <= lo + d /\ lo + (d + 1) = (lo + d) + 1
    OBVIOUS
  <2>2. Cardinality(S((lo + d) + 1)) <= Cardinality(S(lo + d)) + 1
    BY <1>1, <1>3, <2>1
  <2>3. Cardinality(S(lo + d)) <= d /\ Cardinality(S(lo + d)) \in Nat
    BY <1>1, <1>7, <2>1
  <2>4. Cardinality(S((lo + d) + 1)) \in Nat
    BY <1>1, <2>1
  <2>5. Cardinality(S((lo + d) + 1)) <= d + 1
    BY <2>2, <2>3, <2>4
  <2> QED
    BY <2>1, <2>5
<1>8. \A d \in Nat : d \in T
  <2> HIDE DEF T
  <2> QED
    BY <1>6, <1>7, Induction
<1>9. ASSUME NEW y \in Nat, lo <= y PROVE Cardinality(S(y)) \in 0..(y - lo)
  <2>1. y - lo \in Nat /\ lo + (y - lo) = y
    BY <1>9
  <2>2. Cardinality(S(lo + (y - lo))) <= y - lo
    BY <1>8, <2>1
  <2> QED
    BY <1>1, <2>1, <2>2
<1> QED
  BY <1>3, <1>4, <1>5, <1>9

\* A literal of len bytes that stands for Len(kw) has len - Len(kw) of them.
LEMMA EscapesOfLiteral ==
  ASSUME NEW p \in Seq(Byte), NEW esc, OnlyWildcardsEscaped(p, esc),
         NEW lo \in Nat, NEW a \in Nat, lo <= a, NEW len \in Nat, a + len <= Len(p),
         IsBare(p, esc, a, len), ~IsEscaped(p, esc, a), ~IsEscaped(p, esc, a + len),
         NEW kw, Len(kw) \in Nat, NEW c, StripsTo(p, esc, a, len, kw, c)
  PROVE  EscapesTo(p, esc, lo, a + len) = EscapesTo(p, esc, lo, a) + len - Len(kw)
<1> DEFINE E(y) == EscapesTo(p, esc, lo, y)
           one(y) == IF IsEscaped(p, esc, y) THEN 1 ELSE 0
<1>1. /\ c \in [0..len -> 0..Len(kw)] /\ c[0] = 0 /\ c[len] = Len(kw)
      /\ \A n \in 0..(len - 1) :
           IF p[a + n + 1] = esc THEN c[n + 1] = c[n] ELSE c[n + 1] = c[n] + 1
  BY DEF StripsTo
<1>2. ASSUME NEW n \in 0..(len - 1) PROVE E(a + n + 1) = E(a + n) + one(a + n)
  <2>1. a + n \in Nat /\ lo <= a + n /\ a + n \in a..(a + len - 1) /\ a + n + 1 = (a + n) + 1
        /\ a + n \in 0..(Len(p) - 1)
    OBVIOUS
  <2>2. ~IsLiteralDelim(p, esc, a + n)
    BY <2>1 DEF IsBare
  <2>3. IsEscaped(p, esc, a + n) => IsEscapable(p, esc, a + n)
    <3> SUFFICES ASSUME IsEscaped(p, esc, a + n) PROVE IsEscapable(p, esc, a + n)
      OBVIOUS
    <3>1. a + n \in 1..Len(p) /\ p[a + n] = esc
      BY <2>1 DEF IsEscaped
    <3>2. p[(a + n) + 1] \in {PERCENTAGE, UNDERSCORE}
      BY <3>1 DEF OnlyWildcardsEscaped
    <3> QED
      BY <3>2 DEF IsEscapable
  <2>4. CountsAt(p, esc, a + n) <=> IsEscaped(p, esc, a + n)
    BY <2>2, <2>3 DEF CountsAt
  <2>5. EscapesTo(p, esc, lo, (a + n) + 1) =
          EscapesTo(p, esc, lo, a + n) + (IF CountsAt(p, esc, a + n) THEN 1 ELSE 0)
    BY <2>1, EscapesToIs
  <2> QED
    BY <2>1, <2>4, <2>5
<1>3. ASSUME NEW n \in 0..(len - 1)
      PROVE  one(a + n + 1) = IF p[a + n + 1] = esc THEN 1 ELSE 0
  <2>1. a + n + 1 \in 1..Len(p) /\ a + n + 1 > 0
    OBVIOUS
  <2>2. p[a + n + 1] \in Byte
    BY <2>1
  <2>3. \A x \in Byte : x # NoEscape
    BY DEF Byte, NoEscape
  <2>4. p[a + n + 1] = esc => esc # NoEscape
    BY <2>2, <2>3
  <2> QED
    BY <2>1, <2>4 DEF IsEscaped
<1>4. \A n \in 0..len : E(a + n) \in Nat /\ c[n] \in Nat
  <2> SUFFICES ASSUME NEW n \in 0..len PROVE E(a + n) \in Nat /\ c[n] \in Nat
    OBVIOUS
  <2>1. a + n \in Nat /\ lo <= a + n
    OBVIOUS
  <2> DEFINE y == a + n
  <2>2. y \in Nat /\ lo <= y /\ E(a + n) = EscapesTo(p, esc, lo, y)
    BY <2>1
  <2> HIDE DEF y, E
  <2>3. EscapesTo(p, esc, lo, y) \in 0..(y - lo)
    BY <2>2, EscapesToIs
  <2>4. E(a + n) \in Nat
    BY <2>2, <2>3
  <2> QED
    BY <1>1, <2>4
<1>5. E(a + 0) = E(a) /\ one(a + 0) = 0 /\ one(a + len) = 0
  <2>1. a + 0 = a
    OBVIOUS
  <2> QED
    BY <2>1
<1>6. \A n : one(n) \in {0, 1}
  OBVIOUS
<1> HIDE DEF E, one
<1> DEFINE T == {n \in 0..len : n - c[n] = E(a + n) - E(a) + one(a + n)}
<1>7. 0 \in T
  BY <1>1, <1>4, <1>5
<1>8. ASSUME NEW n \in 0..(len - 1), n \in T PROVE n + 1 \in T
  <2>1. n \in 0..len /\ n + 1 \in 0..len /\ a + (n + 1) = a + n + 1
    OBVIOUS
  <2>2. /\ E(a + n) \in Nat /\ c[n] \in Nat /\ E(a + (n + 1)) \in Nat /\ c[n + 1] \in Nat
        /\ E(a + 0) \in Nat
    BY <1>4, <2>1
  <2>3. E(a + (n + 1)) = E(a + n) + one(a + n)
    BY <1>2, <2>1
  <2>4. one(a + (n + 1)) = (n + 1 - c[n + 1]) - (n - c[n])
    <3>1. one(a + (n + 1)) = IF p[a + n + 1] = esc THEN 1 ELSE 0
      BY <1>3, <2>1
    <3>2. IF p[a + n + 1] = esc THEN c[n + 1] = c[n] ELSE c[n + 1] = c[n] + 1
      BY <1>1
    <3> DEFINE w == one(a + (n + 1))
               d == c[n]
               e == c[n + 1]
               q == p[a + n + 1]
    <3>3. /\ d \in Nat /\ e \in Nat /\ n \in Int
          /\ w = (IF q = esc THEN 0 + 1 ELSE 0) /\ (IF q = esc THEN e = d ELSE e = d + 1)
      BY <2>2, <3>1, <3>2
    <3> HIDE DEF w, d, e, q
    <3>4. CASE q = esc
      BY <3>3, <3>4 DEF w, d, e
    <3>5. CASE q # esc
      BY <3>3, <3>5 DEF w, d, e
    <3> QED
      BY <3>4, <3>5
  <2>5. n - c[n] = E(a + n) - E(a) + one(a + n)
    BY <1>8
  <2>6. E(a) \in Nat /\ one(a + n) \in {0, 1}
    BY <1>5, <1>6, <2>2
  <2>7. (n + 1) - c[n + 1] = E(a + (n + 1)) - E(a) + one(a + (n + 1))
    <3> DEFINE x == E(a + n)
               y == E(a + (n + 1))
               z == one(a + n)
               w == one(a + (n + 1))
               d == c[n + 1]
    <3>1. /\ x \in Nat /\ y \in Nat /\ z \in Int /\ d \in Nat /\ c[n] \in Nat /\ E(a) \in Nat
          /\ y = x + z /\ w = (n + 1 - d) - (n - c[n]) /\ n - c[n] = x - E(a) + z
      BY <2>2, <2>3, <2>4, <2>5, <2>6
    <3> HIDE DEF x, y, z, w, d
    <3>2. (n + 1) - d = y - E(a) + w
      BY <3>1
    <3> QED
      BY <3>2 DEF x, y, z, w, d
  <2> QED
    BY <2>1, <2>7
<1>9. \A n \in 0..len : n \in T
  <2> HIDE DEF T
  <2> QED
    BY <1>7, <1>8, InductionUpTo
<1>10. len - c[len] = E(a + len) - E(a) + one(a + len)
  <2>1. len \in 0..len
    OBVIOUS
  <2> QED
    BY <1>9, <2>1
<1>11. E(a + len) \in Nat /\ E(a) \in Nat
  <2>1. len \in 0..len /\ 0 \in 0..len
    OBVIOUS
  <2> QED
    BY <1>4, <1>5, <2>1
<1>12. E(a + len) = E(a) + len - Len(kw)
  BY <1>1, <1>5, <1>10, <1>11
<1> QED
  BY <1>12 DEF E

\* Underscores that are delimiters have none.
LEMMA EscapesStay ==
  ASSUME NEW p, NEW esc, NEW lo \in Nat, NEW a \in Nat, lo <= a, NEW b \in Nat, a <= b,
         \A x \in a..(b - 1) : IsLiteralDelim(p, esc, x)
  PROVE  EscapesTo(p, esc, lo, b) = EscapesTo(p, esc, lo, a)
<1> DEFINE T == {x \in a..b : EscapesTo(p, esc, lo, x) = EscapesTo(p, esc, lo, a)}
<1>1. a \in T
  OBVIOUS
<1>2. ASSUME NEW x \in a..(b - 1), x \in T PROVE x + 1 \in T
  <2>1. x \in Nat /\ lo <= x /\ x + 1 \in a..b
    OBVIOUS
  <2>2. ~CountsAt(p, esc, x)
    BY DEF CountsAt
  <2>3. EscapesTo(p, esc, lo, x + 1) = EscapesTo(p, esc, lo, x) + 0 /\ EscapesTo(p, esc, lo, x) \in Nat
    <3>1. /\ EscapesTo(p, esc, lo, x) \in 0..(x - lo)
          /\ EscapesTo(p, esc, lo, x + 1) =
               EscapesTo(p, esc, lo, x) + (IF CountsAt(p, esc, x) THEN 1 ELSE 0)
      BY <2>1, EscapesToIs
    <3> QED
      BY <2>2, <3>1
  <2> QED
    BY <1>2, <2>1, <2>3
<1>3. \A x \in a..b : x \in T
  <2> HIDE DEF T
  <2> QED
    BY <1>1, <1>2, InductionUpTo
<1>4. b \in a..b
  OBVIOUS
<1> QED
  BY <1>3, <1>4

LitOffset(p, esc, k, n) ==
  LET seg == Segments(p, esc)[k]
      lit == Literals(p, esc, seg)[n]
  IN  lit.start - EscapesBefore(p, esc, seg, lit)
LitKeyword(p, esc, k, n) == StripEscapes(p, esc, Literals(p, esc, Segments(p, esc)[k])[n])

\* A literal starts within its segment, and the next one as far behind it as its
\* keyword is long and there are underscores between them.
LEMMA OffsetsAre ==
  ASSUME NEW p \in Seq(Byte), NEW esc, OnlyWildcardsEscaped(p, esc),
         NEW k \in 1..Len(Segments(p, esc)),
         NEW n \in 1..Len(Literals(p, esc, Segments(p, esc)[k]))
  PROVE  LET seg == Segments(p, esc)[k]
             lits == Literals(p, esc, seg)
             kw == LitKeyword(p, esc, k, n)
         IN  /\ LitOffset(p, esc, k, n) \in seg.start..lits[n].start
             /\ kw \in Seq(Byte) /\ \E c : StripsTo(p, esc, lits[n].start, lits[n].len, kw, c)
             /\ n < Len(lits) =>
                  LitOffset(p, esc, k, n + 1) =
                    LitOffset(p, esc, k, n) + Len(kw) + (lits[n + 1].start - End(lits[n]))
<1> DEFINE seg == Segments(p, esc)[k]
           lits == Literals(p, esc, seg)
           kw == LitKeyword(p, esc, k, n)
           lo == seg.start
           E(y) == EscapesTo(p, esc, lo, y)
<1>1. /\ Len(p) \in Nat /\ lo \in 0..Len(p) /\ End(seg) \in (lo + 1)..Len(p)
  <2>1. Len(p) \in Nat
    OBVIOUS
  <2> QED
    BY <2>1, SegmentsShape
<1>2. /\ Len(lits) \in Nat
      /\ \A i \in 0..Len(lits) :
           /\ LitEnd(p, esc, seg, i) \in lo..End(seg)
           /\ LitStart(p, esc, seg, i + 1) \in LitEnd(p, esc, seg, i)..End(seg)
           /\ \A x \in LitEnd(p, esc, seg, i)..(LitStart(p, esc, seg, i + 1) - 1) :
                IsLiteralDelim(p, esc, x)
      /\ \A i \in 1..Len(lits) :
           /\ lits[i].start = LitStart(p, esc, seg, i) /\ End(lits[i]) = LitEnd(p, esc, seg, i)
           /\ lits[i].start \in lo..End(seg)
           /\ End(lits[i]) \in (lits[i].start + 1)..End(seg)
           /\ lits[i].len \in Nat /\ End(lits[i]) = lits[i].start + lits[i].len
           /\ IsBare(p, esc, lits[i].start, lits[i].len)
           /\ ~IsEscaped(p, esc, lits[i].start) /\ ~IsEscaped(p, esc, End(lits[i]))
  BY LiteralsShape
<1>3. \A i : LitOffset(p, esc, k, i) = lits[i].start - E(lits[i].start)
  BY DEF LitOffset, EscapesBefore, EscapesTo, CountsAt
<1>4. kw = StripEscapes(p, esc, lits[n])
  BY DEF LitKeyword
<1> HIDE DEF seg, lits, kw
<1> DEFINE a == lits[n].start
           l == lits[n].len
<1>5. /\ a \in Nat /\ lo \in Nat /\ lo <= a /\ l \in Nat /\ a + l <= Len(p) /\ End(lits[n]) = a + l
      /\ IsBare(p, esc, a, l) /\ ~IsEscaped(p, esc, a) /\ ~IsEscaped(p, esc, a + l)
  <2> HIDE DEF lo
  <2>1. lo \in Nat /\ lo <= Len(p) /\ End(seg) \in Nat /\ End(seg) <= Len(p)
    BY <1>1
  <2> HIDE DEF a, l
  <2>2. a \in lo..End(seg) /\ a + l \in (a + 1)..End(seg) /\ l \in Nat /\ End(lits[n]) = a + l
        /\ IsBare(p, esc, a, l) /\ ~IsEscaped(p, esc, a) /\ ~IsEscaped(p, esc, a + l)
    <3>1. n \in 1..Len(lits)
      BY DEF lits, seg
    <3> QED
      BY <1>2, <3>1 DEF a, l
  <2> QED
    BY <2>1, <2>2
<1>6. kw \in Seq(Byte) /\ \E c : StripsTo(p, esc, a, l, kw, c)
  BY <1>4, <1>5, StripEscapesIs
<1>7. PICK c : StripsTo(p, esc, a, l, kw, c)
  BY <1>6
<1> HIDE DEF lo
<1>8. Len(kw) \in Nat
  BY <1>6
<1> HIDE DEF a, l
<1>9. E(a) \in 0..(a - lo) /\ E(a + l) = E(a) + l - Len(kw)
  <2>1. E(a) \in 0..(a - lo)
    BY <1>5, EscapesToIs
  <2>2. E(a + l) = E(a) + l - Len(kw)
    BY <1>5, <1>7, <1>8, EscapesOfLiteral
  <2> QED
    BY <2>1, <2>2
<1>10. LitOffset(p, esc, k, n) = a - E(a)
  BY <1>3 DEF a
<1>11. LitOffset(p, esc, k, n) \in lo..a
  <2> HIDE DEF E
  <2> QED
    BY <1>5, <1>9, <1>10
<1>12. ASSUME n < Len(lits)
       PROVE  LitOffset(p, esc, k, n + 1) = LitOffset(p, esc, k, n) + Len(kw) + (lits[n + 1].start - (a + l))
  <2> DEFINE b == lits[n + 1].start
  <2>1. n + 1 \in 1..Len(lits) /\ n \in 0..Len(lits) /\ n \in 1..Len(lits)
    <3>1. n \in 1..Len(lits)
      BY DEF lits, seg
    <3> QED
      BY <1>2, <1>12, <3>1
  <2>2. b = LitStart(p, esc, seg, n + 1) /\ LitEnd(p, esc, seg, n) = a + l
    BY <1>2, <1>5, <2>1
  <2>3. /\ LitEnd(p, esc, seg, n) \in lo..End(seg)
        /\ LitStart(p, esc, seg, n + 1) \in LitEnd(p, esc, seg, n)..End(seg)
        /\ \A x \in LitEnd(p, esc, seg, n)..(LitStart(p, esc, seg, n + 1) - 1) : IsLiteralDelim(p, esc, x)
    BY <1>2, <2>1
  <2> HIDE DEF b
  <2>4. b \in (a + l)..End(seg) /\ \A x \in (a + l)..(b - 1) : IsLiteralDelim(p, esc, x)
    BY <2>2, <2>3
  <2>5. b \in Nat /\ a + l <= b /\ a + l \in Nat /\ lo <= a + l
    BY <1>1, <1>5, <2>4
  <2>6. E(b) = E(a + l)
    BY <1>5, <2>4, <2>5, EscapesStay
  <2>7. LitOffset(p, esc, k, n + 1) = b - E(b)
    BY <1>3 DEF b
  <2> HIDE DEF E
  <2>8. LitOffset(p, esc, k, n + 1) = LitOffset(p, esc, k, n) + Len(kw) + (b - (a + l))
    BY <1>5, <1>8, <1>9, <1>10, <2>5, <2>6, <2>7
  <2> QED
    BY <2>8 DEF b
<1> QED
  BY <1>5, <1>6, <1>11, <1>12 DEF seg, lits, kw, lo, a, l

-----------------------------------------------------------------------------
(* What the fields of a segment say, before and after folding. *)

\* What the theorems about the answers ask of a pattern: escapes before wildcards only,
\* and offsets that a u16 holds.
SimplePattern(p, esc) ==
  /\ p \in Seq(Byte) /\ OnlyWildcardsEscaped(p, esc) /\ Len(p) < U32Size
  /\ \A lit \in PatternLiterals(p, esc) : lit.start_pos < U16Size

LiteralsFound(p, esc) ==
  \A lit \in PatternLiterals(p, esc) : lit.keyword # << >> /\ ValidText(lit.keyword)

LitCount(p, esc, k)   == Len(Literals(p, esc, Segments(p, esc)[k]))
LitFrom(p, esc, k, n) == Literals(p, esc, Segments(p, esc)[k])[n].start
LitTo(p, esc, k, n)   == End(Literals(p, esc, Segments(p, esc)[k])[n])
LastTo(p, esc, k)     == LitTo(p, esc, k, LitCount(p, esc, k))

\* The literals of a pattern are those of its segments.
LEMMA LiteralsOfPattern ==
  ASSUME NEW p \in Seq(Byte), NEW esc, OnlyWildcardsEscaped(p, esc)
  PROVE  /\ \A lit \in PatternLiterals(p, esc) :
              \E k \in 1..Len(Segments(p, esc)) : \E n \in 1..LitCount(p, esc, k) :
                lit = [keyword |-> LitKeyword(p, esc, k, n), start_pos |-> LitOffset(p, esc, k, n)]
         /\ \A k \in 1..Len(Segments(p, esc)) : \A n \in 1..LitCount(p, esc, k) :
              [keyword |-> LitKeyword(p, esc, k, n), start_pos |-> LitOffset(p, esc, k, n)]
                \in PatternLiterals(p, esc)
<1> DEFINE segs == Segments(p, esc)
           Lit(seg, lit) == [keyword   |-> StripEscapes(p, esc, lit),
                             start_pos |-> lit.start - EscapesBefore(p, esc, seg, lit)]
           Of(seg) == {Lit(seg, lit) : lit \in ToSet(Literals(p, esc, seg))}
           New(k, n) == [keyword |-> LitKeyword(p, esc, k, n), start_pos |-> LitOffset(p, esc, k, n)]
<1>1. /\ Len(segs) \in Nat /\ DOMAIN segs = 1..Len(segs)
      /\ \A k \in 1..Len(segs) : DOMAIN Literals(p, esc, segs[k]) = 1..LitCount(p, esc, k)
  BY SegmentsAre DEF LitCount
<1>2. PatternLiterals(p, esc) = UNION {Of(seg) : seg \in ToSet(segs)}
  BY DEF PatternLiterals
<1>3. ToSet(segs) = {segs[k] : k \in 1..Len(segs)}
  BY <1>1 DEF ToSet
<1>4. ASSUME NEW k \in 1..Len(segs)
      PROVE  ToSet(Literals(p, esc, segs[k])) = {Literals(p, esc, segs[k])[n] : n \in 1..LitCount(p, esc, k)}
  BY <1>1 DEF ToSet
<1>5. ASSUME NEW k, NEW n PROVE New(k, n) = Lit(segs[k], Literals(p, esc, segs[k])[n])
  BY DEF LitKeyword, LitOffset
<1> HIDE DEF segs, Lit, New
<1>6. ASSUME NEW k \in 1..Len(segs) PROVE Of(segs[k]) = {New(k, n) : n \in 1..LitCount(p, esc, k)}
  BY <1>4, <1>5
<1> HIDE DEF Of
<1>7. /\ \A lit \in PatternLiterals(p, esc) :
           \E k \in 1..Len(segs) : \E n \in 1..LitCount(p, esc, k) : lit = New(k, n)
      /\ \A k \in 1..Len(segs) : \A n \in 1..LitCount(p, esc, k) : New(k, n) \in PatternLiterals(p, esc)
  <2>1. PatternLiterals(p, esc) = UNION {Of(segs[k]) : k \in 1..Len(segs)}
    BY <1>2, <1>3
  <2>2. ASSUME NEW lit \in PatternLiterals(p, esc)
        PROVE  \E k \in 1..Len(segs) : \E n \in 1..LitCount(p, esc, k) : lit = New(k, n)
    <3>1. PICK k \in 1..Len(segs) : lit \in Of(segs[k])
      BY <2>1
    <3>2. lit \in {New(k, n) : n \in 1..LitCount(p, esc, k)}
      BY <1>6, <3>1
    <3> QED
      BY <3>2
  <2>3. ASSUME NEW k \in 1..Len(segs), NEW n \in 1..LitCount(p, esc, k)
        PROVE  New(k, n) \in PatternLiterals(p, esc)
    <3>1. New(k, n) \in Of(segs[k])
      BY <1>6
    <3> QED
      BY <2>1, <3>1
  <2> QED
    BY <2>2, <2>3
<1> QED
  BY <1>7 DEF New, segs

\* So the offset of each of them is one that a u16 holds.
LEMMA OffsetFits ==
  ASSUME NEW p, NEW esc, SimplePattern(p, esc),
         NEW k \in 1..Len(Segments(p, esc)), NEW n \in 1..LitCount(p, esc, k)
  PROVE  LitOffset(p, esc, k, n) < U16Size
<1> DEFINE lit == [keyword |-> LitKeyword(p, esc, k, n), start_pos |-> LitOffset(p, esc, k, n)]
<1>1. lit \in PatternLiterals(p, esc)
  BY LiteralsOfPattern DEF SimplePattern
<1>2. lit.start_pos < U16Size
  BY <1>1 DEF SimplePattern
<1> QED
  BY <1>2

\* The fields of a segment are read off the literals.
LEMMA RawIs ==
  ASSUME NEW p, NEW esc, SimplePattern(p, esc), NEW k \in 1..Len(Segments(p, esc))
  PROVE  LET raw == RawSegment(p, esc, k)
             cnt == LitCount(p, esc, k)
         IN  /\ raw \in Segment /\ cnt \in Nat
             /\ Len(raw.literal_offset) = cnt
             /\ \A n \in 1..cnt : /\ raw.literal_offset[n] = LitOffset(p, esc, k, n)
                                  /\ raw.literal_offset[n] \in 0..(U16Size - 1)
             /\ cnt = 0 => /\ raw.prefix_underscore_cnt = 0
                           /\ raw.suffix_underscore_cnt = SegEnd(p, esc, k) - SegStart(p, esc, k)
             /\ cnt > 0 => /\ raw.prefix_underscore_cnt = LitFrom(p, esc, k, 1) - SegStart(p, esc, k)
                           /\ raw.suffix_underscore_cnt = SegEnd(p, esc, k) - LastTo(p, esc, k)
             /\ raw.has_prefix_percent <=> (k > 1 \/ SegStart(p, esc, k) > 0)
             /\ raw.has_suffix_percent <=>
                  (k < Len(Segments(p, esc)) \/ SegEnd(p, esc, Len(Segments(p, esc))) # Len(p))
             /\ HasLiteral(raw) <=> cnt > 0
<1> DEFINE segs == Segments(p, esc)
           seg == segs[k]
           lits == Literals(p, esc, seg)
           raw == RawSegment(p, esc, k)
           cnt == LitCount(p, esc, k)
           gap(n) == lits[n].start - (IF n = 1 THEN seg.start ELSE End(lits[n - 1]))
           suffix == End(seg) - (IF lits = << >> THEN seg.start ELSE End(Last(lits)))
           offsets == [n \in 1..Len(lits) |-> ToU16(lits[n].start - EscapesBefore(p, esc, seg, lits[n]))]
           most == Largest({gap(n) : n \in 1..Len(lits)} \cup {suffix})
<1>1. p \in Seq(Byte) /\ OnlyWildcardsEscaped(p, esc) /\ Len(p) \in Nat
  BY DEF SimplePattern
<1>2. raw \in Segment
  BY <1>1, RawSegmentIs
<1>3. raw =
        [literal_offset        |-> offsets,
         prefix_underscore_cnt |-> IF lits = << >> THEN 0 ELSE gap(1),
         suffix_underscore_cnt |-> suffix,
         max_underscore_cnt    |-> most,
         has_prefix_percent    |-> k > 1 \/ seg.start > 0,
         has_suffix_percent    |-> k < Len(segs) \/ Pos(p, esc) # Len(p)]
  BY DEF RawSegment
<1>4. /\ Len(segs) \in Nat /\ k \in 1..Len(segs)
      /\ \A n \in 1..Len(segs) : /\ segs[n].start = SegStart(p, esc, n) /\ End(segs[n]) = SegEnd(p, esc, n)
                                 /\ segs[n].start \in 0..Len(p) /\ End(segs[n]) \in (segs[n].start + 1)..Len(p)
  BY <1>1, SegmentsShape
<1>5. /\ Len(lits) \in Nat /\ DOMAIN lits = 1..Len(lits)
      /\ \A i \in 1..Len(lits) : lits[i].start \in seg.start..(End(seg) - 1)
  BY <1>1, SegmentsAre
<1>6. cnt = Len(lits)
  BY DEF LitCount
<1>7. \A n \in 1..Len(lits) : LitOffset(p, esc, k, n) \in seg.start..lits[n].start
  BY <1>1, OffsetsAre
<1>8. \A n : /\ offsets = [i \in 1..Len(lits) |-> ToU16(LitOffset(p, esc, k, i))]
             /\ LitFrom(p, esc, k, n) = lits[n].start /\ LitTo(p, esc, k, n) = End(lits[n])
  BY DEF LitOffset, LitFrom, LitTo
<1>9. LastTo(p, esc, k) = LitTo(p, esc, k, cnt)
  BY DEF LastTo
<1>10. (lits = << >>) <=> (cnt = 0)
  <2>1. lits = << >> => Len(lits) = 0
    OBVIOUS
  <2>2. ASSUME Len(lits) = 0 PROVE lits = << >>
    <3>1. DOMAIN lits = {} /\ Len(lits) = 0
      BY <1>5, <2>2
    <3>2. lits = [i \in {} |-> lits[i]]
      BY <3>1 DEF Literals, Spans
    <3> HIDE DEF lits
    <3> QED
      BY <3>2
  <2> QED
    BY <1>6, <2>1, <2>2
<1>11. Pos(p, esc) = SegEnd(p, esc, Len(segs))
  <2>1. segs # << >>
    <3>1. segs = << >> => Len(segs) = 0
      OBVIOUS
    <3> HIDE DEF segs
    <3> QED
      BY <1>4, <3>1
  <2>2. Pos(p, esc) = End(Last(segs))
    BY <2>1 DEF Pos
  <2> HIDE DEF segs
  <2>3. Len(segs) \in 1..Len(segs)
    BY <1>4
  <2> QED
    BY <1>4, <2>2, <2>3 DEF Last
<1>12. /\ raw.literal_offset = offsets
       /\ raw.prefix_underscore_cnt = (IF lits = << >> THEN 0 ELSE gap(1))
       /\ raw.suffix_underscore_cnt = suffix
       /\ raw.has_prefix_percent <=> (k > 1 \/ seg.start > 0)
       /\ raw.has_suffix_percent <=> (k < Len(segs) \/ Pos(p, esc) # Len(p))
  <2> HIDE DEF raw, offsets, gap, suffix, most, segs, seg, lits
  <2> QED
    BY <1>3
<1> HIDE DEF segs, lits, raw, cnt, most
<1>13. Len(raw.literal_offset) = cnt
  <2> HIDE DEF seg
  <2> QED
    BY <1>5, <1>6, <1>12
<1>14. ASSUME NEW n \in 1..cnt
       PROVE  /\ raw.literal_offset[n] = LitOffset(p, esc, k, n)
              /\ raw.literal_offset[n] \in 0..(U16Size - 1)
  <2> DEFINE o == LitOffset(p, esc, k, n)
             b == lits[n].start
             x == seg.start
             e == End(seg)
  <2>1. x \in 0..Len(p) /\ e \in (x + 1)..Len(p) /\ b \in x..(e - 1) /\ o \in x..b
    BY <1>4, <1>5, <1>6, <1>7
  <2>2. raw.literal_offset[n] = ToU16(o)
    BY <1>6, <1>8, <1>12
  <2>5. o < U16Size
    <3>1. n \in 1..LitCount(p, esc, k)
      BY DEF cnt
    <3> QED
      BY <3>1, OffsetFits
  <2> HIDE DEF o, b, x, e
  <2>3. o \in 0..(U16Size - 1)
    BY <1>1, <2>1, <2>5, U16SizeAssumption
  <2>4. ToU16(o) = o
    BY <2>3, U16SizeAssumption DEF ToU16
  <2> QED
    BY <2>2, <2>3, <2>4 DEF o
<1>15. cnt = 0 => /\ raw.prefix_underscore_cnt = 0
                  /\ raw.suffix_underscore_cnt = SegEnd(p, esc, k) - SegStart(p, esc, k)
  BY <1>4, <1>10, <1>12
<1>16. cnt > 0 => /\ raw.prefix_underscore_cnt = LitFrom(p, esc, k, 1) - SegStart(p, esc, k)
                  /\ raw.suffix_underscore_cnt = SegEnd(p, esc, k) - LastTo(p, esc, k)
  <2> SUFFICES ASSUME cnt > 0 PROVE /\ raw.prefix_underscore_cnt = LitFrom(p, esc, k, 1) - SegStart(p, esc, k)
                                    /\ raw.suffix_underscore_cnt = SegEnd(p, esc, k) - LastTo(p, esc, k)
    OBVIOUS
  <2>1. lits # << >>
    BY <1>5, <1>6, <1>10
  <2>2. Last(lits) = lits[cnt]
    BY <1>6 DEF Last
  <2>3. gap(1) = lits[1].start - seg.start
    OBVIOUS
  <2> QED
    BY <1>4, <1>8, <1>9, <1>12, <2>1, <2>2, <2>3
<1>17. HasLiteral(raw) <=> cnt > 0
  <2>1. raw.literal_offset \in Seq(Nat)
    BY <1>2 DEF Segment
  <2>2. raw.literal_offset = << >> <=> Len(raw.literal_offset) = 0
    <3> DEFINE o == raw.literal_offset
    <3> HIDE DEF o
    <3>1. o \in Seq(Nat)
      BY <2>1 DEF o
    <3>2. o = << >> <=> Len(o) = 0
      BY <3>1, EmptySeq
    <3> QED
      BY <3>2 DEF o
  <2> QED
    BY <1>5, <1>6, <1>13, <2>2 DEF HasLiteral
<1>18. seg.start = SegStart(p, esc, k)
  BY <1>4
<1>19. /\ raw.has_prefix_percent <=> (k > 1 \/ SegStart(p, esc, k) > 0)
       /\ raw.has_suffix_percent <=> (k < Len(segs) \/ SegEnd(p, esc, Len(segs)) # Len(p))
  BY <1>11, <1>12, <1>18
<1> HIDE DEF offsets, suffix, gap, seg
<1> QED
  BY <1>2, <1>5, <1>6, <1>13, <1>14, <1>15, <1>16, <1>17, <1>19 DEF raw, cnt, segs

\* What leads to a segment leads to its first literal, or past it if it has none.
LEMMA RawLeads ==
  ASSUME NEW p, NEW esc, SimplePattern(p, esc), NEW k \in 1..Len(Segments(p, esc)),
         NEW s \in Seq(Byte), NEW a, NEW c \in Nat, NEW any \in BOOLEAN,
         Leads(p, s, esc, a, SegStart(p, esc, k), c, any)
  PROVE  LET raw == RawSegment(p, esc, k)
         IN  /\ LitCount(p, esc, k) = 0 =>
                  Leads(p, s, esc, a, SegEnd(p, esc, k), c + Underscores(raw), any)
             /\ LitCount(p, esc, k) > 0 =>
                  Leads(p, s, esc, a, LitFrom(p, esc, k, 1), c + raw.prefix_underscore_cnt, any)
<1> DEFINE seg == Segments(p, esc)[k]
           lits == Literals(p, esc, seg)
           raw == RawSegment(p, esc, k)
           cnt == LitCount(p, esc, k)
           x == SegStart(p, esc, k)
           y == LitStart(p, esc, seg, 1)
           e == SegEnd(p, esc, k)
<1>1. p \in Seq(Byte) /\ OnlyWildcardsEscaped(p, esc) /\ Len(p) \in Nat
  BY DEF SimplePattern
<1>2. esc # UNDERSCORE
  BY <1>1 DEF OnlyWildcardsEscaped, NoEscape, UNDERSCORE
<1>3. x = seg.start /\ e = End(seg) /\ seg.start \in 0..Len(p) /\ End(seg) \in (seg.start + 1)..Len(p)
  BY <1>1, SegmentsShape
<1>4. /\ cnt \in Nat /\ LitEnd(p, esc, seg, 0) = seg.start
      /\ \A n \in 0..cnt : /\ LitEnd(p, esc, seg, n) \in seg.start..End(seg)
                           /\ LitStart(p, esc, seg, n + 1) \in LitEnd(p, esc, seg, n)..End(seg)
                           /\ \A i \in LitEnd(p, esc, seg, n)..(LitStart(p, esc, seg, n + 1) - 1) :
                                p[i + 1] = UNDERSCORE
      /\ LitStart(p, esc, seg, cnt + 1) = End(seg)
      /\ \A n \in 1..cnt : LitFrom(p, esc, k, n) = LitStart(p, esc, seg, n)
  BY <1>1, LiteralsShape DEF LitCount, LitFrom
<1>5. /\ cnt = 0 => raw.prefix_underscore_cnt = 0 /\ raw.suffix_underscore_cnt = e - x
      /\ cnt > 0 => raw.prefix_underscore_cnt = LitFrom(p, esc, k, 1) - x
  BY RawIs
<1> HIDE DEF seg, raw, cnt, x, y, e
<1>6. x \in 0..Len(p) /\ y \in x..Len(p) /\ \A i \in x..(y - 1) : p[i + 1] = UNDERSCORE
  <2>1. 0 \in 0..cnt /\ 0 + 1 = 1
    BY <1>4
  <2>2. /\ LitStart(p, esc, seg, 1) \in LitEnd(p, esc, seg, 0)..End(seg)
        /\ \A i \in LitEnd(p, esc, seg, 0)..(LitStart(p, esc, seg, 1) - 1) : p[i + 1] = UNDERSCORE
    BY <1>4, <2>1
  <2>3. y \in x..e /\ \A i \in x..(y - 1) : p[i + 1] = UNDERSCORE
    BY <1>3, <1>4, <2>2 DEF y
  <2>4. x \in 0..Len(p) /\ e \in (x + 1)..Len(p)
    BY <1>3
  <2>5. y \in x..Len(p)
    BY <1>1, <2>3, <2>4
  <2> QED
    BY <2>3, <2>4, <2>5
<1>7. Leads(p, s, esc, a, x, c, any)
  BY DEF x
<1>8. Leads(p, s, esc, a, y, c + (y - x), any)
  BY <1>1, <1>2, <1>6, <1>7, LeadsUnderscores
<1>9. ASSUME cnt = 0 PROVE Leads(p, s, esc, a, e, c + Underscores(raw), any)
  <2>1. y = e
    BY <1>3, <1>4, <1>9 DEF y
  <2>2. Underscores(raw) = y - x
    BY <1>1, <1>5, <1>6, <1>9, <2>1 DEF Underscores
  <2> QED
    BY <1>8, <2>1, <2>2
<1>10. ASSUME cnt > 0 PROVE Leads(p, s, esc, a, LitFrom(p, esc, k, 1), c + raw.prefix_underscore_cnt, any)
  <2>1. 1 \in 1..cnt
    BY <1>4, <1>10
  <2>2. LitFrom(p, esc, k, 1) = y
    BY <1>4, <2>1 DEF y
  <2> QED
    BY <1>5, <1>8, <1>10, <2>2
<1> QED
  BY <1>9, <1>10 DEF raw, cnt, e

\* The last literal of a segment leads to its end, and any other to the next one.
LEMMA RawLeadsOn ==
  ASSUME NEW p, NEW esc, SimplePattern(p, esc), NEW k \in 1..Len(Segments(p, esc)),
         NEW s \in Seq(Byte)
  PROVE  /\ LitCount(p, esc, k) > 0 =>
              Leads(p, s, esc, LastTo(p, esc, k), SegEnd(p, esc, k),
                    RawSegment(p, esc, k).suffix_underscore_cnt, FALSE)
         /\ \A n \in 1..(LitCount(p, esc, k) - 1) :
              /\ LitFrom(p, esc, k, n + 1) - LitTo(p, esc, k, n) \in Nat
              /\ Leads(p, s, esc, LitTo(p, esc, k, n), LitFrom(p, esc, k, n + 1),
                       LitFrom(p, esc, k, n + 1) - LitTo(p, esc, k, n), FALSE)
<1> DEFINE seg == Segments(p, esc)[k]
           raw == RawSegment(p, esc, k)
           cnt == LitCount(p, esc, k)
           e == SegEnd(p, esc, k)
<1>1. p \in Seq(Byte) /\ OnlyWildcardsEscaped(p, esc) /\ Len(p) \in Nat
  BY DEF SimplePattern
<1>2. esc # UNDERSCORE
  BY <1>1 DEF OnlyWildcardsEscaped, NoEscape, UNDERSCORE
<1>3. e = End(seg) /\ seg.start \in 0..Len(p) /\ End(seg) \in (seg.start + 1)..Len(p)
  BY <1>1, SegmentsShape
<1>4. /\ cnt \in Nat
      /\ \A n \in 0..cnt : /\ LitEnd(p, esc, seg, n) \in seg.start..End(seg)
                           /\ LitStart(p, esc, seg, n + 1) \in LitEnd(p, esc, seg, n)..End(seg)
                           /\ \A i \in LitEnd(p, esc, seg, n)..(LitStart(p, esc, seg, n + 1) - 1) :
                                p[i + 1] = UNDERSCORE
      /\ LitStart(p, esc, seg, cnt + 1) = End(seg)
      /\ \A n \in 1..cnt : /\ LitFrom(p, esc, k, n) = LitStart(p, esc, seg, n)
                           /\ LitTo(p, esc, k, n) = LitEnd(p, esc, seg, n)
  BY <1>1, LiteralsShape DEF LitCount, LitFrom, LitTo
<1>5. cnt > 0 => raw.suffix_underscore_cnt = e - LastTo(p, esc, k)
  BY RawIs
<1>6. LastTo(p, esc, k) = LitTo(p, esc, k, cnt)
  BY DEF LastTo
<1> HIDE DEF seg, raw, cnt, e
<1>7. ASSUME NEW n \in 1..cnt
      PROVE  LET x == LitTo(p, esc, k, n)
                 y == LitStart(p, esc, seg, n + 1)
             IN  y - x \in Nat /\ Leads(p, s, esc, x, y, y - x, FALSE)
  <2> DEFINE x == LitTo(p, esc, k, n)
             y == LitStart(p, esc, seg, n + 1)
  <2>1. n \in 0..cnt
    BY <1>4
  <2>2. /\ x \in seg.start..End(seg) /\ y \in x..End(seg)
        /\ \A i \in x..(y - 1) : p[i + 1] = UNDERSCORE
    BY <1>4, <2>1
  <2> HIDE DEF x, y
  <2>3. x \in 0..Len(p) /\ y \in x..Len(p) /\ y - x \in Nat
    <3> DEFINE f == seg.start
               g == End(seg)
    <3>1. f \in 0..Len(p) /\ g \in (f + 1)..Len(p) /\ x \in f..g /\ y \in x..g
      BY <1>3, <2>2
    <3> HIDE DEF f, g
    <3> QED
      BY <1>1, <3>1
  <2>4. Leads(p, s, esc, x, x, 0, FALSE)
    BY LeadsNowhere
  <2>5. Leads(p, s, esc, x, y, 0 + (y - x), FALSE)
    BY <1>1, <1>2, <2>2, <2>3, <2>4, LeadsUnderscores
  <2>6. 0 + (y - x) = y - x
    BY <2>3
  <2> QED
    BY <2>3, <2>5, <2>6 DEF x, y
<1>8. ASSUME cnt > 0 PROVE Leads(p, s, esc, LastTo(p, esc, k), e, raw.suffix_underscore_cnt, FALSE)
  <2>1. cnt \in 1..cnt
    BY <1>4, <1>8
  <2>2. LitStart(p, esc, seg, cnt + 1) = e
    BY <1>3, <1>4
  <2> QED
    BY <1>5, <1>6, <1>7, <1>8, <2>1, <2>2
<1>9. ASSUME NEW n \in 1..(cnt - 1)
      PROVE  /\ LitFrom(p, esc, k, n + 1) - LitTo(p, esc, k, n) \in Nat
             /\ Leads(p, s, esc, LitTo(p, esc, k, n), LitFrom(p, esc, k, n + 1),
                      LitFrom(p, esc, k, n + 1) - LitTo(p, esc, k, n), FALSE)
  <2>1. n \in 1..cnt /\ n + 1 \in 1..cnt
    BY <1>4
  <2>2. LitFrom(p, esc, k, n + 1) = LitStart(p, esc, seg, n + 1)
    BY <1>4, <2>1
  <2> QED
    BY <1>7, <2>1, <2>2
<1> QED
  BY <1>8, <1>9 DEF raw, cnt, e

\* Percents stand between two segments.
LEMMA BetweenSegments ==
  ASSUME NEW p, NEW esc, SimplePattern(p, esc), NEW k \in 0..Len(Segments(p, esc)),
         NEW s \in Seq(Byte), NEW a, NEW c \in Nat, NEW any \in BOOLEAN,
         Leads(p, s, esc, a, SegEnd(p, esc, k), c, any)
  PROVE  /\ SegEnd(p, esc, k) < SegStart(p, esc, k + 1) =>
              Leads(p, s, esc, a, SegStart(p, esc, k + 1), c, TRUE)
         /\ Leads(p, s, esc, a, SegStart(p, esc, k + 1), c, any)
<1> DEFINE x == SegEnd(p, esc, k)
           y == SegStart(p, esc, k + 1)
<1>1. p \in Seq(Byte) /\ OnlyWildcardsEscaped(p, esc)
  BY DEF SimplePattern
<1>2. esc # PERCENTAGE
  BY <1>1 DEF OnlyWildcardsEscaped, NoEscape, PERCENTAGE
<1>3. x \in 0..Len(p) /\ y \in x..Len(p) /\ \A i \in x..(y - 1) : p[i + 1] = PERCENTAGE
  BY <1>1, SegmentsShape
<1>4. Leads(p, s, esc, a, x, c, any)
  OBVIOUS
<1> HIDE DEF x, y
<1>5. /\ x < y => Leads(p, s, esc, a, y, c, TRUE)
      /\ Leads(p, s, esc, a, y, c, any)
  BY <1>1, <1>2, <1>3, <1>4, LeadsPercents
<1> QED
  BY <1>5 DEF x, y

\* What folding in a segment does to the fields of the others and of itself.
LEMMA FoldSegmentMakes ==
  ASSUME NEW F \in Seq(Segment), F # << >>, NEW seg \in Segment
  PROVE  LET G == FoldSegment(F, seg)
             K == Len(F)
         IN  /\ K \in Nat \ {0} /\ F[K] \in Segment
             /\ ~HasLiteral(F[K]) =>
                  /\ Len(G) = 1 /\ G[1].literal_offset = seg.literal_offset
                  /\ G[1].prefix_underscore_cnt = seg.prefix_underscore_cnt + Underscores(F[K])
                  /\ G[1].suffix_underscore_cnt = seg.suffix_underscore_cnt
                  /\ G[1].has_prefix_percent = TRUE /\ G[1].has_suffix_percent = seg.has_suffix_percent
             /\ HasLiteral(F[K]) /\ ~HasLiteral(seg) =>
                  /\ Len(G) = K /\ \A j \in 1..(K - 1) : G[j] = F[j]
                  /\ G[K].literal_offset = F[K].literal_offset
                  /\ G[K].prefix_underscore_cnt = F[K].prefix_underscore_cnt
                  /\ G[K].suffix_underscore_cnt = F[K].suffix_underscore_cnt + Underscores(seg)
                  /\ G[K].has_prefix_percent = F[K].has_prefix_percent
                  /\ G[K].has_suffix_percent = F[K].has_suffix_percent
             /\ HasLiteral(F[K]) /\ HasLiteral(seg) =>
                  Len(G) = K + 1 /\ (\A j \in 1..K : G[j] = F[j]) /\ G[K + 1] = seg
<1> DEFINE G == FoldSegment(F, seg)
           K == Len(F)
           l == F[K]
<1>1. K \in Nat \ {0} /\ F \in [1..K -> Segment] /\ K \in 1..K /\ l \in Segment /\ Last(F) = l
  <2>1. Len(F) \in Nat \ {0}
    BY EmptySeq
  <2> QED
    BY <2>1 DEF Last
<1> HIDE DEF K, l
<1>2. ASSUME ~HasLiteral(l)
      PROVE  /\ Len(G) = 1 /\ G[1].literal_offset = seg.literal_offset
             /\ G[1].prefix_underscore_cnt = seg.prefix_underscore_cnt + Underscores(l)
             /\ G[1].suffix_underscore_cnt = seg.suffix_underscore_cnt
             /\ G[1].has_prefix_percent = TRUE /\ G[1].has_suffix_percent = seg.has_suffix_percent
  <2> DEFINE v == seg.prefix_underscore_cnt + Underscores(l)
             new == [seg EXCEPT !.prefix_underscore_cnt = v, !.has_prefix_percent = TRUE]
  <2>1. G = << new >>
    BY <1>1, <1>2 DEF FoldSegment
  <2>2. /\ new.literal_offset = seg.literal_offset /\ new.prefix_underscore_cnt = v
        /\ new.suffix_underscore_cnt = seg.suffix_underscore_cnt
        /\ new.has_prefix_percent = TRUE /\ new.has_suffix_percent = seg.has_suffix_percent
    <3> HIDE DEF v
    <3> QED
      BY DEF Segment
  <2>3. Len(<< new >>) = 1 /\ << new >>[1] = new
    <3> HIDE DEF new
    <3> QED
      OBVIOUS
  <2> HIDE DEF G, new
  <2> QED
    BY <2>1, <2>2, <2>3
<1>3. ASSUME HasLiteral(l), ~HasLiteral(seg)
      PROVE  /\ Len(G) = K /\ \A j \in 1..(K - 1) : G[j] = F[j]
             /\ G[K].literal_offset = l.literal_offset
             /\ G[K].prefix_underscore_cnt = l.prefix_underscore_cnt
             /\ G[K].suffix_underscore_cnt = l.suffix_underscore_cnt + Underscores(seg)
             /\ G[K].has_prefix_percent = l.has_prefix_percent
             /\ G[K].has_suffix_percent = l.has_suffix_percent
  <2> DEFINE v == l.suffix_underscore_cnt + Underscores(seg)
             new == [l EXCEPT !.suffix_underscore_cnt = v]
             all == [F EXCEPT ![K] = new]
  <2>1. G = all
    <3>1. G = [F EXCEPT ![Len(F)].suffix_underscore_cnt = @ + Underscores(seg)]
      BY <1>1, <1>3 DEF FoldSegment
    <3> QED
      BY <3>1 DEF K, l
  <2>2. /\ new.literal_offset = l.literal_offset
        /\ new.prefix_underscore_cnt = l.prefix_underscore_cnt
        /\ new.suffix_underscore_cnt = v
        /\ new.has_prefix_percent = l.has_prefix_percent
        /\ new.has_suffix_percent = l.has_suffix_percent
    <3> HIDE DEF v
    <3> QED
      BY <1>1 DEF Segment
  <2>3. all[K] = new /\ (\A j \in 1..(K - 1) : all[j] = F[j])
    <3> HIDE DEF new
    <3>1. \A j \in 1..(K - 1) : j \in 1..K /\ j # K
      BY <1>1
    <3> QED
      BY <1>1, <3>1
  <2>4. Len(all) = K
    <3>1. new \in Segment
      <4>1. v \in Nat
        <5>1. /\ seg.prefix_underscore_cnt \in Nat /\ seg.suffix_underscore_cnt \in Nat
              /\ l.suffix_underscore_cnt \in Nat
          BY <1>1 DEF Segment
        <5>2. Underscores(seg) \in Nat
          BY <5>1 DEF Underscores
        <5> QED
          BY <5>1, <5>2
      <4> HIDE DEF v
      <4> QED
        BY <1>1, <4>1, SegmentWith
    <3> HIDE DEF new
    <3>2. all \in [1..K -> Segment]
      BY <1>1, <3>1
    <3> HIDE DEF all
    <3> QED
      BY <1>1, <3>2
  <2> HIDE DEF G, new, all
  <2> QED
    BY <2>1, <2>2, <2>3, <2>4
<1>4. ASSUME HasLiteral(l), HasLiteral(seg)
      PROVE  Len(G) = K + 1 /\ (\A j \in 1..K : G[j] = F[j]) /\ G[K + 1] = seg
  <2>1. G = Append(F, seg)
    BY <1>1, <1>4 DEF FoldSegment
  <2>2. /\ Len(Append(F, seg)) = Len(F) + 1 /\ Append(F, seg)[Len(F) + 1] = seg
        /\ \A j \in 1..Len(F) : Append(F, seg)[j] = F[j]
    OBVIOUS
  <2> HIDE DEF G
  <2> QED
    BY <2>1, <2>2 DEF K
<1> HIDE DEF G
<1> QED
  BY <1>1, <1>2, <1>3, <1>4 DEF G, K, l

\* The folded segments F are those of the first n that have a literal, in order, and
\* the wildcards around their literals are those their counts say.
Lined(p, esc, F, r, n) ==
  /\ Len(F) \in Nat \ {0}
  /\ r \in [1..Len(F) -> 1..n] /\ \A j, k \in 1..Len(F) : j < k => r[j] < r[k]
  /\ \A k \in 1..Len(F) :
       /\ LitCount(p, esc, r[k]) > 0
       /\ F[k].literal_offset = RawSegment(p, esc, r[k]).literal_offset
       /\ F[k].has_suffix_percent = RawSegment(p, esc, r[k]).has_suffix_percent
  /\ \A s \in Seq(Byte) :
       /\ Leads(p, s, esc, 0, LitFrom(p, esc, r[1], 1),
                F[1].prefix_underscore_cnt, F[1].has_prefix_percent)
       /\ \A k \in 1..(Len(F) - 1) :
            Leads(p, s, esc, LastTo(p, esc, r[k]), LitFrom(p, esc, r[k + 1], 1),
                  F[k].suffix_underscore_cnt + F[k + 1].prefix_underscore_cnt, TRUE)

FoldedLiterals(p, esc, F, n) ==
  \E r : /\ Lined(p, esc, F, r, n)
         /\ \A s \in Seq(Byte) :
              Leads(p, s, esc, LastTo(p, esc, r[Len(F)]), SegEnd(p, esc, n),
                    F[Len(F)].suffix_underscore_cnt, r[Len(F)] < n)

FoldedWildcards(p, esc, F, n) ==
  /\ Len(F) = 1 /\ ~HasLiteral(F[1]) /\ \A j \in 1..n : LitCount(p, esc, j) = 0
  /\ \A s \in Seq(Byte) :
       Leads(p, s, esc, 0, SegEnd(p, esc, n), Underscores(F[1]), F[1].has_prefix_percent)

\* The first segment.
LEMMA FoldsFirst ==
  ASSUME NEW p, NEW esc, SimplePattern(p, esc), Len(Segments(p, esc)) > 0
  PROVE  LET F == << RawSegment(p, esc, 1) >>
         IN  FoldedLiterals(p, esc, F, 1) \/ FoldedWildcards(p, esc, F, 1)
<1> DEFINE raw == RawSegment(p, esc, 1)
           F == << raw >>
           N == Len(Segments(p, esc))
           cnt == LitCount(p, esc, 1)
           x == SegStart(p, esc, 1)
<1>1. /\ p \in Seq(Byte) /\ N \in Nat /\ 1 \in 1..N /\ 0 \in 0..N
      /\ SegEnd(p, esc, 0) = 0 /\ x \in 0..Len(p)
  <2>1. p \in Seq(Byte) /\ OnlyWildcardsEscaped(p, esc) /\ Len(p) \in Nat
    BY DEF SimplePattern
  <2>2. /\ N \in Nat /\ SegEnd(p, esc, 0) = 0
        /\ \A n \in 1..N : Segments(p, esc)[n].start = SegStart(p, esc, n) /\ Segments(p, esc)[n].start \in 0..Len(p)
    BY <2>1, SegmentsShape
  <2> HIDE DEF N
  <2>3. 1 \in 1..N /\ 0 \in 0..N
    BY <2>2 DEF N
  <2> QED
    BY <2>1, <2>2, <2>3
<1>2. /\ raw \in Segment /\ cnt \in Nat /\ (HasLiteral(raw) <=> cnt > 0)
      /\ raw.has_prefix_percent <=> (1 > 1 \/ x > 0)
      /\ cnt = 0 => raw.prefix_underscore_cnt = 0
  BY <1>1, RawIs
<1>3. raw.has_prefix_percent \in BOOLEAN /\ raw.prefix_underscore_cnt \in Nat
  BY <1>2 DEF Segment
<1>4. Len(F) = 1 /\ F[1] = raw
  <2> HIDE DEF raw
  <2> QED
    OBVIOUS
<1>5. ASSUME NEW s \in Seq(Byte) PROVE Leads(p, s, esc, 0, x, 0, raw.has_prefix_percent)
  <2>1. Leads(p, s, esc, 0, SegEnd(p, esc, 0), 0, FALSE)
    BY <1>1, LeadsNowhere
  <2>2. /\ SegEnd(p, esc, 0) < SegStart(p, esc, 0 + 1) => Leads(p, s, esc, 0, SegStart(p, esc, 0 + 1), 0, TRUE)
        /\ Leads(p, s, esc, 0, SegStart(p, esc, 0 + 1), 0, FALSE)
    BY <1>1, <2>1, BetweenSegments
  <2>3. 0 + 1 = 1
    OBVIOUS
  <2>4. (0 < x => Leads(p, s, esc, 0, x, 0, TRUE)) /\ Leads(p, s, esc, 0, x, 0, FALSE)
    BY <1>1, <2>2, <2>3
  <2>5. raw.has_prefix_percent <=> x > 0
    BY <1>2
  <2> HIDE DEF raw, x
  <2>6. CASE x > 0
    <3>1. raw.has_prefix_percent = TRUE
      BY <1>3, <2>5, <2>6
    <3> QED
      BY <1>1, <2>4, <2>6, <3>1
  <2>7. CASE ~(x > 0)
    <3>1. raw.has_prefix_percent = FALSE
      BY <1>3, <2>5, <2>7
    <3> QED
      BY <2>4, <3>1
  <2> QED
    BY <2>6, <2>7
<1> HIDE DEF F, x, N
<1>6. ASSUME NEW s \in Seq(Byte)
      PROVE  /\ cnt = 0 => Leads(p, s, esc, 0, SegEnd(p, esc, 1), Underscores(raw), raw.has_prefix_percent)
             /\ cnt > 0 => Leads(p, s, esc, 0, LitFrom(p, esc, 1, 1), raw.prefix_underscore_cnt, raw.has_prefix_percent)
  <2>1. Leads(p, s, esc, 0, SegStart(p, esc, 1), 0, raw.has_prefix_percent)
    BY <1>5 DEF x
  <2>2. 1 \in 1..Len(Segments(p, esc)) /\ 0 \in Nat
    BY <1>1 DEF N
  <2>3. /\ cnt = 0 => Leads(p, s, esc, 0, SegEnd(p, esc, 1), 0 + Underscores(raw), raw.has_prefix_percent)
        /\ cnt > 0 => Leads(p, s, esc, 0, LitFrom(p, esc, 1, 1), 0 + raw.prefix_underscore_cnt, raw.has_prefix_percent)
    BY <1>3, <2>1, <2>2, RawLeads
  <2>4. Underscores(raw) \in Nat
    BY <1>2 DEF Underscores, Segment
  <2>5. 0 + Underscores(raw) = Underscores(raw) /\ 0 + raw.prefix_underscore_cnt = raw.prefix_underscore_cnt
    BY <1>3, <2>4
  <2> QED
    BY <2>3, <2>5
<1>7. CASE cnt = 0
  <2>1. \A j \in 1..1 : LitCount(p, esc, j) = 0
    BY <1>7
  <2>2. FoldedWildcards(p, esc, F, 1)
    BY <1>2, <1>4, <1>6, <1>7, <2>1 DEF FoldedWildcards
  <2> QED
    BY <2>2 DEF F
<1>8. CASE cnt # 0
  <2> DEFINE r == [k \in 1..1 |-> 1]
  <2>1. cnt > 0
    BY <1>2, <1>8
  <2>2. r \in [1..Len(F) -> 1..1] /\ r[1] = 1 /\ Len(F) = 1
    BY <1>4
  <2>3. /\ \A j, k \in 1..1 : ~(j < k)
        /\ \A k \in 1..1 : k = 1
        /\ 1..(1 - 1) = {} /\ 1 \in Nat \ {0}
    OBVIOUS
  <2> HIDE DEF r
  <2>4. Lined(p, esc, F, r, 1)
    BY <1>4, <1>6, <2>1, <2>2, <2>3 DEF Lined
  <2>5. ASSUME NEW s \in Seq(Byte)
        PROVE  Leads(p, s, esc, LastTo(p, esc, 1), SegEnd(p, esc, 1), raw.suffix_underscore_cnt, FALSE)
    <3>1. 1 \in 1..Len(Segments(p, esc))
      BY <1>1 DEF N
    <3> QED
      BY <2>1, <3>1, RawLeadsOn
  <2>6. (1 < 1) = FALSE
    OBVIOUS
  <2>7. FoldedLiterals(p, esc, F, 1)
    BY <1>4, <2>2, <2>4, <2>5, <2>6 DEF FoldedLiterals
  <2> QED
    BY <2>7 DEF F
<1> QED
  BY <1>7, <1>8

\* One segment more, when there was no literal before it.
LEMMA FoldsOnWildcards ==
  ASSUME NEW p, NEW esc, SimplePattern(p, esc), NEW n \in 1..(Len(Segments(p, esc)) - 1),
         NEW F \in Seq(Segment), F # << >>, FoldedWildcards(p, esc, F, n)
  PROVE  LET G == FoldSegment(F, RawSegment(p, esc, n + 1))
         IN  FoldedLiterals(p, esc, G, n + 1) \/ FoldedWildcards(p, esc, G, n + 1)
<1> DEFINE m == n + 1
           raw == RawSegment(p, esc, m)
           G == FoldSegment(F, raw)
           N == Len(Segments(p, esc))
           cnt == LitCount(p, esc, m)
           u == Underscores(F[1])
<1>1. /\ p \in Seq(Byte) /\ N \in Nat /\ n \in 0..N /\ n \in 1..N /\ m \in 1..N
      /\ SegEnd(p, esc, n) < SegStart(p, esc, m)
  <2>1. p \in Seq(Byte) /\ OnlyWildcardsEscaped(p, esc)
    BY DEF SimplePattern
  <2>2. /\ N \in Nat
        /\ \A k \in 1..N : Segments(p, esc)[k].start = SegStart(p, esc, k) /\ End(Segments(p, esc)[k]) = SegEnd(p, esc, k)
        /\ \A j, k \in 1..N : j < k => End(Segments(p, esc)[j]) < Segments(p, esc)[k].start
    BY <2>1, SegmentsShape
  <2>3. n \in 1..N /\ m \in 1..N /\ n < m /\ n \in 0..N
    <3>1. n \in 1..(N - 1)
      OBVIOUS
    <3> HIDE DEF N
    <3> QED
      BY <2>2, <3>1
  <2> QED
    BY <2>1, <2>2, <2>3
<1>2. /\ raw \in Segment /\ cnt \in Nat /\ (HasLiteral(raw) <=> cnt > 0)
      /\ cnt = 0 => raw.prefix_underscore_cnt = 0
  BY <1>1, RawIs
<1>3. Len(F) = 1 /\ ~HasLiteral(F[1]) /\ (\A j \in 1..n : LitCount(p, esc, j) = 0)
      /\ \A s \in Seq(Byte) : Leads(p, s, esc, 0, SegEnd(p, esc, n), u, F[1].has_prefix_percent)
  BY DEF FoldedWildcards
<1>4. /\ F[1] \in Segment
      /\ Len(G) = 1 /\ G[1].literal_offset = raw.literal_offset
      /\ G[1].prefix_underscore_cnt = raw.prefix_underscore_cnt + u
      /\ G[1].suffix_underscore_cnt = raw.suffix_underscore_cnt
      /\ G[1].has_prefix_percent = TRUE /\ G[1].has_suffix_percent = raw.has_suffix_percent
  <2> DEFINE K == Len(F)
  <2>1. /\ F[K] \in Segment
        /\ ~HasLiteral(F[K]) =>
             /\ Len(G) = 1 /\ G[1].literal_offset = raw.literal_offset
             /\ G[1].prefix_underscore_cnt = raw.prefix_underscore_cnt + Underscores(F[K])
             /\ G[1].suffix_underscore_cnt = raw.suffix_underscore_cnt
             /\ G[1].has_prefix_percent = TRUE /\ G[1].has_suffix_percent = raw.has_suffix_percent
    BY <1>2, FoldSegmentMakes
  <2>2. K = 1
    BY <1>3
  <2> HIDE DEF G, raw, K
  <2> QED
    BY <1>3, <2>1, <2>2
<1>5. u \in Nat /\ F[1].has_prefix_percent \in BOOLEAN /\ raw.prefix_underscore_cnt \in Nat
      /\ raw.suffix_underscore_cnt \in Nat
  <2>1. \A x \in Segment : /\ Underscores(x) \in Nat /\ x.has_prefix_percent \in BOOLEAN
                           /\ x.prefix_underscore_cnt \in Nat /\ x.suffix_underscore_cnt \in Nat
    BY DEF Underscores, Segment
  <2> HIDE DEF raw, G
  <2> QED
    BY <1>2, <1>4, <2>1
<1>6. ASSUME NEW s \in Seq(Byte)
      PROVE  /\ cnt = 0 => Leads(p, s, esc, 0, SegEnd(p, esc, m), u + Underscores(raw), TRUE)
             /\ cnt > 0 => Leads(p, s, esc, 0, LitFrom(p, esc, m, 1), u + raw.prefix_underscore_cnt, TRUE)
  <2>1. Leads(p, s, esc, 0, SegEnd(p, esc, n), u, F[1].has_prefix_percent)
    BY <1>3
  <2> HIDE DEF u
  <2>2. Leads(p, s, esc, 0, SegStart(p, esc, m), u, TRUE)
    BY <1>1, <1>5, <2>1, BetweenSegments
  <2> HIDE DEF m
  <2> QED
    BY <1>1, <1>5, <2>2, RawLeads
<1>7. CASE cnt = 0
  <2>1. Underscores(G[1]) = u + Underscores(raw)
    <3> HIDE DEF u, G, raw
    <3> QED
      BY <1>4, <1>5 DEF Underscores
  <2>2. ASSUME NEW j \in 1..m PROVE LitCount(p, esc, j) = 0
    <3>1. j = m \/ j \in 1..n
      BY <1>1
    <3> QED
      BY <1>3, <1>7, <3>1
  <2>3. ~HasLiteral(G[1])
    BY <1>2, <1>4, <1>7 DEF HasLiteral
  <2> HIDE DEF G, raw, u, m, cnt
  <2>4. FoldedWildcards(p, esc, G, m)
    BY <1>4, <1>6, <1>7, <2>1, <2>2, <2>3 DEF FoldedWildcards
  <2> QED
    BY <2>4 DEF G, m, raw
<1>8. CASE cnt # 0
  <2> DEFINE r == [k \in 1..1 |-> m]
  <2>1. cnt > 0
    BY <1>2, <1>8
  <2>2. r \in [1..Len(G) -> 1..m] /\ r[1] = m /\ Len(G) = 1
    <3>1. m \in 1..m
      BY <1>1
    <3> HIDE DEF G, m
    <3> QED
      BY <1>4, <3>1
  <2>3. /\ \A j, k \in 1..1 : ~(j < k)
        /\ \A k \in 1..1 : k = 1
        /\ 1..(1 - 1) = {} /\ 1 \in Nat \ {0}
    OBVIOUS
  <2>4. u + raw.prefix_underscore_cnt = G[1].prefix_underscore_cnt
    <3> HIDE DEF u, G, raw
    <3> QED
      BY <1>4, <1>5
  <2>5. ASSUME NEW s \in Seq(Byte)
        PROVE  Leads(p, s, esc, LastTo(p, esc, m), SegEnd(p, esc, m), raw.suffix_underscore_cnt, FALSE)
    <3>1. m \in 1..Len(Segments(p, esc))
      BY <1>1 DEF N
    <3> HIDE DEF m
    <3> QED
      BY <2>1, <3>1, RawLeadsOn
  <2>6. (m < m) = FALSE
    BY <1>1
  <2> HIDE DEF r, G, raw, u, m, cnt
  <2>7. Lined(p, esc, G, r, m)
    BY <1>4, <1>6, <2>1, <2>2, <2>3, <2>4 DEF Lined, raw, cnt
  <2>8. FoldedLiterals(p, esc, G, m)
    BY <1>4, <2>2, <2>5, <2>6, <2>7 DEF FoldedLiterals
  <2> QED
    BY <2>8 DEF G, m, raw
<1> QED
  BY <1>7, <1>8

\* One segment more, when there is a literal before it.
LEMMA FoldsOnLiterals ==
  ASSUME NEW p, NEW esc, SimplePattern(p, esc), NEW n \in 1..(Len(Segments(p, esc)) - 1),
         NEW F \in Seq(Segment), F # << >>, FoldedLiterals(p, esc, F, n)
  PROVE  LET G == FoldSegment(F, RawSegment(p, esc, n + 1))
         IN  FoldedLiterals(p, esc, G, n + 1)
<1> DEFINE m == n + 1
           raw == RawSegment(p, esc, m)
           G == FoldSegment(F, raw)
           N == Len(Segments(p, esc))
           cnt == LitCount(p, esc, m)
           K == Len(F)
<1>1. /\ p \in Seq(Byte) /\ N \in Nat /\ n \in 0..N /\ n \in 1..N /\ m \in 1..N
      /\ SegEnd(p, esc, n) < SegStart(p, esc, m)
  <2>1. p \in Seq(Byte) /\ OnlyWildcardsEscaped(p, esc)
    BY DEF SimplePattern
  <2>2. /\ N \in Nat
        /\ \A k \in 1..N : Segments(p, esc)[k].start = SegStart(p, esc, k) /\ End(Segments(p, esc)[k]) = SegEnd(p, esc, k)
        /\ \A j, k \in 1..N : j < k => End(Segments(p, esc)[j]) < Segments(p, esc)[k].start
    BY <2>1, SegmentsShape
  <2>3. n \in 1..N /\ m \in 1..N /\ n < m /\ n \in 0..N
    <3>1. n \in 1..(N - 1)
      OBVIOUS
    <3> HIDE DEF N
    <3> QED
      BY <2>2, <3>1
  <2> QED
    BY <2>1, <2>2, <2>3
<1>2. raw \in Segment /\ cnt \in Nat /\ (HasLiteral(raw) <=> cnt > 0)
  BY <1>1, RawIs
<1>3. PICK r : /\ Lined(p, esc, F, r, n)
               /\ \A s \in Seq(Byte) :
                    Leads(p, s, esc, LastTo(p, esc, r[K]), SegEnd(p, esc, n),
                          F[K].suffix_underscore_cnt, r[K] < n)
  BY DEF FoldedLiterals
<1>4. /\ K \in Nat \ {0} /\ r \in [1..K -> 1..n] /\ \A j, k \in 1..K : j < k => r[j] < r[k]
      /\ \A k \in 1..K : /\ LitCount(p, esc, r[k]) > 0
                         /\ F[k].literal_offset = RawSegment(p, esc, r[k]).literal_offset
                         /\ F[k].has_suffix_percent = RawSegment(p, esc, r[k]).has_suffix_percent
  BY <1>3 DEF Lined
<1>5. /\ \A s \in Seq(Byte) :
           /\ Leads(p, s, esc, 0, LitFrom(p, esc, r[1], 1), F[1].prefix_underscore_cnt, F[1].has_prefix_percent)
           /\ \A k \in 1..(K - 1) :
                Leads(p, s, esc, LastTo(p, esc, r[k]), LitFrom(p, esc, r[k + 1], 1),
                      F[k].suffix_underscore_cnt + F[k + 1].prefix_underscore_cnt, TRUE)
  BY <1>3 DEF Lined
<1>6. HasLiteral(F[K]) /\ F[K] \in Segment /\ F \in [1..K -> Segment] /\ K \in 1..K /\ r[K] \in 1..n
  <2>1. K \in 1..K /\ r[K] \in 1..n
    BY <1>4
  <2>2. r[K] \in 1..N
    BY <1>1, <2>1
  <2>3. HasLiteral(RawSegment(p, esc, r[K]))
    BY <1>4, <2>1, <2>2, RawIs
  <2>4. HasLiteral(F[K])
    BY <1>4, <2>1, <2>3 DEF HasLiteral
  <2> QED
    BY <2>1, <2>4
<1>7. F[K].suffix_underscore_cnt \in Nat /\ raw.prefix_underscore_cnt \in Nat /\ raw.suffix_underscore_cnt \in Nat
  BY <1>2, <1>6 DEF Segment
\* Behind the last literal come its underscores and then at least one percent.
<1>8. ASSUME NEW s \in Seq(Byte)
      PROVE  Leads(p, s, esc, LastTo(p, esc, r[K]), SegStart(p, esc, m), F[K].suffix_underscore_cnt, TRUE)
  <2> DEFINE c == F[K].suffix_underscore_cnt
             any == r[K] < n
             a == LastTo(p, esc, r[K])
  <2>1. Leads(p, s, esc, a, SegEnd(p, esc, n), c, any) /\ c \in Nat /\ any \in BOOLEAN
    BY <1>3, <1>7
  <2> HIDE DEF a, c, any
  <2>2. Leads(p, s, esc, a, SegStart(p, esc, n + 1), c, TRUE)
    BY <1>1, <2>1, BetweenSegments
  <2> QED
    BY <2>2 DEF a, c
<1>9. ASSUME NEW s \in Seq(Byte)
      PROVE  LET c == F[K].suffix_underscore_cnt
                 a == LastTo(p, esc, r[K])
             IN  /\ cnt = 0 => Leads(p, s, esc, a, SegEnd(p, esc, m), c + Underscores(raw), TRUE)
                 /\ cnt > 0 => Leads(p, s, esc, a, LitFrom(p, esc, m, 1), c + raw.prefix_underscore_cnt, TRUE)
  <2> DEFINE c == F[K].suffix_underscore_cnt
             a == LastTo(p, esc, r[K])
  <2>1. Leads(p, s, esc, a, SegStart(p, esc, m), c, TRUE) /\ c \in Nat /\ m \in 1..Len(Segments(p, esc))
    BY <1>1, <1>7, <1>8
  <2> HIDE DEF a, c, m
  <2> QED
    BY <2>1, RawLeads DEF a, c
<1>10. CASE cnt = 0
  <2>0. ~HasLiteral(raw)
    <3>1. ~(cnt > 0)
      BY <1>10
    <3> HIDE DEF raw, cnt
    <3> QED
      BY <1>2, <3>1
  <2>1. /\ Len(G) = K /\ \A j \in 1..(K - 1) : G[j] = F[j]
        /\ G[K].literal_offset = F[K].literal_offset
        /\ G[K].prefix_underscore_cnt = F[K].prefix_underscore_cnt
        /\ G[K].suffix_underscore_cnt = F[K].suffix_underscore_cnt + Underscores(raw)
        /\ G[K].has_prefix_percent = F[K].has_prefix_percent
        /\ G[K].has_suffix_percent = F[K].has_suffix_percent
    <3> HIDE DEF raw
    <3> QED
      BY <1>2, <1>6, <2>0, FoldSegmentMakes
  <2> HIDE DEF G, raw, m, K, cnt
  <2>2. \A k \in 1..K : /\ G[k].literal_offset = F[k].literal_offset
                        /\ G[k].has_suffix_percent = F[k].has_suffix_percent
                        /\ G[k].prefix_underscore_cnt = F[k].prefix_underscore_cnt
                        /\ G[k].has_prefix_percent = F[k].has_prefix_percent
                        /\ k # K => G[k].suffix_underscore_cnt = F[k].suffix_underscore_cnt
    <3> SUFFICES ASSUME NEW k \in 1..K
                 PROVE  /\ G[k].literal_offset = F[k].literal_offset
                        /\ G[k].has_suffix_percent = F[k].has_suffix_percent
                        /\ G[k].prefix_underscore_cnt = F[k].prefix_underscore_cnt
                        /\ G[k].has_prefix_percent = F[k].has_prefix_percent
                        /\ k # K => G[k].suffix_underscore_cnt = F[k].suffix_underscore_cnt
      OBVIOUS
    <3>1. k = K \/ k \in 1..(K - 1)
      BY <1>4
    <3> QED
      BY <2>1, <3>1
  <2>3. r \in [1..Len(G) -> 1..m]
    <3>1. 1..n \subseteq 1..m
      BY <1>1 DEF m
    <3> QED
      BY <1>4, <2>1, <3>1
  <2>4. 1 \in 1..K /\ \A k \in 1..(K - 1) : k \in 1..K /\ k + 1 \in 1..K /\ k # K
    BY <1>4
  <2>5. Lined(p, esc, G, r, m)
    <3>1. \A k \in 1..Len(G) : /\ LitCount(p, esc, r[k]) > 0
                              /\ G[k].literal_offset = RawSegment(p, esc, r[k]).literal_offset
                              /\ G[k].has_suffix_percent = RawSegment(p, esc, r[k]).has_suffix_percent
      BY <1>4, <2>1, <2>2
    <3>2. ASSUME NEW s \in Seq(Byte)
          PROVE  /\ Leads(p, s, esc, 0, LitFrom(p, esc, r[1], 1), G[1].prefix_underscore_cnt, G[1].has_prefix_percent)
                 /\ \A k \in 1..(Len(G) - 1) :
                      Leads(p, s, esc, LastTo(p, esc, r[k]), LitFrom(p, esc, r[k + 1], 1),
                            G[k].suffix_underscore_cnt + G[k + 1].prefix_underscore_cnt, TRUE)
      BY <1>5, <2>1, <2>2, <2>4
    <3>3. Len(G) \in Nat \ {0} /\ \A j, k \in 1..Len(G) : j < k => r[j] < r[k]
      BY <1>4, <2>1
    <3> QED
      BY <2>3, <3>1, <3>2, <3>3 DEF Lined
  <2>6. (r[K] < m) = TRUE
    BY <1>1, <1>6 DEF m
  <2>7. FoldedLiterals(p, esc, G, m)
    BY <1>9, <1>10, <2>1, <2>5, <2>6 DEF FoldedLiterals
  <2> QED
    BY <2>7 DEF G, m, raw
<1>11. CASE cnt # 0
  <2> DEFINE q == [k \in 1..(K + 1) |-> IF k = K + 1 THEN m ELSE r[k]]
  <2>1. cnt > 0
    BY <1>2, <1>11
  <2>2. Len(G) = K + 1 /\ (\A j \in 1..K : G[j] = F[j]) /\ G[K + 1] = raw
    BY <1>2, <1>6, <2>1, FoldSegmentMakes
  <2> HIDE DEF G, raw, m, K, cnt
  <2>3. m = n + 1 /\ n \in Nat
    BY <1>1 DEF m
  <2>4. /\ \A k \in 1..K : q[k] = r[k] /\ q[k] \in 1..n
        /\ q[K + 1] = m
        /\ q \in [1..(K + 1) -> 1..m]
    <3>1. \A k \in 1..K : k \in 1..(K + 1) /\ k # K + 1 /\ r[k] \in 1..n
      BY <1>4
    <3>2. K + 1 \in 1..(K + 1) /\ m \in 1..m
      BY <1>4, <2>3
    <3>3. \A k \in 1..(K + 1) : k = K + 1 \/ k \in 1..K
      BY <1>4
    <3>4. \A k \in 1..K : q[k] = r[k]
      BY <3>1
    <3>5. q[K + 1] = m
      BY <3>2
    <3>6. 1..n \subseteq 1..m
      BY <2>3
    <3>7. \A k \in 1..(K + 1) : q[k] \in 1..m
      BY <3>1, <3>2, <3>3, <3>4, <3>5, <3>6
    <3>8. q = [k \in 1..(K + 1) |-> q[k]]
      OBVIOUS
    <3> HIDE DEF q
    <3>9. q \in [1..(K + 1) -> 1..m]
      BY <3>7, <3>8
    <3> QED
      BY <3>1, <3>4, <3>5, <3>9
  <2> HIDE DEF q
  <2>5. \A k \in 1..(K + 1) : k = K + 1 \/ k \in 1..K
    BY <1>4
  <2>6. ASSUME NEW j \in 1..(K + 1), NEW k \in 1..(K + 1), j < k PROVE q[j] < q[k]
    <3>1. j \in 1..K
      BY <1>4, <2>6
    <3>2. CASE k = K + 1
      <4>1. q[j] \in 1..n /\ q[k] = m
        BY <2>4, <3>1, <3>2
      <4> QED
        BY <2>3, <4>1
    <3>3. CASE k \in 1..K
      BY <1>4, <2>4, <2>6, <3>1, <3>3
    <3> QED
      BY <2>5, <3>2, <3>3
  <2>7. ASSUME NEW k \in 1..(K + 1)
        PROVE  /\ LitCount(p, esc, q[k]) > 0
               /\ G[k].literal_offset = RawSegment(p, esc, q[k]).literal_offset
               /\ G[k].has_suffix_percent = RawSegment(p, esc, q[k]).has_suffix_percent
    <3>1. CASE k = K + 1
      BY <2>1, <2>2, <2>4, <3>1 DEF cnt, raw
    <3>2. CASE k \in 1..K
      BY <1>4, <2>2, <2>4, <3>2
    <3> QED
      BY <2>5, <3>1, <3>2
  <2>8. ASSUME NEW s \in Seq(Byte)
        PROVE  /\ Leads(p, s, esc, 0, LitFrom(p, esc, q[1], 1), G[1].prefix_underscore_cnt, G[1].has_prefix_percent)
               /\ \A k \in 1..((K + 1) - 1) :
                    Leads(p, s, esc, LastTo(p, esc, q[k]), LitFrom(p, esc, q[k + 1], 1),
                          G[k].suffix_underscore_cnt + G[k + 1].prefix_underscore_cnt, TRUE)
    <3>1. 1 \in 1..K
      BY <1>4
    <3>2. Leads(p, s, esc, 0, LitFrom(p, esc, q[1], 1), G[1].prefix_underscore_cnt, G[1].has_prefix_percent)
      BY <1>5, <2>2, <2>4, <3>1
    <3>3. ASSUME NEW k \in 1..((K + 1) - 1)
          PROVE  Leads(p, s, esc, LastTo(p, esc, q[k]), LitFrom(p, esc, q[k + 1], 1),
                       G[k].suffix_underscore_cnt + G[k + 1].prefix_underscore_cnt, TRUE)
      <4>1. k \in 1..K /\ (k = K \/ (k \in 1..(K - 1) /\ k + 1 \in 1..K))
        BY <1>4
      <4>2. CASE k = K
        BY <1>9, <2>1, <2>2, <2>4, <4>1, <4>2
      <4>3. CASE k \in 1..(K - 1) /\ k + 1 \in 1..K
        BY <1>5, <2>2, <2>4, <4>1, <4>3
      <4> QED
        BY <4>1, <4>2, <4>3
    <3> QED
      BY <3>2, <3>3
  <2>9. Lined(p, esc, G, q, m)
    <3>1. Len(G) \in Nat \ {0}
      BY <1>4, <2>2
    <3> QED
      BY <2>2, <2>4, <2>6, <2>7, <2>8, <3>1 DEF Lined
  <2>10. ASSUME NEW s \in Seq(Byte)
         PROVE  Leads(p, s, esc, LastTo(p, esc, m), SegEnd(p, esc, m), raw.suffix_underscore_cnt, FALSE)
    <3>1. m \in 1..Len(Segments(p, esc))
      BY <1>1 DEF N
    <3> QED
      BY <2>1, <3>1, RawLeadsOn DEF cnt, raw
  <2>11. (q[K + 1] < m) = FALSE
    BY <2>3, <2>4
  <2>12. FoldedLiterals(p, esc, G, m)
    BY <2>2, <2>4, <2>9, <2>10, <2>11 DEF FoldedLiterals
  <2> QED
    BY <2>12 DEF G, m, raw
<1> QED
  BY <1>10, <1>11

\* So folding the first n segments gives one of the two.
LEMMA FoldsToEither ==
  ASSUME NEW p, NEW esc, SimplePattern(p, esc), NEW fold,
         \A n \in 0..Len(Segments(p, esc)) : fold[n] \in Seq(Segment),
         fold[0] = << >>,
         \A n \in 1..Len(Segments(p, esc)) : fold[n] = FoldSegment(fold[n - 1], RawSegment(p, esc, n))
  PROVE  \A n \in 1..Len(Segments(p, esc)) :
           FoldedLiterals(p, esc, fold[n], n) \/ FoldedWildcards(p, esc, fold[n], n)
<1> DEFINE N == Len(Segments(p, esc))
           Either(F, n) == FoldedLiterals(p, esc, F, n) \/ FoldedWildcards(p, esc, F, n)
           T == {n \in 0..N : n = 0 \/ Either(fold[n], n)}
<1>1. N \in Nat
  BY SegmentsShape DEF SimplePattern
<1>2. \A F, n : Either(F, n) /\ F \in Seq(Segment) => F # << >>
  <2> SUFFICES ASSUME NEW F, NEW n, Either(F, n) PROVE F # << >>
    OBVIOUS
  <2>1. ASSUME FoldedLiterals(p, esc, F, n) PROVE Len(F) \in Nat \ {0}
    BY <2>1 DEF FoldedLiterals, Lined
  <2>2. ASSUME FoldedWildcards(p, esc, F, n) PROVE Len(F) = 1
    BY <2>2 DEF FoldedWildcards
  <2>3. Len(F) # 0
    BY <2>1, <2>2
  <2> HIDE DEF Either
  <2> QED
    BY <2>3
<1>3. 0 \in T
  BY <1>1
<1>4. ASSUME NEW n \in 0..(N - 1), n \in T PROVE n + 1 \in T
  <2>1. n + 1 \in 1..N /\ n + 1 \in 0..N /\ (n + 1) - 1 = n /\ n \in 0..N
    BY <1>1
  <2>2. fold[n + 1] = FoldSegment(fold[n], RawSegment(p, esc, n + 1))
    BY <2>1
  <2>3. CASE n = 0
    <3>1. fold[1] = << RawSegment(p, esc, 1) >>
      <4>1. 0 + 1 = 1 /\ fold[0] = << >>
        OBVIOUS
      <4>2. fold[1] = FoldSegment(<< >>, RawSegment(p, esc, 1))
        BY <2>2, <2>3, <4>1
      <4> QED
        BY <4>2 DEF FoldSegment
    <3>2. Len(Segments(p, esc)) > 0
      BY <1>1, <2>1
    <3>3. Either(fold[1], 1)
      BY <3>1, <3>2, FoldsFirst
    <3> HIDE DEF Either
    <3> QED
      BY <2>1, <2>3, <3>3
  <2>4. CASE n # 0
    <3>1. n \in 1..(Len(Segments(p, esc)) - 1) /\ Either(fold[n], n) /\ fold[n] \in Seq(Segment)
      BY <1>1, <1>4, <2>1, <2>4
    <3>2. fold[n] # << >>
      BY <1>2, <3>1
    <3>3. Either(fold[n + 1], n + 1)
      <4> DEFINE F == fold[n]
                 G == fold[n + 1]
      <4>1. F \in Seq(Segment) /\ F # << >> /\ Either(F, n) /\ G = FoldSegment(F, RawSegment(p, esc, n + 1))
        BY <2>2, <3>1, <3>2
      <4> HIDE DEF F, G
      <4>2. Either(G, n + 1)
        BY <3>1, <4>1, FoldsOnLiterals, FoldsOnWildcards
      <4> QED
        BY <4>2 DEF G
    <3> HIDE DEF Either
    <3> QED
      BY <2>1, <3>3
  <2> QED
    BY <2>3, <2>4
<1>5. \A n \in 0..N : n \in T
  <2>1. 0 \in Nat
    OBVIOUS
  <2> HIDE DEF T, N
  <2> QED
    BY <1>1, <1>3, <1>4, <2>1, InductionUpTo
<1> HIDE DEF Either
<1>6. \A n \in 1..N : n \in 0..N /\ n # 0
  BY <1>1
<1> QED
  BY <1>5, <1>6 DEF Either

-----------------------------------------------------------------------------
(* What the skeleton means, and what a segment answers for a literal. *)

\* The segments of the skeleton are those of the pattern with a literal, and the
\* wildcards between their literals, before and after them are those they count.
MeansPattern(p, esc, skel, r) ==
  /\ Lined(p, esc, skel, r, Len(Segments(p, esc)))
  /\ \A s \in Seq(Byte) :
       Leads(p, s, esc, LastTo(p, esc, r[Len(skel)]), Len(p),
             skel[Len(skel)].suffix_underscore_cnt, skel[Len(skel)].has_suffix_percent)

\* What is lined up stays so when only the largest counts change.
LEMMA LinedAlike ==
  ASSUME NEW p, NEW esc, NEW F, NEW G, NEW r, NEW n, Lined(p, esc, F, r, n),
         Len(G) = Len(F), \A k \in 1..Len(F) : SameButMost(G[k], F[k])
  PROVE  Lined(p, esc, G, r, n)
<1> DEFINE K == Len(F)
<1>1. /\ K \in Nat \ {0}
      /\ r \in [1..K -> 1..n] /\ \A j, k \in 1..K : j < k => r[j] < r[k]
      /\ \A k \in 1..K :
           /\ LitCount(p, esc, r[k]) > 0
           /\ F[k].literal_offset = RawSegment(p, esc, r[k]).literal_offset
           /\ F[k].has_suffix_percent = RawSegment(p, esc, r[k]).has_suffix_percent
      /\ \A s \in Seq(Byte) :
           /\ Leads(p, s, esc, 0, LitFrom(p, esc, r[1], 1),
                    F[1].prefix_underscore_cnt, F[1].has_prefix_percent)
           /\ \A k \in 1..(K - 1) :
                Leads(p, s, esc, LastTo(p, esc, r[k]), LitFrom(p, esc, r[k + 1], 1),
                      F[k].suffix_underscore_cnt + F[k + 1].prefix_underscore_cnt, TRUE)
  BY DEF Lined
<1>2. /\ Len(G) = K
      /\ \A k \in 1..K : /\ G[k].literal_offset = F[k].literal_offset
                         /\ G[k].prefix_underscore_cnt = F[k].prefix_underscore_cnt
                         /\ G[k].suffix_underscore_cnt = F[k].suffix_underscore_cnt
                         /\ G[k].has_prefix_percent = F[k].has_prefix_percent
                         /\ G[k].has_suffix_percent = F[k].has_suffix_percent
  BY DEF SameButMost
<1> HIDE DEF K
<1>3. 1 \in 1..K /\ \A k \in 1..(K - 1) : k \in 1..K /\ k + 1 \in 1..K
  BY <1>1
<1>4. \A k \in 1..Len(G) :
        /\ LitCount(p, esc, r[k]) > 0
        /\ G[k].literal_offset = RawSegment(p, esc, r[k]).literal_offset
        /\ G[k].has_suffix_percent = RawSegment(p, esc, r[k]).has_suffix_percent
  BY <1>1, <1>2
<1>5. ASSUME NEW s \in Seq(Byte)
      PROVE  /\ Leads(p, s, esc, 0, LitFrom(p, esc, r[1], 1),
                      G[1].prefix_underscore_cnt, G[1].has_prefix_percent)
             /\ \A k \in 1..(Len(G) - 1) :
                  Leads(p, s, esc, LastTo(p, esc, r[k]), LitFrom(p, esc, r[k + 1], 1),
                        G[k].suffix_underscore_cnt + G[k + 1].prefix_underscore_cnt, TRUE)
  BY <1>1, <1>2, <1>3
<1> QED
  BY <1>1, <1>2, <1>4, <1>5 DEF Lined

\* The skeleton of a pattern that waits for literals means the pattern.
LEMMA SkeletonMeans ==
  ASSUME NEW p, NEW esc, SimplePattern(p, esc), ~OnlyWildcard(p, esc)
  PROVE  \E r : MeansPattern(p, esc, SkeletonOf(p, esc), r)
<1> DEFINE N == Len(Segments(p, esc))
           segs == [idx \in 1..N |-> RawSegment(p, esc, idx)]
           skel == SkeletonOf(p, esc)
<1>1. /\ p \in Seq(Byte) /\ N \in Nat
      /\ SegEnd(p, esc, N) \in 0..Len(p) /\ SegStart(p, esc, N + 1) = Len(p) /\ Len(p) \in Nat
  <2>1. p \in Seq(Byte) /\ OnlyWildcardsEscaped(p, esc)
    BY DEF SimplePattern
  <2>2. /\ N \in Nat /\ SegStart(p, esc, N + 1) = Len(p)
        /\ \A n \in 0..N : SegEnd(p, esc, n) \in 0..Len(p)
    BY <2>1, SegmentsShape
  <2>3. N \in 0..N
    BY <2>2
  <2> QED
    BY <2>1, <2>2, <2>3
<1>2. segs \in [1..N -> Segment]
  BY <1>1, RawSegmentIs
<1>3. \E k \in 1..N : LitCount(p, esc, k) > 0
  <2>1. PatternLiterals(p, esc) # {}
    BY DEF OnlyWildcard
  <2>2. p \in Seq(Byte) /\ OnlyWildcardsEscaped(p, esc)
    BY DEF SimplePattern
  <2>3. PICK k \in 1..N : \E n \in 1..LitCount(p, esc, k) : TRUE
    BY <2>1, <2>2, LiteralsOfPattern
  <2>4. LitCount(p, esc, k) \in Nat
    BY RawIs
  <2> QED
    BY <2>3, <2>4
<1>4. skel = FoldLiteralFreeSegments(segs)
  BY DEF SkeletonOf
<1>5. PICK fold :
        /\ \A n \in 0..N : fold[n] \in Seq(Segment)
        /\ fold[0] = << >> /\ \A n \in 1..N : fold[n] = FoldSegment(fold[n - 1], segs[n])
        /\ Len(skel) = Len(fold[N])
        /\ \A n \in 1..Len(skel) : SameButMost(skel[n], fold[N][n])
  <2> HIDE DEF segs, skel, N
  <2> QED
    BY <1>1, <1>2, <1>4, FoldIs
<1>6. \A n \in 1..N : fold[n] = FoldSegment(fold[n - 1], RawSegment(p, esc, n))
  BY <1>5
<1> DEFINE F == fold[N]
           K == Len(F)
<1>7. FoldedLiterals(p, esc, F, N) \/ FoldedWildcards(p, esc, F, N)
  <2>1. N \in 1..N
    BY <1>1, <1>3
  <2>2. /\ \A n \in 0..Len(Segments(p, esc)) : fold[n] \in Seq(Segment)
        /\ fold[0] = << >>
        /\ \A n \in 1..Len(Segments(p, esc)) : fold[n] = FoldSegment(fold[n - 1], RawSegment(p, esc, n))
    BY <1>5, <1>6
  <2>3. \A n \in 1..Len(Segments(p, esc)) :
          FoldedLiterals(p, esc, fold[n], n) \/ FoldedWildcards(p, esc, fold[n], n)
    BY <2>2, FoldsToEither
  <2> QED
    BY <2>1, <2>3
<1>8. ~FoldedWildcards(p, esc, F, N)
  <2>1. FoldedWildcards(p, esc, F, N) => \A j \in 1..N : LitCount(p, esc, j) = 0
    BY DEF FoldedWildcards
  <2> HIDE DEF F, N
  <2> QED
    BY <1>3, <2>1
<1>9. PICK r : /\ Lined(p, esc, F, r, N)
               /\ \A s \in Seq(Byte) :
                    Leads(p, s, esc, LastTo(p, esc, r[K]), SegEnd(p, esc, N), F[K].suffix_underscore_cnt, r[K] < N)
  BY <1>7, <1>8 DEF FoldedLiterals
<1>10. Lined(p, esc, skel, r, N)
  <2> HIDE DEF F, skel, N
  <2>1. Len(skel) = Len(F) /\ \A k \in 1..Len(F) : SameButMost(skel[k], F[k])
    BY <1>5 DEF F
  <2> QED
    BY <1>9, <2>1, LinedAlike
<1> DEFINE c == F[K].suffix_underscore_cnt
           a == LastTo(p, esc, r[K])
           any == r[K] < N
           has == skel[K].has_suffix_percent
<1>11. /\ Len(skel) = K /\ skel[K].suffix_underscore_cnt = c /\ r[K] \in 1..N /\ c \in Nat
       /\ has = RawSegment(p, esc, r[K]).has_suffix_percent
  <2>1. K \in Nat \ {0} /\ r \in [1..K -> 1..N] /\ K \in 1..K
    <3>1. K \in Nat \ {0} /\ r \in [1..K -> 1..N]
      BY <1>9 DEF Lined
    <3> HIDE DEF K
    <3> QED
      BY <3>1
  <2>2. F \in Seq(Segment)
    <3>1. N \in 0..N
      BY <1>1
    <3> QED
      BY <1>5, <3>1
  <2>3. Len(skel) = K /\ SameButMost(skel[K], F[K])
    BY <1>5, <2>1
  <2>4. F[K] \in Segment
    <3> HIDE DEF F
    <3> QED
      BY <2>1, <2>2
  <2>5. skel[K].has_suffix_percent = RawSegment(p, esc, r[K]).has_suffix_percent
    <3> HIDE DEF skel, K
    <3> QED
      BY <1>10, <2>1, <2>3 DEF Lined
  <2>6. F[K].suffix_underscore_cnt \in Nat
    BY <2>4 DEF Segment
  <2> HIDE DEF F, K, skel, N
  <2> QED
    BY <2>1, <2>3, <2>5, <2>6 DEF SameButMost
<1>12. has \in BOOLEAN /\ (has <=> (r[K] < N \/ SegEnd(p, esc, N) # Len(p)))
  <2>1. /\ RawSegment(p, esc, r[K]) \in Segment
        /\ RawSegment(p, esc, r[K]).has_suffix_percent <=>
             (r[K] < N \/ SegEnd(p, esc, N) # Len(p))
    <3> DEFINE k == r[K]
    <3>1. k \in 1..Len(Segments(p, esc))
      BY <1>11
    <3> HIDE DEF k
    <3>2. /\ RawSegment(p, esc, k) \in Segment
          /\ RawSegment(p, esc, k).has_suffix_percent <=>
               (k < N \/ SegEnd(p, esc, N) # Len(p))
      BY <3>1, RawIs
    <3> QED
      BY <3>2 DEF k
  <2>2. RawSegment(p, esc, r[K]).has_suffix_percent \in BOOLEAN
    BY <2>1 DEF Segment
  <2> HIDE DEF has
  <2> QED
    BY <1>11, <2>1, <2>2
<1>13. ASSUME NEW s \in Seq(Byte) PROVE Leads(p, s, esc, a, Len(p), c, has)
  <2>1. Leads(p, s, esc, a, SegEnd(p, esc, N), c, any) /\ any \in BOOLEAN
    BY <1>9
  <2> HIDE DEF a, c, any, has
  <2>2. N \in 0..Len(Segments(p, esc))
    BY <1>1
  <2> HIDE DEF N
  <2>3. /\ SegEnd(p, esc, N) < SegStart(p, esc, N + 1) => Leads(p, s, esc, a, SegStart(p, esc, N + 1), c, TRUE)
        /\ Leads(p, s, esc, a, SegStart(p, esc, N + 1), c, any)
    BY <1>11, <2>1, <2>2, BetweenSegments
  <2>4. CASE SegEnd(p, esc, N) < Len(p)
    <3>1. Leads(p, s, esc, a, Len(p), c, TRUE)
      BY <1>1, <2>3, <2>4
    <3>2. has = TRUE
      BY <1>1, <1>12, <2>4
    <3> QED
      BY <3>1, <3>2
  <2>5. CASE ~(SegEnd(p, esc, N) < Len(p))
    <3>1. SegEnd(p, esc, N) = Len(p)
      BY <1>1, <2>5
    <3>2. has = any
      BY <1>12, <2>1, <3>1 DEF any
    <3> QED
      BY <1>1, <2>3, <3>2
  <2> QED
    BY <2>4, <2>5
<1>14. MeansPattern(p, esc, skel, r)
  <2> HIDE DEF skel, K, F
  <2> QED
    BY <1>10, <1>11, <1>13 DEF MeansPattern
<1> QED
  BY <1>14 DEF skel

\* What is known of every single literal.
LEMMA LiteralIs ==
  ASSUME NEW p, NEW esc, SimplePattern(p, esc), LiteralsFound(p, esc),
         NEW k \in 1..Len(Segments(p, esc)), NEW n \in 1..LitCount(p, esc, k)
  PROVE  /\ LitCount(p, esc, k) \in Nat
         /\ LitOffset(p, esc, k, n) \in Segments(p, esc)[k].start..(End(Segments(p, esc)[k]) - 1)
         /\ Segments(p, esc)[k].start \in Nat /\ End(Segments(p, esc)[k]) \in Nat
         /\ LitOffset(p, esc, k, n) \in 0..(Len(p) - 1) /\ LitOffset(p, esc, k, n) \in Nat
         /\ ValidText(LitKeyword(p, esc, k, n)) /\ LitKeyword(p, esc, k, n) \in Seq(Byte)
         /\ Len(LitKeyword(p, esc, k, n)) \in Nat \ {0}
         /\ LitFrom(p, esc, k, n) \in Nat /\ LitTo(p, esc, k, n) \in 0..Len(p)
         /\ n < LitCount(p, esc, k) =>
              LitOffset(p, esc, k, n + 1) =
                LitOffset(p, esc, k, n) + Len(LitKeyword(p, esc, k, n))
                  + (LitFrom(p, esc, k, n + 1) - LitTo(p, esc, k, n))
<1> DEFINE seg == Segments(p, esc)[k]
           lits == Literals(p, esc, seg)
           kw == LitKeyword(p, esc, k, n)
           off == LitOffset(p, esc, k, n)
<1>1. p \in Seq(Byte) /\ OnlyWildcardsEscaped(p, esc) /\ Len(p) \in Nat
  BY DEF SimplePattern
<1>2. seg.start \in 0..Len(p) /\ End(seg) \in (seg.start + 1)..Len(p)
  BY <1>1, SegmentsShape
<1>3. /\ LitCount(p, esc, k) = Len(lits) /\ Len(lits) \in Nat /\ n \in 1..Len(lits)
      /\ LitFrom(p, esc, k, n) = lits[n].start /\ LitTo(p, esc, k, n) = End(lits[n])
      /\ LitFrom(p, esc, k, n + 1) = lits[n + 1].start
      /\ lits[n].start \in seg.start..End(seg) /\ End(lits[n]) \in (lits[n].start + 1)..End(seg)
  <2>1. /\ Len(lits) \in Nat
        /\ \A i \in 1..Len(lits) : /\ lits[i].start \in seg.start..End(seg)
                                   /\ End(lits[i]) \in (lits[i].start + 1)..End(seg)
    BY <1>1, LiteralsShape
  <2>2. LitCount(p, esc, k) = Len(lits) /\ n \in 1..Len(lits)
    BY DEF LitCount
  <2>3. lits[n].start \in seg.start..End(seg) /\ End(lits[n]) \in (lits[n].start + 1)..End(seg)
    BY <2>1, <2>2
  <2> QED
    BY <2>1, <2>2, <2>3 DEF LitFrom, LitTo
<1>4. /\ off \in seg.start..lits[n].start /\ kw \in Seq(Byte)
      /\ n < Len(lits) =>
           LitOffset(p, esc, k, n + 1) = off + Len(kw) + (lits[n + 1].start - End(lits[n]))
  <2>1. n \in 1..Len(Literals(p, esc, Segments(p, esc)[k]))
    BY <1>3
  <2> QED
    BY <1>1, <2>1, OffsetsAre
<1>5. kw # << >> /\ ValidText(kw)
  <2>1. [keyword |-> kw, start_pos |-> off] \in PatternLiterals(p, esc)
    BY <1>1, LiteralsOfPattern
  <2> QED
    BY <2>1 DEF LiteralsFound
<1>6. Len(kw) \in Nat \ {0}
  <2> HIDE DEF kw
  <2> QED
    BY <1>4, <1>5, EmptySeq
<1> HIDE DEF seg, lits, kw, off
<1>7. /\ off \in seg.start..(End(seg) - 1) /\ off \in 0..(Len(p) - 1) /\ off \in Nat
      /\ seg.start \in Nat /\ End(seg) \in Nat /\ lits[n].start \in Nat /\ End(lits[n]) \in 0..Len(p)
  <2> DEFINE x == lits[n].start
             y == End(lits[n])
             lo == seg.start
             hi == End(seg)
  <2>1. /\ Len(p) \in Nat /\ lo \in 0..Len(p) /\ hi \in (lo + 1)..Len(p)
        /\ x \in lo..hi /\ y \in (x + 1)..hi /\ off \in lo..x
    BY <1>1, <1>2, <1>3, <1>4
  <2> HIDE DEF x, y, lo, hi
  <2>2. off \in lo..(hi - 1) /\ off \in 0..(Len(p) - 1) /\ off \in Nat /\ lo \in Nat /\ hi \in Nat /\ x \in Nat /\ y \in 0..Len(p)
    BY <2>1
  <2> QED
    BY <2>2 DEF x, y, lo, hi
<1> QED
  BY <1>3, <1>4, <1>5, <1>6, <1>7 DEF seg, kw, off

\* Within a segment the offsets increase.
LEMMA OffsetsIncrease ==
  ASSUME NEW p, NEW esc, SimplePattern(p, esc), LiteralsFound(p, esc),
         NEW k \in 1..Len(Segments(p, esc)),
         NEW m \in 1..LitCount(p, esc, k), NEW n \in 1..LitCount(p, esc, k), m < n
  PROVE  LitOffset(p, esc, k, m) < LitOffset(p, esc, k, n)
<1> DEFINE cnt == LitCount(p, esc, k)
           o(i) == LitOffset(p, esc, k, i)
           T == {i \in (m + 1)..cnt : o(m) < o(i)}
<1>1. cnt \in Nat /\ \A i \in 1..cnt : o(i) \in Int
  <2>1. \A i \in 1..cnt : cnt \in Nat /\ o(i) \in Nat
    BY LiteralIs
  <2>2. m \in 1..cnt
    OBVIOUS
  <2> HIDE DEF o, cnt
  <2> QED
    BY <2>1, <2>2
<1>2. ASSUME NEW i \in 1..(cnt - 1) PROVE o(i) < o(i + 1)
  <2> DEFINE len == Len(LitKeyword(p, esc, k, i))
             gap == LitFrom(p, esc, k, i + 1) - LitTo(p, esc, k, i)
  <2>1. i \in 1..cnt /\ i < cnt
    BY <1>1
  <2>2. len \in Nat \ {0} /\ o(i + 1) = o(i) + len + gap
    BY <2>1, LiteralIs
  <2>3. gap \in Nat
    <3>1. <<>> \in Seq(Byte)
      OBVIOUS
    <3> QED
      BY <3>1, RawLeadsOn
  <2>4. o(i) \in Int
    BY <1>1, <2>1
  <2> HIDE DEF len, gap, o
  <2> QED
    BY <2>2, <2>3, <2>4
<1>3. m \in 1..(cnt - 1) /\ m + 1 \in (m + 1)..cnt /\ m \in Nat /\ n \in (m + 1)..cnt
  BY <1>1
<1>4. m + 1 \in T
  BY <1>2, <1>3
<1>5. ASSUME NEW i \in (m + 1)..(cnt - 1), i \in T PROVE i + 1 \in T
  <2>1. i \in 1..(cnt - 1) /\ i + 1 \in (m + 1)..cnt /\ i \in 1..cnt /\ i + 1 \in 1..cnt
    BY <1>1, <1>3
  <2>2. o(m) \in Int /\ o(i) \in Int /\ o(i + 1) \in Int /\ o(i) < o(i + 1) /\ o(m) < o(i)
    BY <1>1, <1>2, <1>5, <2>1
  <2>3. o(m) < o(i + 1)
    <3> HIDE DEF o
    <3> QED
      BY <2>2
  <2> QED
    BY <2>1, <2>3
<1>6. m + 1 \in Nat
  BY <1>3
<1> HIDE DEF T
<1>7. \A i \in (m + 1)..cnt : i \in T
  BY <1>1, <1>4, <1>5, <1>6, InductionUpTo
<1> QED
  BY <1>3, <1>7 DEF T

\* An offset tells the literal.
LEMMA OffsetsDiffer ==
  ASSUME NEW p, NEW esc, SimplePattern(p, esc), LiteralsFound(p, esc),
         NEW j \in 1..Len(Segments(p, esc)), NEW m \in 1..LitCount(p, esc, j),
         NEW k \in 1..Len(Segments(p, esc)), NEW n \in 1..LitCount(p, esc, k),
         LitOffset(p, esc, j, m) = LitOffset(p, esc, k, n)
  PROVE  j = k /\ m = n
<1> DEFINE segs == Segments(p, esc)
<1>1. p \in Seq(Byte) /\ OnlyWildcardsEscaped(p, esc)
  BY DEF SimplePattern
<1>2. Len(segs) \in Nat /\ \A i, l \in 1..Len(segs) : i < l => End(segs[i]) < segs[l].start
  BY <1>1, SegmentsShape
<1>3. \A i \in 1..Len(segs) : \A l \in 1..LitCount(p, esc, i) :
        /\ LitOffset(p, esc, i, l) \in segs[i].start..(End(segs[i]) - 1)
        /\ segs[i].start \in Nat /\ End(segs[i]) \in Nat
        /\ LitCount(p, esc, i) \in Nat /\ LitOffset(p, esc, i, l) \in Int
  <2>1. ASSUME NEW i \in 1..Len(segs), NEW l \in 1..LitCount(p, esc, i)
        PROVE  /\ LitOffset(p, esc, i, l) \in segs[i].start..(End(segs[i]) - 1)
               /\ segs[i].start \in Nat /\ End(segs[i]) \in Nat
               /\ LitCount(p, esc, i) \in Nat /\ LitOffset(p, esc, i, l) \in Nat
    BY LiteralIs
  <2> HIDE DEF segs
  <2> QED
    BY <2>1
<1>4. j = k
  <2> DEFINE x == LitOffset(p, esc, j, m)
             y == LitOffset(p, esc, k, n)
  <2>1. /\ x \in segs[j].start..(End(segs[j]) - 1) /\ segs[j].start \in Nat /\ End(segs[j]) \in Nat
        /\ y \in segs[k].start..(End(segs[k]) - 1) /\ segs[k].start \in Nat /\ End(segs[k]) \in Nat
        /\ x = y
    BY <1>3
  <2> HIDE DEF x, y, segs
  <2>2. ~(j < k)
    BY <1>2, <2>1 DEF segs
  <2>3. ~(k < j)
    BY <1>2, <2>1 DEF segs
  <2>4. j \in Int /\ k \in Int
    BY <1>2 DEF segs
  <2> QED
    BY <2>2, <2>3, <2>4
<1>5. n \in 1..LitCount(p, esc, j) /\ m \in Int /\ n \in Int
  BY <1>3, <1>4
<1>6. LitOffset(p, esc, j, m) \in Int /\ LitOffset(p, esc, j, n) = LitOffset(p, esc, j, m)
  BY <1>3, <1>4
<1>7. ~(m < n) /\ ~(n < m)
  BY <1>5, <1>6, OffsetsIncrease
<1> QED
  BY <1>4, <1>5, <1>7

\* A literal that is reached and stands in the text is passed.
LEMMA LiteralPasses ==
  ASSUME NEW p, NEW esc, SimplePattern(p, esc), LiteralsFound(p, esc),
         NEW k \in 1..Len(Segments(p, esc)), NEW n \in 1..LitCount(p, esc, k),
         NEW s, ValidText(s), NEW t \in Nat, StandsAt(s, t, LitKeyword(p, esc, k, n)),
         Reaches(p, s, esc, LitFrom(p, esc, k, n), t)
  PROVE  Reaches(p, s, esc, LitTo(p, esc, k, n), t + Len(LitKeyword(p, esc, k, n)))
<1> DEFINE seg == Segments(p, esc)[k]
           lits == Literals(p, esc, seg)
           kw == LitKeyword(p, esc, k, n)
           a == lits[n].start
           len == lits[n].len
<1>1. p \in Seq(Byte) /\ OnlyWildcardsEscaped(p, esc) /\ Len(p) \in Nat
  BY DEF SimplePattern
<1>2. n \in 1..Len(lits) /\ LitFrom(p, esc, k, n) = a /\ LitTo(p, esc, k, n) = End(lits[n])
  BY DEF LitCount, LitFrom, LitTo
<1>3. /\ a \in seg.start..End(seg) /\ End(lits[n]) \in (a + 1)..End(seg)
      /\ len \in Nat /\ End(lits[n]) = a + len
      /\ IsBare(p, esc, a, len) /\ ~IsEscaped(p, esc, a) /\ ~IsEscaped(p, esc, End(lits[n]))
  <2>1. \A i \in 1..Len(lits) :
          /\ lits[i].start \in seg.start..End(seg)
          /\ End(lits[i]) \in (lits[i].start + 1)..End(seg)
          /\ lits[i].len \in Nat /\ End(lits[i]) = lits[i].start + lits[i].len
          /\ IsBare(p, esc, lits[i].start, lits[i].len)
          /\ ~IsEscaped(p, esc, lits[i].start) /\ ~IsEscaped(p, esc, End(lits[i]))
    BY <1>1, LiteralsShape
  <2> QED
    BY <1>2, <2>1
<1>4. ValidText(kw) /\ Len(kw) \in Nat \ {0} /\ LitTo(p, esc, k, n) \in 0..Len(p) /\ LitFrom(p, esc, k, n) \in Nat
  BY LiteralIs
<1>5. PICK c : StripsTo(p, esc, a, len, kw, c)
  <2>1. n \in 1..Len(Literals(p, esc, Segments(p, esc)[k]))
    BY <1>2
  <2> QED
    BY <1>1, <2>1, OffsetsAre
<1>6. Reaches(p, s, esc, a, t) /\ StandsAt(s, t, kw)
  BY <1>2
<1> HIDE DEF seg, lits, kw, a, len
<1>7. a \in Nat /\ a + len <= Len(p) /\ ~IsEscaped(p, esc, a + len) /\ Len(kw) > 0
  BY <1>1, <1>2, <1>3, <1>4
<1>8. Reaches(p, s, esc, a + len, t + Len(kw))
  BY <1>1, <1>3, <1>4, <1>5, <1>6, <1>7, LiteralTakes
<1> QED
  BY <1>2, <1>3, <1>8 DEF kw

\* An offset that a u16 holds is kept.
LEMMA ToU16Is ==
  ASSUME NEW n \in 0..(U16Size - 1)
  PROVE  ToU16(n) = n
BY U16SizeAssumption DEF ToU16

\* If no two offsets of a segment are equal, the index of one is where it is.
LEMMA IndexIs ==
  ASSUME NEW seg \in Segment, NEW pos \in 0..(U16Size - 1), HasOffset(seg, pos),
         \A m, n \in 1..Len(seg.literal_offset) : seg.literal_offset[m] = seg.literal_offset[n] => m = n
  PROVE  /\ IndexOf(seg, pos) \in 1..Len(seg.literal_offset)
         /\ seg.literal_offset[IndexOf(seg, pos)] = pos
<1> DEFINE o == seg.literal_offset
<1>1. Len(o) \in Nat /\ ToU16(pos) = pos
  BY ToU16Is DEF Segment
<1>2. PICK n \in 1..Len(o) : o[n] = pos
  BY <1>1 DEF HasOffset, OffsetsOf
<1>3. \A earlier \in 1..(n - 1) : o[earlier] # pos
  <2> SUFFICES ASSUME NEW earlier \in 1..(n - 1), o[earlier] = pos PROVE FALSE
    OBVIOUS
  <2>1. earlier \in 1..Len(o) /\ earlier # n
    BY <1>1
  <2> QED
    BY <1>2, <2>1
<1>4. IndexOf(seg, pos) = CHOOSE k \in 1..Len(o) : o[k] = pos /\ \A earlier \in 1..(k - 1) : o[earlier] # pos
  BY <1>1 DEF IndexOf
<1> HIDE DEF o
<1>5. IndexOf(seg, pos) \in 1..Len(o) /\ o[IndexOf(seg, pos)] = pos
  BY <1>2, <1>3, <1>4
<1> QED
  BY <1>5 DEF o

\* The literal of a pattern that a segment of its skeleton has the offset of.
IsLiteralAt(p, esc, seg, k, n, lit) ==
  /\ k \in 1..Len(Segments(p, esc)) /\ n \in 1..LitCount(p, esc, k)
  /\ IndexOf(seg, lit.start_pos) = n
  /\ Len(seg.literal_offset) = LitCount(p, esc, k)
  /\ \A i \in 1..LitCount(p, esc, k) : seg.literal_offset[i] = LitOffset(p, esc, k, i)
  /\ lit.start_pos = LitOffset(p, esc, k, n) /\ lit.keyword = LitKeyword(p, esc, k, n)

\* A literal whose offset the segment knows is the one it keeps there.
LEMMA WhichLiteral ==
  ASSUME NEW p, NEW esc, SimplePattern(p, esc), LiteralsFound(p, esc),
         NEW skel \in Seq(Segment), NEW r, MeansPattern(p, esc, skel, r), NEW j \in 1..Len(skel),
         NEW l \in PatternLiterals(p, esc),
         NEW lit, lit.keyword = l.keyword, lit.start_pos = l.start_pos,
         HasOffset(skel[j], lit.start_pos)
  PROVE  IsLiteralAt(p, esc, skel[j], r[j], IndexOf(skel[j], lit.start_pos), lit)
<1> DEFINE N == Len(Segments(p, esc))
           seg == skel[j]
           k == r[j]
           cnt == LitCount(p, esc, k)
           pos == lit.start_pos
           x == IndexOf(seg, pos)
<1>1. /\ p \in Seq(Byte) /\ OnlyWildcardsEscaped(p, esc) /\ Len(p) \in Nat
      /\ U16Size \in Nat \ {0} /\ seg \in Segment
  <2>1. seg \in Segment
    OBVIOUS
  <2> QED
    BY <2>1, U16SizeAssumption DEF SimplePattern
<1>2. k \in 1..N /\ seg.literal_offset = RawSegment(p, esc, k).literal_offset
  BY DEF MeansPattern, Lined
<1> HIDE DEF seg, k
<1>3. /\ cnt \in Nat /\ Len(seg.literal_offset) = cnt
      /\ \A i \in 1..cnt : seg.literal_offset[i] = LitOffset(p, esc, k, i)
  BY <1>2, RawIs
<1>4. \A m, n \in 1..cnt : LitOffset(p, esc, k, m) = LitOffset(p, esc, k, n) => m = n
  BY <1>2, OffsetsDiffer
<1>5. PICK h \in 1..N : \E n \in 1..LitCount(p, esc, h) :
        l = [keyword |-> LitKeyword(p, esc, h, n), start_pos |-> LitOffset(p, esc, h, n)]
  BY <1>1, LiteralsOfPattern
<1>6. PICK n \in 1..LitCount(p, esc, h) :
        l = [keyword |-> LitKeyword(p, esc, h, n), start_pos |-> LitOffset(p, esc, h, n)]
  BY <1>5
<1>7. pos = LitOffset(p, esc, h, n) /\ lit.keyword = LitKeyword(p, esc, h, n)
  BY <1>6
<1>8. pos \in 0..(U16Size - 1)
  <2>1. LitOffset(p, esc, h, n) \in Nat /\ LitOffset(p, esc, h, n) < U16Size
    BY LiteralIs, OffsetFits
  <2> HIDE DEF pos
  <2> QED
    BY <1>1, <1>7, <2>1
<1>9. x \in 1..cnt /\ seg.literal_offset[x] = pos
  <2>1. HasOffset(seg, pos)
    BY DEF seg
  <2>2. \A a, b \in 1..Len(seg.literal_offset) : seg.literal_offset[a] = seg.literal_offset[b] => a = b
    BY <1>3, <1>4
  <2> HIDE DEF pos
  <2>3. x \in 1..Len(seg.literal_offset) /\ seg.literal_offset[x] = pos
    BY <1>1, <1>8, <2>1, <2>2, IndexIs
  <2> QED
    BY <1>3, <2>3
<1> HIDE DEF pos, x
<1>10. LitOffset(p, esc, k, x) = pos
  BY <1>3, <1>9
<1>11. h = k /\ n = x
  BY <1>2, <1>7, <1>9, <1>10, OffsetsDiffer
<1>12. lit.keyword = LitKeyword(p, esc, k, x)
  BY <1>7, <1>11
<1> HIDE DEF cnt, N
<1>13. IsLiteralAt(p, esc, seg, k, x, lit)
  BY <1>2, <1>3, <1>9, <1>10, <1>12 DEF IsLiteralAt, pos, x, cnt, N
<1> QED
  BY <1>13 DEF seg, k, x, pos

\* How the segment answers for a literal that is not its last one.
LEMMA AskedForNext ==
  ASSUME NEW p, NEW esc, SimplePattern(p, esc), LiteralsFound(p, esc),
         NEW seg, NEW k, NEW n, NEW m, NEW lit, IsLiteralAt(p, esc, seg, k, n, lit),
         m.start_pos = lit.start_pos, m.literal_len = Len(lit.keyword),
         ~IsLastLiteral(seg, m.start_pos)
  PROVE  LET u == LitFrom(p, esc, k, n + 1) - LitTo(p, esc, k, n)
         IN  /\ n \in 1..(LitCount(p, esc, k) - 1) /\ u \in Nat
             /\ GetNextLiteralOffset(seg, m.start_pos) = LitOffset(p, esc, k, n + 1)
             /\ GetNextLiteralOffset(seg, m.start_pos) = m.start_pos + m.literal_len + u
             /\ UnderscoreCount(m, seg) = u
             /\ \A s \in Seq(Byte) : Leads(p, s, esc, LitTo(p, esc, k, n), LitFrom(p, esc, k, n + 1), u, FALSE)
<1> DEFINE u == LitFrom(p, esc, k, n + 1) - LitTo(p, esc, k, n)
           cnt == LitCount(p, esc, k)
           next == GetNextLiteralOffset(seg, m.start_pos)
<1>1. /\ k \in 1..Len(Segments(p, esc)) /\ n \in 1..cnt
      /\ IndexOf(seg, m.start_pos) = n
      /\ Len(seg.literal_offset) = cnt
      /\ \A i \in 1..cnt : seg.literal_offset[i] = LitOffset(p, esc, k, i)
      /\ m.start_pos = LitOffset(p, esc, k, n) /\ m.literal_len = Len(LitKeyword(p, esc, k, n))
  BY DEF IsLiteralAt
<1>2. /\ cnt \in Nat
      /\ LitOffset(p, esc, k, n) \in Nat /\ Len(LitKeyword(p, esc, k, n)) \in Nat \ {0}
      /\ LitTo(p, esc, k, n) \in 0..Len(p)
      /\ n < cnt => LitOffset(p, esc, k, n + 1) = LitOffset(p, esc, k, n) + Len(LitKeyword(p, esc, k, n)) + u
  BY <1>1, LiteralIs
<1>3. n # cnt
  BY <1>1 DEF IsLastLiteral
<1>4. n \in 1..(cnt - 1) /\ n + 1 \in 1..cnt /\ n < cnt
  BY <1>1, <1>2, <1>3
<1>5. /\ u \in Nat
      /\ \A s \in Seq(Byte) : Leads(p, s, esc, LitTo(p, esc, k, n), LitFrom(p, esc, k, n + 1), u, FALSE)
  <2>1. << >> \in Seq(Byte)
    OBVIOUS
  <2>2. \A s \in Seq(Byte) :
          /\ LitFrom(p, esc, k, n + 1) - LitTo(p, esc, k, n) \in Nat
          /\ Leads(p, s, esc, LitTo(p, esc, k, n), LitFrom(p, esc, k, n + 1),
                   LitFrom(p, esc, k, n + 1) - LitTo(p, esc, k, n), FALSE)
    BY <1>1, <1>4, RawLeadsOn
  <2> QED
    BY <2>1, <2>2
<1>6. next = LitOffset(p, esc, k, n + 1)
  BY <1>1, <1>4 DEF GetNextLiteralOffset
<1>7. u < U32Size /\ U32Size \in Nat \ {0}
  <2>1. Len(p) \in Nat /\ Len(p) < U32Size
    BY DEF SimplePattern
  <2>2. LitFrom(p, esc, k, n + 1) <= Len(p) /\ LitFrom(p, esc, k, n + 1) \in Nat
    <3>1. LitFrom(p, esc, k, n + 1) \in Segments(p, esc)[k].start..End(Segments(p, esc)[k])
      <4>1. p \in Seq(Byte) /\ OnlyWildcardsEscaped(p, esc)
        BY DEF SimplePattern
      <4> QED
        BY <1>1, <1>4, <4>1, LiteralsShape DEF LitCount, LitFrom
    <3>2. Segments(p, esc)[k].start \in 0..Len(p) /\ End(Segments(p, esc)[k]) \in (Segments(p, esc)[k].start + 1)..Len(p)
      <4>1. p \in Seq(Byte) /\ OnlyWildcardsEscaped(p, esc)
        BY DEF SimplePattern
      <4> QED
        BY <1>1, <4>1, SegmentsShape
    <3> DEFINE y == LitFrom(p, esc, k, n + 1)
               lo == Segments(p, esc)[k].start
               hi == End(Segments(p, esc)[k])
    <3>3. y \in lo..hi /\ lo \in 0..Len(p) /\ hi \in (lo + 1)..Len(p)
      BY <3>1, <3>2
    <3> HIDE DEF y, lo, hi
    <3>4. y <= Len(p) /\ y \in Nat
      BY <2>1, <3>3
    <3> QED
      BY <3>4 DEF y
  <2>3. U32Size \in Nat
    BY DEF U32Size
  <2> DEFINE y == LitFrom(p, esc, k, n + 1)
             z == LitTo(p, esc, k, n)
  <2>4. y <= Len(p) /\ y \in Nat /\ z \in 0..Len(p) /\ u = y - z
    BY <1>2, <2>2
  <2> HIDE DEF y, z, u
  <2> QED
    BY <2>1, <2>3, <2>4
<1> HIDE DEF u, next
<1>8. next = m.start_pos + m.literal_len + u /\ next - m.start_pos - m.literal_len = u
  <2> DEFINE a == LitOffset(p, esc, k, n)
             b == Len(LitKeyword(p, esc, k, n))
  <2>1. a \in Nat /\ b \in Nat /\ next = a + b + u /\ m.start_pos = a /\ m.literal_len = b
    BY <1>1, <1>2, <1>4, <1>6
  <2> HIDE DEF a, b
  <2> QED
    BY <1>5, <2>1
<1>9. UnderscoreCount(m, seg) = u
  <2>1. UnderscoreCount(m, seg) = u % U32Size
    BY <1>8 DEF UnderscoreCount, next
  <2> QED
    BY <1>5, <1>7, <2>1
<1> QED
  BY <1>4, <1>5, <1>6, <1>8, <1>9 DEF u, next, cnt

Entries(c) == {c.items[x] : x \in 1..Len(c.items)}

\* A cache has no entries but those that were put into it.
LEMMA EntriesAre ==
  /\ \A n : Entries(NewCache(n)) = {}
  /\ \A c \in Caches : \A key :
       /\ Entries(GetAndRemove(c, key)) \subseteq Entries(c)
       /\ Contain(c, key) =>
            \E e \in Entries(c) : e.key = key /\ e.value = ValueOf(c, key)
  /\ \A c \in Caches : \A key, value \in Int :
       Entries(Upsert(c, key, value)) \subseteq Entries(c) \cup {[key |-> key, value |-> value]}
<1> DEFINE Entry == [key : Int, value : Int]
<1>1. ASSUME NEW n PROVE Entries(NewCache(n)) = {}
  <2>1. NewCache(n).items = << >> /\ Len(<< >>) = 0 /\ 1..0 = {}
    BY DEF NewCache
  <2> QED
    BY <2>1 DEF Entries
<1>2. ASSUME NEW c \in Caches, NEW items \in Seq(Entry)
      PROVE  [c EXCEPT !.items = items].items = items
  BY DEF Caches
<1>3. ASSUME NEW c \in Caches, NEW key, Contain(c, key)
      PROVE  PositionOf(c, key) \in 1..Len(c.items) /\ c.items[PositionOf(c, key)].key = key
  BY <1>3 DEF Contain, CachedKeys, PositionOf
<1>4. ASSUME NEW c \in Caches, NEW key
      PROVE  Without(c, key).items \in Seq(Entry) /\ Entries(Without(c, key)) \subseteq Entries(c)
  <2>1. CASE Contain(c, key)
    <3> DEFINE i == PositionOf(c, key)
               items == c.items
               rest == RemoveAt(items, i)
    <3>1. items \in Seq(Entry) /\ Len(items) \in Nat
      BY DEF Caches
    <3>2. i \in 1..Len(items)
      BY <1>3, <2>1
    <3> HIDE DEF i, items, Entry
    <3>3. rest \in Seq(Entry) /\ \A x \in 1..Len(rest) : \E y \in 1..Len(items) : rest[x] = items[y]
      <4> DEFINE a == SubSeq(items, 1, i - 1)
                 b == SubSeq(items, i + 1, Len(items))
      <4>1. a \in Seq(Entry) /\ Len(a) = i - 1 /\ \A x \in 1..(i - 1) : a[x] = items[x]
        <5>1. \A x \in 1..(i - 1) : x \in 1..Len(items) /\ 1 + x - 1 = x
          BY <3>1, <3>2
        <5> QED
          BY <3>1, <3>2, <5>1, SubSeqProperties
      <4>2. b \in Seq(Entry) /\ Len(b) = Len(items) - i
            /\ \A x \in 1..(Len(items) - i) : b[x] = items[i + x]
        <5>1. \A x \in 1..(Len(items) - i) : (i + 1) + x - 1 = i + x
          BY <3>1, <3>2
        <5> QED
          BY <3>1, <3>2, <5>1, SubSeqProperties
      <4> HIDE DEF a, b
      <4>3. /\ a \o b \in Seq(Entry) /\ Len(a \o b) = Len(a) + Len(b)
            /\ \A x \in 1..(Len(a) + Len(b)) : (a \o b)[x] = IF x <= Len(a) THEN a[x] ELSE b[x - Len(a)]
        BY <4>1, <4>2, ConcatProperties
      <4>4. rest = a \o b
        BY DEF RemoveAt, a, b
      <4> HIDE DEF rest
      <4>5. ASSUME NEW x \in 1..Len(rest) PROVE \E y \in 1..Len(items) : rest[x] = items[y]
        <5>1. CASE x <= Len(a)
          <6>1. x \in 1..(i - 1) /\ x \in 1..Len(items)
            BY <3>1, <3>2, <4>1, <4>2, <4>3, <4>4, <5>1
          <6> QED
            BY <4>1, <4>2, <4>3, <4>4, <5>1, <6>1
        <5>2. CASE ~(x <= Len(a))
          <6>1. /\ x - Len(a) \in 1..(Len(items) - i) /\ i + (x - Len(a)) \in 1..Len(items)
                /\ x \in 1..(Len(a) + Len(b))
            BY <3>1, <3>2, <4>1, <4>2, <4>3, <4>4, <5>2
          <6>2. rest[x] = items[i + (x - Len(a))]
            BY <4>2, <4>3, <4>4, <5>2, <6>1
          <6> QED
            BY <6>1, <6>2
        <5> QED
          BY <5>1, <5>2
      <4> QED
        BY <4>3, <4>4, <4>5
    <3> HIDE DEF rest
    <3>4. Without(c, key) = [c EXCEPT !.items = rest]
      BY <2>1 DEF Without, rest, i, items
    <3>5. Without(c, key).items = rest
      BY <1>2, <3>3, <3>4 DEF Entry
    <3> QED
      BY <3>3, <3>5 DEF Entries, items, Entry
  <2>2. CASE ~Contain(c, key)
    BY <2>2 DEF Without, Caches
  <2> QED
    BY <2>1, <2>2
<1>5. ASSUME NEW c \in Caches, NEW key, Contain(c, key)
      PROVE  \E e \in Entries(c) : e.key = key /\ e.value = ValueOf(c, key)
  BY <1>3, <1>5 DEF Entries, ValueOf
<1>6. ASSUME NEW c \in Caches, NEW key \in Int, NEW value \in Int
      PROVE  Entries(Upsert(c, key, value)) \subseteq Entries(c) \cup {[key |-> key, value |-> value]}
  <2> DEFINE old == Without(c, key).items
             e == [key |-> key, value |-> value]
             items == << e >> \o old
             new == IF Len(items) > c.max_size THEN Front(items) ELSE items
  <2>1. /\ old \in Seq(Entry) /\ Len(old) \in Nat
        /\ \A x \in 1..Len(old) : old[x] \in Entries(c)
    <3> DEFINE w == Without(c, key)
    <3>1. w.items \in Seq(Entry) /\ Entries(w) \subseteq Entries(c)
      BY <1>4
    <3> HIDE DEF w, Entry
    <3>2. Entries(w) = {w.items[x] : x \in 1..Len(w.items)}
      BY DEF Entries
    <3>3. Len(w.items) \in Nat /\ \A x \in 1..Len(w.items) : w.items[x] \in Entries(c)
      BY <3>1, <3>2
    <3> QED
      BY <3>1, <3>3 DEF w
  <2>2. << e >> \in Seq(Entry) /\ Len(<< e >>) = 1 /\ << e >>[1] = e
    OBVIOUS
  <2>3. Upsert(c, key, value) = [c EXCEPT !.items = new]
    BY DEF Upsert
  <2> HIDE DEF old, e
  <2>4. /\ items \in Seq(Entry) /\ Len(items) = 1 + Len(old)
        /\ \A x \in 1..(1 + Len(old)) : items[x] = IF x <= 1 THEN << e >>[x] ELSE old[x - 1]
    <3> HIDE DEF Entry
    <3> QED
      BY <2>1, <2>2, ConcatProperties
  <2>5. \A x \in 1..Len(items) : items[x] \in Entries(c) \cup {e}
    <3> SUFFICES ASSUME NEW x \in 1..Len(items) PROVE items[x] \in Entries(c) \cup {e}
      OBVIOUS
    <3> HIDE DEF items, Entry
    <3>1. x = 1 \/ (x - 1 \in 1..Len(old) /\ ~(x <= 1))
      BY <2>1, <2>4
    <3>2. x \in 1..(1 + Len(old))
      BY <2>4
    <3> QED
      BY <2>1, <2>2, <2>4, <3>1, <3>2
  <2> HIDE DEF items, Entry
  <2>6. Front(items) \in Seq(Entry) /\ \A x \in 1..Len(Front(items)) : x \in 1..Len(items) /\ Front(items)[x] = items[x]
    <3>1. Len(items) \in Nat \ {0} /\ Len(items) - 1 = Len(old)
      BY <2>1, <2>4
    <3> QED
      BY <2>4, <3>1 DEF Front
  <2>7. new \in Seq(Entry) /\ \A x \in 1..Len(new) : new[x] \in Entries(c) \cup {e}
    BY <2>4, <2>5, <2>6
  <2> HIDE DEF new
  <2>8. [c EXCEPT !.items = new].items = new
    BY <1>2, <2>7 DEF Entry
  <2>9. Upsert(c, key, value).items = new
    BY <2>3, <2>8
  <2> QED
    BY <2>7, <2>9 DEF Entries, e
<1> QED
  BY <1>1, <1>4, <1>5, <1>6 DEF GetAndRemove

-----------------------------------------------------------------------------
(* The join is sound: what the matchers, alignments and scheduled matches know. *)

\* What the build side makes of the patterns, as far as the answers depend on it.
CompiledOk(b) ==
  /\ \A p \in DOMAIN b.patterns :
       /\ LiteralsFound(b.patterns[p], b.escape)
       /\ b.skeleton[p] = SkeletonOf(b.patterns[p], b.escape)
       /\ p \in b.wildcard <=> OnlyWildcard(b.patterns[p], b.escape)
  /\ \A lit \in b.literals :
       \E l \in PatternLiterals(b.patterns[lit.pattern_id], b.escape) :
         lit.keyword = l.keyword /\ lit.start_pos = l.start_pos

\* The patterns the theorems speak of, those of them that have a matcher, and those
\* without a literal.
Plain   == {p \in PatternIds : SimplePattern(build.patterns[p], build.escape)}
Waiting == Plain \ build.wildcard

\* The literals of a pattern, by segment and place.
LiteralCount(p, k)     == LitCount(build.patterns[p], build.escape, k)
OffsetOf(p, k, n)      == LitOffset(build.patterns[p], build.escape, k, n)
SegmentCount(p)        == Len(Segments(build.patterns[p], build.escape))
StartOfLiteral(p, k, n) == LitFrom(build.patterns[p], build.escape, k, n)
EndOfLiteral(p, k, n)  == LitTo(build.patterns[p], build.escape, k, n)
Means(p, r)            == MeansPattern(build.patterns[p], build.escape, Skel(p), r)

\* If the pattern p, from its offset i on, matches the row from t on, it matches the row.
Reached(p, i, t) == Reaches(build.patterns[p], text, build.escape, i, t)

\* An alignment in the cache tells where the literal after the one it names may start.
EntrySound(p, e) ==
  \A k \in 1..SegmentCount(p) : \A n \in 1..(LiteralCount(p, k) - 1) :
    OffsetOf(p, k, n) = ToU16(e.value) => Reached(p, StartOfLiteral(p, k, n + 1), e.key + OffsetOf(p, k, n + 1))

\* The segments before the one a matcher is at have been found, and what is to follow
\* their last literal lies before the offset the matcher keeps.
BeginSound(p, i) ==
  \A r : Means(p, r) =>
    IF i.segment_idx = 1 THEN i.min_text_start_pos = 0
    ELSE /\ i.segment_idx - 1 \in 1..Len(Skel(p))
         /\ \E te \in CodePointStarts(text) :
              /\ Reached(p, LastTo(build.patterns[p], build.escape, r[i.segment_idx - 1]), te)
              /\ Utf8Advance(text, te, Skel(p)[i.segment_idx - 1].suffix_underscore_cnt) = i.min_text_start_pos

MatcherSound(p, i) ==
  (\A e \in Entries(i.match) : EntrySound(p, e)) /\ BeginSound(p, i)

\* A scheduled match is of two literals in a row, and where it becomes ready is where
\* the second of them may start.
ItemSound(item) ==
  LET p == item.pattern_id
      t == Utf8Advance(text, text_offset, item.ready_cp_idx - codepoint_idx)
  IN  \E k \in 1..SegmentCount(p) : \E n \in 1..(LiteralCount(p, k) - 1) :
        /\ item.prev_pattern_pos = OffsetOf(p, k, n)
        /\ item.next_pattern_pos = OffsetOf(p, k, n + 1)
        /\ t # NoOffset => Reached(p, StartOfLiteral(p, k, n + 1), t)

EndingHere == {lit \in build.literals : IsSuffix(lit.keyword, SubSeq(text, 1, text_offset))}

SoundInv ==
  /\ CompiledOk(build)
  /\ emit \in Seq({MatchFor(lit, text_offset) : lit \in EndingHere})
  /\ \A p \in Waiting : MatcherSound(p, instances[p]) /\ (result[p] => Expected(p))
  /\ \A item \in queue : item.pattern_id \in Waiting => ItemSound(item)

\* A new matcher knows nothing that is not so.
LEMMA NewMatcherSound ==
  ASSUME NEW p, p \in Waiting
  PROVE  MatcherSound(p, NewMatcher(build, p))
<1> DEFINE new == NewMatcher(build, p)
<1>1. /\ new.segment_idx = 1 /\ new.min_text_start_pos = 0
      /\ \E n : new.match = NewCache(n)
  BY DEF NewMatcher
<1>2. Entries(new.match) = {}
  BY <1>1, EntriesAre
<1> HIDE DEF new
<1>3. MatcherSound(p, new)
  BY <1>1, <1>2 DEF MatcherSound, BeginSound
<1> QED
  BY <1>3 DEF new

\* A literal ends the text that has been read exactly if it stands before it.
LEMMA EndsHere ==
  ASSUME NEW s \in Seq(Byte), NEW kw \in Seq(Byte), NEW e \in 0..Len(s), IsSuffix(kw, SubSeq(s, 1, e))
  PROVE  e - Len(kw) \in Nat /\ StandsAt(s, e - Len(kw), kw)
<1> DEFINE read == SubSeq(s, 1, e)
           L == Len(kw)
<1>1. Len(s) \in Nat /\ read \in Seq(Byte) /\ Len(read) = e /\ \A i \in 1..e : read[i] = s[i]
  BY Cut
<1>2. L \in Nat /\ L <= e /\ SubSeq(read, (e - L) + 1, Len(read)) = kw
  <2>1. IsSuffix(kw, read) <=> (Len(kw) <= Len(read) /\ kw = SubSeq(read, (Len(read) - Len(kw)) + 1, Len(read)))
    BY <1>1, IsSuffixIs
  <2>2. IsSuffix(kw, read) /\ Len(kw) \in Nat
    OBVIOUS
  <2> HIDE DEF read
  <2>3. Len(kw) <= e /\ kw = SubSeq(read, (e - Len(kw)) + 1, e)
    BY <1>1, <2>1, <2>2
  <2> QED
    BY <1>1, <2>2, <2>3
<1> HIDE DEF read, L
<1>3. e \in Nat /\ e - L \in 0..e
  BY <1>1, <1>2
<1>4. \A i \in 1..L : (e - L) + i \in 1..e
  BY <1>2, <1>3
<1>5. \A i \in 1..L : SubSeq(read, (e - L) + 1, Len(read))[i] = read[(e - L) + i]
  <2>1. e - L \in 0..Len(read)
    BY <1>1, <1>3
  <2>2. \A i \in 1..(Len(read) - (e - L)) : SubSeq(read, (e - L) + 1, Len(read))[i] = read[(e - L) + i]
    BY <1>1, <2>1, Cut
  <2>3. Len(read) - (e - L) = L
    BY <1>1, <1>2, <1>3
  <2> QED
    BY <2>2, <2>3
<1>6. \A i \in 1..L : s[(e - L) + i] = kw[i]
  BY <1>1, <1>2, <1>4, <1>5
<1>7. (e - L) + L <= Len(s)
  BY <1>1, <1>2, <1>3
<1> QED
  BY <1>3, <1>6, <1>7 DEF StandsAt, L

\* The rows are valid, and so is the empty one before the first.
LEMMA TextIsValid ==
  ASSUME RowInv, ReadInv
  PROVE  /\ ValidText(text) /\ text \in Seq(Byte) /\ Len(text) \in Nat
         /\ text_offset \in CodePointStarts(text) /\ text_offset \in 0..Len(text)
<1>1. text \in Seq(Byte) /\ Len(text) \in Nat
  BY TextType
<1>2. ValidText(text)
  <2>1. CASE row = 0
    <3>1. ValidText(<< >>)
      BY <1>1, NothingRead DEF ReadInv
    <3> QED
      BY <2>1, <3>1 DEF text
  <2>2. CASE row # 0
    <3>1. row \in DOMAIN texts
      BY <2>2 DEF RowInv
    <3> QED
      BY <2>2, <3>1 DEF text, ReadInv
  <2> QED
    BY <2>1, <2>2
<1> QED
  BY <1>1, <1>2 DEF RowInv, ReadInv

\* A match is of a literal that stands in the row right before the text offset.
LEMMA MatchStands ==
  ASSUME RowInv, ReadInv, MatchInv, SoundInv, emit # << >>
  PROVE  \E lit \in build.literals :
           /\ Head(emit) = MatchFor(lit, text_offset)
           /\ Head(emit).pattern_id = lit.pattern_id /\ Head(emit).start_pos = lit.start_pos
           /\ Head(emit).literal_len = Len(lit.keyword)
           /\ Head(emit).text_start_pos = text_offset - Len(lit.keyword)
           /\ ValidText(lit.keyword) /\ Len(lit.keyword) \in Nat \ {0}
           /\ text_offset - Len(lit.keyword) \in Nat
           /\ StandsAt(text, text_offset - Len(lit.keyword), lit.keyword)
           /\ text_offset - Len(lit.keyword) \in CodePointStarts(text)
<1> DEFINE V == {MatchFor(lit, text_offset) : lit \in EndingHere}
<1>1. emit \in Seq(V)
  BY DEF SoundInv
<1>2. Head(emit) \in V
  <2> HIDE DEF V
  <2> QED
    BY <1>1
<1>3. PICK lit \in EndingHere : Head(emit) = MatchFor(lit, text_offset)
  BY <1>2
<1>4. lit \in build.literals /\ IsSuffix(lit.keyword, SubSeq(text, 1, text_offset))
  BY DEF EndingHere
<1>5. ValidText(lit.keyword) /\ lit.keyword \in Seq(Byte) /\ lit.keyword # << >>
  BY <1>4 DEF ReadInv, BuildOk, IsLiteral, ValidText
<1>6. Len(lit.keyword) \in Nat \ {0}
  BY <1>5, EmptySeq
<1>7. text_offset - Len(lit.keyword) \in Nat /\ StandsAt(text, text_offset - Len(lit.keyword), lit.keyword)
  BY <1>4, <1>5, TextIsValid, EndsHere
<1>8. text_offset - Len(lit.keyword) \in CodePointStarts(text)
  <2> DEFINE t == text_offset - Len(lit.keyword)
  <2>1. t \in Nat /\ StandsAt(text, t, lit.keyword) /\ Len(lit.keyword) > 0
    BY <1>6, <1>7
  <2> HIDE DEF t
  <2>2. t \in CodePointStarts(text)
    BY <1>5, <2>1, TextIsValid, CodePointsMatch
  <2> QED
    BY <2>2 DEF t
<1> QED
  BY <1>3, <1>4, <1>5, <1>6, <1>7, <1>8 DEF MatchFor

\* A literal that fits has what goes before it in the pattern matched by what goes
\* before it in the row.
LEMMA FitIsSound ==
  ASSUME RowInv, ReadInv, MatchInv, SoundInv, emit # << >>,
         NEW p, p = Head(emit).pattern_id, p \in Waiting, ~result[p],
         TryMatchingLiteral(Head(emit), instances[p], CurrentSegment(p)),
         NEW r, Means(p, r)
  PROVE  \E lit \in build.literals :
           LET j == instances[p].segment_idx
               n == IndexOf(CurrentSegment(p), Head(emit).start_pos)
           IN  /\ j \in 1..Len(Skel(p))
               /\ Head(emit).start_pos = lit.start_pos /\ Head(emit).literal_len = Len(lit.keyword)
               /\ Head(emit).text_start_pos + Head(emit).literal_len = text_offset
               /\ IsLiteralAt(build.patterns[p], build.escape, CurrentSegment(p), r[j], n, lit)
               /\ Reached(p, EndOfLiteral(p, r[j], n), text_offset)
<1> DEFINE m == Head(emit)
           i == instances[p]
           j == i.segment_idx
           seg == CurrentSegment(p)
           P == build.patterns[p]
           esc == build.escape
           k == r[j]
           n == IndexOf(seg, m.start_pos)
<1>1. /\ SimplePattern(P, esc) /\ LiteralsFound(P, esc) /\ p \in PatternIds /\ p \notin build.wildcard
      /\ p \in DOMAIN build.patterns
  BY DEF Waiting, Plain, SoundInv, CompiledOk, PatternIds
<1>2. /\ Skel(p) \in Seq(Segment) /\ j \in 1..Len(Skel(p)) /\ seg = Skel(p)[j]
  BY <1>1 DEF MatchInv, SkeletonOk, SegmentExists, Skel, CurrentSegment
<1>3. PICK lit \in build.literals :
        /\ m.pattern_id = lit.pattern_id /\ m.start_pos = lit.start_pos
        /\ m.literal_len = Len(lit.keyword)
        /\ m.text_start_pos = text_offset - Len(lit.keyword)
        /\ ValidText(lit.keyword) /\ Len(lit.keyword) \in Nat \ {0}
        /\ m.text_start_pos \in Nat /\ StandsAt(text, m.text_start_pos, lit.keyword)
        /\ m.text_start_pos \in CodePointStarts(text)
  BY MatchStands
<1>4. PICK l \in PatternLiterals(P, esc) : lit.keyword = l.keyword /\ lit.start_pos = l.start_pos
  BY <1>3 DEF SoundInv, CompiledOk
<1>5. MeansPattern(P, esc, Skel(p), r)
  BY DEF Means
<1>6. HasOffset(seg, lit.start_pos)
  BY <1>3 DEF TryMatchingLiteral, BelongsHere
<1>7. IsLiteralAt(P, esc, seg, k, n, lit)
  <2>1. IsLiteralAt(P, esc, Skel(p)[j], r[j], IndexOf(Skel(p)[j], lit.start_pos), lit)
    <3> DEFINE skel == Skel(p)
    <3> HIDE DEF P, esc, skel, j, seg
    <3> QED
      BY <1>1, <1>2, <1>4, <1>5, <1>6, WhichLiteral DEF skel
  <2> QED
    BY <1>2, <1>3, <2>1
<1>8. /\ k \in 1..Len(Segments(P, esc)) /\ n \in 1..LitCount(P, esc, k)
      /\ Len(seg.literal_offset) = LitCount(P, esc, k)
      /\ \A x \in 1..LitCount(P, esc, k) : seg.literal_offset[x] = LitOffset(P, esc, k, x)
      /\ lit.start_pos = LitOffset(P, esc, k, n) /\ lit.keyword = LitKeyword(P, esc, k, n)
  BY <1>7 DEF IsLiteralAt
<1>9. /\ Len(text) \in Nat /\ text \in Seq(Byte) /\ ValidText(text) /\ text_offset \in Nat
      /\ CodePointStarts(text) \subseteq Nat /\ 0 \in CodePointStarts(text)
  BY TextIsValid, StartsAre
<1>10. Lined(P, esc, Skel(p), r, Len(Segments(P, esc)))
  BY <1>5 DEF MeansPattern
<1>11. BeginSound(p, i) /\ (\A e \in Entries(i.match) : EntrySound(p, e))
  BY DEF SoundInv, MatcherSound
<1>12. seg \in Segment /\ seg.prefix_underscore_cnt \in Nat /\ i.min_text_start_pos \in CodePointStarts(text)
  <2>1. seg \in Segment
    BY <1>2
  <2>2. i.min_text_start_pos \in CodePointStarts(text)
    BY <1>1 DEF MatchInv, MatcherOk
  <2> HIDE DEF seg
  <2> QED
    BY <2>1, <2>2 DEF Segment
\* The literal before the first one is that of the segment before, or the row starts.
<1>13. ASSUME IsFirstLiteral(seg, m.start_pos)
       PROVE  Reaches(P, text, esc, LitFrom(P, esc, k, n), m.text_start_pos)
  <2> DEFINE lo == i.min_text_start_pos
             c == seg.prefix_underscore_cnt
             e == Utf8Advance(text, lo, c)
             t == m.text_start_pos
  <2>1. /\ e # NoOffset
        /\ IF seg.has_prefix_percent THEN t >= e ELSE j = 1 /\ t = e
    BY <1>13 DEF TryMatchingLiteral, FirstFits
  <2>2. n = 1
    BY <1>13 DEF IsFirstLiteral
  <2>3. e \in CodePointStarts(text) /\ t \in CodePointStarts(text) /\ e \in Nat /\ t \in Nat
    <3>1. e \in CodePointStarts(text) \cup {NoOffset}
      BY <1>9, <1>12, AdvanceIs
    <3> HIDE DEF e
    <3> QED
      BY <1>3, <1>9, <2>1, <3>1
  <2>4. ASSUME j = 1 PROVE Reaches(P, text, esc, LitFrom(P, esc, k, 1), t)
    <3>1. lo = 0
      BY <1>11, <2>4 DEF BeginSound
    <3>2. Leads(P, text, esc, 0, LitFrom(P, esc, r[1], 1), Skel(p)[1].prefix_underscore_cnt, Skel(p)[1].has_prefix_percent)
      <4> DEFINE skel == Skel(p)
      <4> HIDE DEF P, esc, skel
      <4> QED
        BY <1>9, <1>10 DEF Lined, skel
    <3>3. Leads(P, text, esc, 0, LitFrom(P, esc, k, 1), c, seg.has_prefix_percent)
      BY <1>2, <2>4, <3>2
    <3>4. Reaches(P, text, esc, 0, 0)
      BY DEF Reaches
    <3>5. seg.has_prefix_percent \in BOOLEAN
      <4> HIDE DEF seg
      <4> QED
        BY <1>12 DEF Segment
    <3>6. e = Utf8Advance(text, 0, c)
      BY <3>1
    <3>7. t = e \/ (seg.has_prefix_percent /\ e <= t)
      <4> HIDE DEF e, t, seg
      <4> QED
        BY <2>1, <2>3
    <3> HIDE DEF P, esc, c, e, t, seg, k
    <3>8. Reaches(P, text, esc, LitFrom(P, esc, k, 1), t)
      BY <1>9, <2>1, <2>3, <3>3, <3>4, <3>6, <3>7 DEF Leads
    <3> QED
      BY <3>8
  <2>5. ASSUME j # 1 PROVE Reaches(P, text, esc, LitFrom(P, esc, k, 1), t)
    <3> DEFINE h == j - 1
               a == LastTo(P, esc, r[h])
               c0 == Skel(p)[h].suffix_underscore_cnt
    <3>1. h \in 1..(Len(Skel(p)) - 1) /\ h \in 1..Len(Skel(p)) /\ h + 1 = j
      <4>1. Len(Skel(p)) \in Nat
        BY <1>2
      <4> QED
        BY <1>2, <2>5, <4>1
    <3>2. PICK te \in CodePointStarts(text) :
            /\ Reaches(P, text, esc, a, te) /\ Utf8Advance(text, te, c0) = lo
      BY <1>11, <2>5 DEF BeginSound, Reached
    <3>3. c0 \in Nat
      <4>1. Skel(p)[h] \in Segment
        BY <1>2, <3>1
      <4> QED
        BY <4>1 DEF Segment
    <3>4. Leads(P, text, esc, a, LitFrom(P, esc, r[h + 1], 1), c0 + Skel(p)[h + 1].prefix_underscore_cnt, TRUE)
      <4> DEFINE skel == Skel(p)
      <4> HIDE DEF P, esc, skel, h
      <4> QED
        BY <1>9, <1>10, <3>1 DEF Lined, skel, h
    <3>5. Leads(P, text, esc, a, LitFrom(P, esc, k, 1), c0 + c, TRUE)
      BY <1>2, <3>1, <3>4
    <3>6. e = Utf8Advance(text, te, c0 + c)
      <4>1. lo # NoOffset
        BY <1>9, <1>12 DEF NoOffset
      <4>2. c \in Nat /\ Utf8Advance(text, te, c0) = lo /\ te \in CodePointStarts(text)
        BY <1>12, <3>2
      <4> HIDE DEF lo, c0, c
      <4>3. \A x \in Nat : Utf8Advance(text, Utf8Advance(text, te, c0), x) = Utf8Advance(text, te, c0 + x)
        BY <1>9, <3>3, <4>1, <4>2, AdvanceAgain
      <4> QED
        BY <4>2, <4>3
    <3>7. e <= t
      <4> HIDE DEF e, t, seg
      <4> QED
        BY <2>1, <2>3, <2>5
    <3> HIDE DEF P, esc, c, c0, e, t, k, a
    <3>8. Reaches(P, text, esc, LitFrom(P, esc, k, 1), t)
      BY <2>1, <2>3, <3>2, <3>5, <3>6, <3>7 DEF Leads
    <3> QED
      BY <3>8
  <2>6. Reaches(P, text, esc, LitFrom(P, esc, k, 1), t)
    BY <2>4, <2>5
  <2> QED
    BY <2>2, <2>6
\* Any other one follows the one its alignment names.
<1>14. ASSUME ~IsFirstLiteral(seg, m.start_pos)
       PROVE  Reaches(P, text, esc, LitFrom(P, esc, k, n), m.text_start_pos)
  <2>1. Contain(i.match, Diff(m)) /\ IsPreviousLiteral(seg, ValueOf(i.match, Diff(m)), m.start_pos)
    BY <1>14 DEF TryMatchingLiteral, NextFits
  <2>2. i.match \in Caches
    BY <1>1 DEF MatchInv, MatcherOk
  <2>3. PICK e \in Entries(i.match) : e.key = Diff(m) /\ e.value = ValueOf(i.match, Diff(m))
    BY <2>1, <2>2, EntriesAre
  <2>4. n > 1 /\ seg.literal_offset[n - 1] = ToU16(e.value)
    BY <2>1, <2>3 DEF IsPreviousLiteral
  <2>5. LitCount(P, esc, k) \in Nat
    BY <1>1, <1>8, LiteralIs
  <2> DEFINE g == n - 1
  <2>6. g \in 1..(LitCount(P, esc, k) - 1) /\ g \in 1..LitCount(P, esc, k) /\ g + 1 = n
    <3> HIDE DEF n, k, P, esc
    <3> QED
      BY <1>8, <2>4, <2>5
  <2>7. EntrySound(p, e)
    BY <1>11
  <2>8. LitOffset(P, esc, k, g) = ToU16(e.value)
    BY <1>8, <2>4, <2>6
  <2>9. Reaches(P, text, esc, LitFrom(P, esc, k, g + 1), e.key + LitOffset(P, esc, k, g + 1))
    <3> HIDE DEF g
    <3> QED
      BY <1>8, <2>6, <2>7, <2>8
      DEF EntrySound, Reached, SegmentCount, LiteralCount, OffsetOf, StartOfLiteral
  <2>10. e.key + LitOffset(P, esc, k, n) = m.text_start_pos
    <3>1. LitOffset(P, esc, k, n) \in Nat
      BY <1>1, <1>8, LiteralIs
    <3>2. e.key = m.text_start_pos - m.start_pos /\ m.start_pos = LitOffset(P, esc, k, n)
      BY <1>3, <1>8, <2>3 DEF Diff
    <3> HIDE DEF m, n, k, P, esc
    <3> QED
      BY <1>3, <3>1, <3>2
  <2> HIDE DEF g, m, n, k, P, esc
  <2>11. Reaches(P, text, esc, LitFrom(P, esc, k, n), m.text_start_pos)
    BY <2>6, <2>9, <2>10
  <2> QED
    BY <2>11
<1>15. Reaches(P, text, esc, LitFrom(P, esc, k, n), m.text_start_pos)
  BY <1>13, <1>14
<1>16. Reached(p, EndOfLiteral(p, k, n), text_offset)
  <2> DEFINE t == m.text_start_pos
             kw == LitKeyword(P, esc, k, n)
  <2>1. t \in Nat /\ StandsAt(text, t, kw) /\ t = text_offset - Len(kw) /\ Len(kw) \in Nat
    BY <1>3, <1>8
  <2>2. Reaches(P, text, esc, LitFrom(P, esc, k, n), t)
    BY <1>15
  <2> HIDE DEF t, k, n, P, esc
  <2>3. Reaches(P, text, esc, LitTo(P, esc, k, n), t + Len(kw))
    BY <1>1, <1>8, <1>9, <2>1, <2>2, LiteralPasses
  <2>4. t + Len(kw) = text_offset
    <3> HIDE DEF kw
    <3> QED
      BY <1>9, <2>1
  <2>5. Reaches(P, text, esc, LitTo(P, esc, k, n), text_offset)
    BY <2>3, <2>4
  <2> QED
    BY <2>5 DEF Reached, EndOfLiteral, P, esc
<1>17. m.text_start_pos + m.literal_len = text_offset
  <2> HIDE DEF m
  <2> QED
    BY <1>3, <1>9
<1> QED
  BY <1>2, <1>3, <1>7, <1>16, <1>17

\* A pattern that waits for literals has a skeleton that means it.
LEMMA SomeMeaning ==
  ASSUME MatchInv, SoundInv, NEW p, p \in Waiting
  PROVE  /\ \E r : Means(p, r)
         /\ Skel(p) \in Seq(Segment) /\ Len(Skel(p)) \in Nat \ {0}
<1>1. /\ SimplePattern(build.patterns[p], build.escape) /\ p \in DOMAIN build.patterns /\ p \notin build.wildcard
      /\ build.skeleton[p] = SkeletonOf(build.patterns[p], build.escape)
      /\ ~OnlyWildcard(build.patterns[p], build.escape)
  BY DEF Waiting, Plain, SoundInv, CompiledOk, PatternIds
<1>2. \E r : MeansPattern(build.patterns[p], build.escape, SkeletonOf(build.patterns[p], build.escape), r)
  BY <1>1, SkeletonMeans
<1>3. build.skeleton[p] \in Seq(Segment) /\ build.skeleton[p] # << >>
  BY <1>1 DEF MatchInv, SkeletonOk
<1>4. Len(build.skeleton[p]) \in Nat \ {0}
  BY <1>3, EmptySeq
<1> QED
  BY <1>1, <1>2, <1>3, <1>4 DEF Means, Skel

\* Trying a literal leaves a matcher that knows less, at most.
LEMMA TriedSound ==
  ASSUME NEW p, NEW i, NEW m, NEW seg, IsMatcher(i), i.match \in Caches, MatcherSound(p, i)
  PROVE  MatcherSound(p, AfterTry(m, i, seg))
<1> DEFINE c == GetAndRemove(i.match, Diff(m))
           new == [i EXCEPT !.match = c]
           tried == AfterTry(m, i, seg)
<1>1. tried = i \/ tried = new
  BY DEF AfterTry
<1>2. /\ new.match = c /\ new.segment_idx = i.segment_idx /\ new.min_text_start_pos = i.min_text_start_pos
  <2> HIDE DEF c
  <2> QED
    BY DEF IsMatcher
<1>3. Entries(c) \subseteq Entries(i.match)
  BY EntriesAre
<1> HIDE DEF c, new, tried
<1>4. MatcherSound(p, new)
  BY <1>2, <1>3 DEF MatcherSound, BeginSound
<1>5. MatcherSound(p, tried)
  BY <1>1, <1>4
<1> QED
  BY <1>5 DEF tried

\* A literal that fits and is not the last of its segment makes the next one wait.
LEMMA ScheduledSound ==
  ASSUME RowInv, ReadInv, MatchInv, SoundInv, emit # << >>,
         NEW p, p = Head(emit).pattern_id, p \in Waiting, ~result[p],
         TryMatchingLiteral(Head(emit), instances[p], CurrentSegment(p)),
         ~IsLastLiteral(CurrentSegment(p), Head(emit).start_pos),
         NEW item, item.pattern_id = p,
         item.next_pattern_pos = GetNextLiteralOffset(CurrentSegment(p), Head(emit).start_pos),
         item.prev_pattern_pos = Head(emit).start_pos,
         item.ready_cp_idx = UnderscoreCount(Head(emit), CurrentSegment(p)) + codepoint_idx
  PROVE  /\ ItemSound(item)
         /\ GetNextLiteralOffset(CurrentSegment(p), Head(emit).start_pos)
              >= Head(emit).start_pos + Head(emit).literal_len
<1> DEFINE m == Head(emit)
           seg == CurrentSegment(p)
           P == build.patterns[p]
           esc == build.escape
           n == IndexOf(seg, m.start_pos)
<1>1. PICK r : Means(p, r)
  BY SomeMeaning
<1>2. SimplePattern(P, esc) /\ LiteralsFound(P, esc)
  BY DEF Waiting, Plain, SoundInv, CompiledOk, PatternIds
<1> DEFINE k == r[instances[p].segment_idx]
<1>3. PICK lit \in build.literals :
        /\ m.start_pos = lit.start_pos /\ m.literal_len = Len(lit.keyword)
        /\ IsLiteralAt(P, esc, seg, k, n, lit)
        /\ Reached(p, EndOfLiteral(p, k, n), text_offset)
  BY <1>1, FitIsSound
<1> DEFINE u == LitFrom(P, esc, k, n + 1) - LitTo(P, esc, k, n)
<1>4. /\ n \in 1..(LitCount(P, esc, k) - 1) /\ u \in Nat
      /\ GetNextLiteralOffset(seg, m.start_pos) = LitOffset(P, esc, k, n + 1)
      /\ GetNextLiteralOffset(seg, m.start_pos) = m.start_pos + m.literal_len + u
      /\ UnderscoreCount(m, seg) = u
      /\ \A s \in Seq(Byte) : Leads(P, s, esc, LitTo(P, esc, k, n), LitFrom(P, esc, k, n + 1), u, FALSE)
  <2>1. ~IsLastLiteral(seg, m.start_pos)
    OBVIOUS
  <2> HIDE DEF P, esc, n, k, seg, m
  <2> QED
    BY <1>2, <1>3, <2>1, AskedForNext
<1>5. k \in 1..Len(Segments(P, esc)) /\ n \in 1..LitCount(P, esc, k) /\ m.start_pos = LitOffset(P, esc, k, n)
  BY <1>3 DEF IsLiteralAt
<1>6. /\ text \in Seq(Byte) /\ Len(text) \in Nat /\ text_offset \in CodePointStarts(text)
      /\ codepoint_idx \in Int
  BY TextIsValid DEF MatchInv
<1>7. item.ready_cp_idx - codepoint_idx = u
  <2> HIDE DEF u, m, seg
  <2> QED
    BY <1>4, <1>6 DEF m, seg
<1> DEFINE t == Utf8Advance(text, text_offset, u)
<1>8. t # NoOffset => Reaches(P, text, esc, LitFrom(P, esc, k, n + 1), t)
  <2>1. Leads(P, text, esc, LitTo(P, esc, k, n), LitFrom(P, esc, k, n + 1), u, FALSE)
    BY <1>4, <1>6
  <2>2. Reaches(P, text, esc, LitTo(P, esc, k, n), text_offset)
    BY <1>3 DEF Reached, EndOfLiteral
  <2>3. t \in CodePointStarts(text) \cup {NoOffset}
    BY <1>4, <1>6, AdvanceIs
  <2> HIDE DEF P, esc, k, n, u
  <2> QED
    BY <1>6, <2>1, <2>2, <2>3 DEF Leads
<1>9. ItemSound(item)
  <2>1. item.prev_pattern_pos = LitOffset(P, esc, k, n) /\ item.next_pattern_pos = LitOffset(P, esc, k, n + 1)
    BY <1>4, <1>5
  <2>2. Utf8Advance(text, text_offset, item.ready_cp_idx - codepoint_idx) = t
    BY <1>7
  <2> HIDE DEF t, k, n, u
  <2> QED
    BY <1>4, <1>5, <1>8, <2>1, <2>2
    DEF ItemSound, OffsetOf, LiteralCount, SegmentCount, StartOfLiteral, Reached
<1>10. GetNextLiteralOffset(seg, m.start_pos) >= m.start_pos + m.literal_len
  <2>1. LitOffset(P, esc, k, n) \in Nat /\ Len(LitKeyword(P, esc, k, n)) \in Nat
    BY <1>2, <1>5, LiteralIs
  <2>2. m.start_pos \in Nat /\ m.literal_len \in Nat
    BY <1>3, <1>5, <2>1 DEF IsLiteralAt
  <2> HIDE DEF m, seg, u
  <2> QED
    BY <1>4, <2>2
<1> QED
  BY <1>9, <1>10

\* The last literal of a segment takes the matcher to the next one, or ends the match.
LEMMA AdvancedSound ==
  ASSUME RowInv, ReadInv, MatchInv, SoundInv, emit # << >>,
         NEW p, p = Head(emit).pattern_id, p \in Waiting, ~result[p],
         TryMatchingLiteral(Head(emit), instances[p], CurrentSegment(p)),
         IsLastLiteral(CurrentSegment(p), Head(emit).start_pos),
         NEW tail, tail = SegmentTailEnd(Head(emit), CurrentSegment(p)),
         tail # NoOffset, ValidLastLiteral(p, instances[p], tail)
  PROVE  /\ instances[p].segment_idx = Len(Skel(p)) => Expected(p)
         /\ MatcherSound(p, AdvanceNextSegment(p, AfterTry(Head(emit), instances[p], CurrentSegment(p)), tail))
<1> DEFINE m == Head(emit)
           i == instances[p]
           j == i.segment_idx
           seg == CurrentSegment(p)
           P == build.patterns[p]
           esc == build.escape
           tried == AfterTry(m, i, seg)
           new == AdvanceNextSegment(p, tried, tail)
           c == seg.suffix_underscore_cnt
<1>1. /\ SimplePattern(P, esc) /\ LiteralsFound(P, esc) /\ p \in PatternIds /\ p \notin build.wildcard
      /\ P \in Seq(Byte)
  BY DEF Waiting, Plain, SoundInv, CompiledOk, PatternIds, SimplePattern
<1>2. /\ Skel(p) \in Seq(Segment) /\ Len(Skel(p)) \in Nat \ {0}
      /\ j \in 1..Len(Skel(p)) /\ seg = Skel(p)[j]
  <2>1. j \in 1..Len(Skel(p)) /\ seg = Skel(p)[j]
    BY <1>1 DEF MatchInv, SegmentExists, CurrentSegment
  <2> QED
    BY <2>1, SomeMeaning
<1>3. c \in Nat
  <2>1. seg \in Segment
    BY <1>2
  <2> HIDE DEF seg
  <2> QED
    BY <2>1 DEF Segment
<1>4. /\ text \in Seq(Byte) /\ Len(text) \in Nat /\ text_offset \in CodePointStarts(text)
      /\ Len(text) \in CodePointStarts(text) /\ CodePointStarts(text) \subseteq 0..Len(text)
  BY TextIsValid, StartsAre
\* The text offset is where the segment's last literal ends, whatever it means.
<1>5. ASSUME NEW r, Means(p, r)
      PROVE  /\ Reaches(P, text, esc, LastTo(P, esc, r[j]), text_offset)
             /\ Utf8Advance(text, text_offset, c) = tail
  <2> DEFINE k == r[j]
             n == IndexOf(seg, m.start_pos)
  <2>1. PICK lit \in build.literals :
          /\ m.text_start_pos + m.literal_len = text_offset
          /\ IsLiteralAt(P, esc, seg, k, n, lit)
          /\ Reached(p, EndOfLiteral(p, k, n), text_offset)
    BY <1>5, FitIsSound
  <2>2. n = LitCount(P, esc, k)
    <3>1. n = Len(seg.literal_offset)
      BY DEF IsLastLiteral
    <3> QED
      BY <2>1, <3>1 DEF IsLiteralAt
  <2>3. Reaches(P, text, esc, LastTo(P, esc, k), text_offset)
    BY <2>1, <2>2 DEF Reached, EndOfLiteral, LastTo
  <2>4. tail = Utf8Advance(text, text_offset, c)
    BY <2>1 DEF SegmentTailEnd
  <2> QED
    BY <2>3, <2>4
<1>6. tail \in CodePointStarts(text)
  <2>1. PICK r : Means(p, r)
    BY SomeMeaning
  <2>2. Utf8Advance(text, text_offset, c) = tail
    BY <1>5, <2>1
  <2> HIDE DEF c
  <2> QED
    BY <1>3, <1>4, <2>2, AdvanceIs
<1>7. ASSUME j = Len(Skel(p)) PROVE Expected(p)
  <2>1. PICK r : Means(p, r)
    BY SomeMeaning
  <2>2. Leads(P, text, esc, LastTo(P, esc, r[j]), Len(P), c, seg.has_suffix_percent)
    <3> DEFINE skel == Skel(p)
    <3>1. Leads(P, text, esc, LastTo(P, esc, r[Len(skel)]), Len(P),
                skel[Len(skel)].suffix_underscore_cnt, skel[Len(skel)].has_suffix_percent)
      <4>1. MeansPattern(P, esc, skel, r)
        BY <2>1 DEF Means
      <4> HIDE DEF skel, P, esc
      <4> QED
        BY <1>4, <4>1 DEF MeansPattern
    <3> QED
      BY <1>2, <1>7, <3>1
  <2>3. Reaches(P, text, esc, LastTo(P, esc, r[j]), text_offset) /\ Utf8Advance(text, text_offset, c) = tail
    BY <1>5, <2>1
  <2>4. seg.has_suffix_percent \/ tail = Len(text)
    <3>1. Last(Skel(p)) = seg
      BY <1>2, <1>7 DEF Last
    <3>2. ~(j < Len(Skel(p)))
      BY <1>2, <1>7
    <3> QED
      BY <3>1, <3>2 DEF ValidLastLiteral
  <2>5. tail <= Len(text)
    BY <1>4, <1>6
  <2> DEFINE a == LastTo(P, esc, r[j])
             has == seg.has_suffix_percent
  <2>6. Reaches(P, text, esc, Len(P), Len(text))
    <3>1. Leads(P, text, esc, a, Len(P), c, has) /\ Reaches(P, text, esc, a, text_offset)
      BY <2>2, <2>3
    <3>2. Utf8Advance(text, text_offset, c) = tail /\ (has \/ tail = Len(text)) /\ tail # NoOffset
      BY <2>3, <2>4
    <3> HIDE DEF a, has, c, P, esc
    <3>3. Len(text) = tail \/ (has /\ tail <= Len(text))
      BY <2>5, <3>2
    <3> QED
      BY <1>4, <3>1, <3>2, <3>3 DEF Leads
  <2> HIDE DEF P, esc
  <2>7. Matches(P, text, esc)
    BY <1>1, <1>4, <2>6, EndIsReached
  <2> QED
    BY <2>7 DEF Expected, P, esc
<1>8. MatcherSound(p, new)
  <2>1. IsMatcher(i) /\ i.match \in Caches /\ MatcherSound(p, i)
    BY <1>1 DEF RowInv, MatchInv, MatcherOk, SoundInv
  <2>2. MatcherSound(p, tried) /\ tried.segment_idx = j
    BY <2>1, TriedSound, AfterTryIs
  <2>3. /\ new.segment_idx = tried.segment_idx + 1 /\ new.min_text_start_pos = tail
        /\ new.match = tried.match \/ \E n : new.match = NewCache(n)
    BY DEF AdvanceNextSegment
  <2> HIDE DEF new, tried, j
  <2>4. \A e \in Entries(new.match) : EntrySound(p, e)
    <3>1. ASSUME NEW n, new.match = NewCache(n) PROVE Entries(new.match) = {}
      BY <3>1, EntriesAre
    <3> QED
      BY <2>2, <2>3, <3>1 DEF MatcherSound
  <2>5. BeginSound(p, new)
    <3> SUFFICES ASSUME NEW r, Means(p, r)
                 PROVE  /\ new.segment_idx # 1
                        /\ new.segment_idx - 1 \in 1..Len(Skel(p))
                        /\ \E te \in CodePointStarts(text) :
                             /\ Reached(p, LastTo(build.patterns[p], build.escape, r[new.segment_idx - 1]), te)
                             /\ Utf8Advance(text, te, Skel(p)[new.segment_idx - 1].suffix_underscore_cnt) = new.min_text_start_pos
      BY DEF BeginSound
    <3>1. new.segment_idx - 1 = j /\ new.segment_idx # 1
      BY <1>2, <2>2, <2>3
    <3>2. Reached(p, LastTo(build.patterns[p], build.escape, r[j]), text_offset)
      BY <1>5 DEF Reached
    <3>3. Utf8Advance(text, text_offset, Skel(p)[j].suffix_underscore_cnt) = new.min_text_start_pos
      BY <1>2, <1>5, <2>3
    <3> QED
      BY <1>2, <1>4, <3>1, <3>2, <3>3
  <2> QED
    BY <2>4, <2>5 DEF MatcherSound
<1> QED
  BY <1>7, <1>8

-----------------------------------------------------------------------------
(* Every step keeps it. *)

\* What is known of a matcher and of a scheduled match hangs on the row alone, and on
\* how far it has been read.
LEMMA SameRow ==
  ASSUME build' = build, text' = text
  PROVE  /\ Plain' = Plain /\ Waiting' = Waiting /\ \A p : Skel(p)' = Skel(p)
         /\ \A p : Expected(p)' <=> Expected(p)
         /\ CompiledOk(build)' <=> CompiledOk(build)
BY DEF Plain, Waiting, PatternIds, Skel, Expected, CompiledOk

\* Before the first row.
LEMMA CompiledIs ==
  ASSUME NEW patterns, NEW escape,
         \A p \in DOMAIN patterns : \A lit \in PatternLiterals(patterns[p], escape) :
           lit.keyword # << >> /\ ValidText(lit.keyword)
  PROVE  CompiledOk(Compile(patterns, escape))
<1> DEFINE b == Compile(patterns, escape)
           L(p) == PatternLiterals(patterns[p], escape)
<1>1. /\ b.patterns = patterns /\ b.escape = escape
      /\ b.skeleton = [p \in DOMAIN patterns |-> SkeletonOf(patterns[p], escape)]
      /\ b.wildcard = {p \in DOMAIN patterns : OnlyWildcard(patterns[p], escape)}
      /\ b.literals =
           UNION {{[keyword |-> lit.keyword, pattern_id |-> p, start_pos |-> lit.start_pos] :
                     lit \in L(p)} : p \in DOMAIN patterns}
  BY DEF Compile
<1> HIDE DEF b
<1>2. ASSUME NEW p \in DOMAIN b.patterns
      PROVE  /\ LiteralsFound(b.patterns[p], b.escape)
             /\ b.skeleton[p] = SkeletonOf(b.patterns[p], b.escape)
             /\ p \in b.wildcard <=> OnlyWildcard(b.patterns[p], b.escape)
  BY <1>1 DEF LiteralsFound
<1> HIDE DEF L
<1>3. ASSUME NEW lit \in b.literals
      PROVE  \E l \in PatternLiterals(b.patterns[lit.pattern_id], b.escape) :
               lit.keyword = l.keyword /\ lit.start_pos = l.start_pos
  <2>1. PICK p \in DOMAIN patterns :
          lit \in {[keyword |-> l.keyword, pattern_id |-> p, start_pos |-> l.start_pos] : l \in L(p)}
    BY <1>1
  <2>2. PICK l \in L(p) : lit = [keyword |-> l.keyword, pattern_id |-> p, start_pos |-> l.start_pos]
    BY <2>1
  <2>3. lit.pattern_id = p /\ lit.keyword = l.keyword /\ lit.start_pos = l.start_pos
    BY <2>2
  <2> QED
    BY <1>1, <2>3 DEF L
<1>4. CompiledOk(b)
  BY <1>2, <1>3 DEF CompiledOk
<1> QED
  BY <1>4 DEF b

\* Nothing is claimed before the first row.
LEMMA SoundInit ==
  ASSUME Init
  PROVE  SoundInv
<1>1. PICK inputs \in Inputs : \E input \in inputs :
        build = Compile(input.patterns, input.escape) /\ texts = input.texts
  BY DEF Init
<1>2. PICK input \in inputs : build = Compile(input.patterns, input.escape)
  BY <1>1
<1>3. CompiledOk(build)
  BY <1>2, InputsAssumption, CompiledIs
<1>4. /\ emit = << >> /\ queue = {} /\ \A p \in PatternIds : instances[p] = NewMatcher(build, p) /\ result[p] = FALSE
  BY DEF Init
<1>5. \A p \in Waiting : p \in PatternIds /\ MatcherSound(p, NewMatcher(build, p))
  BY NewMatcherSound DEF Waiting, Plain
<1> QED
  BY <1>3, <1>4, <1>5 DEF SoundInv

\* A new row: nothing is known of it.
LEMMA SoundDrive ==
  ASSUME RowInv, SoundInv, Drive
  PROVE  SoundInv'
<1>1. /\ build' = build /\ queue' = {} /\ emit' = << >>
  BY DEF Drive, buildVars, Clear, CodePointDone
<1>2. \A p \in PatternIds : instances'[p] = NewMatcher(build, p)
  BY DEF RowInv, Drive, ResetMatcher
<1>3. \A p \in PatternIds \ build.wildcard : result'[p] = FALSE
  BY DEF Drive
<1>4. CompiledOk(build)' /\ Waiting' = Waiting /\ PatternIds' = PatternIds
  BY <1>1 DEF SoundInv, CompiledOk, Waiting, Plain, PatternIds
<1>5. ASSUME NEW p, p \in Waiting PROVE MatcherSound(p, instances[p])' /\ ~result'[p]
  <2>1. p \in PatternIds \ build.wildcard
    BY <1>5 DEF Waiting, Plain
  <2>2. instances'[p] = NewMatcher(build, p) /\ ~result'[p]
    BY <1>2, <1>3, <2>1
  <2>3. /\ instances'[p].segment_idx = 1 /\ instances'[p].min_text_start_pos = 0
        /\ \E n : instances'[p].match = NewCache(n)
    BY <2>2 DEF NewMatcher
  <2>4. Entries(instances'[p].match) = {}
    BY <2>3, EntriesAre
  <2> QED
    BY <2>2, <2>3, <2>4 DEF MatcherSound, BeginSound
<1> QED
  BY <1>1, <1>4, <1>5 DEF SoundInv

\* While the row stays, so does what is known of it.
LEMMA MatcherKept ==
  ASSUME build' = build, text' = text, NEW p, MatcherSound(p, instances'[p])
  PROVE  MatcherSound(p, instances[p])'
<1> DEFINE i == instances'[p]
<1>1. /\ \A k, t : Reached(p, k, t)' <=> Reached(p, k, t)
      /\ \A r : Means(p, r)' <=> Means(p, r)
      /\ \A k : LiteralCount(p, k)' = LiteralCount(p, k)
      /\ \A k, n : OffsetOf(p, k, n)' = OffsetOf(p, k, n)
      /\ \A k, n : StartOfLiteral(p, k, n)' = StartOfLiteral(p, k, n)
      /\ SegmentCount(p)' = SegmentCount(p) /\ Skel(p)' = Skel(p)
  BY DEF Reached, Means, LiteralCount, OffsetOf, StartOfLiteral, SegmentCount, Skel
<1>2. \A e \in Entries(i.match) : EntrySound(p, e)
  BY DEF MatcherSound
<1>3. \A e \in Entries(i.match) : EntrySound(p, e)'
  BY <1>1, <1>2 DEF EntrySound
<1>4. BeginSound(p, i)
  BY DEF MatcherSound
<1>5. ASSUME NEW r, Means(p, r)'
      PROVE  IF i.segment_idx = 1 THEN i.min_text_start_pos = 0
             ELSE /\ i.segment_idx - 1 \in 1..Len(Skel(p))
                  /\ \E te \in CodePointStarts(text) :
                       /\ Reached(p, LastTo(build.patterns[p], build.escape, r[i.segment_idx - 1]), te)
                       /\ Utf8Advance(text, te, Skel(p)[i.segment_idx - 1].suffix_underscore_cnt)
                            = i.min_text_start_pos
  <2>1. Means(p, r)
    BY <1>1, <1>5
  <2> HIDE DEF i
  <2> QED
    BY <1>4, <2>1 DEF BeginSound
<1>6. BeginSound(p, instances[p])'
  BY <1>1, <1>5 DEF BeginSound, Reached, Skel
<1> QED
  BY <1>3, <1>6 DEF MatcherSound

\* The same of a scheduled match, while the iterator does not move.
LEMMA ItemKept ==
  ASSUME build' = build, text' = text, text_offset' = text_offset, codepoint_idx' = codepoint_idx,
         NEW item, ItemSound(item)
  PROVE  ItemSound(item)'
BY DEF ItemSound, Reached, LiteralCount, OffsetOf, StartOfLiteral, SegmentCount

\* One code point more: a scheduled match has one less to wait for.
LEMMA ItemWaits ==
  ASSUME RowInv, ReadInv, MatchInv, ContinueParseText, NEW item \in queue, ItemSound(item)
  PROVE  ItemSound(item)'
<1> DEFINE d == item.ready_cp_idx - (codepoint_idx + 1)
           o == text_offset
<1>1. /\ build' = build /\ codepoint_idx' = codepoint_idx + 1 /\ CodePointDone
      /\ row' = row /\ texts' = texts /\ text_offset' = NextOffset(text, o) /\ o < Len(text)
  BY DEF ContinueParseText, buildVars
<1>2. text' = text
  BY <1>1 DEF text
<1>3. d \in Nat /\ codepoint_idx \in Nat /\ item.ready_cp_idx \in Int
  BY <1>1, NoneIsReady, TextType DEF RowInv, MatchInv, QueueOk
<1>4. o \in CodePointStarts(text) /\ Len(text) \in Nat /\ o \in Nat
  BY TextType DEF ReadInv, RowInv
<1>5. Utf8Advance(text, o, 1) = NextOffset(text, o)
  <2>1. Utf8Advance(text, o, 0) = o /\ Utf8Advance(text, o, 0 + 1) = OneFurther(text, Utf8Advance(text, o, 0))
    BY <1>4, AdvanceSteps
  <2> QED
    BY <1>1, <1>4, <2>1 DEF OneFurther, NoOffset
<1>6. Utf8Advance(text, NextOffset(text, o), d) = Utf8Advance(text, o, 1 + d)
  <2>1. Utf8Advance(text, o, 1) # NoOffset
    BY <1>1, <1>4, <1>5, StartsAre DEF NoOffset
  <2> QED
    BY <1>3, <1>4, <1>5, <2>1, AdvanceAgain
<1>7. 1 + d = item.ready_cp_idx - codepoint_idx /\ item.ready_cp_idx - codepoint_idx' = d
  BY <1>1, <1>3
<1>8. Utf8Advance(text', text_offset', item.ready_cp_idx - codepoint_idx')
        = Utf8Advance(text, text_offset, item.ready_cp_idx - codepoint_idx)
  BY <1>1, <1>2, <1>6, <1>7
<1> HIDE DEF d, o
<1> QED
  BY <1>1, <1>2, <1>8 DEF ItemSound, Reached, LiteralCount, OffsetOf, StartOfLiteral, SegmentCount

\* A code point more: what is emitted ends here, what is scheduled waits.
LEMMA SoundContinue ==
  ASSUME RowInv, ReadInv, MatchInv, SoundInv, ContinueParseText
  PROVE  SoundInv'
<1>1. /\ build' = build /\ texts' = texts /\ row' = row
      /\ UNCHANGED <<result, queue, instances>>
  BY DEF ContinueParseText, buildVars
<1>2. text' = text
  BY <1>1 DEF text
<1>3. /\ Waiting' = Waiting /\ \A p : Expected(p)' <=> Expected(p)
      /\ CompiledOk(build)'
  BY <1>1, <1>2, SameRow DEF SoundInv
<1>4. emit' \in Seq({MatchFor(lit, text_offset) : lit \in EndingHere}')
  <2> DEFINE read == SubSeq(text, 1, text_offset')
             L == {lit \in build.literals : IsSuffix(lit.keyword, read)}
             V == {MatchFor(lit, text_offset') : lit \in L}
  <2>1. /\ ValidText(read) /\ IsLongestNode(build.trie, read, ptr')
        /\ emit' = MatchesOf(ptr', text_offset') \o OutputMatches(ptr', text_offset')
    BY ReadStep
  <2>2. AreMatches(emit', L, text_offset')
    <3> HIDE DEF read
    <3>1. AreMatches(MatchesOf(ptr', text_offset') \o OutputMatches(ptr', text_offset'), L, text_offset')
      BY <2>1, EmittedAre DEF ReadInv
    <3> QED
      BY <2>1, <3>1
  <2>3. L = EndingHere'
    BY <1>1, <1>2 DEF EndingHere
  <2> HIDE DEF L
  <2> DEFINE N == Len(emit')
  <2>4. /\ N \in Nat /\ emit' = [i \in 1..N |-> emit'[i]]
        /\ \A i \in 1..N : \E lit \in L : emit'[i] = MatchFor(lit, text_offset')
    BY <2>2 DEF AreMatches
  <2>5. \A i \in 1..N : emit'[i] \in V
    BY <2>4
  <2> HIDE DEF V, N
  <2>6. emit' \in [1..N -> V]
    BY <2>4, <2>5
  <2>7. emit' \in Seq(V)
    BY ONLY <2>4, <2>6
  <2> QED
    BY <2>3, <2>7 DEF V
<1>5. ASSUME NEW p \in Waiting PROVE MatcherSound(p, instances[p])' /\ (result[p] => Expected(p))'
  <2>1. MatcherSound(p, instances'[p]) /\ (result'[p] => Expected(p))
    BY <1>1 DEF SoundInv
  <2>2. MatcherSound(p, instances[p])'
    BY <1>1, <1>2, <2>1, MatcherKept
  <2> QED
    BY <1>3, <2>1, <2>2
<1>6. ASSUME NEW item \in queue, item.pattern_id \in Waiting PROVE ItemSound(item)'
  BY <1>6, ItemWaits DEF SoundInv
<1> QED
  BY <1>1, <1>3, <1>4, <1>5, <1>6 DEF SoundInv

\* A match of a pattern that is reported already changes nothing else.
LEMMA SoundSkip ==
  ASSUME RowInv, ReadInv, MatchInv, SoundInv, SkipMatch
  PROVE  SoundInv'
<1>1. /\ emit # << >> /\ emit' = Tail(emit)
      /\ UNCHANGED <<build, texts, row, text_offset, codepoint_idx, result, queue, instances, dirty>>
  BY DEF SkipMatch, buildVars, textVars
<1>2. text' = text
  BY <1>1 DEF text
<1>3. /\ Waiting' = Waiting /\ \A p : Expected(p)' <=> Expected(p)
      /\ CompiledOk(build)'
  BY <1>1, <1>2, SameRow DEF SoundInv
<1>4. emit' \in Seq({MatchFor(lit, text_offset) : lit \in EndingHere}')
  <2>1. {MatchFor(lit, text_offset) : lit \in EndingHere}' = {MatchFor(lit, text_offset) : lit \in EndingHere}
    BY <1>1, <1>2 DEF EndingHere
  <2> DEFINE V == {MatchFor(lit, text_offset) : lit \in EndingHere}
  <2>2. emit \in Seq(V)
    BY DEF SoundInv
  <2> HIDE DEF V
  <2>3. Tail(emit) \in Seq(V)
    BY <1>1, <2>2
  <2> QED
    BY <1>1, <2>1, <2>3 DEF V
<1>5. ASSUME NEW p \in Waiting PROVE MatcherSound(p, instances[p])' /\ (result[p] => Expected(p))'
  <2>1. MatcherSound(p, instances'[p]) /\ (result'[p] => Expected(p))
    BY <1>1 DEF SoundInv
  <2>2. MatcherSound(p, instances[p])'
    BY <1>1, <1>2, <2>1, MatcherKept
  <2> QED
    BY <1>3, <2>1, <2>2
<1>6. ASSUME NEW item \in queue, item.pattern_id \in Waiting PROVE ItemSound(item)'
  BY <1>1, <1>2, <1>6, ItemKept DEF SoundInv
<1> QED
  BY <1>1, <1>3, <1>4, <1>5, <1>6 DEF SoundInv

\* A match: an alignment gone, a match scheduled, or a segment found.
LEMMA SoundHandle ==
  ASSUME RowInv, ReadInv, MatchInv, SoundInv, HandleMatch
  PROVE  SoundInv'
<1> DEFINE m == Head(emit)
           p == m.pattern_id
           i == instances[p]
           seg == CurrentSegment(p)
           tried == AfterTry(m, i, seg)
           tail == SegmentTailEnd(m, seg)
           V == {MatchFor(lit, text_offset) : lit \in EndingHere}
<1>1. /\ build' = build /\ texts' = texts /\ row' = row /\ text_offset' = text_offset
      /\ codepoint_idx' = codepoint_idx /\ emit # << >> /\ ~result[p] /\ emit' = Tail(emit)
  BY DEF HandleMatch, buildVars, textVars
<1>2. \/ /\ instances' = [instances EXCEPT ![p] = tried]
         /\ UNCHANGED <<result, queue>>
      \/ /\ TryMatchingLiteral(m, i, seg) /\ ~IsLastLiteral(seg, m.start_pos)
         /\ instances' = [instances EXCEPT ![p] = tried]
         /\ queue' = Schedule(queue, p, UnderscoreCount(m, seg) + codepoint_idx,
                              GetNextLiteralOffset(seg, m.start_pos), m.start_pos)
         /\ UNCHANGED result
      \/ /\ TryMatchingLiteral(m, i, seg) /\ IsLastLiteral(seg, m.start_pos)
         /\ tail # NoOffset /\ ValidLastLiteral(p, i, tail)
         /\ instances' = [instances EXCEPT ![p] = AdvanceNextSegment(p, tried, tail)]
         /\ result' = [result EXCEPT ![p] = i.segment_idx = Len(Skel(p))]
         /\ UNCHANGED queue
  BY DEF HandleMatch
<1>3. text' = text
  BY <1>1 DEF text
<1>4. /\ Waiting' = Waiting /\ \A q : Expected(q)' <=> Expected(q)
      /\ CompiledOk(build)'
  BY <1>1, <1>3, SameRow DEF SoundInv
<1>5. emit' \in Seq({MatchFor(lit, text_offset) : lit \in EndingHere}')
  <2>1. {MatchFor(lit, text_offset) : lit \in EndingHere}' = V
    BY <1>1, <1>3 DEF EndingHere
  <2>2. emit \in Seq(V)
    BY DEF SoundInv
  <2> HIDE DEF V
  <2>3. Tail(emit) \in Seq(V)
    BY <1>1, <2>2
  <2> QED
    BY <1>1, <2>1, <2>3 DEF V
<1>6. /\ p \in PatternIds /\ instances = [q \in PatternIds |-> instances[q]]
      /\ result \in [PatternIds -> BOOLEAN]
      /\ IsMatcher(i) /\ i.match \in Caches
  <2>1. p \in PatternIds
    BY <1>1, MatchIs
  <2> QED
    BY <2>1 DEF RowInv, MatchInv, MatcherOk
<1>7. ASSUME p \in Waiting PROVE MatcherSound(p, tried)
  <2>1. MatcherSound(p, i)
    BY <1>7 DEF SoundInv
  <2> HIDE DEF m, p, i, seg, tried
  <2>2. MatcherSound(p, AfterTry(m, i, seg))
    BY <1>6, <2>1, TriedSound
  <2> QED
    BY <2>2 DEF tried
<1>8. ASSUME p \in Waiting, TryMatchingLiteral(m, i, seg), ~IsLastLiteral(seg, m.start_pos),
             NEW item, item = [pattern_id |-> p, next_pattern_pos |-> GetNextLiteralOffset(seg, m.start_pos),
                               prev_pattern_pos |-> m.start_pos,
                               ready_cp_idx |-> UnderscoreCount(m, seg) + codepoint_idx]
      PROVE  ItemSound(item)
  <2>1. /\ item.pattern_id = p /\ item.prev_pattern_pos = m.start_pos
        /\ item.next_pattern_pos = GetNextLiteralOffset(seg, m.start_pos)
        /\ item.ready_cp_idx = UnderscoreCount(m, seg) + codepoint_idx
    BY <1>8
  <2> QED
    BY <1>1, <1>8, <2>1, ScheduledSound
<1>9. ASSUME p \in Waiting, TryMatchingLiteral(m, i, seg), IsLastLiteral(seg, m.start_pos),
             tail # NoOffset, ValidLastLiteral(p, i, tail)
      PROVE  /\ i.segment_idx = Len(Skel(p)) => Expected(p)
             /\ MatcherSound(p, AdvanceNextSegment(p, tried, tail))
  BY <1>1, <1>9, AdvancedSound
<1> HIDE DEF m, p, i, seg, tried, tail
<1>10. ASSUME p \in Waiting
       PROVE  MatcherSound(p, instances'[p]) /\ (result'[p] => Expected(p))
  <2>1. CASE instances' = [instances EXCEPT ![p] = tried] /\ result' = result
    <3>1. instances'[p] = tried /\ ~result'[p]
      BY <1>1, <1>6, <2>1
    <3> QED
      BY <1>7, <1>10, <3>1
  <2>2. CASE /\ TryMatchingLiteral(m, i, seg) /\ IsLastLiteral(seg, m.start_pos)
             /\ tail # NoOffset /\ ValidLastLiteral(p, i, tail)
             /\ instances' = [instances EXCEPT ![p] = AdvanceNextSegment(p, tried, tail)]
             /\ result' = [result EXCEPT ![p] = i.segment_idx = Len(Skel(p))]
    <3>1. instances'[p] = AdvanceNextSegment(p, tried, tail) /\ (result'[p] <=> i.segment_idx = Len(Skel(p)))
      BY <1>6, <2>2
    <3> QED
      BY <1>9, <1>10, <2>2, <3>1
  <2> QED
    BY <1>2, <2>1, <2>2
<1>11. ASSUME NEW q \in Waiting
       PROVE  MatcherSound(q, instances'[q]) /\ (result'[q] => Expected(q))
  <2>1. CASE q = p
    BY <1>10, <2>1
  <2>2. CASE q # p
    <3>1. q \in PatternIds
      BY DEF Waiting, Plain
    <3>2. instances'[q] = instances[q] /\ (result'[q] <=> result[q])
      BY <1>2, <1>6, <2>2, <3>1
    <3> QED
      BY <3>2 DEF SoundInv
  <2> QED
    BY <2>1, <2>2
<1>12. ASSUME NEW q \in Waiting PROVE MatcherSound(q, instances[q])' /\ (result[q] => Expected(q))'
  <2>1. MatcherSound(q, instances[q])'
    BY <1>1, <1>3, <1>11, MatcherKept
  <2> QED
    BY <1>4, <1>11, <2>1
<1>13. ASSUME NEW item \in queue', item.pattern_id \in Waiting PROVE ItemSound(item)
  <2>1. CASE item \in queue
    BY <1>13, <2>1 DEF SoundInv
  <2>2. CASE item \notin queue
    <3>1. /\ TryMatchingLiteral(m, i, seg) /\ ~IsLastLiteral(seg, m.start_pos)
          /\ queue' = Schedule(queue, p, UnderscoreCount(m, seg) + codepoint_idx,
                               GetNextLiteralOffset(seg, m.start_pos), m.start_pos)
      BY <1>2, <1>13, <2>2
    <3>2. item = [pattern_id |-> p, next_pattern_pos |-> GetNextLiteralOffset(seg, m.start_pos),
                  prev_pattern_pos |-> m.start_pos,
                  ready_cp_idx |-> UnderscoreCount(m, seg) + codepoint_idx]
      BY <1>13, <2>2, <3>1 DEF Schedule
    <3>3. item.pattern_id = p
      BY <3>2
    <3> QED
      BY <1>8, <1>13, <3>1, <3>2, <3>3
  <2> QED
    BY <2>1, <2>2
<1>14. ASSUME NEW item \in queue', item.pattern_id \in Waiting PROVE ItemSound(item)'
  BY <1>1, <1>3, <1>13, <1>14, ItemKept
<1> QED
  BY <1>4, <1>5, <1>12, <1>14 DEF SoundInv

\* The alignment a match that is ready becomes: the next literal may start here.
LEMMA AlignedSound ==
  ASSUME RowInv, ReadInv, MatchInv, SoundInv, NEW item \in queue, IsReady(item),
         item.pattern_id \in Waiting,
         NEW e, e = [key |-> text_offset - item.next_pattern_pos, value |-> ToU16(item.prev_pattern_pos)]
  PROVE  EntrySound(item.pattern_id, e)
<1> DEFINE p == item.pattern_id
           P == build.patterns[p]
           esc == build.escape
           prev == item.prev_pattern_pos
           next == item.next_pattern_pos
<1>1. SimplePattern(P, esc) /\ LiteralsFound(P, esc) /\ P \in Seq(Byte) /\ OnlyWildcardsEscaped(P, esc)
  BY DEF Waiting, Plain, SoundInv, CompiledOk, PatternIds, SimplePattern
<1>2. /\ text_offset \in CodePointStarts(text) /\ Len(text) \in Nat /\ text_offset \in Nat
  BY TextIsValid
<1>3. item.ready_cp_idx - codepoint_idx = 0
  <2>1. codepoint_idx \in Int /\ item.ready_cp_idx \in Int /\ item.ready_cp_idx >= codepoint_idx
    BY <1>2 DEF MatchInv, QueueOk
  <2> QED
    BY <2>1 DEF IsReady
<1>4. Utf8Advance(text, text_offset, 0) = text_offset /\ text_offset # NoOffset
  BY <1>2, AdvanceSteps DEF NoOffset
<1> HIDE DEF P, esc
<1>5. PICK k \in 1..Len(Segments(P, esc)) : \E n \in 1..(LitCount(P, esc, k) - 1) :
        /\ prev = LitOffset(P, esc, k, n) /\ next = LitOffset(P, esc, k, n + 1)
        /\ Reaches(P, text, esc, LitFrom(P, esc, k, n + 1), text_offset)
  BY <1>3, <1>4 DEF SoundInv, ItemSound, SegmentCount, LiteralCount, OffsetOf, StartOfLiteral, Reached, P, esc
<1>6. PICK n \in 1..(LitCount(P, esc, k) - 1) :
        /\ prev = LitOffset(P, esc, k, n) /\ next = LitOffset(P, esc, k, n + 1)
        /\ Reaches(P, text, esc, LitFrom(P, esc, k, n + 1), text_offset)
  BY <1>5
<1>7. \A j \in 1..Len(Segments(P, esc)) : LitCount(P, esc, j) \in Nat
  BY <1>1, RawIs
<1>8. n \in 1..LitCount(P, esc, k) /\ n + 1 \in 1..LitCount(P, esc, k)
  <2> DEFINE c == LitCount(P, esc, k)
  <2>1. c \in Nat /\ n \in 1..(c - 1)
    BY <1>7
  <2> HIDE DEF c
  <2>2. n \in 1..c /\ n + 1 \in 1..c
    BY <2>1
  <2> QED
    BY <2>2 DEF c
<1>9. prev \in Nat /\ prev < U16Size /\ next \in Nat
  BY <1>1, <1>6, <1>8, LiteralIs, OffsetFits
<1>10. ToU16(ToU16(prev)) = prev
  <2>1. U16Size \in Nat
    BY U16SizeAssumption
  <2>2. prev \in 0..(U16Size - 1)
    BY <1>9, <2>1
  <2> HIDE DEF prev
  <2> QED
    BY <2>2, ToU16Is
<1>11. ASSUME NEW j \in 1..Len(Segments(P, esc)), NEW l \in 1..(LitCount(P, esc, j) - 1),
              LitOffset(P, esc, j, l) = ToU16(e.value)
       PROVE  Reaches(P, text, esc, LitFrom(P, esc, j, l + 1), e.key + LitOffset(P, esc, j, l + 1))
  <2> DEFINE c == LitCount(P, esc, j)
  <2>1. c \in Nat /\ l \in 1..(c - 1)
    BY <1>7
  <2> HIDE DEF c
  <2>2. l \in 1..c
    BY <2>1
  <2>3. l \in 1..LitCount(P, esc, j) /\ LitOffset(P, esc, j, l) = LitOffset(P, esc, k, n)
    BY <1>6, <1>10, <1>11, <2>2 DEF c
  <2>4. j = k /\ l = n
    BY <1>1, <1>8, <2>3, OffsetsDiffer
  <2>5. e.key + next = text_offset
    BY <1>2, <1>9
  <2> QED
    BY <1>6, <2>4, <2>5
<1> QED
  BY <1>11 DEF EntrySound, SegmentCount, LiteralCount, OffsetOf, StartOfLiteral, Reached, P, esc

\* A match that is ready leaves a sound alignment.
LEMMA SoundProcess ==
  ASSUME RowInv, ReadInv, MatchInv, SoundInv, ProcessDelayedMatching
  PROVE  SoundInv'
<1>1. PICK item \in Fronts :
        /\ IsReady(item) /\ queue' = queue \ {item}
        /\ instances' =
            [instances EXCEPT ![item.pattern_id].match =
               Upsert(@, text_offset - item.next_pattern_pos, ToU16(item.prev_pattern_pos))]
  BY DEF ProcessDelayedMatching
<1>2. UNCHANGED <<build, texts, row, text_offset, codepoint_idx, dirty, emit, result>>
  BY DEF ProcessDelayedMatching, buildVars, textVars
<1>3. text' = text
  BY <1>2 DEF text
<1>4. /\ Waiting' = Waiting /\ \A q : Expected(q)' <=> Expected(q)
      /\ CompiledOk(build)'
  BY <1>2, <1>3, SameRow DEF SoundInv
<1> DEFINE p == item.pattern_id
           key == text_offset - item.next_pattern_pos
           value == ToU16(item.prev_pattern_pos)
           c == Upsert(instances[p].match, key, value)
<1>5. item \in queue /\ p \in PatternIds /\ key \in Int /\ value \in Int
  <2>1. item \in queue
    BY <1>1 DEF Fronts
  <2>2. text_offset \in Int
    BY TextType DEF RowInv
  <2>3. /\ item.pattern_id \in PatternIds /\ item.next_pattern_pos \in Int
        /\ item.prev_pattern_pos \in Int
    BY <2>1 DEF MatchInv, QueueOk
  <2> QED
    BY <2>1, <2>2, <2>3, U16SizeAssumption DEF ToU16
<1>6. Entries(c) \subseteq Entries(instances[p].match) \cup {[key |-> key, value |-> value]}
  <2>1. instances[p].match \in Caches
    BY <1>5 DEF MatchInv, MatcherOk
  <2> HIDE DEF key, value, p
  <2> QED
    BY <1>5, <2>1, EntriesAre
<1>7. ASSUME p \in Waiting PROVE \A e \in Entries(c) : EntrySound(p, e)
  <2>1. \A e \in Entries(instances[p].match) : EntrySound(p, e)
    BY <1>7 DEF SoundInv, MatcherSound
  <2>2. EntrySound(p, [key |-> key, value |-> value])
    BY <1>1, <1>5, <1>7, AlignedSound
  <2> HIDE DEF c, p, key, value
  <2> QED
    BY <1>6, <2>1, <2>2
<1>8. instances' = [instances EXCEPT ![p].match = c]
  BY <1>1
<1> HIDE DEF c
<1>9. ASSUME NEW q \in Waiting PROVE MatcherSound(q, instances'[q])
  <2>1. /\ q \in PatternIds /\ instances = [x \in PatternIds |-> instances[x]]
        /\ IsMatcher(instances[q]) /\ MatcherSound(q, instances[q])
    BY DEF RowInv, SoundInv, Waiting, Plain
  <2>2. CASE q = p
    <3>1. instances'[q] = [instances[q] EXCEPT !.match = c]
      BY <1>5, <1>8, <2>1, <2>2
    <3>2. /\ instances'[q].match = c /\ instances'[q].segment_idx = instances[q].segment_idx
          /\ instances'[q].min_text_start_pos = instances[q].min_text_start_pos
      BY <2>1, <3>1 DEF IsMatcher
    <3>3. \A e \in Entries(instances'[q].match) : EntrySound(q, e)
      BY <1>7, <2>2, <3>2
    <3>4. BeginSound(q, instances'[q])
      <4>1. BeginSound(q, instances[q])
        BY <2>1 DEF MatcherSound
      <4> QED
        BY <3>2, <4>1 DEF BeginSound
    <3> QED
      BY <3>3, <3>4 DEF MatcherSound
  <2>3. CASE q # p
    <3>1. instances'[q] = instances[q]
      BY <1>8, <2>1, <2>3
    <3> QED
      BY <2>1, <3>1
  <2> QED
    BY <2>2, <2>3
<1>10. ASSUME NEW q \in Waiting PROVE MatcherSound(q, instances[q])' /\ (result[q] => Expected(q))'
  <2>1. MatcherSound(q, instances[q])'
    BY <1>2, <1>3, <1>9, MatcherKept
  <2>2. result'[q] => Expected(q)
    BY <1>2 DEF SoundInv
  <2> QED
    BY <1>4, <2>1, <2>2
<1>11. ASSUME NEW it \in queue', it.pattern_id \in Waiting PROVE ItemSound(it)'
  <2>1. ItemSound(it)
    BY <1>1, <1>11 DEF SoundInv
  <2> QED
    BY <1>2, <1>3, <2>1, ItemKept
<1>12. emit' \in Seq({MatchFor(lit, text_offset) : lit \in EndingHere}')
  <2>1. {MatchFor(lit, text_offset) : lit \in EndingHere}' = {MatchFor(lit, text_offset) : lit \in EndingHere}
    BY <1>2, <1>3 DEF EndingHere
  <2> QED
    BY <1>2, <2>1 DEF SoundInv
<1> QED
  BY <1>4, <1>10, <1>11, <1>12 DEF SoundInv

\* What the proofs know of a state, the answers included.
JoinInv == ProbeInv /\ SoundInv

\* So it holds of every state that is reached.
LEMMA JoinInvHolds == Spec => []JoinInv
<1>1. Init => JoinInv
  BY RowInit, ReadInit, MatchInit, SoundInit DEF JoinInv, ProbeInv
<1>2. ASSUME ProbeInv, SoundInv, UNCHANGED vars PROVE SoundInv'
  <2>1. UNCHANGED <<build, texts, row, text_offset, codepoint_idx, emit, result, queue, instances>>
    BY <1>2 DEF vars, buildVars, textVars
  <2>2. text' = text
    BY <2>1 DEF text
  <2>3. /\ Waiting' = Waiting /\ \A q : Expected(q)' <=> Expected(q)
        /\ CompiledOk(build)'
    BY <1>2, <2>1, <2>2, SameRow DEF SoundInv
  <2>4. ASSUME NEW q \in Waiting PROVE MatcherSound(q, instances[q])' /\ (result[q] => Expected(q))'
    <3>1. MatcherSound(q, instances'[q]) /\ (result'[q] => Expected(q))
      BY <1>2, <2>1 DEF SoundInv
    <3>2. MatcherSound(q, instances[q])'
      BY <2>1, <2>2, <3>1, MatcherKept
    <3> QED
      BY <2>3, <3>1, <3>2
  <2>5. ASSUME NEW it \in queue', it.pattern_id \in Waiting PROVE ItemSound(it)'
    <3>1. ItemSound(it)
      BY <1>2, <2>1, <2>5 DEF SoundInv
    <3> QED
      BY <2>1, <2>2, <3>1, ItemKept
  <2>6. emit' \in Seq({MatchFor(lit, text_offset) : lit \in EndingHere}')
    <3>1. {MatchFor(lit, text_offset) : lit \in EndingHere}' = {MatchFor(lit, text_offset) : lit \in EndingHere}
      BY <2>1, <2>2 DEF EndingHere
    <3> QED
      BY <1>2, <2>1, <3>1 DEF SoundInv
  <2> QED
    BY <2>3, <2>4, <2>5, <2>6 DEF SoundInv
<1>3. ASSUME ProbeInv, SoundInv, [Next]_vars PROVE SoundInv'
  <2>1. CASE Next
    BY <1>2, <1>3, <2>1, SoundDrive, SoundContinue, SoundSkip, SoundHandle, SoundProcess
    DEF ProbeInv, Next, Finished
  <2> QED
    BY <1>2, <1>3, <2>1
<1>4. ASSUME JoinInv, [Next]_vars PROVE SoundInv'
  BY <1>3, <1>4 DEF JoinInv
<1>5. Spec => []ProbeInv
  BY ProbeInvHolds
<1>6. ProbeInv /\ ProbeInv' /\ JoinInv /\ [Next]_vars => JoinInv'
  BY <1>4 DEF JoinInv
<1> QED
  BY <1>1, <1>5, <1>6, PTL DEF Spec

-----------------------------------------------------------------------------
(* Patterns without a literal. *)

\* A pattern without a literal is of wildcards only.
LEMMA WildcardsOnly ==
  ASSUME NEW p \in Seq(Byte), NEW esc, OnlyWildcardsEscaped(p, esc), OnlyWildcard(p, esc),
         NEW x \in 0..(Len(p) - 1)
  PROVE  IsSegmentDelim(p, esc, x) \/ IsLiteralDelim(p, esc, x)
<1> DEFINE segs == Segments(p, esc)
           D == {i \in 0..(Len(p) - 1) : IsSegmentDelim(p, esc, i)}
<1> SUFFICES ASSUME x \notin D PROVE IsLiteralDelim(p, esc, x)
  OBVIOUS
<1>1. Len(p) \in Nat
  OBVIOUS
<1>2. PICK k \in 1..Len(segs) : segs[k].start <= x /\ x < End(segs[k])
  <2>1. segs = Spans(0, Len(p), D) /\ x \notin D
    BY DEF Segments
  <2> HIDE DEF segs, D
  <2>2. \A y \in 0..(Len(p) - 1) :
          y \in D \/ \E n \in 1..Len(Spans(0, Len(p), D)) :
                       /\ Spans(0, Len(p), D)[n].start <= y
                       /\ y < End(Spans(0, Len(p), D)[n])
    <3>1. 0 \in Nat
      OBVIOUS
    <3> QED
      BY <1>1, <3>1, SpansAre
  <2> QED
    BY <2>1, <2>2
<1> DEFINE lo == segs[k].start
           hi == End(segs[k])
           L == {i \in lo..(hi - 1) : IsLiteralDelim(p, esc, i)}
           lits == Literals(p, esc, segs[k])
<1>3. lo \in Nat /\ hi \in Nat /\ x \in lo..(hi - 1)
  <2>1. segs[k].start \in Nat /\ End(segs[k]) \in segs[k].start..Len(p)
    BY SegmentsAre
  <2> QED
    BY <1>1, <1>2, <2>1
<1>4. lits = Spans(lo, hi, L)
  BY DEF Literals
<1> HIDE DEF lo, hi, L, lits, segs, D
<1>5. \/ x \in L
      \/ \E n \in 1..Len(lits) : lits[n].start <= x /\ x < End(lits[n])
  BY <1>3, <1>4, SpansAre
<1>6. ASSUME NEW n \in 1..Len(lits) PROVE FALSE
  <2>1. n \in 1..LitCount(p, esc, k) /\ k \in 1..Len(Segments(p, esc))
    BY DEF LitCount, lits, segs
  <2>2. PatternLiterals(p, esc) # {}
    BY <2>1, LiteralsOfPattern
  <2> QED
    BY <2>2 DEF OnlyWildcard
<1> QED
  BY <1>5, <1>6 DEF L

\* As many code points take as far as there are code points before the offset.
LEMMA CountedAdvance ==
  ASSUME NEW s \in Seq(Byte), NEW n \in Nat,
         n <= Cardinality(CodePointStarts(s) \ {Len(s)})
  PROVE  /\ Utf8Advance(s, 0, n) \in CodePointStarts(s)
         /\ n = Cardinality(CodePointStarts(s) \ {Len(s)}) => Utf8Advance(s, 0, n) = Len(s)
<1> DEFINE St == CodePointStarts(s)
           C == St \ {Len(s)}
           N == Cardinality(C)
           Adv(k) == Utf8Advance(s, 0, k)
           Below(o) == {c \in St : c < o}
<1>1. /\ Len(s) \in Nat /\ 0 \in St /\ Len(s) \in St
      /\ \A c \in St : c \in Nat /\ c <= Len(s)
      /\ \A o \in C : NextOffset(s, o) \in St
      /\ \A o, c \in St : c < o => NextOffset(s, c) <= o
  <2>1. St \subseteq 0..Len(s) /\ Len(s) \in Nat
    BY StartsAre
  <2>2. \A c \in St : c \in Nat /\ c <= Len(s)
    BY <2>1
  <2> QED
    BY <2>1, <2>2, StartsAre
<1>2. Adv(0) = 0 /\ \A k \in Nat : Adv(k + 1) = OneFurther(s, Adv(k))
  BY <1>1, AdvanceSteps
<1>3. /\ IsFiniteSet(St) /\ IsFiniteSet(C) /\ N \in Nat /\ Below(Len(s)) = C
      /\ \A o : IsFiniteSet(Below(o))
  <2>1. IsFiniteSet(0..Len(s))
    BY <1>1, FS_Interval
  <2>2. IsFiniteSet(St)
    <3>1. St \subseteq 0..Len(s)
      BY <1>1
    <3> QED
      BY <2>1, <3>1, FS_Subset
  <2>3. IsFiniteSet(C) /\ \A o : IsFiniteSet(Below(o))
    BY <2>2, FS_Subset
  <2>4. Below(Len(s)) = C
    BY <1>1
  <2> HIDE DEF C
  <2> QED
    BY <2>2, <2>3, <2>4, FS_CardinalityType
<1> HIDE DEF Adv, St, N
<1> DEFINE T == {k \in Nat : k <= N => Adv(k) \in St /\ Cardinality(Below(Adv(k))) = k}
<1>4. 0 \in T
  <2>1. Below(0) = {}
    BY <1>1
  <2> QED
    BY <1>1, <1>2, <2>1, FS_EmptySet
<1>5. ASSUME NEW k \in Nat, k \in T PROVE k + 1 \in T
  <2> SUFFICES ASSUME k + 1 <= N PROVE Adv(k + 1) \in St /\ Cardinality(Below(Adv(k + 1))) = k + 1
    OBVIOUS
  <2> DEFINE o == Adv(k)
             next == NextOffset(s, o)
  <2>1. o \in St /\ Cardinality(Below(o)) = k /\ k < N
    <3>1. k <= N /\ k < N
      BY <1>3
    <3> QED
      BY <1>5, <3>1
  <2>2. o # Len(s)
    <3> SUFFICES ASSUME o = Len(s) PROVE FALSE
      OBVIOUS
    <3>1. Cardinality(Below(o)) = N
      BY <1>3 DEF N
    <3> HIDE DEF o, Below
    <3> QED
      BY <1>3, <2>1, <3>1
  <2>3. o \in C /\ o \in Nat /\ o < Len(s)
    <3> HIDE DEF o
    <3> QED
      BY <1>1, <2>1, <2>2
  <2>4. Adv(k + 1) = next
    <3>1. Adv(k + 1) = OneFurther(s, o)
      BY <1>2
    <3> HIDE DEF o
    <3>2. OneFurther(s, o) = NextOffset(s, o)
      BY <1>1, <2>3 DEF OneFurther, NoOffset
    <3> QED
      BY <3>1, <3>2
  <2>5. next \in St /\ next \in Nat /\ o < next
    <3>1. next \in St
      BY <1>1, <2>3
    <3>2. o < next
      BY <1>1, <2>3, NextOffsetMoves
    <3> HIDE DEF next
    <3> QED
      BY <1>1, <3>1, <3>2
  <2>6. Below(next) = Below(o) \cup {o}
    <3> SUFFICES ASSUME NEW c \in St PROVE c < next <=> (c < o \/ c = o)
      BY <2>1
    <3>1. c \in Nat
      BY <1>1
    <3>2. ASSUME o < c PROVE next <= c
      BY <1>1, <2>1, <3>2
    <3> HIDE DEF next, o
    <3> QED
      BY <2>3, <2>5, <3>1, <3>2
  <2>7. o \notin Below(o)
    BY <2>3
  <2> HIDE DEF Below, next
  <2>8. Cardinality(Below(o) \cup {o}) = k + 1
    BY <1>3, <2>1, <2>7, FS_AddElement
  <2> QED
    BY <2>4, <2>5, <2>6, <2>8
<1>6. n \in T
  <2> HIDE DEF T
  <2> QED
    BY <1>4, <1>5, Induction
<1>7. Adv(n) \in St /\ Cardinality(Below(Adv(n))) = n
  BY <1>6 DEF N, St
<1>8. ASSUME n = N PROVE Adv(n) = Len(s)
  <2> SUFFICES ASSUME Adv(n) # Len(s) PROVE FALSE
    OBVIOUS
  <2> DEFINE o == Adv(n)
  <2>1. o \in C /\ o \in Nat /\ o < Len(s)
    <3>1. o \in St /\ o # Len(s)
      BY <1>7
    <3> HIDE DEF o
    <3> QED
      BY <1>1, <3>1
  <2>2. Below(o) \subseteq C /\ o \notin Below(o)
    BY <1>1, <2>1
  <2> HIDE DEF Below, C, o
  <2>3. Below(o) = C
    BY <1>3, <1>7, <1>8, <2>2, FS_Subset DEF N, o
  <2> QED
    BY <2>1, <2>2, <2>3
<1> QED
  BY <1>7, <1>8 DEF Adv, St, N

\* A pattern without a literal is answered as LIKE answers it, if the answer is yes.
LEMMA WildcardsSound ==
  ASSUME NEW p, NEW esc, SimplePattern(p, esc), OnlyWildcard(p, esc), NEW s \in Seq(Byte),
         SpecialMatchEmptyPattern(p, esc, s)
  PROVE  Matches(p, s, esc)
<1> DEFINE Under(i) == {x \in 0..(i - 1) : IsLiteralDelim(p, esc, x)}
           Percent(i) == {x \in 0..(i - 1) : IsSegmentDelim(p, esc, x)}
           T == {i \in 0..Len(p) : Leads(p, s, esc, 0, i, Cardinality(Under(i)), Percent(i) # {})}
           N == Cardinality(CodePointStarts(s) \ {Len(s)})
           U == Cardinality(Under(Len(p)))
<1>1. /\ p \in Seq(Byte) /\ OnlyWildcardsEscaped(p, esc) /\ Len(p) \in Nat
      /\ esc # PERCENTAGE /\ esc # UNDERSCORE
  BY DEF SimplePattern, OnlyWildcardsEscaped, NoEscape, PERCENTAGE, UNDERSCORE
<1>2. \A i \in Nat : IsFiniteSet(Under(i)) /\ Cardinality(Under(i)) \in Nat
  <2> TAKE i \in Nat
  <2>1. IsFiniteSet(0..(i - 1)) /\ Under(i) \subseteq 0..(i - 1)
    BY FS_Interval
  <2> HIDE DEF Under
  <2> QED
    BY <2>1, FS_Subset, FS_CardinalityType
<1>3. 0 \in T
  <2>1. Under(0) = {} /\ Percent(0) = {}
    OBVIOUS
  <2>2. Cardinality(Under(0)) = 0
    BY <2>1, FS_EmptySet
  <2>3. Leads(p, s, esc, 0, 0, 0, FALSE)
    BY LeadsNowhere
  <2>4. (Percent(0) # {}) = FALSE
    BY <2>1
  <2>5. Leads(p, s, esc, 0, 0, Cardinality(Under(0)), Percent(0) # {})
    BY <2>2, <2>3, <2>4
  <2> QED
    BY <1>1, <2>5
<1>4. ASSUME NEW i \in 0..(Len(p) - 1), i \in T PROVE i + 1 \in T
  <2> DEFINE c == Cardinality(Under(i))
             any == Percent(i) # {}
  <2>1. Leads(p, s, esc, 0, i, c, any) /\ c \in Nat /\ any \in BOOLEAN /\ i \in Nat
    <3>1. i \in Nat /\ any \in BOOLEAN
      BY <1>1
    <3>2. Leads(p, s, esc, 0, i, c, any)
      BY <1>4
    <3>3. c \in Nat
      BY <1>2, <3>1
    <3> QED
      BY <3>1, <3>2, <3>3
  <2>2. i + 1 \in 0..Len(p)
    BY <1>1
  <2>3. IsSegmentDelim(p, esc, i) \/ IsLiteralDelim(p, esc, i)
    BY <1>1, WildcardsOnly
  <2>4. ASSUME IsSegmentDelim(p, esc, i)
        PROVE  Leads(p, s, esc, 0, i + 1, Cardinality(Under(i + 1)), Percent(i + 1) # {})
    <3>1. p[i + 1] = PERCENTAGE /\ ~IsLiteralDelim(p, esc, i)
      BY <2>4 DEF IsSegmentDelim, IsLiteralDelim, PERCENTAGE, UNDERSCORE
    <3>2. \A x \in 0..((i + 1) - 1) : x \in 0..(i - 1) \/ x = i
      BY <2>1
    <3>3. Under(i + 1) = Under(i)
      BY <2>1, <3>1, <3>2
    <3>4. i \in Percent(i + 1)
      BY <2>1, <2>4
    <3>5. (Percent(i + 1) # {}) = TRUE
      BY <3>4
    <3> HIDE DEF Under, Percent, c, any
    <3>6. Leads(p, s, esc, 0, i + 1, c, TRUE)
      BY <1>1, <2>1, <3>1, LeadsPercent
    <3> QED
      BY <3>3, <3>5, <3>6 DEF c
  <2>5. ASSUME IsLiteralDelim(p, esc, i)
        PROVE  Leads(p, s, esc, 0, i + 1, Cardinality(Under(i + 1)), Percent(i + 1) # {})
    <3>1. p[i + 1] = UNDERSCORE /\ ~IsSegmentDelim(p, esc, i)
      BY <2>5 DEF IsSegmentDelim, IsLiteralDelim, PERCENTAGE, UNDERSCORE
    <3>2. \A x \in 0..((i + 1) - 1) : x \in 0..(i - 1) \/ x = i
      BY <2>1
    <3>3. Percent(i + 1) = Percent(i)
      BY <2>1, <3>1, <3>2
    <3>4. Under(i + 1) = Under(i) \cup {i} /\ i \notin Under(i)
      BY <2>1, <2>5, <3>2
    <3> HIDE DEF Under, Percent, any
    <3>5. Cardinality(Under(i + 1)) = c + 1
      BY <1>2, <2>1, <3>4, FS_AddElement
    <3> HIDE DEF c
    <3>6. Leads(p, s, esc, 0, i + 1, c + 1, any)
      BY <1>1, <2>1, <3>1, LeadsUnderscore
    <3> QED
      BY <3>3, <3>5, <3>6 DEF any
  <2> QED
    BY <2>2, <2>3, <2>4, <2>5
<1>5. Leads(p, s, esc, 0, Len(p), U, Percent(Len(p)) # {})
  <2>1. Len(p) \in T
    <3>1. Len(p) \in 0..Len(p) /\ 0 \in Nat
      BY <1>1
    <3> HIDE DEF T
    <3> QED
      BY <1>1, <1>3, <1>4, <3>1, InductionUpTo
  <2> QED
    BY <2>1
<1>6. U <= N /\ (U # N => Percent(Len(p)) # {}) /\ U \in Nat /\ N \in Nat
  <2>1. N = U \/ (N > U /\ Percent(Len(p)) # {})
    BY DEF SpecialMatchEmptyPattern
  <2>2. U \in Nat
    BY <1>1, <1>2
  <2>3. N \in Nat
    <3>1. IsFiniteSet(0..Len(s)) /\ CodePointStarts(s) \ {Len(s)} \subseteq 0..Len(s)
      BY StartsAre, FS_Interval
    <3> QED
      BY <3>1, FS_Subset, FS_CardinalityType
  <2> HIDE DEF N, U, Percent
  <2> QED
    BY <2>1, <2>2, <2>3
<1>7. /\ Utf8Advance(s, 0, U) \in CodePointStarts(s)
      /\ U = N => Utf8Advance(s, 0, U) = Len(s)
  <2> HIDE DEF U
  <2> QED
    BY <1>6, CountedAdvance
<1>8. /\ 0 \in CodePointStarts(s) /\ Len(s) \in CodePointStarts(s)
      /\ CodePointStarts(s) \subseteq 0..Len(s) /\ Len(s) \in Nat
  BY StartsAre
<1>9. Reaches(p, s, esc, 0, 0)
  BY DEF Reaches
<1> DEFINE e == Utf8Advance(s, 0, U)
<1>10. e # NoOffset /\ (Len(s) = e \/ (Percent(Len(p)) # {} /\ e <= Len(s)))
  <2>1. e \in 0..Len(s)
    BY <1>7, <1>8
  <2> HIDE DEF e, U, N, Percent
  <2> QED
    BY <1>6, <1>7, <1>8, <2>1 DEF NoOffset, e
<1>11. Reaches(p, s, esc, Len(p), Len(s))
  <2> HIDE DEF Percent, U
  <2> QED
    BY <1>5, <1>8, <1>9, <1>10 DEF Leads
<1> QED
  BY <1>1, <1>11, EndIsReached

\* A pattern without a literal is answered when the row starts, and not again.
WildcardInv == \A p \in Plain \cap build.wildcard : result[p] => Expected(p)

\* It is kept by every step.
LEMMA WildcardNext ==
  ASSUME ProbeInv, SoundInv, WildcardInv, [Next]_vars
  PROVE  WildcardInv'
<1>1. CASE Drive
  <2>1. /\ build' = build /\ texts' = texts /\ row' = row + 1 /\ row < Len(texts)
        /\ result' = [p \in PatternIds |->
                        /\ p \in build.wildcard
                        /\ SpecialMatchEmptyPattern(build.patterns[p], build.escape, texts[row + 1])]
    BY <1>1 DEF Drive, buildVars
  <2>2. text' = texts[row + 1] /\ text' \in Seq(Byte)
    <3>1. row \in 0..Len(texts) /\ texts \in Seq(Seq(Byte))
      BY DEF ProbeInv, RowInv
    <3>2. row + 1 \in 1..Len(texts) /\ row + 1 # 0
      BY <2>1, <3>1
    <3>3. text' = texts[row + 1]
      BY <2>1, <3>2 DEF text
    <3> QED
      BY <3>1, <3>2, <3>3
  <2>3. (Plain \cap build.wildcard)' = Plain \cap build.wildcard
    BY <2>1 DEF Plain, PatternIds
  <2>4. ASSUME NEW p \in Plain \cap build.wildcard, result'[p] PROVE Expected(p)'
    <3>1. /\ p \in PatternIds /\ SimplePattern(build.patterns[p], build.escape)
          /\ OnlyWildcard(build.patterns[p], build.escape)
      BY DEF Plain, SoundInv, CompiledOk, PatternIds
    <3>2. SpecialMatchEmptyPattern(build.patterns[p], build.escape, texts[row + 1])
      BY <2>1, <2>4, <3>1
    <3>3. Matches(build.patterns[p], texts[row + 1], build.escape)
      BY <2>2, <3>1, <3>2, WildcardsSound
    <3> QED
      BY <2>1, <2>2, <3>3 DEF Expected
  <2> QED
    BY <2>3, <2>4 DEF WildcardInv
<1>2. ASSUME build' = build, text' = text,
             \A p \in PatternIds \cap build.wildcard : result'[p] <=> result[p]
      PROVE  WildcardInv'
  BY <1>2, SameRow DEF WildcardInv, Plain
<1>3. CASE \/ UNCHANGED vars \/ SkipMatch \/ ContinueParseText \/ ProcessDelayedMatching
  <2>1. build' = build /\ texts' = texts /\ row' = row /\ result' = result
    BY <1>3 DEF vars, SkipMatch, ContinueParseText, ProcessDelayedMatching, buildVars, textVars
  <2> QED
    BY <1>2, <2>1 DEF text
<1>4. CASE HandleMatch
  <2> DEFINE p == Head(emit).pattern_id
  <2>1. /\ build' = build /\ texts' = texts /\ row' = row /\ emit # << >>
        /\ \/ result' = result
           \/ \E v : result' = [result EXCEPT ![p] = v]
    BY <1>4 DEF HandleMatch, buildVars, textVars
  <2>2. p \notin build.wildcard /\ result \in [PatternIds -> BOOLEAN]
    BY <2>1, MatchIs DEF ProbeInv, MatchInv
  <2> HIDE DEF p
  <2>3. \A q \in PatternIds \cap build.wildcard : result'[q] <=> result[q]
    BY <2>1, <2>2
  <2> QED
    BY <1>2, <2>1, <2>3 DEF text
<1> QED
  BY <1>1, <1>3, <1>4 DEF Next, Finished

\* It holds before the first row.
LEMMA WildcardInit ==
  ASSUME Init
  PROVE  WildcardInv
BY DEF Init, WildcardInv, Plain

\* The join is sound.  Whatever simple patterns are joined, whatever valid rows, and
\* however many alignments the caches have had to drop: a pattern that is reported for
\* a row is LIKE it.
THEOREM JoinIsSound ==
  Spec => []((\A p \in Plain : result[p] => Expected(p)) /\ (Plain = PatternIds => NoFalseMatch))
<1>1. Init => JoinInv /\ WildcardInv
  BY RowInit, ReadInit, MatchInit, SoundInit, WildcardInit DEF JoinInv, ProbeInv
<1>2. JoinInv /\ WildcardInv /\ [Next]_vars => WildcardInv'
  BY WildcardNext DEF JoinInv
<1>3. ASSUME JoinInv, WildcardInv
      PROVE  (\A p \in Plain : result[p] => Expected(p)) /\ (Plain = PatternIds => NoFalseMatch)
  <2>1. \A p \in Plain : result[p] => Expected(p)
    BY <1>3 DEF JoinInv, SoundInv, WildcardInv, Waiting
  <2> QED
    BY <2>1 DEF NoFalseMatch
<1> QED
  BY <1>1, <1>2, <1>3, JoinInvHolds, PTL DEF Spec

\* The next literal of a segment starts behind the one that has matched, so the number
\* of code points to wait for is what it seems.
THEOREM NextIsBehind ==
  Spec => []((emit # << >> => Head(emit).pattern_id \in Plain) => NextLiteralIsBehind)
<1>1. ASSUME JoinInv, emit # << >> => Head(emit).pattern_id \in Plain PROVE NextLiteralIsBehind
  <2> DEFINE m == Head(emit)
             p == m.pattern_id
             seg == CurrentSegment(p)
             item == [pattern_id |-> p, next_pattern_pos |-> GetNextLiteralOffset(seg, m.start_pos),
                      prev_pattern_pos |-> m.start_pos,
                      ready_cp_idx |-> UnderscoreCount(m, seg) + codepoint_idx]
  <2> SUFFICES ASSUME emit # << >>, ~result[p], TryMatchingLiteral(m, instances[p], seg),
                      ~IsLastLiteral(seg, m.start_pos)
               PROVE  GetNextLiteralOffset(seg, m.start_pos) >= m.start_pos + m.literal_len
    BY DEF NextLiteralIsBehind
  <2>1. p \in Waiting
    BY <1>1, MatchIs DEF JoinInv, ProbeInv, Waiting
  <2>2. /\ item.pattern_id = p /\ item.prev_pattern_pos = m.start_pos
        /\ item.next_pattern_pos = GetNextLiteralOffset(seg, m.start_pos)
        /\ item.ready_cp_idx = UnderscoreCount(m, seg) + codepoint_idx
    OBVIOUS
  <2> QED
    BY <1>1, <2>1, <2>2, ScheduledSound DEF JoinInv, ProbeInv
<1> QED
  BY <1>1, JoinInvHolds, PTL
-----------------------------------------------------------------------------
(* What is emitted, scheduled and kept is about literals and offsets that exist. *)

\* A scheduled match is of two literals in a row of its pattern, and so was every
\* alignment before it became one; none begins behind what has been read.
ItemExists(item) ==
  /\ item.pattern_id \in PatternIds \ build.wildcard
  /\ <<ToU16(item.prev_pattern_pos), item.next_pattern_pos>> \in InARow(item.pattern_id)
  /\ item.next_pattern_pos \in Nat

AlignInv ==
  /\ \A item \in queue : ItemExists(item)
  /\ \A p \in PatternIds : \A e \in Entries(instances[p].match) : AlignmentOk(p, e)

\* Two offsets in a row of a segment of the skeleton are two in a row of the pattern.
LEMMA InARowIs ==
  ASSUME NEW p, NEW j \in 1..Len(Skel(p)), Skel(p) \in Seq(Segment),
         NEW n \in 1..(Len(Skel(p)[j].literal_offset) - 1)
  PROVE  <<Skel(p)[j].literal_offset[n], Skel(p)[j].literal_offset[n + 1]>> \in InARow(p)
<1>1. Skel(p)[j] \in ToSet(Skel(p))
  BY DEF ToSet
<1> QED
  BY <1>1 DEF InARow

\* The pairs hang on the build side alone, and an alignment on how far the row is read.
LEMMA SamePairs ==
  ASSUME build' = build
  PROVE  /\ PatternIds' = PatternIds /\ \A p : InARow(p)' = InARow(p)
         /\ \A item : ItemExists(item)' <=> ItemExists(item)
BY DEF PatternIds, InARow, Skel, ItemExists

LEMMA AlignmentKept ==
  ASSUME build' = build, text_offset \in Int, text_offset' \in Int, text_offset <= text_offset',
         NEW p, NEW e, AlignmentOk(p, e)
  PROVE  AlignmentOk(p, e)'
<1>1. e.key \in Int /\ e.key <= text_offset' /\ InARow(p)' = InARow(p)
  BY SamePairs DEF AlignmentOk
<1> QED
  BY <1>1 DEF AlignmentOk

\* A new matcher keeps no alignment.
LEMMA NewKeepsNone == \A p : Entries(NewMatcher(build, p).match) = {}
BY EntriesAre DEF NewMatcher

\* A new row.
LEMMA AlignDrive ==
  ASSUME RowInv, Drive
  PROVE  AlignInv'
<1>1. build' = build /\ queue' = {}
  BY DEF Drive, buildVars, Clear
<1>2. \A p \in PatternIds : instances'[p] = NewMatcher(build, p)
  BY DEF RowInv, Drive, ResetMatcher
<1>3. PatternIds' = PatternIds
  BY <1>1, SamePairs
<1>4. \A p \in PatternIds : Entries(instances'[p].match) = {}
  BY <1>2, NewKeepsNone
<1> QED
  BY <1>1, <1>3, <1>4 DEF AlignInv, Entries

\* A code point more.
LEMMA AlignContinue ==
  ASSUME RowInv, ReadInv, MatchInv, AlignInv, ContinueParseText
  PROVE  AlignInv'
<1>1. build' = build /\ queue' = queue /\ instances' = instances
  BY DEF ContinueParseText, buildVars
<1>2. text_offset \in Int /\ text_offset' \in Int /\ text_offset <= text_offset'
  BY RowContinue, TextType DEF RowInv
<1> QED
  BY <1>1, <1>2, SamePairs, AlignmentKept DEF AlignInv, Entries

\* A match: an alignment that is looked up goes, and two literals in a row are
\* scheduled.
LEMMA AlignHandle ==
  ASSUME RowInv, ReadInv, MatchInv, AlignInv, HandleMatch
  PROVE  AlignInv'
<1> DEFINE m == Head(emit)
           p == m.pattern_id
           i == instances[p]
           seg == CurrentSegment(p)
           tried == AfterTry(m, i, seg)
           tail == SegmentTailEnd(m, seg)
           next == GetNextLiteralOffset(seg, m.start_pos)
<1>1. build' = build /\ text_offset' = text_offset /\ emit # << >> /\ ~result[p]
  BY DEF HandleMatch, buildVars, textVars
<1>2. p \in PatternIds \ build.wildcard /\ m.start_pos \in Int /\ m.literal_len \in Nat
  BY <1>1, MatchIs
<1>3. /\ \/ instances' = [instances EXCEPT ![p] = tried]
         \/ instances' = [instances EXCEPT ![p] = AdvanceNextSegment(p, tried, tail)]
      /\ \/ queue' = queue
         \/ /\ TryMatchingLiteral(m, i, seg) /\ ~IsLastLiteral(seg, m.start_pos)
            /\ queue' = Schedule(queue, p, UnderscoreCount(m, seg) + codepoint_idx, next, m.start_pos)
  BY DEF HandleMatch
<1> HIDE DEF m
<1>4. /\ Skel(p) \in Seq(Segment) /\ i.segment_idx \in 1..Len(Skel(p))
      /\ seg = Skel(p)[i.segment_idx] /\ seg \in Segment
  <2>1. Skel(p) \in Seq(Segment) /\ i.segment_idx \in 1..Len(Skel(p))
    BY <1>1, <1>2 DEF MatchInv, SkeletonOk, SegmentExists, PatternIds, Skel
  <2> QED
    BY <2>1 DEF CurrentSegment
<1>5. \A item \in queue' : ItemExists(item)
  <2>1. CASE queue' = queue
    BY <2>1 DEF AlignInv
  <2>2. CASE /\ TryMatchingLiteral(m, i, seg) /\ ~IsLastLiteral(seg, m.start_pos)
             /\ queue' = Schedule(queue, p, UnderscoreCount(m, seg) + codepoint_idx, next, m.start_pos)
    <3> DEFINE new == [pattern_id |-> p, next_pattern_pos |-> next, prev_pattern_pos |-> m.start_pos,
                       ready_cp_idx |-> UnderscoreCount(m, seg) + codepoint_idx]
    <3>1. HasOffset(seg, m.start_pos)
      BY <2>2 DEF TryMatchingLiteral, BelongsHere
    <3>2. next \in Nat /\ \E n \in 1..(Len(seg.literal_offset) - 1) :
            seg.literal_offset[n] = ToU16(m.start_pos) /\ seg.literal_offset[n + 1] = next
      <4> HIDE DEF seg
      <4> QED
        BY <1>2, <1>4, <2>2, <3>1, NextLiteralIs
    <3> HIDE DEF next, seg, p, i
    <3>3. <<ToU16(m.start_pos), next>> \in InARow(p)
      BY <1>4, <3>2, InARowIs
    <3>4. ItemExists(new)
      BY <1>2, <3>2, <3>3 DEF ItemExists
    <3>5. queue' = queue \cup {new}
      BY <2>2 DEF Schedule
    <3> QED
      BY <3>4, <3>5 DEF AlignInv
  <2> QED
    BY <1>3, <2>1, <2>2
<1>6. IsMatcher(i) /\ i.match \in Caches /\ instances = [q \in PatternIds |-> instances[q]]
  BY <1>2 DEF RowInv, MatchInv, MatcherOk
<1>7. Entries(tried.match) \subseteq Entries(i.match)
  <2> DEFINE c == GetAndRemove(i.match, Diff(m))
  <2>1. tried = i \/ tried = [i EXCEPT !.match = c]
    BY DEF AfterTry
  <2>2. Entries(c) \subseteq Entries(i.match)
    BY <1>6, EntriesAre
  <2> HIDE DEF c, i, tried
  <2>3. [i EXCEPT !.match = c].match = c
    BY <1>6 DEF IsMatcher
  <2> QED
    BY <2>1, <2>2, <2>3
<1>8. Entries(AdvanceNextSegment(p, tried, tail).match) \subseteq Entries(i.match)
  <2> DEFINE new == AdvanceNextSegment(p, tried, tail)
  <2>1. new.match = tried.match \/ \E n : new.match = NewCache(n)
    BY DEF AdvanceNextSegment
  <2> HIDE DEF new, tried, i
  <2>2. Entries(new.match) \subseteq Entries(i.match)
    BY <1>7, <2>1, EntriesAre
  <2> QED
    BY <2>2 DEF new
<1> HIDE DEF p, i, seg, tried, tail
<1>9. ASSUME NEW q \in PatternIds PROVE Entries(instances'[q].match) \subseteq Entries(instances[q].match)
  <2>1. CASE q = p
    <3>1. instances'[q] = tried \/ instances'[q] = AdvanceNextSegment(p, tried, tail)
      BY <1>3, <1>6, <2>1
    <3>2. instances[q] = i
      BY <2>1 DEF i
    <3> QED
      BY <1>7, <1>8, <3>1, <3>2
  <2>2. CASE q # p
    <3>1. instances'[q] = instances[q]
      BY <1>3, <1>6, <2>2
    <3> QED
      BY <3>1
  <2> QED
    BY <2>1, <2>2
<1>10. text_offset \in Int
  BY TextType DEF RowInv
<1>11. \A q \in PatternIds : \A e \in Entries(instances'[q].match) : AlignmentOk(q, e)'
  BY <1>1, <1>9, <1>10, AlignmentKept DEF AlignInv
<1> QED
  BY <1>1, <1>5, <1>11, SamePairs DEF AlignInv, Entries

\* A match that is ready becomes an alignment that begins no later than here.
LEMMA AlignProcess ==
  ASSUME RowInv, ReadInv, MatchInv, AlignInv, ProcessDelayedMatching
  PROVE  AlignInv'
<1>1. PICK item \in Fronts :
        /\ queue' = queue \ {item}
        /\ instances' =
            [instances EXCEPT ![item.pattern_id].match =
               Upsert(@, text_offset - item.next_pattern_pos, ToU16(item.prev_pattern_pos))]
  BY DEF ProcessDelayedMatching
<1>2. build' = build /\ text_offset' = text_offset
  BY DEF ProcessDelayedMatching, buildVars, textVars
<1> DEFINE p == item.pattern_id
           key == text_offset - item.next_pattern_pos
           value == ToU16(item.prev_pattern_pos)
           c == Upsert(instances[p].match, key, value)
<1>3. /\ item \in queue /\ p \in PatternIds /\ key \in Int /\ key <= text_offset /\ value \in Int
      /\ text_offset \in Int /\ <<value, item.next_pattern_pos>> \in InARow(p)
  <2>1. item \in queue
    BY <1>1 DEF Fronts
  <2>2. text_offset \in Int
    BY TextType DEF RowInv
  <2>3. ItemExists(item)
    BY <2>1 DEF AlignInv
  <2>4. p \in PatternIds /\ item.next_pattern_pos \in Nat /\ <<value, item.next_pattern_pos>> \in InARow(p)
    BY <2>3 DEF ItemExists
  <2>5. item.prev_pattern_pos \in Int
    BY <2>1 DEF MatchInv, QueueOk
  <2> QED
    BY <2>1, <2>2, <2>4, <2>5, U16SizeAssumption DEF ToU16
<1>4. Entries(c) \subseteq Entries(instances[p].match) \cup {[key |-> key, value |-> value]}
  <2>1. instances[p].match \in Caches
    BY <1>3 DEF MatchInv, MatcherOk
  <2> HIDE DEF key, value, p
  <2> QED
    BY <1>3, <2>1, EntriesAre
<1>5. AlignmentOk(p, [key |-> key, value |-> value])
  <2> HIDE DEF key, value, p
  <2>1. \E pair \in InARow(p) : pair[1] = value
    <3>1. <<value, item.next_pattern_pos>>[1] = value
      OBVIOUS
    <3> QED
      BY <1>3, <3>1
  <2> QED
    BY <1>3, <2>1 DEF AlignmentOk
<1>6. instances' = [instances EXCEPT ![p].match = c]
  BY <1>1
<1> HIDE DEF c
<1>7. ASSUME NEW q \in PatternIds, NEW e \in Entries(instances'[q].match) PROVE AlignmentOk(q, e)
  <2>1. /\ instances = [x \in PatternIds |-> instances[x]] /\ IsMatcher(instances[q])
        /\ \A old \in Entries(instances[q].match) : AlignmentOk(q, old)
    BY DEF RowInv, AlignInv
  <2>2. CASE q = p
    <3>1. instances'[q] = [instances[q] EXCEPT !.match = c]
      BY <1>3, <1>6, <2>1, <2>2
    <3>2. instances'[q].match = c
      BY <2>1, <3>1 DEF IsMatcher
    <3> HIDE DEF p, key, value
    <3> QED
      BY <1>4, <1>5, <1>7, <2>1, <2>2, <3>2
  <2>3. CASE q # p
    <3>1. instances'[q] = instances[q]
      BY <1>6, <2>1, <2>3
    <3> QED
      BY <1>7, <2>1, <3>1
  <2> QED
    BY <2>2, <2>3
<1>8. \A q \in PatternIds : \A e \in Entries(instances'[q].match) : AlignmentOk(q, e)'
  BY <1>2, <1>3, <1>7, AlignmentKept
<1> QED
  BY <1>1, <1>2, <1>8, SamePairs DEF AlignInv, Entries

\* So it holds of every state that is reached.
LEMMA AlignInvHolds == Spec => [](JoinInv /\ AlignInv)
<1>1. Init => AlignInv
  <2> SUFFICES ASSUME Init PROVE AlignInv
    OBVIOUS
  <2>1. queue = {} /\ instances = [p \in PatternIds |-> NewMatcher(build, p)]
    BY DEF Init
  <2> QED
    BY <2>1, NewKeepsNone DEF AlignInv
<1>2. ASSUME AlignInv, UNCHANGED <<build, text_offset, queue, instances>> PROVE AlignInv'
  <2>1. \A p, e : AlignmentOk(p, e)' <=> AlignmentOk(p, e)
    BY <1>2, SamePairs DEF AlignmentOk
  <2> QED
    BY <1>2, <2>1, SamePairs DEF AlignInv, Entries
<1>3. ASSUME JoinInv, AlignInv, [Next]_vars PROVE AlignInv'
  <2>1. RowInv /\ ReadInv /\ MatchInv
    BY <1>3 DEF JoinInv, ProbeInv
  <2>2. CASE SkipMatch \/ Finished \/ UNCHANGED vars
    <3>1. UNCHANGED <<build, text_offset, queue, instances>>
      BY <2>2 DEF SkipMatch, Finished, vars, buildVars, textVars
    <3> QED
      BY <1>2, <1>3, <3>1
  <2> QED
    BY <1>3, <2>1, <2>2, AlignDrive, AlignContinue, AlignHandle, AlignProcess DEF Next
<1>4. JoinInv /\ AlignInv /\ [Next]_vars => AlignInv'
  BY <1>3
<1> QED
  BY <1>1, <1>4, JoinInvHolds, PTL DEF Spec

\* A match is of a literal that ends here, and begins at a code point of the row.
LEMMA EmittedIs ==
  ASSUME RowInv, ReadInv, SoundInv, NEW n \in 1..Len(emit)
  PROVE  EmittedOk(emit[n])
<1> DEFINE V == {MatchFor(lit, text_offset) : lit \in EndingHere}
           m == emit[n]
<1>1. m \in V
  <2>1. emit \in Seq(V)
    BY DEF SoundInv
  <2> HIDE DEF V
  <2> QED
    BY <2>1
<1>2. PICK lit \in EndingHere : m = MatchFor(lit, text_offset)
  BY <1>1
<1>3. lit \in build.literals /\ IsSuffix(lit.keyword, SubSeq(text, 1, text_offset))
  BY DEF EndingHere
<1>4. ValidText(lit.keyword) /\ lit.keyword \in Seq(Byte) /\ lit.keyword # << >>
  BY <1>3 DEF ReadInv, BuildOk, IsLiteral, ValidText
<1> DEFINE t == text_offset - Len(lit.keyword)
<1>5. Len(lit.keyword) \in Nat /\ Len(lit.keyword) > 0
  BY <1>4, EmptySeq
<1>6. t \in Nat /\ StandsAt(text, t, lit.keyword)
  BY <1>3, <1>4, TextIsValid, EndsHere
<1>7. /\ m.pattern_id = lit.pattern_id /\ m.start_pos = lit.start_pos
      /\ m.literal_len = Len(lit.keyword) /\ m.text_start_pos = t
  <2> HIDE DEF m
  <2> QED
    BY <1>2 DEF MatchFor
<1>8. t + Len(lit.keyword) = text_offset
  BY <1>5, TextIsValid
<1> HIDE DEF t, m
<1>9. t \in CodePointStarts(text)
  BY <1>4, <1>5, <1>6, TextIsValid, CodePointsMatch
<1> QED
  BY <1>3, <1>7, <1>8, <1>9 DEF EmittedOk, m

\* Every variable the walk changes keeps its type: what is emitted, scheduled or cached
\* is about literals and offsets that exist, and no cache outgrows its bound.
THEOREM TypesKept == Spec => []TypeOK
<1>1. ASSUME JoinInv, AlignInv PROVE TypeOK
  <2>1. RowInv /\ ReadInv /\ MatchInv /\ SoundInv
    BY <1>1 DEF JoinInv, ProbeInv
  <2>2. /\ row \in 0..Len(texts) /\ result \in [PatternIds -> BOOLEAN] /\ dirty \subseteq PatternIds
        /\ text_offset \in CodePointStarts(text)
    BY <2>1 DEF RowInv, ReadInv, MatchInv
  <2>3. codepoint_idx \in 0..Len(text)
    <3>1. Len(text) \in Nat /\ text_offset \in 0..Len(text) /\ codepoint_idx \in 0..text_offset
      BY <2>1, TextType DEF RowInv, MatchInv
    <3> QED
      BY <3>1
  <2>4. ptr \in LinkNodesOf(build.trie)
    BY <2>1 DEF ReadInv, IsLongestNode
  <2>5. \A n \in 1..Len(emit) : EmittedOk(emit[n])
    BY <2>1, EmittedIs
  <2>6. ASSUME NEW item \in queue PROVE ScheduledOk(item)
    <3>1. ItemExists(item)
      BY <1>1 DEF AlignInv
    <3>2. item.ready_cp_idx \in Int /\ item.ready_cp_idx >= codepoint_idx
      BY <2>1 DEF MatchInv, QueueOk
    <3>3. item.ready_cp_idx \in Nat
      BY <2>1, <3>2, TextType DEF RowInv, MatchInv
    <3> QED
      BY <3>1, <3>3 DEF ItemExists, ScheduledOk
  <2>7. ASSUME NEW p \in PatternIds
        PROVE  LET cache == instances[p].match
               IN  /\ instances[p].min_text_start_pos \in CodePointStarts(text)
                   /\ Len(cache.items) <= cache.max_size
                   /\ \A n \in 1..Len(cache.items) : AlignmentOk(p, cache.items[n])
    <3>1. /\ instances[p].min_text_start_pos \in CodePointStarts(text)
          /\ Len(instances[p].match.items) <= instances[p].match.max_size
      BY <2>1 DEF MatchInv, MatcherOk, Caches
    <3>2. \A n \in 1..Len(instances[p].match.items) : AlignmentOk(p, instances[p].match.items[n])
      BY <1>1 DEF AlignInv, Entries
    <3> QED
      BY <3>1, <3>2
  <2> QED
    BY <2>2, <2>3, <2>4, <2>5, <2>6, <2>7 DEF TypeOK
<1>2. JoinInv /\ AlignInv => TypeOK
  BY <1>1
<1> QED
  BY <1>2, AlignInvHolds, PTL
=============================================================================
