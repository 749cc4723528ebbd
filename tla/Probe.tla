-------------------------------- MODULE Probe --------------------------------
(***************************************************************************)
(* The probe side of the join: rows of text are run one after the other    *)
(* through one TextParserIterator (aho_corasick/parser.h, parser.cc),      *)
(* which walks the automaton a code point at a time and hands what it      *)
(* emits to one Matcher per pattern (skeleton.cc).  The driver is          *)
(* probe::Drive of test/probe.h.  Offsets count from 0; patterns,          *)
(* segments and rows are numbered from 1.                                  *)
(***************************************************************************)
EXTENDS Skeleton, Automaton, LRUCache, Like

CONSTANT Inputs   \* sets of what is joined: of records [patterns, escape, texts]

\* Patterns and texts are valid, so that the literals are valid too; none is empty
\* when its escapes are gone (Insert asserts it).  None has a NUL in it: VisitCodePoint
\* would take the leaf under it for a node.
ASSUME InputsAssumption ==
  \A inputs \in Inputs : \A input \in inputs :
    /\ input.patterns \in Seq(Seq(Byte)) /\ input.escape \in Byte \cup {NoEscape}
    /\ \A p \in DOMAIN input.patterns :
         \A lit \in PatternLiterals(input.patterns[p], input.escape) :
           lit.keyword # << >> /\ ValidText(lit.keyword) /\ 0 \notin ToSet(lit.keyword)
    /\ input.texts \in Seq(Seq(Byte))
    /\ \A t \in DOMAIN input.texts : ValidText(input.texts[t]) /\ 0 \notin ToSet(input.texts[t])

VARIABLES
  build,          \* the build side: what is compiled from the patterns
  texts,          \* the rows
  row,            \* the row being probed, 0 before the first one
  result,         \* result[p]: pattern p has matched the row
  text_offset, codepoint_idx,
  ptr,            \* the node of the automaton
  queue,          \* the scheduled matches
  instances,      \* a Matcher for each pattern
  dirty,          \* the patterns whose matcher may have been touched
  emit            \* the matches of this code point still to be handled

buildVars == <<build, texts>>
textVars  == <<row, text_offset, codepoint_idx, ptr>>
vars == <<buildVars, textVars, result, queue, instances, dirty, emit>>

PatternIds == DOMAIN build.patterns
text == IF row = 0 THEN << >> ELSE texts[row]

-----------------------------------------------------------------------------
(* The build side. *)

\* PatternAnalyzer's constructor, and the links BuildSuffixLink adds.
Compile(patterns, escape) ==
  LET OfPattern(p) ==
        {[keyword |-> lit.keyword, pattern_id |-> p, start_pos |-> lit.start_pos] :
           lit \in PatternLiterals(patterns[p], escape)}
      literals == UNION {OfPattern(p) : p \in DOMAIN patterns}
      trie     == TrieOf({lit.keyword : lit \in literals})
  IN  [patterns   |-> patterns,
       escape     |-> escape,
       skeleton   |-> [p \in DOMAIN patterns |-> SkeletonOf(patterns[p], escape)],
       wildcard   |-> {p \in DOMAIN patterns : OnlyWildcard(patterns[p], escape)},
       literals   |-> literals,
       trie       |-> trie,
       suffixLink |-> SuffixLinksOf(trie),
       outputLink |-> OutputLinksOf(trie)]

Skel(p) == build.skeleton[p]

\* InitializeMatcher; a pattern without a literal gets a matcher nobody uses.
NewMatcher(b, p) ==
  [segment_idx         |-> 1,
   min_text_start_pos  |-> 0,
   match |-> NewCache(IF p \in b.wildcard THEN 0 ELSE LruCapForSegment(b.skeleton[p][1]))]

\* ResetMatcher.  Mistake: only the cache is reset.
ResetMatcherCache(p, i) == [i EXCEPT !.match = NewMatcher(build, p).match]
ResetMatcher(p, i)      == NewMatcher(build, p)

CurrentSegment(p) == Skel(p)[instances[p].segment_idx]

Init ==
  /\ \E inputs \in Inputs : \E input \in inputs :
       /\ build = Compile(input.patterns, input.escape)
       /\ texts = input.texts
  /\ row = 0
  /\ result = [p \in PatternIds |-> FALSE]
  /\ text_offset = 0
  /\ codepoint_idx = 0
  /\ ptr = Root
  /\ queue = {}
  /\ instances = [p \in PatternIds |-> NewMatcher(build, p)]
  /\ dirty = {}
  /\ emit = << >>

-----------------------------------------------------------------------------
(* The delay queue: two matches are never scheduled alike, so it is a set.  *)

Schedule(q, pattern_id, ready_cp_idx, next_patt_offset, prev_patt_offset) ==
  q \cup {[pattern_id |-> pattern_id, next_pattern_pos |-> next_patt_offset,
           prev_pattern_pos |-> prev_patt_offset, ready_cp_idx |-> ready_cp_idx]}

\* Mistake: a match is ready one code point too late.
IsReadyLate(item) == item.ready_cp_idx < codepoint_idx
IsReady(item)     == item.ready_cp_idx <= codepoint_idx

\* top(): any item that is ready no later than the others.
Fronts == {item \in queue : \A other \in queue : item.ready_cp_idx <= other.ready_cp_idx}
FrontReady == \E item \in Fronts : IsReady(item)

\* Mistake: nothing is dropped.
ClearNothing(q) == q
Clear(q) == {}

-----------------------------------------------------------------------------
(* A new row. *)

\* The code point before is over: its matches and its ready items are handled.
CodePointDone == emit = << >> /\ ~FrontReady

\* Drive, as far as the loop: the results are cleared, the patterns without a
\* literal are answered, and ResetText points the iterator at the next row.
Drive ==
  /\ CodePointDone
  /\ text_offset = Len(text)
  /\ row < Len(texts)
  /\ row' = row + 1
  /\ result' = [p \in PatternIds |->
                  /\ p \in build.wildcard
                  /\ SpecialMatchEmptyPattern(build.patterns[p], build.escape, texts[row + 1])]
  /\ instances' = [p \in PatternIds |->
                     IF p \in dirty THEN ResetMatcher(p, instances[p]) ELSE instances[p]]
  /\ dirty' = {}
  /\ queue' = Clear(queue)
  /\ text_offset' = 0
  /\ codepoint_idx' = 0
  /\ ptr' = Root
  /\ UNCHANGED <<buildVars, emit>>

-----------------------------------------------------------------------------
(* One code point. *)

Before(lit1, lit2) ==
  \/ lit1.pattern_id < lit2.pattern_id
  \/ lit1.pattern_id = lit2.pattern_id /\ lit1.start_pos < lit2.start_pos

\* AppendResult: what the literal that ends at the offset end is emitted as,
\* in the order of its bitmap.
MatchesOf(n, end) ==
  LET found == InOrder({lit \in build.literals : lit.keyword = n}, Before)
  IN  [i \in 1..Len(found) |->
         [pattern_id     |-> found[i].pattern_id,
          start_pos      |-> found[i].start_pos,
          literal_len    |-> Len(n),
          text_start_pos |-> end - Len(n)]]

\* What the output links of n lead to: one more of them with each turn of the loop,
\* which ends before it has taken one for each byte of n.
OutputMatches(n, end) ==
  LET follow[i \in 0..Len(n)] ==
        IF i = 0 THEN [out |-> build.outputLink[n], result |-> << >>]
        ELSE LET before == follow[i - 1]
             IN  IF before.out = Null THEN before
                 ELSE [out    |-> build.outputLink[before.out],
                       result |-> before.result \o MatchesOf(before.out, end)]
  IN  follow[Len(n)].result

\* Mistake: the links are followed once and not until one fits.
TransitionOnce(n, cp) ==
  IF Visit(build.trie, n, cp) # Null THEN Visit(build.trie, n, cp)
  ELSE IF n # Root /\ Visit(build.trie, build.suffixLink[n], cp) # Null
       THEN Visit(build.trie, build.suffixLink[n], cp) ELSE Root

\* The node the code point cp leads to from n, down its suffix links: the climb of
\* BuildSuffixLink, from n itself.
Transition(n, cp) == SuffixTarget(build.trie, build.suffixLink, n, cp)

ContinueParseText ==
  LET end  == NextOffset(text, text_offset)
      next == Transition(ptr, SubSeq(text, text_offset + 1, end))
  IN
  /\ CodePointDone
  /\ text_offset < Len(text)
  /\ ptr' = next
  /\ emit' = MatchesOf(next, end) \o OutputMatches(next, end)
  /\ text_offset' = end
  /\ codepoint_idx' = codepoint_idx + 1
  /\ UNCHANGED <<buildVars, row, result, queue, instances, dirty>>

-----------------------------------------------------------------------------
(* One match.  m is the match, i the matcher of its pattern, seg its segment. *)

\* The match is one of this segment, and not too early in the text.
BelongsHere(m, i, seg) ==
  HasOffset(seg, m.start_pos) /\ m.text_start_pos >= i.min_text_start_pos

\* The first literal of a segment: anchored, or anywhere behind the leading
\* underscores.
FirstFits(m, i, seg) ==
  LET head_end == Utf8Advance(text, i.min_text_start_pos, seg.prefix_underscore_cnt)
  IN  /\ head_end # NoOffset
      /\ IF seg.has_prefix_percent THEN m.text_start_pos >= head_end
         ELSE i.segment_idx = 1 /\ m.text_start_pos = head_end

\* Any other one: the alignment it belongs to is known, and was left by the
\* literal right before it.
Diff(m) == m.text_start_pos - m.start_pos
NextFits(m, i, seg) ==
  /\ Contain(i.match, Diff(m))
  /\ IsPreviousLiteral(seg, ValueOf(i.match, Diff(m)), m.start_pos)

\* TryMatchingLiteral returns true.
TryMatchingLiteral(m, i, seg) ==
  /\ BelongsHere(m, i, seg)
  /\ IF IsFirstLiteral(seg, m.start_pos) THEN FirstFits(m, i, seg) ELSE NextFits(m, i, seg)

\* The matcher after the call: an alignment that was looked up is gone, also
\* if the literal did not fit it.
AfterTry(m, i, seg) ==
  IF BelongsHere(m, i, seg) /\ ~IsFirstLiteral(seg, m.start_pos) /\ Contain(i.match, Diff(m))
  THEN [i EXCEPT !.match = GetAndRemove(@, Diff(m))] ELSE i

\* How many code points the next literal has to wait for: u32 arithmetic.
UnderscoreCount(m, seg) ==
  (GetNextLiteralOffset(seg, m.start_pos) - m.start_pos - m.literal_len) % U32Size

SegmentTailEnd(m, seg) ==
  Utf8Advance(text, m.text_start_pos + m.literal_len, seg.suffix_underscore_cnt)

ValidLastLiteral(p, i, tail_end) ==
  \/ i.segment_idx < Len(Skel(p))
  \/ Last(Skel(p)).has_suffix_percent
  \/ tail_end = Len(text)

\* AdvanceNextSegment: past the last segment the cache keeps what it has.
AdvanceNextSegment(p, i, tail_end) ==
  [segment_idx        |-> i.segment_idx + 1,
   min_text_start_pos |-> tail_end,
   match |-> IF i.segment_idx < Len(Skel(p))
             THEN NewCache(LruCapForSegment(Skel(p)[i.segment_idx + 1])) ELSE i.match]

\* The pattern has matched this row: its matches are of no interest any more.
SkipMatch ==
  /\ emit # << >>
  /\ result[Head(emit).pattern_id]
  /\ emit' = Tail(emit)
  /\ UNCHANGED <<buildVars, textVars, result, queue, instances, dirty>>

\* The body of the loop of IterateOneCodePoint.
HandleMatch ==
  LET m     == Head(emit)
      p     == m.pattern_id
      i     == instances[p]
      seg   == CurrentSegment(p)
      tried == AfterTry(m, i, seg)
      tail  == SegmentTailEnd(m, seg)
  IN
  /\ emit # << >>
  /\ ~result[p]
  /\ emit' = Tail(emit)
  /\ dirty' = dirty \cup {p}
  /\ \/ /\ ~TryMatchingLiteral(m, i, seg)
        /\ instances' = [instances EXCEPT ![p] = tried]
        /\ UNCHANGED <<result, queue>>
     \/ /\ TryMatchingLiteral(m, i, seg)
        /\ ~IsLastLiteral(seg, m.start_pos)
        /\ instances' = [instances EXCEPT ![p] = tried]
        /\ queue' = Schedule(queue, p, UnderscoreCount(m, seg) + codepoint_idx,
                             GetNextLiteralOffset(seg, m.start_pos), m.start_pos)
        /\ UNCHANGED result
     \/ /\ TryMatchingLiteral(m, i, seg)
        /\ IsLastLiteral(seg, m.start_pos)
        /\ tail = NoOffset \/ ~ValidLastLiteral(p, i, tail)
        /\ instances' = [instances EXCEPT ![p] = tried]
        /\ UNCHANGED <<result, queue>>
     \/ /\ TryMatchingLiteral(m, i, seg)
        /\ IsLastLiteral(seg, m.start_pos)
        /\ tail # NoOffset /\ ValidLastLiteral(p, i, tail)
        /\ instances' = [instances EXCEPT ![p] = AdvanceNextSegment(p, tried, tail)]
        /\ result' = [result EXCEPT ![p] = i.segment_idx = Len(Skel(p))]
        /\ UNCHANGED queue
  /\ UNCHANGED <<buildVars, textVars>>

\* One turn of ProcessDelayedMatching: the next literal may come here.
ProcessDelayedMatching ==
  /\ emit = << >>
  /\ \E item \in Fronts :
       /\ IsReady(item)
       /\ queue' = queue \ {item}
       /\ instances' =
            [instances EXCEPT ![item.pattern_id].match =
               Upsert(@, text_offset - item.next_pattern_pos, ToU16(item.prev_pattern_pos))]
  /\ UNCHANGED <<buildVars, textVars, result, dirty, emit>>

RowOver == row > 0 /\ CodePointDone /\ text_offset = Len(text)

Finished == row = Len(texts) /\ RowOver /\ UNCHANGED vars

Next ==
  \/ Drive
  \/ ContinueParseText
  \/ SkipMatch
  \/ HandleMatch
  \/ ProcessDelayedMatching
  \/ Finished

Spec == Init /\ [][Next]_vars

-----------------------------------------------------------------------------
(* Safety. *)

\* The positions of two literals in a row of a segment of pattern p.
InARow(p) ==
  UNION {{<<seg.literal_offset[n], seg.literal_offset[n + 1]>> :
            n \in 1..(Len(seg.literal_offset) - 1)} : seg \in ToSet(Skel(p))}

\* A match is of a literal there is, at code points of the row, and ends here.
EmittedOk(m) ==
  /\ \E lit \in build.literals :
       /\ lit.pattern_id = m.pattern_id /\ lit.start_pos = m.start_pos
       /\ Len(lit.keyword) = m.literal_len
  /\ m.text_start_pos \in CodePointStarts(text)
  /\ m.text_start_pos + m.literal_len = text_offset

\* A scheduled match is of two literals in a row.
ScheduledOk(item) ==
  /\ item.pattern_id \in PatternIds \ build.wildcard
  /\ <<ToU16(item.prev_pattern_pos), item.next_pattern_pos>> \in InARow(item.pattern_id)
  /\ item.ready_cp_idx \in Nat

\* An alignment in the cache of pattern p waits for a literal, and does not begin
\* behind what has been read.
AlignmentOk(p, e) ==
  /\ e.key \in Int /\ e.key <= text_offset
  /\ \E pair \in InARow(p) : pair[1] = e.value

\* What the walk changes keeps its type: what is emitted, scheduled or cached is about
\* literals and offsets that exist, and no cache outgrows its bound.
TypeOK ==
  /\ row \in 0..Len(texts)
  /\ result \in [PatternIds -> BOOLEAN]
  /\ text_offset \in CodePointStarts(text)
  /\ codepoint_idx \in 0..Len(text)
  /\ ptr \in LinkNodesOf(build.trie)
  /\ dirty \subseteq PatternIds
  /\ \A n \in 1..Len(emit) : EmittedOk(emit[n])
  /\ \A item \in queue : ScheduledOk(item)
  /\ \A p \in PatternIds :
       LET cache == instances[p].match
       IN  /\ instances[p].min_text_start_pos \in CodePointStarts(text)
           /\ Len(cache.items) <= cache.max_size
           /\ \A n \in 1..Len(cache.items) : AlignmentOk(p, cache.items[n])

Expected(p) == Matches(build.patterns[p], text, build.escape)

\* The join is sound: no pattern is ever reported for a row that is not LIKE it.
NoFalseMatch == \A p \in PatternIds : row > 0 /\ result[p] => Expected(p)

\* The join is complete: when a row has been read, every pattern the row is LIKE
\* has been reported, by a matcher that has seen each byte once and keeps no more
\* than a bounded number of alignments.
NoMissedMatch == RowOver => \A p \in PatternIds : Expected(p) => result[p]

\* The matchers start every row as if they were new, whatever the rows before
\* did to them: ResetText visits all it has to.
FreshAtRowStart ==
  row > 0 /\ text_offset = 0 =>
    /\ instances = [p \in PatternIds |-> NewMatcher(build, p)]
    /\ queue = {}

\* A matcher is behind its last segment exactly if its pattern is reported, so
\* the segment of a match that is handled exists.
SegmentExists ==
  \A p \in PatternIds \ build.wildcard :
    IF result[p] THEN instances[p].segment_idx = Len(Skel(p)) + 1
    ELSE instances[p].segment_idx \in 1..Len(Skel(p))

\* A scheduled match is applied at the very code point it waits for, when the
\* text offset is the one its literal has to start at.
NothingLate == \A item \in queue : item.ready_cp_idx >= codepoint_idx

\* The assertion of TryMatchingLiteral: the next literal starts behind this one,
\* so the code points to wait for are not a negative number in unsigned clothes.
NextLiteralIsBehind ==
  LET m   == Head(emit)
      seg == CurrentSegment(m.pattern_id)
  IN  (/\ emit # << >>
       /\ ~result[m.pattern_id]
       /\ TryMatchingLiteral(m, instances[m.pattern_id], seg)
       /\ ~IsLastLiteral(seg, m.start_pos))
        => GetNextLiteralOffset(seg, m.start_pos) >= m.start_pos + m.literal_len

(* What a step must do. *)

\* Reading a code point emits every literal that ends behind it, whatever node
\* the automaton is at, and none of them twice (the assertion at the end of
\* ContinueParseText).
EmitWhatEndsHere ==
  text_offset' > text_offset =>
    LET read   == SubSeq(text, 1, text_offset')
        ending == {lit \in build.literals : IsSuffix(lit.keyword, read)}
    IN  /\ Cardinality(ToSet(emit')) = Len(emit')
        /\ ToSet(emit') =
             {[pattern_id     |-> lit.pattern_id,
               start_pos      |-> lit.start_pos,
               literal_len    |-> Len(lit.keyword),
               text_start_pos |-> Len(read) - Len(lit.keyword)] : lit \in ending}

EmitsWhatEndsHere == [][EmitWhatEndsHere]_vars
=============================================================================
