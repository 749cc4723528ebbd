# A verification project for the wildcard join

The repository answers a join of many LIKE patterns with many texts. It cuts
the patterns into literals, files the literals in one Aho-Corasick automaton
whose trie is built concurrently, runs every text through the automaton once,
and lets one small matcher per pattern put the literals it hears about back
together. These modules model that program as it is under `src/`, check the
models with TLC on small instances, and prove theorems about them with TLAPS
for every instance.

Run a check with `tlc -config <run>.cfg <module>` (run
`X.cfg` or `X_*.cfg` with module `MCX`), and a proof with `tlapm KMPProofs.tla`. Source paths below leave out the
leading `src/` of the repository's copy: `src/parser.cc` is the library's file.

## Inventory

| Component | State | Operations | Hard about it | What makes it correct |
| - | - | - | - | - |
| Trie, `include/art/node.h`, `tree.h` | 256 child pointers, a version word with a lock bit, a count, a code-point label and two links per node | `Tree::insert`, the lock steps of `N256`, `getChildren`, teardown | threads insert with optimistic lock coupling: reads overlap writes and are validated later, failed checks restart | no keyword lost or doubled, one writer per node, leaves only under NUL, right labels, restarts end |
| Literal map, `aho_corasick.cc` | id counter, concurrent map id → (length, bitmap) | `Insert` and its two callbacks, run under a node's lock | the bitmap is not thread safe; the entry must exist before the leaf | dense ids, exact occurrences, linearizability |
| Links, `aho_corasick.cc` | a breadth-first queue; suffix and output link of each code-point node | `BuildSuffixLink`, `VisitCodePoint` | byte-wise walk, code-point-wise links; the order decides whether a followed link is set | links are the longest suffixes |
| `Tokenizer` | two cursors, an escape count | `NextSegment`, `NextLiteral`, `StripEscapes` | two functions must agree on what an escape is | offsets and literals agree |
| `Skeleton` | segments: literal offsets, underscore counts, % flags | the constructor, folding, `Utf8Advance`, `SpecialMatchEmptyPattern` | code points against bytes; segments without a literal | the skeleton means what the pattern means |
| `Matcher` | segment index, earliest start, alignments in an LRU cache | `TryMatchingLiteral`, `AdvanceNextSegment`, `Reset` | bounded cache with silent eviction, unsigned differences, removal before the test | no false and no missed match |
| `LRUCache` | a list, and a hash map of iterators into it | `Upsert`, `GetAndRemove`, `Contain`, `Reset` | capacity; list and map change one after the other | no stale iterator; least recent out |
| Hash map, `common/flat_map.h` | a dense vector of values, buckets with distance and index, a shift count | insertions, erasures, lookup, `replace`, `replace_key`, `reserve`, `rehash`, copies, moves | Robin Hood probing, backward shift, values that move, growth, a largest size | a partial function from keys to values |
| `DelayedMatchQueue` | binary heap | `Schedule`, `Front`, `Pop`, `Clear` | ties in the heap | matches ripen exactly on time |
| `TextParserIterator`, `parser.cc` | text position, automaton node, queue, matchers, dirty list, emit buffer | `ResetText`, `IterateOneCodePoint`, `ContinueParseText`, `ProcessDelayedMatching` | state reused across rows, order of emits at one code point | every row starts fresh, every literal is emitted once |
| LIKE oracle, `benchmark/reference.h` | none | `NljRecursiveMatch` | – | the reference the others are held against |
| UTF-8, `common/utf8.h`, `NextUtf8Char` | none | reading and writing code points | boundaries at the end of a buffer; two decoders | one notion of where a code point ends; what is written is read back |
| KMP, `kmp/kmp.h` | border table | constructor, `Match` | fallbacks on overlapping borders | finds exactly what occurs |
| `common/util.cc` | a shared atomic | `UpdateMax`, `UpdateMin` | compare-and-exchange race, spurious failure | no update lost |
| `third_party/`, `perf_event.h`, benchmarks, SQL and shell scripts | – | – | – | not modelled: vendored code, measurement, drivers |

How they interact: `PatternAnalyzer` tokenizes each pattern once, keeps its
skeleton and calls `AhoCorasick::Insert` for each literal (a call; from several
threads if the builder uses them: `test/test_concurrent_art.cc`). `Insert`
passes two callbacks to `Tree::insert`, which calls them while it holds a
node's lock. When all threads have joined, `BuildSuffixLink` runs alone. From
then on trie, links, literals and skeletons are read only, and each
`TextParserIterator` owns everything it changes. Concurrency is therefore a
matter of the trie and the literal map, and of `UpdateMax`; what is hard behind
the build is the order of steps within one row and the state that survives it.

## Modules

| Module | Models | Uses |
| - | - | - |
| `Utf8` | where code points end | |
| `Utf8Codec` | the writers, the readers and `NextUtf8Char` on one buffer | `Utf8` |
| `ArtTree` | concurrent `Insert`: nodes, versions, the walk, both callbacks | `Utf8` |
| `ArtTreeLifetime` | `ArtTree`, and then `~Tree`; its inductive invariant `LifetimeInv` | `ArtTreeInductive` |
| `LiteralIndex` | abstract: an index with atomic calls | |
| `ArtTreeRefinement` | the mappings from `ArtTree` to `LiteralIndex`, and from its nodes to `Trie` | `ArtTree`, `Trie` |
| `ArtTreeInductive` | the inductive invariant `FullInv`: `IInv`, what threads know, `IndexInv`, what the trie holds, `NodesOnKeys`, what its nodes are | `ArtTree` |
| `ArtTreeIndexProofs` | theorems about the protocol, from `IInv`, about the contents, from `FullInv`, the refinement, the trie in memory, and about the destructor, from `LifetimeInv` | `ArtTreeRefinement`, `ArtTreeInductive`, `ArtTreeLifetime`, `CommonLemmas` |
| `Order` | a set as a sequence in a given order | |
| `Trie` | the trie of a set of keywords, as a function | `Utf8` |
| `Automaton` | the links on it, as functions | `Trie`, `Order` |
| `AutomatonProofs` | lemmas: suffixes, tries, climbs | `Automaton`, `CommonLemmas` |
| `SuffixLinks` | `BuildSuffixLink`, one queue item per step, and its inductive invariant | `Automaton` |
| `SuffixLinksProofs` | theorems | `SuffixLinks`, `AutomatonProofs` |
| `Tokenizer`, `Skeleton`, `LRUCache` | pure parts of the compiled pattern and the matcher | `Utf8` |
| `FlatTable` | the hash map: its fields as a record, an operator per member function | |
| `MapSpec` | abstract: a partial function with a number of entries it has room for | |
| `FlatMap` | the map's public calls in any order; implements `MapSpec` | `FlatTable`, `MapSpec` |
| `FlatMapProofs` | lemmas about rings of buckets and about tables, theorems about the map and the cache | `FlatMap`, `LRUCacheMap`, `CommonLemmas` |
| `LRUCacheSpec` | abstract: the calls of `LRUCache` as steps | `LRUCache` |
| `LRUCacheMap` | the cache's list and map of iterators; implements `LRUCacheSpec` | `FlatTable`, `LRUCacheSpec` |
| `Like` | the recursive reference matcher | `Tokenizer`, `Utf8` |
| `Probe` | rows through one iterator: automaton, queue, matchers | `Skeleton`, `LRUCache`, `Like`, `Automaton` |
| `ProbeProofs` | theorems | `Probe`, `AutomatonProofs` |
| `KMP`, `KMPProofs` | the table and `Match`, theorems | `Utf8`, `CommonLemmas` |
| `AtomicMax` | `UpdateMax` | |
| `UtilProofs` | theorems about `UpdateMax` and about the codec | `AtomicMax`, `Utf8Codec`, `CommonLemmas` |
| `CommonLemmas` | lemmas: induction over sets of numbers, iteration, ranks, code points | `Utf8` |
| `MC*` | instances for TLC | |

### ArtTree

A node is a number, a leaf a negative number that carries its literal's id (the
tag in the pointer's high bit). `versionLock` is the version word: even when
free, odd when locked. A thread's `pc` says which shared access comes next, and
`node`, `nextNode`, `parentNode`, `level`, `v`, `parentVersion` are the locals
of `Tree::insert` under their names there. The actions, in the order of the
code:

| Action | Code |
| - | - |
| `ReadLock` | `readLockOrRestart` on the node reached, `tree.h:88` |
| `ReadChild` | `getChild`, `tree.h:92` |
| `Validate` | the fence and `readUnlockOrRestart`, `tree.h:100-104` |
| `CheckParent` | the parent's version, then leaf or one level down, `tree.h:123-141` |
| `InsertCheckParent`, `InsertLock` | `insertAndUnlock` up to the lock, `node.h:107-112` |
| `NewTid`, `Emplace` | the new-key callback, `aho_corasick.cc:18-24` |
| `Publish` | the rest of `generateVal` and the release store, `tree.h:108-116`, `node.h:113-117` |
| `CountRead`, `CountWrite`, `Unlock` | `count++`, `writeUnlock`, `node.h:118-119` |
| `UpsertLock`, `UpsertRead`, `UpsertWrite` | a duplicate keyword, `tree.h:132-137`, `aho_corasick.cc:25-28` |
| `Restart` | any check that fails |

The chain of private nodes `generateVal` builds is not reachable by anyone
before the store, so building it and the store are one step. What the model
takes for granted is a sequentially consistent interleaving of these accesses.
The code earns it where it matters: the versions are sequentially consistent
atomics, the child pointer is published with a release store and read before an
acquire fence (`tree.h:93-100`), and everything else is written under the lock
or before publication. Three operations that are no atomics are two steps each:
`bitmap.add`, `count++` and the two halves of `new_tid`, so that the lock, and
not the model, keeps them apart. With a store in place of the
compare-and-exchange, `CountIsChildren` fails.

`ArtTreeLifetime` goes on when every thread is done: `Destroy` enters
`deleteChildren(root)`, `DeleteChild` is one turn of its loop with the call it
makes, `DeleteNode` the return from it and the caller's `deleteNode`. The C
stack is the variable `frames`, what has been freed the sequence `freed`.

### FlatTable, FlatMap and LRUCacheMap

`LRUCache` and `Skeleton::Segment` keep their entries in
`ankerl::unordered_dense::map`, which the repository carries as a header of its
own. `FlatTable` has the private member functions of its `table` under their
names, from a table to a table; `FlatMap` has one action per public call
(`insert` and `emplace_hint` are `Emplace`, the two `extract`s that take an
iterator are `EraseIterator`, constructors with entries are `Init` and
insertions). A probe loop is the first step at which it stops (`First`): step n
looks n buckets behind the key's home, at distance n + 1. A hash is given by the
two parts the table looks at, its high bits (the home bucket) and its low byte
(the fingerprint), and an instance chooses both so that keys collide in either
or both. The variable `reply` holds the last call and its result, so that
`ImplementsMap` says of each call what it must do and return.

`LRUCacheMap` is that table from keys to iterators beside a list. An iterator is
a node's number; numbers are reused as soon as a node is erased, so an iterator
kept too long is not merely dead but leads to somebody else's entry. `Probe`
uses the list alone (`LRUCache`), which `ImplementsCache` justifies.

### Utf8Codec

A buffer is filled with code points as long as they fit, cut at any byte, and
read from its begin. `multiByteSequenceLength` is the one of `Utf8`, on which
the trie and the matcher depend.

### SuffixLinks and Probe

`HeapIsTrie` is where `ArtTree` meets them: the nodes in memory, read as strings,
are `TrieOf` the keywords that are in, labels included, in every state of every
interleaving (`HeapMatchesTrie`). After the build a node is the string of bytes that leads to it, which makes
"longest proper suffix" a statement about strings. `SuffixLinks` runs the
breadth-first walk and never looks at that definition; `LinksAreLongest`
compares the two at the end. `Probe` starts behind the build and takes the links
for what the walk leaves, `SuffixLinksOf` and `OutputLinksOf` of `Automaton`:
`LinksRightAtEnd` is the theorem that the walk leaves just these.

`Probe` has one step per new row (`Drive`), code point (`ContinueParseText`),
emitted match (`HandleMatch`, or `SkipMatch` when the pattern has matched) and
ripe queue item (`ProcessDelayedMatching`). `HandleMatch` has the four outcomes
of the loop body: the literal does not fit; it fits and the next one is
scheduled; it is the last and the tail does not fit; it is the last and the
segment, or the pattern, is done. Matches are handled in the order the code
emits them; items that ripen together are handled in any order, since a heap
promises none.

## Runs

| Run | Instance | States | Shows |
| - | - | - | - |
| `ArtTree` | 3 threads, 5 keywords: a prefix of another, two 3-byte code points that differ in the last byte, a duplicate given with its NUL | 45 308 | the safety of insertion, `LifetimeInv`, on which its proofs rest, the refinement to `LiteralIndex`, the trie in memory, that every call returns, and that the destructor frees everything once |
| `SuffixLinks` | 2 226 sets of up to 3 keywords of up to 3 code points of 1, 2 or 3 bytes | 31 498 | whatever is climbed is linked by then (`IInv` says why); the links are the longest suffixes |
| `Probe` | one pattern, one row: every pattern of ≤ 4 pieces of a, é, %, _ on every text of ≤ 5 of a, é; of ≤ 6 of a, %, _ on ≤ 5 of a, b; of ≤ 4 of a, %, _, `!%`, `!_` on ≤ 3 of a, %, _; and 6 and 3 patterns sharing literals, on every two rows of ≤ 4 letters; and four patterns with a literal at the last offset there is, on texts of ≤ 7 of a, é | 977 209 | yes exactly when the reference says yes, nothing late, no negative gap; patterns and rows do not disturb each other; what is emitted is exactly what ends there |
| `FlatMap` | 4 keys in up to 8 buckets (two hash functions), 5 keys in at most 4 buckets (one), four containers, a load factor raised to 100 % | 13 054 | buckets and values agree, a probe may stop where it does, find is exact, and the table implements a partial function |
| `LRUCacheMap` | 4 keys, one of them with two values, capacities 0, 1 and 3, two hash functions | 20 004 | no stale iterator; list and map implement the list `Probe` uses |
| `Utf8Codec` | the first and last code point of each length, up to 3 of them, buffers of 3, 8 and 13 bytes, every cut | 59 682 | what is written is read back, moving back finds the begin, the two decoders agree |
| `KMP` | every pattern of ≤ 5, every text of ≤ 7 bytes over two letters | 116 340 | `Match` finds exactly what occurs |
| `AtomicMax` | 4 threads, a value below the initial one, a tie at the top | 299 | no update lost |

The bounds and why they are enough. Three threads let a reader, a writer and a
second writer meet at one node; the five keywords give a prefix that ends inside
another's path, a duplicate that races with its first insertion, and a code
point whose last byte hangs off a node that another keyword made. `MaxNodes` is
two more than the seven these keywords need (a run that ran out would deadlock,
and deadlock is checked); versions, ids and counts are not bounded, since the number
of calls is. For links, four code points of three widths give suffixes whose
first bytes agree and whose last do not. For the probe, four pieces with two
letters of different width have every combination of anchored, free, folded and
trailing underscores; six pieces of one letter give overlapping alignments.
For the hash
map, the hash functions make keys share a home and a fingerprint, a home alone,
a fingerprint alone, and a run that wraps around the end; eight buckets is one
growth from the four a table starts with, and four buckets with five keys is the
largest size at which a table must turn a key away (`max_bucket_count` is 2^32
in the code). `View` leaves `reply` out of a state's fingerprint: no action
reads it, and an action property is evaluated on every step, also on one whose
end has been seen.
`U16Size` is 8 in `Probe`: with a literal at offset 7 the run is at the last
pattern length a u16 offset is good for (with 7 it fails); in the code it is
2^16. `U32Size` stands for 2^32 (TLC counts to 2^31): all that matters is that it
exceeds every code point index, so that a wrapped difference is never reached.

Four runs end in a violation, each of one property with one input:

| Run | Input | What the code does |
| - | - | - |
| `Probe_Capacity` | `%a_aaaaa` on `aaaaaaa` | capacity 4, five live alignments: the right one is evicted, the match is missed. `skeleton.cc:131` says the capacity must accommodate every live alignment |
| `Probe_EscapedEscape` | `%!!%` on `a!b`, escape `!` | the % after an escaped escape is not a wildcard: missed. `tokenizer.h:36` and `test_matching.cc:358` treat `!!` as a literal `!` |
| `Probe_EscapedRun` | `!!!!!!a_b` on `!!!aab` | five escapes counted, three dropped: the assertion at `skeleton.cc:215` fails |
| `KMP_FirstPosition` | any match | `Match` returns the pattern's length, not "the first matching position" of `kmp.h:30` |

Preconditions of the passing runs, from these: an escape byte only before % or
_, and no cache at its limit. The first restricts the inputs with an escape. It
also leaves out an escape before an ordinary byte, where the code is of two
minds (`StripEscapes` drops the escape, `NextLiteral` does not count it, so
`!a_b` misses `aab`); the comment on `Tokenizer` does not allow it. The second
follows from the six pieces: an alignment is live for as many code points as its
literal has, the capacity is more than that literal's offset, which is at least
3 behind a %, a literal and a _, so the shortest pattern with more live
alignments than capacity has eight bytes. Both are stated here because no
assertion of the code states them. Also: patterns and texts are valid UTF-8
without a NUL byte (`InputsAssumption`, `KeywordSetsAssumption`: `VisitCodePoint`
would follow a NUL to a leaf), no literal is empty after its escapes are removed
(asserted by `Insert`), and no literal starts at or
behind the offset 2^16, where u16 offsets wrap. The hash map's runs take no more entries than the largest
table holds under its load factor (`Fits`: beyond it `calc_shifts_for_size` and
`reserve` have no sensible answer), no load factor above 100 %, keys whose hash
and comparison do not throw, and iterators of the table they are given to.
`GetAndRemove` is called for a key that is there (asserted). A written code
point is below 2^31 (TLC's integers; above, both writers write nothing).

## Fairness

`FairSpec` of `ArtTree` is weak fairness of each thread's next step: the threads
are operating-system threads, and a restart yields the processor after the third
time. No fairness between the checks of one thread and the steps of another is
assumed; `AllInserted` holds because a version only moves when some other insert
makes progress, and there are finitely many. It does not show a bound on the
restarts of one thread while others keep inserting. The probe and the build are
sequential programs that end after finitely many steps; their runs check
deadlock and what holds at the end. `LifetimeFairSpec` is the same fairness with
the destructor added. `FlatMap` and `LRUCacheMap` are libraries: nothing makes a
caller go on. `Utf8Codec` stops when the buffer is read, so its run does not
check deadlock.

## Proofs

The first part of `ArtTreeIndexProofs` proves, for any set of threads, any calls, any byte values and
any number of nodes (`JobsAssumption`, `BytesAssumption`, `MaxNodesAssumption`):

- `TypeCorrect`: `TypeOK`. Not by shape: `node[t]` stays a node only because the
  walk tells a leaf from a node, and `literal_map[auxIndex(...)]` is defined only
  because a published leaf has its entry.
- `MutualExclusion`: `WriteLockExclusive`.
- `LeavesUnderNul`: `LeafOnlyUnderNul`, which `Tree::insert` relies on when it
  takes any leaf for a duplicate.
- `SlotsWrittenOnce`: `SlotWrittenOnce`, so no published subtree is dropped.
- `Invariance`: `IInv`, from which the others follow.

None of these is inductive alone. A step writes what its thread has decided on
reads made several steps earlier, so `IInv` has to say what a thread knows:
`ReadVersion` and `ReadStillValid` (as long as the version has not moved since
it was read, the slot still holds what was read), which the successful
compare-and-exchange turns into `WriterHoldsLock` and `SlotStillFree`, which
make the store safe; `ReadPointer` ties the pointer read to the byte it was read
under; `HeldLiteralExists` and `LeavesHaveLiterals` tie leaves to entries. The
key lemma, `UpgradeStep`, is the moment optimistic knowledge becomes a lock.
`OtherThreadsKeep` says once what a step may do to the shared words without
disturbing another thread's part; each action then has a lemma of its own for
what it does to its thread and to the nodes.

These theorems are about `Spec` of `ArtTree`; the run checks the same properties
also while the destructor runs, which leaves all of `ArtTree`'s variables alone
(`LifetimeIsSpec`: `LifetimeSpec => Spec`).

The second part goes on, under the same assumptions and
`ThreadsAssumption` (finitely many threads), to what the trie contains:

- `NoInsertIsLost`, `NothingIsInvented`, `IdsAreDense`, `NodesOwnedOnce`,
  `CountsRight`: `InsertedStaysFound`, `OccurrencesExact`, `LiteralIdsDense`,
  `EveryNodeOwnedOnce`, `CountIsChildren`.
- `FullInvariance`: `FullInv`, from which these follow. `IInv` speaks of one node
  at a time; a keyword is found along a path of nodes. `IndexInv` therefore says
  that the slots form a tree (every node but the root has one slot and hangs above what it
  made), that each id is in one leaf or in the hands of one thread, that
  every walk stands on the path of its key, that the count a `count++` has loaded
  is still there, and what each finished call has left.
- `InsertIsLinearizable`: `ImplementsLiteralIndex`. `Publish` is the abstract
  insertion of a new keyword, `UpsertWrite` that of a known one, `Unlock` the
  return; every other step leaves the abstract index alone, which for the many
  steps of a walk that write nothing is immediate, and for `Emplace` is not (the
  entry is there, and no reader may see it yet).
- `HeapMatchesTrie`: `HeapIsTrie`. `NodesOnKeys`, the third part of `FullInv`,
  says that every node is on the path of a keyword that is in, and labelled as
  that keyword has it there. Nodes reached level by level are then places on
  such paths (`ReachedArePlaces`), and conversely every place on the path of a
  keyword that is found is reached within as many levels as there are nodes
  (`FoundPath`, since no path meets a node twice). A node is labelled once, by
  the first keyword through it; that all the others would label it the same
  (`SharedLabel`) needs that no keyword ends inside a code point
  (`KeywordsAssumption`: literals are cut from valid UTF-8 at code points).
- `LifetimeInvariance` and `NothingFreedTwiceOrLeft`: `LifetimeInv` and
  `FreedExactlyOnce`, of `LifetimeSpec`. The destructor has no set of what it
  visited, only its stack; that it meets nothing twice is a fact about the trie
  it finds, in which each pointer hangs in one slot (`IndexInv`). `DestroyInv`
  says how far the walk is: what is freed has nothing unfreed below it
  (`GoneBelow`), in a frame the slots still to come to are unvisited and the
  others freed but for the child the next frame is in (`FrameSplits`), and below
  a node not visited nothing is (`UnvisitedBelow`). So a pointer that is taken up
  was not visited through another slot. That nothing is left at the end
  (`AllGone`) needs `FullInv` again: every node is on the path of a keyword that
  is in, and on a path each node hangs under one that is freed.

`UtilProofs` proves `ReturnedIsCounted`, `NeverLowered` and
`LargestRemains` of `UpdateMax` for any number of threads and any values, from
the invariant that what a thread has seen is no more than what is there, and
that the value is the initial one or somebody's.

Of the codec it proves, for all code points below 2^31 and any sizes of buffers
(`CodePointsAssumption`, `WriterLimitsAssumption`; any number of code points):

- `ReadBackAsWritten`, `BeginIsFound`, `SameCodePoints`: `RoundTrip`,
  `BackIsBegin`, `DecodersAgree`. TLC tries the ends of each length; in between
  it is arithmetic. `High(c, j)` is what is left of a code point without its
  lowest j times six bits, so each byte behind the header takes one step from
  `High(c, j)` to `High(c, j - 1)` and the reader takes it back
  (`ReadSequenceIs`). The highest bits fit below the ones of the header
  (`HeaderHasRoom`), and the number of ones tells the length again
  (`HeaderIs`): without this the readers would take one length for another, or
  a header for a byte that continues.
- `CodecInvariance`: `CodecInv`. The buffer holds the code points accepted, each
  at the sum of the lengths before it (`Stored`), and what is read so far is a
  beginning of them and at most one '?' (`ReadSoFar`). Every byte is then in
  one code point (`WhichCodePoint`), in which only the first is no
  continuation (`FirstByteIs`), so moving backwards cannot stop early.

`KMPProofs` proves `MatchPosIsLongest` and `FoundIffOccurs` for every pattern and
text of `InputsAssumption`. Both loops fall back through the table in the
same way. `FallbackIsLargest` says of that fallback, by induction over the
length it starts from, that it ends at the longest border the next byte
continues; `ByteKeepsLongest` that one byte keeps the matched prefix longest.
From these the table is right up to each length in turn, and the text
position by position.

`CommonLemmas` and `AutomatonProofs` have what the automaton rests on: that code
points partition a text and that it may be cut and joined there, that a suffix
at a code point of a suffix is a suffix, that a prefix-closed set of strings is
what `TrieOf` builds, and `ClimbFindsBest`: if the links of all shorter nodes
are right, the climb of `BuildSuffixLink` ends at the longest suffix that can be
followed. `SuffixLinksProofs` proves, for any sets of keywords whose code points
are whole (`KeywordSetsAssumption`: valid UTF-8, and no empty literal, which
`NextLiteral` never returns):

- `LinksRightAtEnd`, `ChainsReach`, `TypesRight`: `LinksAreLongest`,
  `ChainsReachRoot`, `TypeOK`.
- `Invariance`: `IInv`. The code follows links without asking whether they
  are set. They are because the walk is breadth first: the depths in the queue
  are in order and differ by at most one (`BreadthFirst`), and a node without links has a
  proper prefix in the queue (`StillToVisit`), so whatever is no longer than the head of the queue
  has links (lemma `ShorterIsLinked`), and a climb only meets such nodes. When
  the queue is empty nothing is left to visit.

`ProbeProofs` proves for any patterns and rows of `InputsAssumption` (literals
and rows are valid UTF-8, no literal is empty; with any escape byte and any
`U16Size`) the properties of `Probe` that no capacity limits:

- `RowsStartFresh`: `FreshAtRowStart`. `ResetText` resets only the matchers on
  the dirty list, and `RowInv` says that a matcher off the list is as good as
  new and nothing scheduled belongs to one.
- `EmitsExactly`: `EmitsWhatEndsHere`, the correctness of the automaton.
  `ReadInv` says that the iterator stands at the longest node that is a suffix,
  from a code point on, of what it has read of the row. By `ReadKeepsLongest`
  one climb along the suffix links keeps that so. Every literal that ends here
  is then that node or a suffix of it, and `OutputMatchesAre`, an induction over
  the length of a node, says that the output chain visits all of those and each
  once. That literals are not empty and made of whole code points is used here.
- `SegmentsExist`, `NothingIsLate`: `SegmentExists`, `NothingLate`, from `MatchInv`:
  a matcher has a segment left until its pattern is reported; its cache holds no
  more entries than its capacity; what is queued belongs to a pattern with a
  literal and is due at this code point or later. It
  needs of the compiled pattern that folding leaves at least one segment
  (`FoldIs`) and no negative underscore count, so `Schedule` never asks for a
  code point that has gone by. The lemmas `SpansAre` to `SkeletonIs` say so of
  tokenizer and skeleton.
- `TypesKept`: `TypeOK`, which says of everything emitted, scheduled and cached that
  it is about literals and offsets that exist. `AlignInv` carries it from the
  skeleton's offsets into queue and caches: a pair is scheduled, and an alignment
  kept, only for two literals in a row of one segment (`InARow`). That what is
  emitted is a literal of the patterns that ends here is a part of `SoundInv` (below).
- `JoinIsSound`: `NoFalseMatch`, and `NextIsBehind`: `NextLiteralIsBehind`,
  for the patterns that are `SimplePattern`: the escape byte is ASCII and stands
  only before `%` or `_`, every literal starts below `U16Size`, and the pattern
  is shorter than 2^32. These are the preconditions above (the capacity apart), and
  all inputs of the run `probe` satisfy them; what goes wrong without the first is in
  `Probe_EscapedRun`, and with an offset of `U16Size` in a `Probe` of `U16Size` 7.
  A pattern that is simple is answered soundly
  also next to others that are not. No capacity is assumed: whatever a full
  cache drops, what is reported is true.

The soundness of the join has four layers. The reference matcher is a table over
the rests of pattern and row; `Reaches` of two offsets says that the whole
matches if the rests from there do, and a literal, an `_` and a
`%` each take the table from one pair of offsets to another (`LiteralTakes`, which
needs that what `StripEscapes` leaves is cut into code points as the pattern is).
A pattern is cut up by the tokenizer into segments and literals; `Leads` says what the bytes
between two literals take: so many code points, with or without more.
`MeansPattern` says that the skeleton has these numbers, also after `FoldSegment`
has merged segments without a literal into their neighbours. Last, `SoundInv`
is the invariant of the walk: every alignment in a cache tells where the literal
behind the one it names may start (`EntrySound`); the segments before the
matcher's own have been found, and end before the offset it keeps (`BeginSound`);
a scheduled match becomes ready where its second literal may start (`ItemSound`);
and what is emitted occurs here. `NoFalseMatch` alone says nothing of a pattern
half matched, and a cache alone nothing of what led to the alignment; each part
is kept by means of the others. Patterns without a literal (`WildcardInv`) are answered
from the length of the row alone, by `CountedAdvance`.

`FlatMapProofs` proves, for any hash functions of up to 56 high bits (the code's
number), any power of two from 4 up as largest number of buckets, any keys,
entries, containers and counts and any load factor of 1 to 100 %
(`HighBitsAssumption`, `TypesAssumption` and the others at the head of `FlatMap`):

- `TypesKept`, `BucketsAreIndexes`, `ProbesMayStop`, `FindsExactly`: `TypeOK`,
  `BucketsIndexValues`, `ProbeMayStop`, `FindExact`.
- `Invariance`: `IInv`, which says `Whole` of the table. No two values have the
  same key, and the buckets are a `Ring`, in four parts: every full bucket has
  the true distance from its value's home (`AtDistance`); every value has exactly
  one (`Indexing`); a bucket is at most one step farther from home than the one
  before it (`Ordered`); and some bucket is empty or at home (`SomeoneHome`).
  None is inductive alone. An insertion looks no farther than the first bucket
  nearer to its home, and that nothing of the key is behind it follows from
  `Ordered`, and `Ordered` holds because every bucket was put where such a probe
  stopped. The backward shift of an erasure stops at a bucket at home or empty:
  that there is one also in a table without any empty bucket is `SomeoneHome`,
  without which the loop might run forever; who that is changes with every
  placement and erasure.
- `TableIsAMap`: `ImplementsMap`. Each of the 17 calls is one of `MapSpec`, or
  the refusal of a key by a full table, with what it returns.

The argument has three layers. An operation on buckets is first described on a
ring, by how many buckets a place is behind the one where the operation begins,
so that the wrap-around is dealt with once (`Behind`). Then it is lifted to a table,
where the values move too (`Shrunk`: the last value goes to the erased one's place,
and its bucket's index with it), and to the loops: filling new buckets, `replace`,
`erase` of a range, which runs in the order that moves the fewest values, and
`erase_if`, each with a statement of what is done after n turns (`Replacing`,
`Erasing`, `Sifting`). Last, `MapOf` says which map a table stands for:
an appended value, an assignment, a new key for a value, and the entries left by
an erasure each have a lemma (`MapAppended`, `MapAssigned`, `MapRekeyed`,
`MapRemoved`). Distances are numbers without a width here: in the code 24 bits
hold them, enough unless a run of 2^24 buckets is full.

On the lemmas about tables rest the theorems about the cache of `LRUCacheMap`,
for any hash functions of its keys, any entries, and capacities for which the
table has buckets (`OffsetsAssumption`, `CapacitiesAssumption`: in the code 2^32
of them, and a capacity is a length within a pattern):

- `CacheInvariance` and `NoIteratorDangles`: `CacheInv` and `IteratorsValid`.
  `Upsert` pushes a node, erases the old one in the list and in the map, assigns
  in the map, and evicts from both. In between list and map disagree. `CacheInv` says
  that after the call they are `Linked`: no two nodes have a key or a number in
  common, the map has the keys of the list, and leads from each to its own node.
  A number may be used again by then because none but the erased node's key led
  to it (`Unlinked`, `LinkedFront`), and there is always one free (`FreeIs`).
  The map never turns the new key away: `CacheInv` bounds what it holds.
- `CacheIsAList`: `ImplementsCache`. Erasing by iterator, with the new entry in
  front already, is removing by key before it is put there (`WithoutBehindFront`);
  evicting the last node is `Front`.

What a recursive function computes is proved by induction over a set (lemma
`Induction` of `CommonLemmas`): the library's induction theorems take an
operator as a parameter, which the provers cannot instantiate, so the statement
is turned into membership in a set.

Only model-checked: that the join is complete (`NoMissedMatch`, which needs the
caches to be large enough and holds within the preconditions above only),
`AllInserted` and all liveness, which is beyond this prover.

## Not modelled

`getChildren` against a concurrent writer: the repository calls it only from
`BuildSuffixLink`, after the build, and `Automaton` has it there. Of the hash
map: `segmented_vector` and the tables on it, tables with unequal allocators and
the set variant (none is instantiated), the rvalue `extract()` (it leaves
buckets without values; nobody calls it), `swap` (three moves; nobody calls
it), and the arithmetic of wyhash. Of
`utf8.h`: `validate`, `enforceValid` and `clampLen`, which are declared and
defined nowhere. Copying a non-empty `LRUCache`: the implicit copy would keep
iterators into the other list; the program only copies and moves empty ones.
Failing allocation (it ends the program), huge pages, hashing, pinning and
barriers, hardware counters, vendored bitmaps and CSV, benchmarks, fuzzers and
scripts: left out, they hold no state of the join. The reserved but not resized
`lps_table_` of `kmp.h:20` is accessed outside its size; the model takes it for
the storage it has in the builds of this repository.

## Plan

Done, in the order of importance: concurrent insertion with its abstract index
and its first theorems; links; the probe against the reference matcher; KMP;
`UpdateMax`; teardown; the hash map and the cache on it, each with its abstract
specification; the UTF-8 codec; the proofs about the trie, its refinement, its
teardown, KMP, the links, the walk of the probe and the soundness of its
answers, the hash map with its refinement, the cache on it with its own, and the
codec.

Next: completeness of `Probe`: an abstract matcher (sets of open alignments, no
cache, no queue) that the detailed one implements on inputs within capacity.
