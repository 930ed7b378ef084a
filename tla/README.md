# WaSafe in TLA+

A verification project for WaSafe, a C++ library that stores and reads signal
waveforms. It holds TLA+ models of the parts of the library whose correctness
depends on order, failure and sharing, TLC configurations that check them on
small instances, and proofs checked by TLAPS that hold for every instance.
Paths below are relative to the repository (`src/io/store.cpp`,
`include/wasafe/io/builder.hpp`).

## The system

Changes of signals flow in one direction:

    reader --calls--> Builder --writes--> *.wsfstore file --openStore()--> Database
                                                               LazyStorage --reads--> file

| Component | State it keeps | Operations | Talks to |
|---|---|---|---|
| `IndexingBuilder` | one accumulator per stream, `buffered_`, `offset_`, index, `finished_`, the `ofstream` | `allocStream`, `setTime`, `valueChange`, `finish`, `takeDatabase`; inside: `flushStream`, `relieve`, `writeTrailer` | the file; `LazyStorage` when done |
| store layout, `openStore` | none (the file) | open with five kinds of refusal | the file, codecs |
| `BaseBuilder` | hierarchy, scope stack, current time | scopes, `declareVar` with aliases and expansion of composites | the concrete builder |
| `ValidatingBuilder` | phase, open scopes, last time, known streams | every `Builder` call, checked | the sink it wraps |
| `MemoryStorage` | streams of changes | `append`, `finalize`, the reads of `Storage` | none |
| `LazyStorage`, `BlockCache` | LRU list, map, byte counter; shared index; own source | `valueAt`, `nextChange`, `prevChange`, `openCursor`, `prefetch`, `release`, `duplicate` | `BlockSource` |
| `LazyCursor` | own copy of one block, position, range | `next` | `BlockSource`, past the cache |
| block sources | position of the file handle | `decode`, `duplicate` | the file |
| `MergeCursor` | heap of keys, cursor to advance | `next` | several cursors |
| `DecodedBlock` and codec | columns of times and values | `append`, `slice`, encode, decode | `TimeColumn`, bit planes |
| `Hierarchy`, `Database` | tree of scopes, signals, members | lookup, reads of composites and slices, merged changes | `Storage` |
| hierarchy codec | type table with back references | encode, decode | the store |
| `TimeColumn`, logic values | offsets or absolute times; words of two bit planes | `append`, searches, slices, text in any radix | blocks |
| `ByteWriter`, `ByteReader` | bytes and a position | fixed and variable integers, arrays, strings | every codec |

What is hard here:

* the builder writes a file while it is fed. A write may fail at any call, bytes
  reach the file later than the call that wrote them, the process may die between
  any two steps, and what is left must never be taken for a complete store;
* three things flush an accumulator (a full block, relief of the memory budget,
  `finish()`), and all of them share the index, the offset and the counter;
* the reading side finds a block by binary search over spans that leave holes
  and may share a time stamp; it returns views into a cache that evicts;
* several threads read one file, each through its own duplicate;
* three recursive walks over one type (the checker's, the builder's and the
  counting one) must meet streams in one order, or values go to the wrong signal;
* a path is cut at dots and brackets, a name may contain brackets, and names
  repeat: what a path finds must still be what was written;
* everything on disk is variable in length, versioned, may be cut off or damaged, and
  the columns it holds change their form in the middle.

`PROJECT.json` lists each of these as a hazard, at its line.

## Modules

| Module | What it is |
|---|---|
| `IndexingBuilder` | the store writer, its file, and `openStore()` on that file at any moment |
| `StoreHistory` | the abstract specification: changes are recorded, then published in one step |
| `StoreRefinement` | the refinement mapping of `IndexingBuilder` to `StoreHistory` |
| `MCIndexingBuilder` | constants for TLC |
| `IndexingBuilder_proofs` | theorems about the counters, the index and the file of `IndexingBuilder`, the refinement among them |
| `DataInduction` | lemmas for the proofs: induction, sums, glued lists, recursive functions |
| `TimeSearch` | `upperBound` and `lowerBound` of ordered times, as partition points |
| `Storage` | the contract of `storage.hpp`, answered as `MemoryStorage` answers |
| `LazyStorage` | index, cache, file handles and cursors of the lazy storage |
| `LazyRefinement` | the refinement mapping of `LazyStorage` to `Storage` |
| `CursorLosses` | a cursor of `LazyStorage`, observed: which changes failed reads cost it |
| `MCLazyStorage`, `MCCursorLosses` | index layouts for TLC |
| `LazyStorage_proofs` | theorems about the cache and the file handles of `LazyStorage`, and that it implements `Storage` |
| `MergedChanges` | the contract of a cursor over several sources (`storage.hpp:55`) |
| `MergeCursor` | the heap of keys and the lazy step of `merge_cursor.cpp`, mapped to `MergedChanges` |
| `MCMergeCursor` | sub-cursors for TLC |
| `MergeCursor_proofs` | theorems about `MergeCursor`, the refinement among them |
| `DatabaseReads` | the reads of `Database`: values, edges and lists of leaves, packed members, composites |
| `MCDatabaseReads` | a small hierarchy over three streams for TLC |
| `DatabaseReads_proofs` | the theorem about the edges of a node |
| `Types` | descriptors of types: widths, expansion of composites, places and indices of arrays |
| `Builder` | calls of a reader through `ValidatingBuilder`, `BaseBuilder` and `MemoryBuilder` |
| `MCBuilder` | packed, unpacked and nested types and the calls for TLC |
| `Builder_proofs` | theorems about `Builder` and `Types` |
| `Hierarchy` | growth of the tree, search by path, path of a node |
| `HierarchyCodec` | the tables of types, scopes and nodes in a store |
| `MCHierarchy` | names, types and paths for TLC |
| `Hierarchy_proofs` | the theorems about the paths and the searches of `Hierarchy` |
| `ByteIo` | `ByteWriter` and `ByteReader` at reduced widths |
| `TimeColumn` | offsets that become absolute times |
| `LogicPlanes` | logic values in words: appending, slicing, text |
| `DecodedBlock` | a block by columns, its slices and its bytes; extends `ByteIo`, `LogicPlanes`, instantiates `TimeColumn` |
| `StoreFile` | the bytes of a whole store and `openStore()` on them; extends `DecodedBlock` |
| `MCBlocks` | widths, values and histories for TLC |
| `DecodedBlock_proofs` | theorems about the columns of a block, their search and their slices |

`Builder` and `Hierarchy` extend `Types`; `HierarchyCodec` extends `Hierarchy`. The
stored form is modelled twice, for two questions: `IndexingBuilder` has segments and
asks what a crash or a failed write leaves; `StoreFile` has bytes and asks whether
what is written is what is read.

### IndexingBuilder

`kind`, `block`, `payload` are the accumulators (`Pending`), `buffered` is
`buffered_`, `offset` is `offset_`, `index` the `SignalIndex`, `firstTime` and
`lastTime` the range of the header, `finished` is `finished_`. A change is its
time and its number in the stream; a block in the file is the sequence of its
changes. `written` is the list of segments handed to the `ofstream`; the first
`landed` of them, and `torn` bytes of the next, have reached the file. `out` is the state of
the stream object. `pc`, `sid` and `minCount` are the place inside a call:
`valueChange()` appends and then either flushes its own full block or enters
relief; one `RelieveFlush` or `RelieveSkip` is one turn of the inner loop of
`relieve()`, `RelievePassEnds` one turn of the outer loop; `finish()` is
`Finish`, a `Drain` step per accumulator, `WriteMeta`, `WriteFooter` and
`FlushAndClose`. A write may fail at every one of them and the exception leaves
the state the code leaves, including the index entry that `flushStream()` adds
before it writes. `Land` (bytes reach the file) and `Die` (the process ends) are
external and interleave with everything. `OpenResult` is `openStore()` applied to
the landed bytes, refusal by refusal, in the order of the code.

### LazyStorage

`index` is shared and never changes; every other variable is a function of the
instance, because an instance serves one thread (`storage.hpp:27`). `lru` is the
list of entries, most recent first (`map_` holds the same keys and is not kept
apart), `bytes` is `bytes_`, `position` the place of the file handle, `cursor` an
open `LazyCursor`, `view` the view that `valueAt()` returned while
`storage.hpp:41` says it may be used. A lookup computes the blocks it will visit
(`Plans`) by the binary search of the code; each visit is one `get()`: `Hit`, or
`Miss` (seek), `Insert` (read, decode, push to the front) or `ReadThrows`, then
`Evict` once per step of `evict()`; the caller then answers (`UseAnswers`), goes
to the next block (`UseMovesOn`) or gives up (`UseEnds`). `release()` drops one
entry per step. A cursor reads past the cache: `CursorSeeks`, `CursorLoads` or
`CursorThrows`, `CursorGives`. Steps of different instances interleave.

A block is the times of its changes and the ordinal of the first; the value of a
change is its ordinal, so a wrong value is a wrong ordinal. What lies at an
offset is read off the index: in a foreign file several blocks share an offset,
and the source chooses by stream and cookie (`block_source.hpp:23`).

The abstract `Storage` knows the plain history of every stream. The refinement
mapping glues the blocks of the index into that history and maps a cursor to the
number of changes behind it. A `next()` that throws may lose changes: after the
first block, the code has already moved to the next one (`lazy_storage.cpp:92`),
so a retry goes on behind it. The contract leaves open which ones: changes may be
missing after an exception, but none is given twice, out of order or wrong.
`CursorLosses` says which. It adds two observers to the cursor, what it gave and the
blocks whose load failed, and `LostWithTheirBlocks` states that what it never gives is
exactly what lies in those blocks, its first one excepted, which is loaded again.

### MergeCursor

`heap` is `heap_` as a set of keys, `last` is `last_`, `pos` the change on which
each sub-cursor stands, `current` the copied time and source of `current_`. A call
of `next()` is one action, as one thread calls it and sub-cursors are separate
objects: `advanceLast()` (`Filled`), then `takeMin()` (`Least`; `pop_heap` may
choose among equal keys, and so may the model), then the result. The sub-cursors
are external; each may throw whenever it is stepped (`StartThrows`,
`NextThrows`), from any place at or behind where it stood, as a `LazyCursor` may
lose a block when it throws. What is left to give is no variable: it is what lies
ahead of the sub-cursors that are in the heap or in `last_`, so a sub-cursor that
is dropped or stepped twice shows as a step the contract does not allow. The
caller's view of a change is the change on which the sub-cursor stands *now*.

### DatabaseReads

A hierarchy is a function from nodes to children, stream and projection
(`SignalNode`); streams are plain histories, answered as `MemoryStorage` answers
(`LazyRefinement` shows that the other storage answers alike), and a cursor is
the sequence it gives (`MergeCursor` shows that merging gives `Merge`). A logic
value is a function from bit numbers to bits; cutting a slice beyond the vector
gives X. `valueAt`, `nextChange`, `prevChange`, `leafNodes` and both `changes` are
operators with the case distinctions of the code, walks of the tree as recursive
functions. The actions are those of a reader: a marker jumps to the next or the
previous edge of a node again and again (`Navigate`), or a node, or several, are
listed from the marker on (`Browse`).

A jump looks down to the first stream on the way and no further (`database.cpp:246`), a
value is always made from the leaves (`database.cpp:143`). Streams below a stream are of two
sorts. Unpacked parts of packed types get one whose number no reader is told, so it stays
empty. A composite that is not packed gets one when it is declared with an alias
(`base_builder.cpp:38`), and its members get streams that readers do write. `Covered` says that
no stream below a stream within a node has changes; only then do jumps pass over no change of its
value (`NothingBetween`), while edges are told consistently for every node (`EdgesAreOwn`,
`WaysAgree`). The tree of the instance has one of the second sort.

### Builder

A reader may call anything at any time. `known`, `openScopes`, `headerDone`,
`finished`, `taken`, `now`, `timeSet` are the members of `ValidatingBuilder`; `stack`,
`clock` those of `BaseBuilder`; `scopes`, `variables` the hierarchy it grows, with a
variable standing for all nodes below it; `streams`, `stored`, `range` the memory
storage. A call that throws changes nothing and is no step. `NodesBelow` is
`buildChildren()`, `Expansion` is `collectExpansion()`, `ExpansionStreamCount` the
count of `type.cpp`: three walks of the same types by different rules, as in the code.
`Bound` gives each node its stream: a leaf that is given, a new one, or, inside a packed
composite, one that the caller does not see. `Allocated` numbers new streams in the order of
the walk, the variable's own first and also when it has an alias
(`base_builder.cpp:38`).

`Types` keeps widths in 32 bits (`U32`), which is 4 bits here. Offsets of the members of
a packed struct are the reader's; the types of the instance have proper ones.

### Hierarchy and HierarchyCodec

A name is a base and keys in brackets; a path is a sequence of names, so cutting at
dots is left out while everything that brackets can mean stays: a scope is found by
the whole name, a signal by the base and then by each key. `tree` holds
`scopes_` and `nodes_` with their lists and indexes; `Emplaced` keeps the first of equal
names. `FindSignal` is the greedy descent of the code, `PathOfNode` the way back.

The encoded form is a sequence of rows: each table with its length, each row whole or
missing. `Order` numbers types by address, parts first; `Decoded` grows a new tree by the
same operations a reader uses and throws where the code does. `Foreign` are the files of
other writers: one reference changed to any number.

### DecodedBlock, LogicPlanes, TimeColumn, ByteIo, StoreFile

Widths are reduced and everything else is kept: a byte has 4 bits (`ByteBits`), a 64-bit
word two bytes (`WordBytes`), a 32-bit one one byte (`HalfBytes`), a word of a plane 8
bits (`K`), decimal text is to base 3 in chunks of two digits. So the longest narrow offset is 15
and a time is -128 to 127, and both ends, the difference between them and the longest varint are
among the inputs. A word of a plane is the set of its bits. `BitAt` is the reading of one
bit, and every other operation is judged by it.

`append()` is the one action of `DecodedBlock`; slices, searches, text and bytes are
operators, checked in every state. `StoreFile` then splits the history over two streams, writes
a whole file (sections with their lengths and versions, index, footer), cuts it off
or changes a byte, and applies `openStore()` refusal by refusal. A checksum is kept as
the bytes it was made of, so that it agrees exactly when they do; that a CRC does not tell
all damage apart is left out. The fields of the index that no one here computes
(cookie, codec, checksum of a block) are zero, and the hierarchy is one string.

## Runs

| Run | Question | Bounds and why they are enough |
|---|---|---|
| `store_main` | Is anything lost, reordered, or published too early? | 2 streams of 2 kinds, 3 changes, 2 times, blocks of 2 changes, changes of 2 and of 3 units and a budget of 4, so one change of each stream exceeds it while no block is full: full-block flush, relief and final drain all occur on both streams and in every mixture, with and without a failing write before, and with every crash point |
| `store_budget` | Does the byte counter, and the memory, stay under the ceiling? Does relief end? | 2 streams of unequal change sizes, 4 changes, a budget of one or two changes, blocks never full: relief takes several passes |
| `store_strings` | Does the ceiling hold with STRING streams? (violation) | 1 kind; each flush subtracts the leading arena offset once too often |
| `lazy_lookups` | Do lookups answer as the plain history does? | every history of up to 3 changes over 3 times, cut in every way into own blocks (holes, shared time stamps) and in every admissible way into foreign blocks (abutting spans, one offset); every time asked from before the first to after the last; any read fails; a cache smaller than the blocks of a stream, release of any window: is the cache exact, within its limit, and does it keep what is in use? |
| `lazy_cursors` | Do cursors, and what does a failed read cost them? | the same layouts, every range, empty ones included; any load fails, any number of times, and `next()` is called again |
| `lazy_threads` | Do two instances disturb each other? | a storage and its duplicate, one stream in 2 blocks, cache of one; a seek of one between seek and read of the other |
| `merge_order` | Is every change given once and in order? | 3 sub-cursors of up to 2 changes at 2 times, numbered by place or one of them over two sources; equal times within and between sub-cursors; each `next()` may throw |
| `reads` | Do edges, lists and values of a node agree, over windows, leaves and mixtures of nodes? | a tree with a packed struct in a packed struct, a member beyond its vector, an array of two streams, an alias, a struct that is not packed with an alias, a node without values; up to 3 changes of the vector at 3 times, several at one time included, or a stream that is not logic, or every mixture of at most one change per stream; every range with ends 0 to 4, markers anywhere |
| `builder` | Does the checker agree with the storage, do values fit, can every node be read, can ids be counted? | any order of calls with up to 2 scopes, 2 variables, 2 changes; a bit, a real, a packed array of packed structs, a packed struct with an unpacked array in it, an unpacked struct of all of them and an event; leaves not given, too few, all left open, or any one bound to any id, known or not; aliases, known or not; times that go back, values of another kind or width |
| `names` | Does a path lead back to its node, and a file back to its tree? | up to 2 scopes and 3 nodes in any order; a name without brackets, the same with brackets, no name, an element; members of members; paths of up to 3 segments of the names, the empty path, segments without a base; types shared by address and equal but not shared; the encoded form cut off anywhere, or one reference changed to any number |
| `blocks` | Does a block, and a store, give back what it was given? | 6 streams of all kinds, widths 0, 3 and 9 (more than one word); up to 3 changes of 7 logic values (narrower, wider, two-state, X and Z, an empty one, bits above the width), 3 strings, or times at both ends of the range, at the edge of the narrow form and going back; every slice, every cut of the bytes; one history of each kind as a store, in either order of streams, of this or a later minor version, cut anywhere, each byte changed in 3 ways |
| `reads_nested` | Does a composite list the changes of its children? (violation) | the same tree without the struct that has an alias, no two changes of a stream at one time |

`CHECK_DEADLOCK FALSE` appears where the system does stop: the builder after `Die`,
or when all changes are reported and the file is complete; a merged cursor whose
construction threw; a reader that made its one listing; a builder whose database is
taken, a tree or a block at its bound.

Claims that answer one question are checked as one property, a conjunction of named
parts:

| Property | Parts |
|---|---|
| `OpensExactly` | `OpenOnlyWhenComplete`, `FinishPublishes` |
| `CacheExact` | `TypeOK`, `BytesExact`, `CacheWithinLimit` |
| `JumpsExact` | `NothingBetween`, `EdgesAreOwn`, `WaysAgree` |
| `ListsExact` | `ListTellsValue`, `EdgesListed` |
| `SourcesExact` | `TypeOK`, `LeavesMirror`, `SourcesAreNodes` |
| `CheckerAgrees` | `KnownAgrees`, `ScopesFollow` |
| `NodesReadable` | `SlicesFit`, `LeavesReadable` |
| `IdsPredictable` | `IdsFollowWalk`, `OnlyAliasesWaste` |
| `StorageExact` | `TypeOK`, `RangeCovers` |
| `PathsExact` | `TypeOK`, `PathsReversible` |
| `SearchesExact` | `FoundHasPath`, `RelativeAgrees` |
| `DamageRefused` | `PrefixThrows`, `AcceptedIsTree` |
| `ColumnsExact` | `TypeOK`, `ValuesExact`, `PlanesClean` |
| `CodecExact` | `BlockRoundTrip`, `CutRefused` |
| `PartsExact` | `SlicesExact`, `SlicesOfValues` |
| `TextExact` | `DecimalExact`, `RadixesAgree` |
| `StoreExact` | `OpensAsWritten`, `DamageNoticed` |

Each property of a passing run, and each part of it, has a seeded fault, a small change
to one definition (the section "Seeded faults" of each module names the part beside
it), under which TLC finds the property violated.

`store_*` bound the times, the changes and the streams by `MaxTime`,
`MaxChanges` and `MaxStreams`, in the guards of `SetTime`, `ValueChange` and
`AllocStream`. Nothing else is capped there. `LazyStorage` has no growing counter
except `block_` of an exhausted cursor, which `next()` increments at every call;
the model keeps it at one past the last block, as all larger values act alike.
`Builder` is bounded by `MaxScopes`, `MaxVariables` and `MaxChanges`, `Hierarchy` by
`MaxScopes` and `MaxNodes`, `DecodedBlock` by `MaxCount`, each in the guard of the action that
grows. Two variables are enough for ids to follow one another across
declarations and for an alias or a leaf to name an earlier stream; three nodes for a member of a member,
or two nodes of one name and one below.

### Fairness

`IndexingBuilder`: weak fairness of `Internal`, the work inside a call. The code
is sequential and does not wait, so a call that can go on does go on; nothing
obliges a reader to call, bytes to land or the process to live.
`LazyStorage` and `CursorLosses`: weak fairness of `Work(i)` for every instance, as a thread that is
inside a call is scheduled again. Reads may fail, each time; no property needs
a read to succeed. `Builder`, `Hierarchy` and the blocks are plain calls; nothing is
obliged to happen.

## Proofs

Each theorem holds for every value of the constants that the assumptions of its module
allow. Before it was proved, each inductive invariant was checked by TLC on the
instances above.

`DataInduction` holds what the other proofs need about data. An induction whose predicate is
an operator is out of TLAPS's reach, so each states its predicate as the *set* of members
it holds of: `NatSetInduction`, `UptoInduction` and `SubsetInduction` say that a set that contains
the start and is closed under the step is everything. From these follow sums over finite sets
(`SumSplit`, `SumChanges`, `SumRenamed`), lists cut at marks and glued together again
(`FlattenOfCuts`, `FlattenSteps`), and `RecursionExists`: over a finite domain in which no
member rests on itself, a recursive definition has a solution, which is what a proof must know
before it may use the equation of a recursive function.

`IndexingBuilder_proofs`:

* `TypeCorrect`: `Spec => []TypeOK`. The inductive invariant `Typed` adds
  `Allocated`: streams below `allocated` have a kind, only such a stream is
  flushed, and the footer is written behind the metadata it names. Without it the
  payload of the next change and the place of the metadata have no type.
  With it, `buffered_` never wraps because the subtraction is clamped.
* `OffsetCorrect`: `Spec => []OffsetIsFileEnd`. `WrittenBySteps` shows that each
  step writes one segment at `offset_` and advances it by its size, or none;
  tiling of the file by segments then follows from the last one.
* `ReliefCorrect`: `Spec => ReliefReachesTarget`, the action property: relief that ends by
  itself has reached its target, and no call leaves the counter above the ceiling.
* `CeilingCorrect`: the memory stays under the ceiling, if no fresh block already
  counts bytes (`NoOverhead`). The counter is then the sum of what the accumulators hold. The hypothesis
  is the code's own condition, not a convenience: it fails for STRING only, whose arena begins
  with an offset that every flush subtracts, which is what `store_strings` shows.

Of the index and the file, in the same module:

* `NothingLostCorrect`: `Spec => []NothingLost`. The blocks that the index names, followed by the
  accumulator, are the history of each stream, cut at rising marks; a full block, relief and the final
  drain each move one mark. `Ordered` says that segments lie one after the other, so an offset in
  the index names one segment for ever.
* `IndexSearchableCorrect`: `Spec => []IndexSearchable`. Spans come from the first and last change
  of a block, and `Numbered` says that changes have an order to take them from.
* `OpensExactlyCorrect`: `Spec => []OpensExactly`. What `openStore()` accepts is complete, and what
  `finish()` reported can be opened, at every landing of bytes, torn segment and death.
* `ImplementsHistoryCorrect`: `Spec => ImplementsHistory`, the refinement: seen through `openStore()`, the
  builder records and then publishes in one step.

`LazyStorage_proofs`, for any index with the properties of `Searchable`, any
number of instances, any cache size:

* `RightBlockCorrect`: the block that `get()` gives is the wanted one, has its own
  content and is not evicted before its use. The inductive invariant `Inv` says
  what each instance relies on: a planned visit names an existing block
  (`Planned`), each cached entry has the content its key stands for
  (`CacheRight`), the handle stands at the wanted offset between seek and read
  (`SeekRight`), the front entry is the wanted one from insertion to use
  (`FrontRight`). `KeyNamesBlock` is the heart of it: stream, offset and cookie
  name one block. `Kept` and `KeptIsEnough` reduce the interleaving to the steps
  of one instance.
* `ViewCorrect`: a view stays valid as long as `storage.hpp:41` says
  (`ViewRight`: no view survives into a call that may evict).
* `CacheExactCorrect`: `Spec => []CacheExact`. The byte counter is the sum over the entries, which
  have distinct keys; one block may exceed the limit only while it is alone or is being fetched.

Of what it answers, in the same module:

* `ImplementsStorageCorrect`: `Spec => ImplementsStorage`, the refinement: lookups and cursors over
  blocks, through a cache and a shared file, answer as the plain history. `Marks` are the places at
  which the history is cut. The inductive invariant `Serving` says of every instance that blocks it does not visit any
  more lie wholly before or behind the time it was asked for (`Narrowed`), that it still plans to visit the
  others in order (`Itinerary`), and that its cursor stands at a place of the history (`Sound`,
  `BehindIn`). A lookup then answers with the partition point of the history because it answers with
  that of the right block.

`MergeCursor_proofs`, for any number of sub-cursors with any changes in order:

* `TypeCorrect`: `Spec => []TypeOK`. A key never holds `kKeepSource`, and no
  sub-cursor is asked for more after its end.
* `MergeCorrect`: `Spec => ImplementsMerge`, the refinement. The inductive
  invariant `Inv` says that each key in the heap is the key of the change its
  sub-cursor stands on, that there is one key per sub-cursor and none of `last_`.
  `AwaitedInFilled` then finds, for each change that is left, a key in the heap that
  stands for it or for an earlier one of its sub-cursor; `LeastComesFirst` concludes
  that the change taken is before none of them. No induction over the sequences is
  needed, because the order of each sub-cursor is an assumption on it.

`Builder_proofs`, for any types, calls and bounds:

* `ScopesCorrect`: `Spec => []ScopesFollow`. The inductive invariant `Nested` adds that every
  scope on the stack exists and that the header is over only with no scope open.
* `KnownCorrect`: `Spec => []KnownAgrees`. `TypesAssumption` makes the types grounded, so the recursive walks
  have solutions (`WidthsAre`, `NodesAre`, `ExpansionIs`). `WalksAgree` is the heart of it: by induction over the types,
  the nodes that bind a stream the caller sees are, in order, what the checker's walk collects, since
  nothing below a packed node binds one (`HiddenInStream`). With streams numbered without gaps
  (`Numbered`), the stream of a leaf is then the new one of its type or one that is known.
* `CheckerCorrect`: both together, `Spec => []CheckerAgrees`.
* `CountsAgree`: for every type, `ExpansionStreamCount` is the length of `Expansion`, the third walk.
* `IdsCorrect`: `Spec => []IdsPredictable`. `Counted` says that the ids bound so far are streams, that what the checker knows
  is bound, and that the list of bindings rises (`Walks`); `BoundByDeclare` tells what a declaration
  binds for the first time: all it allocates, but for the stream of a variable with an alias.
* `ChangesCorrect`: `Spec => []ChangesFit`. `Ordered` ties the two clocks
  together and says that nothing is stored before the first `setTime()`; `Held` follows
  from `KnownCorrect` as streams keep kind and width (`StreamsStay`).
* `StorageCorrect`: `Spec => []StorageExact`. The type invariant needs both walks: a node is
  bound to an id because there are as many leaves as places. The range needs the order of times:
  the first and the last change of each stream enclose the others.
* `NodesCorrect`: `Spec => [](LeavesReadable /\ (LaidOut => NodesReadable))`. The inductive part is about bindings: a
  declaration binds a stream to the nodes that are to have one and to no others (`AllBoundRight`), and a stream that no
  earlier variable has, and that the reader did not give, is made of the node's own type (`MadeRight`, `StreamMade`). The rest is about
  the walk. The nodes of a type form a tree (`NodesFormTree`, by induction over the types): each has a
  path of its own and hangs at the variable or at another node (`Hung`). By induction over the length
  of the path each slice is then covered by the stream of the nearest node above it that has one
  (`SlicesCovered`), which is where the code looks for it (`OwnerIs`). With sound layouts (`LaidOut`) the 32-bit sums of offsets
  do not wrap, so a slice stays within the width of the owner's type (`PartsFit`) and apart from its siblings (`SlicesApart`).
  The stream bound to the owner has that width if it was made for it. One that was given, as `alias` or in `leaves`, may be of another kind or
  narrower, as the code compares neither with the type (`base_builder.cpp:38`, `:75`). Slices may then end beyond it, where
  reading gives X, and `SliceCovered` claims nothing but that the stream exists.
  `LaidOut` is a hypothesis and no assumption: nothing in the code checks the offsets a reader gives to
  members, and with others slices do overlap, as those of a union whose members share bits must.
  (The code gives a packed union the sum of its members' widths, `src/types/type.cpp:42`, as to a struct, so members side by side fit it.)
  The instance satisfies the hypothesis (`InstanceLaidOut`).
* `IndicesInverse`: `ordinalOf()` and `indexOf()` are inverse in both directions of a range.

`DecodedBlock_proofs`, for any widths and any samples within the range of times:

* `TimesCorrect`: `Spec => []TimesExact`. `StandsFor` says what a column in either form
  stands for; `AddedStandsFor` shows that `append()` keeps it in its four cases, and
  `StandsForIsExact` that reading gives it back.
* `SearchesCorrect`: `Spec => []SearchesAgree`. `Near` says that the offsets of a narrow column fit it, so
  that the time searched for may be turned into an offset without a wrap; `PlaceToFind` that an
  ordered list has a partition point; `SearchesFind` concludes for both forms. `ColumnAssumption` names what
  is needed of the two widths, as the provers know nothing of powers.
* `ColumnsCorrect`: `Spec => []ColumnsExact`, of the values as long as the characters of a block fit the 32 bits
  of an offset. `append()` does not check that (`decoded_block.cpp:53` casts), so a longer arena really reads
  back wrong; the lengths and the clean words are proved without it. The inductive invariant `Filed` ties each column to the
  list of values given: `PlanesHold` says word by word what a slot keeps of its value (`SlotOf`), `StringsHold` that
  offsets rise and cut the arena into the strings. `SlotBits` tells the bits of a slot after copying, filling and
  masking, `PlaceOfBit` where a bit lies, and `SlotShows` concludes that a slot reads as its value.
  `LogicAppended` covers the second plane that unfolds in the middle of a block.
* `PartsCorrect`: `Spec => []PartsExact`, under the same limit. A slice of a block is shown to satisfy `Filed` for its
  part of the values (`PlanesPart`, `StringsPart`), so it reads as they do by the same lemma as the whole (`ValueReads`).
  Its times are appended one by one to an empty column (`ColumnStands`), which stays narrow when the
  whole was (`SliceOfTimes`: hence no more bytes). For a slice of a value `ShiftedBits` puts two neighbouring words
  together, and `SliceOfView` compares bit by bit.

`DatabaseReads_proofs`, for any tree and any histories within `TreeAssumption` and `HistoryAssumption`:

* `JumpsCorrect`: `Spec => []JumpsExact`. Every node has a set of edges: the times of its stream, the times at which
  its slice appears or changes, or the edges of its children (`EdgesAre`). By induction over subtrees such a set exists
  (`EdgesExist`), `nextChange()` and `prevChange()` give its neighbours of a time and, if the node is `Covered`, the value stays
  from one edge to the next: what lies below a stream has no changes of its own and takes its value from that stream (`CarriedStays`). `NextEdgeIs` and `PrevEdgeIs` are the heart of it: the two scans of `database.cpp` compare along the stream in
  different ways and stop at the same times. The inductive invariant `Jumped` says that an answer is what the read
  gives for the marker, and the three parts of the property follow from the set of edges.

`Hierarchy_proofs`, for any names, indices, kinds of scope and sizes of the tree:

* `PathsCorrect`: `Spec => []PathsExact`. The inductive invariant `IndexesRight` says that parents come before
  their children, that a list of children has exactly those that name the parent, in order, and that an index of names finds the first
  child of each name (`Finds`); without the last a lookup means nothing, and `emplace()`, which never overwrites, is what keeps
  it. A search is then a walk down the indices (`Walk`, `FindSignalIs`), and it comes to a node exactly when each node on the
  way is the first of its name (`ScopeBack`, `BelowBack`, `BelowThere`). The other half is about text: gluing names
  with dots and brackets and cutting the path again gives the names back (`LocalKept`) for the names of which `NodeNamed`
  says so, and for no others; each clause of `NodeNamed` is shown to be needed (`NodeBack`) and together they
  are enough (`NodeThere`).
* `SearchesCorrect`: `Spec => []SearchesExact`, from the same invariant. For a path whose segments all have a base the keys
  tell the path (`KeysTell`: a base and an element are never the same key, so the last base in the keys begins the last
  segment), and the names above what was found, glued and cut, have the keys the walk went along (`LocalIs`); so
  what a search finds has that path (`FoundHas`, `ScopeHas`). Without a base this fails, and rightly: `x.[1]` and `x[1]` are two
  paths with one list of keys, and `pathOf()` gives the second. The other part is that walks compose:
  the deepest scope of the joined path lies as far beyond the starting scope as the deepest scope of the rest
  (`WalkOn`, `AlongJoined`, `JoinedRest`), and below a node no scope is looked for (`DescendOn`); so a search from a scope or
  a node finds what the path joined to its own finds from the root (`ScopeRelative`, `NodeRelative`). Starts that a scope or node of the same name hides are left out,
  since their own paths lead elsewhere; so is the empty path from a scope, which names no signal there but may name one from the root.

What is assumed about types is what the code makes of them: there are finitely many, each is built from
parts that exist before it (`TypesAssumption`: the constructors of `type.hpp` take their parts
as pointers to finished types), and the ends of a vector are no further apart than the
signed 32 bits in which its width is computed (`LayoutAssumption`). About a tree of nodes: a child is added after its parent and
names it, and a node gets a slice or a stream, never both (`TreeAssumption`: `hierarchy.cpp`, `base_builder.cpp`).
About histories: changes come in the order of time and none at `kNoTime` (`HistoryAssumption`). That streams below a stream are empty is
no assumption: it is the hypothesis `Covered` of one part of one property. About values: a view has the words its width takes in each plane it has, a string is bytes
(`SamplesAssumption`: `logic_vector_view.hpp:45`). About names: each is a base and the indices that follow it, a path has at least one
segment, as `splitDots()` gives, and the kind of the root exists (`HierarchyAssumption`).

Only model-checked: liveness (`CallsReturn`), which TLAPS cannot prove under fairness; of `DatabaseReads` the lists
(`ListsExact`, `WindowIndependent`, `SourcesExact`: merged and filtered sequences, for whose `SelectSeq` and folds the provers have
no rules); `HierarchyCodec` (tables by recursion over sequences); and of blocks the bytes and the text (`CodecExact`,
`TextExact`, `StoreExact`: codes of numbers by powers, which the provers do not know, and folds over bytes).

## What the violations show

* `store_strings`: each flush of a STRING stream subtracts the four bytes of the
  arena offset that no append added (`indexing_builder.cpp:159`,
  `decoded_block.cpp:35`), so the counter lags behind the memory and the ceiling
  of `builder.hpp:108` is exceeded.
* `reads_nested`: `changes()` of a packed struct nested in a packed struct is empty,
  as its subtree has no stream of its own (`database.cpp:189`), although
  `signal.hpp:72` promises the changes of its children and `valueAt()` and
  `nextChange()` do go through them.

Some properties state more carefully what the code does than a reader may expect.
`ImplementsMerge` lets a sub-cursor that throws be given up: `advanceLast()` clears
`last_` before it steps the sub-cursor (`merge_cursor.cpp:67`), so `next()`
goes on without it and later returns `false` although changes of it were never
given. `LostWithTheirBlocks` allows that a `next()` called again after
an exception returns `false` although changes were never given, which is not what `value_cursor.hpp:36`
makes of `false`: a cursor steps to the next block before it loads it (`lazy_storage.cpp:92`), so the
repeated call steps once more, and behind the last block the data seem to have ended. At the first
block (`lazy_storage.cpp:74`) the repeated call loads it again. `NothingBetween` is stated for nodes that are `Covered`:
a struct that is not packed, declared with an alias, has a stream beside those of its members, its jumps look at that stream only
(`database.cpp:246`) and pass over edges of members, although `signal.hpp:75` names the nearest edge among
the children and `valueAt()` shows the members' values. `EdgesListed` exempts times at which a stream changes several times: a member
that changes and changes back within one time stamp is listed there twice, but is
no edge for `nextChange()`. `PathsReversible` names the nodes that no path finds: the later
of two of one name, one behind a child scope of its name, one whose name has brackets, one
without a name right below the root. `OnlyAliasesWaste` states that an alias of a type with a stream
costs an id that no node has. Times in a block need not strictly increase, as
`decoded_block.hpp:26` has it: the builders accept equal ones, and the properties of blocks
and searches allow them. `DecimalExact` and `RadixesAgree` leave out
views with bits of the second plane above their width, which `isTwoState()`
does not mask (`logic_vector_view.cpp:187`); blocks never hold such (`PlanesClean`). A narrower
value in a block is padded with X (`ValuesExact`), so the comment at
`validating_builder.cpp:152`, which says it is written beyond its bounds, describes an older form.

## Not modelled

* CRC arithmetic and decompression: data without control. A checksum that matches is
  modelled as "these bytes are the ones that were summed".
* `Signal` and `Scope` handles forward to `Database` and `Hierarchy`; benchmarks and
  examples are not part of the library.
* Formatting of times and of error messages; `setTimeScale`; entries of enumerations, signs
  and the number of states of a type, which are carried along without being looked at.
* `Value` and `Aggregate`, comparison and assignment of owning logic vectors; sizes in
  memory of the index and of the metadata.
* One open cursor per instance, although a caller may hold several: cursors
  share only the handle, which each one positions before each read.
* The largest time stamp: `times.back() + 1` overflows there (`indexing_builder.cpp:138`,
  `memory_storage.cpp:162`), so stored histories end below it.
* A sink that throws in the header: a sink whose `finish()` throws is in the model of the
  writer, and there the checker has changed its phase as if it had not thrown.
* Names that contain dots outside brackets: the paths of `Hierarchy` are given in segments. In the code
  `splitDots()` cuts such a name too, so no path leads to its node.
* A kind byte in a block that names no kind: `decodeBlock()` takes it for a block without
  values (`decoded_block.cpp:279`); blocks here are of the three kinds that have values.
* Hierarchies of other writers beyond one wrong reference: `Foreign` changes one reference
  of the last scope, the last node or the first type.
* The fault that a source cannot be duplicated: `duplicate()` then changes nothing.

## Plan

What is left to prove, in this order:

1. The lists of `DatabaseReads` (`SourcesExact` first), for a form of `Merge` that selects without `SelectSeq`.
2. The bytes of a block: `BlockRoundTrip` field by field, with the powers of the codes as parameters.
