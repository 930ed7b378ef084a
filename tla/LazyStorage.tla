---------------------------- MODULE LazyStorage ----------------------------
(***************************************************************************)
(* LazyStorage (src/src/storage/lazy_storage.cpp): the index of blocks that *)
(* instances share, the LRU cache, the file handle and the cursor that each *)
(* instance has for itself.  An instance serves one thread; the steps of    *)
(* different instances interleave.  A read may fail at any time.            *)
(*                                                                          *)
(* A change is its time; its value is its ordinal in the stream.  A decoded *)
(* block is the times it holds and the ordinal of the first.  The bytes of  *)
(* the file are abstracted to which block lies at an offset.                *)
(***************************************************************************)
EXTENDS TimeSearch, SequencesExt, Functions

CONSTANTS
  Instances,   \* storages that may exist
  Primary,     \* the one that is opened; the others are duplicates
  Streams,     \* SignalId
  Layouts,     \* indices the storage may be opened with
  HeadBytes,   \* sizeof(DecodedBlock)
  CacheBytes,  \* Options::cacheBytes
  Asked,       \* times a caller asks for
  Ranges,      \* ranges <<begin, end>> a cursor is opened for
  Windows,     \* ranges <<begin, end>> for prefetch() and release()
  NoTime,      \* kNoTime
  NoView       \* the caller holds no view into the cache

(* What an index must give for its binary searches: ends and begins sorted, *)
(* every block nonempty and within its span, spans that share at most one   *)
(* time stamp (IndexingBuilder gives IndexSearchable), keys that differ.    *)
Searchable(blocks) ==
  \A b \in DOMAIN blocks :
    /\ Len(blocks[b].times) > 0 /\ Ordered(blocks[b].times)
    /\ \A k \in DOMAIN blocks[b].times :
         blocks[b].begin <= blocks[b].times[k] /\ blocks[b].times[k] < blocks[b].end
    /\ blocks[b].first = IF b = 1 THEN 1
                         ELSE blocks[b - 1].first + Len(blocks[b - 1].times)
    /\ \A a \in 1 .. b - 1 :
         /\ blocks[a].begin <= blocks[b].begin
         /\ blocks[a].end <= blocks[b].end
         /\ blocks[a].end <= blocks[b].begin + 1
         /\ <<blocks[a].offset, blocks[a].cookie>> # <<blocks[b].offset, blocks[b].cookie>>

Ref == [begin : Int, end : Int, offset : Nat, cookie : Nat, first : Nat, times : Seq(Int)]

ASSUME InstancesAssumption == Primary \in Instances
ASSUME LayoutsAssumption ==
  /\ Layouts \subseteq [Streams -> Seq(Ref)]
  /\ \A layout \in Layouts : \A s \in Streams : Searchable(layout[s])
ASSUME BytesAssumption == HeadBytes \in Nat \ {0} /\ CacheBytes \in Nat
ASSUME AskedAssumption ==
  /\ Asked \subseteq Int
  /\ Ranges \cup Windows \subseteq Int \X Int

VARIABLES
  index,      \* [Streams -> Seq(Ref)]: index_, shared by all instances
  alive,      \* instances that exist
  lru,        \* [Instances -> entries of the cache, most recent first]
  bytes,      \* [Instances -> bytes_]
  position,   \* [Instances -> where the file handle stands]
  call,       \* [Instances -> the call that runs]
  cursor,     \* [Instances -> the open LazyCursor, or Closed]
  answer,     \* [Instances -> what the last call gave]
  view        \* [Instances -> the view valueAt() returned, while it is valid]

cacheVars == <<lru, bytes>>
vars == <<index, alive, cacheVars, position, call, cursor, answer, view>>

Idle   == [op |-> "none", at |-> 0, keep |-> <<0, 0>>, todo |-> <<>>, stage |-> "idle"]
Closed == [open |-> FALSE]
Void   == [op |-> "void"]
Thrown == [op |-> "threw"]
Answer(op, s, t, r) == [op |-> op, stream |-> s, at |-> t, result |-> r]

Lookups == {"valueAt", "nextChange", "prevChange"}
AtMost(a, b) == IF a <= b THEN a ELSE b
AtLeast(a, b) == IF a >= b THEN a ELSE b

Content(ref) == [first |-> ref.first, times |-> ref.times]
NoBlock == [first |-> 1, times |-> <<>>]
Bytes(block) == HeadBytes + Len(block.times)

----------------------------------------------------------------------------
(* The index.  Searches over the begins and the ends of a stream's blocks.  *)
Begins(s) == [b \in DOMAIN index[s] |-> index[s][b].begin]
Ends(s) == [b \in DOMAIN index[s] |-> index[s][b].end]

(* blocksIn(): first and last block that meet a range; none when last is    *)
(* before first.                                                            *)
BlocksIn(s, range) ==
  {<<u + 1, AtLeast(v, u)>> : u \in UpperBounds(Ends(s), range[1]),
                              v \in LowerBounds(Begins(s), range[2])}

Up(s, from, to) == [k \in 1 .. to - from + 1 |-> <<s, from + k - 1>>]
Down(s, from, to) == [k \in 1 .. from - to + 1 |-> <<s, from - k + 1>>]

(* The blocks a lookup visits until one of them answers, in order.          *)
Plans(op, s, t) ==
  CASE op = "valueAt"    -> {Down(s, u, AtLeast(u - 1, 1)) : u \in UpperBounds(Begins(s), t)}
    [] op = "nextChange" -> {Up(s, u + 1, Len(index[s])) : u \in UpperBounds(Ends(s), t)}
    [] op = "prevChange" -> {Down(s, u, 1) : u \in LowerBounds(Begins(s), t)}

(* What it gives when no block answers. *)
Missing(op) == IF op \in {"valueAt", "carry"} THEN 0 ELSE NoTime

(* What a visited block answers: nothing, or one result.  "carry" is the    *)
(* second block of valueAt(), whose last value is carried over.             *)
Results(op, block, t) ==
  CASE op = "valueAt"    -> {block.first + u - 1 : u \in UpperBounds(block.times, t) \ {0}}
    [] op = "carry"      -> IF block.times = <<>> THEN {} ELSE {block.first + Len(block.times) - 1}
    [] op = "nextChange" -> {block.times[u + 1] : u \in UpperBounds(block.times, t) \ {Len(block.times)}}
    [] op = "prevChange" -> {block.times[u] : u \in LowerBounds(block.times, t) \ {0}}
    [] op = "prefetch"   -> {}

Public(op) == IF op = "carry" THEN "valueAt" ELSE op

----------------------------------------------------------------------------
(* Seeded faults: each replaces the definition it is named after, and the   *)
(* property named beside it finds it.                                       *)
BytesWith_Forgotten(i, block) == bytes[i]                     \* TypeOK
PastTheCache_Evicting(i) ==                                   \* ViewResident
  /\ lru' = [lru EXCEPT ![i] = <<>>]
  /\ bytes' = [bytes EXCEPT ![i] = 0]
MustEvict_Last(i) == bytes[i] > CacheBytes /\ lru[i] # <<>>   \* RightBlock
BytesWithout_Reset(i, k) == 0                                 \* CacheWithinLimit
BytesWithout_Same(i, k) == bytes[i]                           \* BytesExact
NextVisit_Same(todo) == todo                                  \* CallsReturn
Loaded_Unmarked(c, b, block, p) ==                            \* CallsReturn
  [c EXCEPT !.block = b, !.cur = block, !.pos = p]
Key_NoCookie(s, ref) == <<s, ref.offset>>                     \* ImplementsStorage
StartIn_Begin(c, times) == {0}                                \* ImplementsStorage
Handle_Shared(i) == Primary                                   \* ImplementsStorage

(* The key of a cached block, and the handle an instance reads through.     *)
Key(s, ref) == <<s, ref.offset, ref.cookie>>
Handle(i) == i

(* decode(): the block that lies at an offset.  In a file that shares one   *)
(* offset among blocks, stream and cookie choose among them.                *)
DecodedAt(off, s, cookie) ==
  LET at(q) == {ref \in Range(index[q]) : ref.offset = off}
      mine  == {ref \in at(s) : ref.cookie = cookie}
  IN {Content(ref) : ref \in IF mine # {} THEN mine ELSE UNION {at(q) : q \in Streams}}

----------------------------------------------------------------------------
Init ==
  /\ index \in Layouts
  /\ alive = {Primary}
  /\ lru = [i \in Instances |-> <<>>]
  /\ bytes = [i \in Instances |-> 0]
  /\ position = [i \in Instances |-> 0]
  /\ call = [i \in Instances |-> Idle]
  /\ cursor = [i \in Instances |-> Closed]
  /\ answer = [i \in Instances |-> Void]
  /\ view = [i \in Instances |-> NoView]

Ready(i) == i \in alive /\ call[i] = Idle

Running(i, c) == call' = [call EXCEPT ![i] = c]
Give(i, a) == answer' = [answer EXCEPT ![i] = a]
Return(i, a) == Running(i, Idle) /\ Give(i, a)
EndOfView(i) == view' = [view EXCEPT ![i] = NoView]

(* valueAt(), nextChange(), prevChange(): find the blocks to visit. *)
Lookup(i, op, s, t) ==
  /\ Ready(i)
  /\ EndOfView(i)
  /\ \E plan \in Plans(op, s, t) :
       IF plan = <<>>
       THEN Give(i, Answer(op, s, t, Missing(op))) /\ UNCHANGED call
       ELSE /\ Running(i, [Idle EXCEPT !.op = op, !.at = t, !.todo = plan, !.stage = "look"])
            /\ Give(i, Void)
  /\ UNCHANGED <<index, alive, cacheVars, position, cursor>>

(* prefetch() of the streams <<s, q>>, or of one stream. *)
Prefetch(i, s, q, range) ==
  /\ Ready(i)
  /\ EndOfView(i)
  /\ \E m \in BlocksIn(s, range), n \in BlocksIn(q, range) :
       LET todo == Up(s, m[1], m[2]) \o (IF q = s THEN <<>> ELSE Up(q, n[1], n[2]))
       IN IF todo = <<>>
          THEN UNCHANGED call
          ELSE Running(i, [Idle EXCEPT !.op = "prefetch", !.todo = todo, !.stage = "look"])
  /\ Give(i, Void)
  /\ UNCHANGED <<index, alive, cacheVars, position, cursor>>

(* BlockCache::get(), until the block is at the front of the list. *)
Wanted(i) == index[call[i].todo[1][1]][call[i].todo[1][2]]
WantedKey(i) == Key(call[i].todo[1][1], Wanted(i))
Cached(i) == {k \in DOMAIN lru[i] : lru[i][k].key = WantedKey(i)}
Stage(i, stage) == call' = [call EXCEPT ![i].stage = stage]

Hit(i) ==
  /\ call[i].stage = "look"
  /\ \E k \in Cached(i) : lru' = [lru EXCEPT ![i] = <<@[k]>> \o RemoveAt(@, k)]
  /\ Stage(i, "use")
  /\ UNCHANGED <<index, alive, bytes, position, cursor, answer, view>>

Miss(i) ==
  /\ call[i].stage = "look" /\ Cached(i) = {}
  /\ position' = [position EXCEPT ![Handle(i)] = Wanted(i).offset]
  /\ Stage(i, "read")
  /\ UNCHANGED <<index, alive, cacheVars, cursor, answer, view>>

(* FileBlockSource::readBlock(), after its seek. *)
Decoded(i) == DecodedAt(position[Handle(i)], call[i].todo[1][1], Wanted(i).cookie)

BytesWith(i, block) == bytes[i] + Bytes(block)

Insert(i) ==
  /\ call[i].stage = "read"
  /\ \E block \in Decoded(i) :
       /\ lru' = [lru EXCEPT ![i] =
            <<[key |-> WantedKey(i), begin |-> Wanted(i).begin, end |-> Wanted(i).end,
               block |-> block]>> \o @]
       /\ bytes' = [bytes EXCEPT ![i] = BytesWith(i, block)]
  /\ Stage(i, "evict")
  /\ UNCHANGED <<index, alive, position, cursor, answer, view>>

ReadThrows(i) ==
  /\ call[i].stage = "read"
  /\ Return(i, Thrown)
  /\ UNCHANGED <<index, alive, cacheVars, position, cursor, view>>

(* evict(): one entry per step of its loop. *)
MustEvict(i) == bytes[i] > CacheBytes /\ Len(lru[i]) > 1

Evict(i) ==
  /\ call[i].stage = "evict" /\ MustEvict(i)
  /\ bytes' = [bytes EXCEPT ![i] = @ - Bytes(Last(lru[i]).block)]
  /\ lru' = [lru EXCEPT ![i] = Front(@)]
  /\ UNCHANGED <<index, alive, position, call, cursor, answer, view>>

EvictEnds(i) ==
  /\ call[i].stage = "evict" /\ ~MustEvict(i)
  /\ Stage(i, "use")
  /\ UNCHANGED <<index, alive, cacheVars, position, cursor, answer, view>>

(* Back in the caller of get(), with the block it returned. *)
FrontBlock(i) == lru[i][1].block

UseAnswers(i) ==
  /\ call[i].stage = "use"
  /\ \E r \in Results(call[i].op, FrontBlock(i), call[i].at) :
       LET op == Public(call[i].op)
       IN /\ Return(i, Answer(op, call[i].todo[1][1], call[i].at, r))
          /\ view' = [view EXCEPT ![i] = IF op = "valueAt"
                                         THEN [key |-> lru[i][1].key, change |-> r]
                                         ELSE @]
  /\ UNCHANGED <<index, alive, cacheVars, position, cursor>>

NextVisit(todo) == Tail(todo)

UseMovesOn(i) ==
  /\ call[i].stage = "use"
  /\ Results(call[i].op, FrontBlock(i), call[i].at) = {}
  /\ Len(call[i].todo) > 1
  /\ Running(i, [call[i] EXCEPT !.op = IF @ = "valueAt" THEN "carry" ELSE @,
                                !.todo = NextVisit(@), !.stage = "look"])
  /\ UNCHANGED <<index, alive, cacheVars, position, cursor, answer, view>>

UseEnds(i) ==
  /\ call[i].stage = "use"
  /\ Results(call[i].op, FrontBlock(i), call[i].at) = {}
  /\ Len(call[i].todo) = 1
  /\ LET op == call[i].op
     IN Return(i, IF op = "prefetch" THEN Void
                  ELSE Answer(Public(op), call[i].todo[1][1], call[i].at, Missing(op)))
  /\ UNCHANGED <<index, alive, cacheVars, position, cursor, view>>

----------------------------------------------------------------------------
(* release(): drop the entries outside a range, one per step of its loop.   *)
Overlaps(entry, keep) == entry.begin < keep[2] /\ keep[1] < entry.end

Release(i, keep) ==
  /\ Ready(i)
  /\ EndOfView(i)
  /\ Running(i, [Idle EXCEPT !.op = "release", !.keep = keep, !.stage = "release"])
  /\ Give(i, Void)
  /\ UNCHANGED <<index, alive, cacheVars, position, cursor>>

Outside(i) == {k \in DOMAIN lru[i] : ~Overlaps(lru[i][k], call[i].keep)}

BytesWithout(i, k) == bytes[i] - Bytes(lru[i][k].block)

ReleaseDrops(i) ==
  /\ call[i].stage = "release"
  /\ \E k \in Outside(i) :
       /\ \A j \in Outside(i) : k <= j
       /\ bytes' = [bytes EXCEPT ![i] = BytesWithout(i, k)]
       /\ lru' = [lru EXCEPT ![i] = RemoveAt(@, k)]
  /\ UNCHANGED <<index, alive, position, call, cursor, answer, view>>

ReleaseEnds(i) ==
  /\ call[i].stage = "release" /\ Outside(i) = {}
  /\ Return(i, Void)
  /\ UNCHANGED <<index, alive, cacheVars, position, cursor, view>>

(* duplicate(): the index is shared, the cache empty, the file opened anew. *)
(* A source that cannot be duplicated leaves everything as it is.           *)
Duplicate(i, j) ==
  /\ Ready(i)
  /\ j \notin alive
  /\ alive' = alive \cup {j}
  /\ UNCHANGED <<index, cacheVars, position, call, cursor, answer, view>>

(* openCursor(): no block is read yet; EmptyCursor is a cursor without blocks. *)
OpenCursor(i, s, range) ==
  /\ Ready(i)
  /\ \E m \in BlocksIn(s, range) :
       LET none == range[1] >= range[2] \/ m[1] > m[2]
       IN cursor' = [cursor EXCEPT ![i] =
            [stream |-> s, begin |-> range[1], end |-> range[2],
             block |-> IF none THEN 1 ELSE m[1], last |-> IF none THEN 0 ELSE m[2],
             loaded |-> FALSE, cur |-> NoBlock, pos |-> 0]]
  /\ Give(i, Void)
  /\ UNCHANGED <<index, alive, cacheVars, position, call, view>>

(* LazyCursor::next().  The loop reads the current block, then goes on to   *)
(* the next one, past the cache.                                            *)
CursorNext(i) ==
  /\ Ready(i) /\ cursor[i] # Closed
  /\ Running(i, [Idle EXCEPT !.op = "next", !.stage = "scan"])
  /\ Give(i, Void)
  /\ UNCHANGED <<index, alive, cacheVars, position, cursor, view>>

AtBlockEnd(c) == ~c.loaded \/ c.pos = Len(c.cur.times)
BlockToLoad(c) == IF c.loaded THEN AtMost(c.block, c.last) + 1 ELSE c.block

CursorGives(i) ==
  /\ call[i].stage = "scan"
  /\ ~AtBlockEnd(cursor[i])
  /\ LET c == cursor[i]
         t == c.cur.times[c.pos + 1]
     IN IF t >= c.end
        THEN UNCHANGED cursor /\ Return(i, Answer("next", c.stream, NoTime, 0))
        ELSE /\ cursor' = [cursor EXCEPT ![i].pos = @ + 1]
             /\ Return(i, Answer("next", c.stream, t, c.cur.first + c.pos))
  /\ UNCHANGED <<index, alive, cacheVars, position, view>>

CursorSeeks(i) ==
  /\ call[i].stage = "scan"
  /\ AtBlockEnd(cursor[i])
  /\ LET c == cursor[i]
     IN IF BlockToLoad(c) > c.last
        THEN /\ cursor' = [cursor EXCEPT ![i].block = BlockToLoad(c)]
             /\ Return(i, Answer("next", c.stream, NoTime, 0))
             /\ UNCHANGED position
        ELSE /\ position' = [position EXCEPT ![Handle(i)] = index[c.stream][BlockToLoad(c)].offset]
             /\ Stage(i, "load")
             /\ UNCHANGED <<cursor, answer>>
  /\ UNCHANGED <<index, alive, cacheVars, view>>

(* Where the search starts in a block: only the first may begin early. *)
StartIn(c, times) == IF c.loaded THEN {0} ELSE LowerBounds(times, c.begin)

Loaded(c, b, block, p) == [c EXCEPT !.block = b, !.loaded = TRUE, !.cur = block, !.pos = p]

(* A scan must not push out what lookups cached. *)
PastTheCache(i) == UNCHANGED cacheVars

CursorLoads(i) ==
  /\ call[i].stage = "load"
  /\ LET c   == cursor[i]
         b   == BlockToLoad(c)
         ref == index[c.stream][b]
     IN \E block \in DecodedAt(position[Handle(i)], c.stream, ref.cookie) :
          \E p \in StartIn(c, block.times) :
            cursor' = [cursor EXCEPT ![i] = Loaded(c, b, block, p)]
  /\ Stage(i, "scan")
  /\ PastTheCache(i)
  /\ UNCHANGED <<index, alive, position, answer, view>>

(* Seeded fault: loaded_ is set before the first load.  LostWithTheirBlocks *)
CursorThrows_Marked(i) ==
  /\ call[i].stage = "load"
  /\ cursor' = [cursor EXCEPT ![i].block = BlockToLoad(cursor[i]), ![i].loaded = TRUE]
  /\ Return(i, Thrown)
  /\ UNCHANGED <<index, alive, cacheVars, position, view>>

(* A load that throws: past the first block, the cursor has moved on.       *)
CursorThrows(i) ==
  /\ call[i].stage = "load"
  /\ cursor' = [cursor EXCEPT ![i].block = BlockToLoad(cursor[i])]
  /\ Return(i, Thrown)
  /\ UNCHANGED <<index, alive, cacheVars, position, view>>

Calls(i) ==
  \/ \E op \in Lookups, s \in Streams, t \in Asked : Lookup(i, op, s, t)
  \/ \E s, q \in Streams, range \in Windows : Prefetch(i, s, q, range)
  \/ \E keep \in Windows : Release(i, keep)
  \/ \E j \in Instances : Duplicate(i, j)
  \/ \E s \in Streams, range \in Ranges : OpenCursor(i, s, range)
  \/ CursorNext(i)

(* What an instance does inside a call. *)
Work(i) ==
  \/ Hit(i) \/ Miss(i) \/ Insert(i) \/ ReadThrows(i)
  \/ Evict(i) \/ EvictEnds(i)
  \/ UseAnswers(i) \/ UseMovesOn(i) \/ UseEnds(i)
  \/ ReleaseDrops(i) \/ ReleaseEnds(i)
  \/ CursorGives(i) \/ CursorSeeks(i) \/ CursorLoads(i) \/ CursorThrows(i)

Next == \E i \in Instances : Calls(i) \/ Work(i)

(* A call that runs keeps running, in the thread of its instance; nothing   *)
(* obliges a caller to call.                                                *)
Spec == Init /\ [][Next]_vars /\ \A i \in Instances : WF_vars(Work(i))
----------------------------------------------------------------------------
Visit == Streams \X (Nat \ {0})
Call == [op : Lookups \cup {"none", "carry", "prefetch", "release", "next"}, at : Int,
         keep : Int \X Int, todo : Seq(Visit),
         stage : {"idle", "look", "read", "evict", "use", "release", "scan", "load"}]
Block == [first : Nat, times : Seq(Int)]
Entry == [key : Streams \X Nat \X Nat, begin : Int, end : Int, block : Block]
Cursor == [stream : Streams, begin : Int, end : Int, block : Nat, last : Nat,
           loaded : BOOLEAN, cur : Block, pos : Nat]

(* Everything has its type; in particular bytes_, which is unsigned, never  *)
(* wraps, whatever is inserted, evicted and released.                       *)
TypeOK ==
  /\ index \in [Streams -> Seq(Ref)]
  /\ alive \subseteq Instances
  /\ lru \in [Instances -> Seq(Entry)]
  /\ bytes \in [Instances -> Nat]
  /\ position \in [Instances -> Nat]
  /\ call \in [Instances -> Call]
  /\ cursor \in [Instances -> Cursor \cup {Closed}]

(* While the caller of get() uses the block it was given, that block is in  *)
(* the cache, is the one the index names and has its own content: eviction  *)
(* never takes it (lazy_storage.cpp:185), and neither a block of another    *)
(* stream at the same offset nor another thread's seek is mistaken for it.  *)
RightBlock ==
  \A i \in Instances :
    call[i].stage = "use" =>
      /\ lru[i] # <<>>
      /\ lru[i][1].key = WantedKey(i)
      /\ FrontBlock(i) = Content(Wanted(i))

(* A view given by valueAt() points into a block that stays cached until    *)
(* the next call that may evict (storage.hpp:43): opening and reading a     *)
(* cursor, and duplicating the storage, leave it valid.                     *)
ViewResident ==
  \A i \in Instances :
    view[i] # NoView =>
      \E k \in DOMAIN lru[i] :
        LET block == lru[i][k].block
        IN /\ lru[i][k].key = view[i].key
           /\ view[i].change \in block.first .. block.first + Len(block.times) - 1

SumBytes(entries) == SumFunction([k \in DOMAIN entries |-> Bytes(entries[k].block)])

(* cachedBytes() is what the cached blocks take, through every hit, miss,   *)
(* eviction and release.                                                    *)
BytesExact == \A i \in Instances : bytes[i] = SumBytes(lru[i])

(* Outside eviction the blocks really cached fit Options::cacheBytes, unless *)
(* there is a single one, which the caller may be using.                    *)
CacheWithinLimit ==
  \A i \in Instances :
    call[i].stage # "evict" => SumBytes(lru[i]) <= CacheBytes \/ Len(lru[i]) <= 1

(* The accounting of the cache as a whole: list, map and counter have their *)
(* types, the counter is exact, and the limit holds.                        *)
CacheExact == TypeOK /\ BytesExact /\ CacheWithinLimit

(* Every call returns, an answer or an exception: the loops over blocks, of *)
(* eviction and of next() end.                                              *)
CallsReturn == \A i \in Instances : (call[i] # Idle) ~> (call[i] = Idle)
=============================================================================
