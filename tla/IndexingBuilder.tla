-------------------------- MODULE IndexingBuilder --------------------------
(***************************************************************************)
(* The streaming writer of a *.wsfstore file: IndexingBuilder              *)
(* (src/src/io/indexing_builder.cpp) together with the std::ofstream it    *)
(* writes to and with openStore() (src/src/io/store.cpp), which may be     *)
(* tried on the file at any moment: during the ingestion, after a failed   *)
(* write, after the process died.                                          *)
(*                                                                         *)
(* What is abstracted.  A change is its time and its ordinal in the        *)
(* history of its stream, so that two changes are never confused and a     *)
(* value is never needed.  A stored block is the sequence of its changes;  *)
(* its size on disk is any member of BlockSizes (what the codec makes of   *)
(* it).  The bytes of a file are a sequence of written segments, and a     *)
(* segment that was cut short is a positive number of bytes, `torn'.       *)
(***************************************************************************)
EXTENDS Integers, Sequences, SequencesExt, Functions

CONSTANTS
  MaxStreams,     \* bound: how many streams the header may declare
  MaxChanges,     \* bound: how many changes the reader reports per stream
  MaxTime,        \* bound: the last time stamp of the dump
  Kinds,          \* value kinds a stream may have
  EmptyPayload,   \* [Kinds -> bytes payloadBytes() gives for a fresh block]
  ChangePayload,  \* [Kinds -> bytes one change adds to it]
  BlockChanges,   \* blockChanges_
  BufferBytes,    \* bufferBytes_
  BlockSizes,     \* sizes an encoded, compressed block may have on disk
  HeaderSize,     \* StoreLayout::kHeaderSize
  MetaSize,       \* size of the two metadata sections
  FooterSize,     \* StoreLayout::kFooterSize
  NoTime,         \* kNoTime, below every time stamp of the model
  NoKind          \* stands for a stream that is not allocated

ASSUME BoundsAssumption ==
  /\ MaxStreams \in Nat /\ MaxChanges \in Nat /\ MaxTime \in Nat
ASSUME OptionsAssumption ==
  /\ BlockChanges \in Nat \ {0}
  /\ BufferBytes \in Nat \ {0}
ASSUME PayloadAssumption ==
  /\ EmptyPayload \in [Kinds -> Nat]
  /\ ChangePayload \in [Kinds -> Nat \ {0}]
  /\ NoKind \notin Kinds
ASSUME LayoutAssumption ==
  /\ BlockSizes \subseteq Nat \ {0}
  /\ HeaderSize \in Nat \ {0} /\ MetaSize \in Nat \ {0} /\ FooterSize \in Nat \ {0}
ASSUME NoTimeAssumption == NoTime \in Int /\ NoTime < 0

VARIABLES
  pc,         \* what the builder is doing (see Phases)
  sid,        \* loop variable of flushStream's callers
  minCount,   \* threshold of the current pass of relieve()
  allocated,  \* streams_.size()
  kind,       \* [Sids -> kind of the stream]
  block,      \* [Sids -> changes in Stream::block]
  payload,    \* [Sids -> payloadBytes(Stream::block)]
  buffered,   \* buffered_
  now,        \* now_
  firstTime, lastTime,
  index,      \* [Sids -> sequence of BlockRef], index_
  offset,     \* offset_
  out,        \* state of the ofstream: "good", "failed", "closed"
  finished,   \* finished_
  outcome,    \* how the first call of finish() ended: "none", "returned", "threw"
  written,    \* segments handed to the ofstream, in order
  landed,     \* how many of them are in the file
  torn,       \* bytes of the next one that are in the file too
  history     \* [Sids -> changes reported by valueChange]; what must not be lost

callVars   == <<pc, sid, minCount>>
streamVars == <<allocated, kind, block, payload, buffered>>
timeVars   == <<now, firstTime, lastTime>>
fileVars   == <<written, landed, torn>>
vars == <<callVars, streamVars, timeVars, fileVars, index, offset, out, finished, outcome, history>>

Sids == 0 .. MaxStreams - 1      \* SignalId::get()
Times == 0 .. MaxTime

(* "idle": no call is running.  "flush": valueChange() found a full block.  *)
(* "relieve": inside relieve().  "drain", "meta", "footer", "sync": the     *)
(* stages of finish().  "taken": takeDatabase() was called.  "gone": the    *)
(* builder is destroyed or its process died.                                *)
Phases == {"idle", "flush", "relieve", "drain", "meta", "footer", "sync", "taken", "gone"}
Running == {"flush", "relieve", "drain", "meta", "footer", "sync"}

Change == [time : Times, n : Nat]
BlockRef == [begin : Int, end : Int, offset : Nat, storedSize : Nat, count : Nat]
Segment ==
  [kind : {"header"}, off : Nat, size : Nat]
    \cup [kind : {"block"}, off : Nat, size : Nat, data : Seq(Change)]
    \cup [kind : {"meta"}, off : Nat, size : Nat,
          index : [Sids -> Seq(BlockRef)], begin : Int, end : Int]
    \cup [kind : {"footer"}, off : Nat, size : Nat, metaOffset : Nat, metaSize : Nat]

AtMost(a, b) == IF a <= b THEN a ELSE b
AtLeast(a, b) == IF a >= b THEN a ELSE b

----------------------------------------------------------------------------
(* Seeded faults.  The specification uses none of them: each is a form that *)
(* the definition without the suffix could have by mistake, and the         *)
(* property named after it finds it.                                        *)
BudgetAfterFlush_Unclamped(total, freed) == total - freed             \* TypeOK
BudgetAfterFlush_Reset(total, freed) == 0                             \* CeilingHeld
OffsetAfter_BlocksOnly(seg) ==                                        \* OffsetIsFileEnd
  IF seg.kind = "block" THEN offset + seg.size ELSE offset
Emptied_Never(blocks, s) == blocks                                    \* NothingLost
SpanEnd_OfFirst(changes) == changes[1].time + 1                       \* IndexSearchable
NothingBuffered_IfPartial(s) == Len(block[s]) < BlockChanges          \* OpenOnlyWhenComplete
FooterSegment_Late ==                                                 \* FinishPublishes
  [kind |-> "footer", off |-> offset, size |-> FooterSize,
   metaOffset |-> offset, metaSize |-> MetaSize]
Indexed_AtFront(refs, ref) == <<ref>> \o refs                         \* ImplementsHistory
OverBudget_Stale(total) == buffered > BufferBytes                     \* BudgetHeld
ReliefDone_OnePass == TRUE                                            \* ReliefReachesTarget
NextThreshold_Stuck(m) == m                                           \* CallsReturn

(***************************************************************************)
(* Reading the file.  openStore() looks at the file alone: at what landed, *)
(* never at what the builder still holds.                                  *)
(***************************************************************************)
EndOf(j) == written[j].off + written[j].size
FileSize ==
  torn + IF landed = 0 THEN 0 ELSE EndOf(landed)

(* The segment that begins at byte `off' of the first `n' segments. *)
SegmentsAt(n, off) == {j \in 1 .. n : written[j].off = off}

HeaderReadable == landed > 0 /\ written[1].kind = "header"
FooterReadable == landed > 0 /\ torn = 0 /\ written[landed].kind = "footer"
Footer == written[landed]

(* The metadata extent named by the footer holds the metadata, whole: what  *)
(* the checksum in the footer establishes.                                  *)
MetaReadable ==
  \E j \in SegmentsAt(landed, Footer.metaOffset) :
    written[j].kind = "meta" /\ written[j].size = Footer.metaSize
Meta == written[CHOOSE j \in SegmentsAt(landed, Footer.metaOffset) : TRUE]

(* The checks of openStore(), in its order. *)
OpenResult ==
  IF FileSize < HeaderSize + FooterSize THEN "too small"
  ELSE IF ~HeaderReadable THEN "not a store"
  ELSE IF ~FooterReadable THEN "incomplete"
  ELSE IF \/ Footer.metaOffset < HeaderSize
          \/ Footer.metaOffset + Footer.metaSize + FooterSize > FileSize
       THEN "extent out of bounds"
  ELSE IF ~MetaReadable THEN "checksum mismatch"
  ELSE "opened"

(* FileBlockSource::readBlock over the first n segments: the changes stored *)
(* at the extent of a reference.                                            *)
Readable(n, ref) ==
  \E j \in SegmentsAt(n, ref.offset) :
    written[j].kind = "block" /\ written[j].size = ref.storedSize
Stored(n, ref) == written[CHOOSE j \in SegmentsAt(n, ref.offset) : TRUE].data

----------------------------------------------------------------------------
Init ==
  /\ pc = "idle" /\ sid = 0 /\ minCount = 1
  /\ allocated = 0
  /\ kind = [s \in Sids |-> NoKind]
  /\ block = [s \in Sids |-> <<>>]
  /\ payload = [s \in Sids |-> 0]
  /\ buffered = 0
  /\ now = 0 /\ firstTime = NoTime /\ lastTime = NoTime
  /\ index = [s \in Sids |-> <<>>]
  /\ offset = HeaderSize
  /\ out = "good"
  /\ finished = FALSE /\ outcome = "none"
  /\ written = <<[kind |-> "header", off |-> 0, size |-> HeaderSize]>>
  /\ landed = 0 /\ torn = 0
  /\ history = [s \in Sids |-> <<>>]

(* writeRaw(): the ofstream takes the bytes, or it fails for good.  A write *)
(* that fails leaves some prefix of everything not yet in the file.         *)
OffsetAfter(seg) == offset + seg.size

WriteOk(seg) ==
  /\ out = "good"
  /\ written' = Append(written, seg)
  /\ offset' = OffsetAfter(seg)
  /\ UNCHANGED <<out, landed, torn>>

WriteFails(seg) ==
  /\ out' = "failed"
  /\ IF out = "good"
     THEN \E k \in landed .. Len(written) :
            /\ landed' = k
            /\ torn' \in 0 .. (IF k < Len(written) THEN written[k + 1].size ELSE seg.size) - 1
     ELSE UNCHANGED <<landed, torn>>
  /\ UNCHANGED <<written, offset>>

(* flushStream(): the span of a block, its entry in the index, its bytes.   *)
SpanEnd(changes) == changes[Len(changes)].time + 1
RefOf(changes, off, size) ==
  [begin |-> changes[1].time, end |-> SpanEnd(changes),
   offset |-> off, storedSize |-> size, count |-> Len(changes)]
BlockSegment(changes, off, size) ==
  [kind |-> "block", off |-> off, size |-> size, data |-> changes]

BudgetAfterFlush(total, freed) == total - AtMost(total, freed)

NothingBuffered(s) == block[s] = <<>>
Emptied(blocks, s) == [blocks EXCEPT ![s] = <<>>]
Indexed(refs, ref) == Append(refs, ref)   \* SignalIndex::addBlock

AddBlock(s, size) ==
  /\ ~NothingBuffered(s)
  /\ index' = [index EXCEPT ![s] = Indexed(@, RefOf(block[s], offset, size))]

FlushOk(s) ==
  \E size \in BlockSizes :
    /\ AddBlock(s, size)
    /\ WriteOk(BlockSegment(block[s], offset, size))
    /\ buffered' = BudgetAfterFlush(buffered, payload[s])
    /\ block' = Emptied(block, s)
    /\ payload' = [payload EXCEPT ![s] = EmptyPayload[kind[s]]]
    /\ UNCHANGED <<allocated, kind>>

FlushFails(s) ==
  \E size \in BlockSizes :
    /\ AddBlock(s, size)
    /\ WriteFails(BlockSegment(block[s], offset, size))
    /\ UNCHANGED streamVars

----------------------------------------------------------------------------
(* Calls of the reader.  They come one at a time and follow the contract of *)
(* Builder (times do not decrease, nothing after finish()); a reader may go *)
(* on after an exception.                                                   *)
Callable == pc = "idle" /\ ~finished

AllocStream(k) ==
  /\ Callable
  /\ allocated < MaxStreams
  /\ allocated' = allocated + 1
  /\ kind' = [kind EXCEPT ![allocated] = k]
  /\ payload' = [payload EXCEPT ![allocated] = EmptyPayload[k]]
  /\ UNCHANGED <<callVars, block, buffered, timeVars, fileVars, index, offset,
                 out, finished, outcome, history>>

SetTime(t) ==
  /\ Callable
  /\ t > now
  /\ now' = t
  /\ UNCHANGED <<callVars, streamVars, firstTime, lastTime, fileVars, index,
                 offset, out, finished, outcome, history>>

(* The first threshold of relieve() and the one after m. *)
FirstThreshold(maxCount) == AtMost(AtLeast(BlockChanges \div 4, 1), maxCount)
NextThreshold(m) == AtLeast(m \div 4, 1)
IsLongest(blocks, s) == \A r \in Sids : Len(blocks[r]) <= Len(blocks[s])

(* valueChange(): append, then a full block is flushed, else a budget that  *)
(* is exceeded is relieved.  An unknown id is ignored, which is no step.    *)
MustFlush(changes) == Len(changes) >= BlockChanges
OverBudget(total) == total > BufferBytes

ValueChange(s) ==
  /\ Callable
  /\ s < allocated
  /\ Len(history[s]) < MaxChanges
  /\ LET change == [time |-> now, n |-> Len(history[s]) + 1]
     IN /\ history' = [history EXCEPT ![s] = Append(@, change)]
        /\ block' = [block EXCEPT ![s] = Append(@, change)]
  /\ payload' = [payload EXCEPT ![s] = @ + ChangePayload[kind[s]]]
  /\ buffered' = buffered + ChangePayload[kind[s]]
  /\ firstTime' = IF firstTime = NoTime THEN now ELSE firstTime
  /\ lastTime' = now
  /\ IF MustFlush(block'[s])
     THEN pc' = "flush" /\ sid' = s /\ UNCHANGED minCount
     ELSE IF OverBudget(buffered')
     THEN /\ pc' = "relieve" /\ sid' = 0
          /\ \E r \in Sids : IsLongest(block', r) /\ minCount' = FirstThreshold(Len(block'[r]))
     ELSE UNCHANGED callVars
  /\ UNCHANGED <<allocated, kind, now, fileVars, index, offset, out, finished, outcome>>

FlushFull ==
  /\ pc = "flush"
  /\ FlushOk(sid) \/ FlushFails(sid)
  /\ pc' = "idle"
  /\ UNCHANGED <<sid, minCount, timeVars, finished, outcome, history>>

(* relieve(): passes over all streams with a falling threshold. *)
RelieveFlush ==
  /\ pc = "relieve" /\ sid < allocated
  /\ Len(block[sid]) >= minCount
  /\ \/ FlushOk(sid) /\ sid' = sid + 1 /\ UNCHANGED pc
     \/ FlushFails(sid) /\ pc' = "idle" /\ UNCHANGED sid
  /\ UNCHANGED <<minCount, timeVars, finished, outcome, history>>

RelieveSkip ==
  /\ pc = "relieve" /\ sid < allocated
  /\ Len(block[sid]) < minCount
  /\ sid' = sid + 1
  /\ UNCHANGED <<pc, minCount, streamVars, timeVars, fileVars, index, offset,
                 out, finished, outcome, history>>

ReliefDone == buffered <= BufferBytes \div 2 \/ minCount = 1

RelievePassEnds ==
  /\ pc = "relieve" /\ sid = allocated
  /\ IF ReliefDone
     THEN pc' = "idle" /\ UNCHANGED <<sid, minCount>>
     ELSE minCount' = NextThreshold(minCount) /\ sid' = 0 /\ UNCHANGED pc
  /\ UNCHANGED <<streamVars, timeVars, fileVars, index, offset, out, finished,
                 outcome, history>>

----------------------------------------------------------------------------
(* finish(): every accumulator, then metadata, footer, flush and close.  A  *)
(* second call returns at once, which is no step.                           *)
Finish ==
  /\ Callable
  /\ finished' = TRUE
  /\ pc' = "drain" /\ sid' = 0
  /\ UNCHANGED <<minCount, streamVars, timeVars, fileVars, index, offset, out,
                 outcome, history>>

FinishThrows == pc' = "idle" /\ outcome' = "threw"

DrainFlush ==
  /\ pc = "drain" /\ sid < allocated
  /\ \/ FlushOk(sid) /\ sid' = sid + 1 /\ UNCHANGED <<pc, outcome>>
     \/ FlushFails(sid) /\ FinishThrows /\ UNCHANGED sid
  /\ UNCHANGED <<minCount, timeVars, finished, history>>

DrainSkip ==
  /\ pc = "drain" /\ sid < allocated
  /\ NothingBuffered(sid)
  /\ sid' = sid + 1
  /\ UNCHANGED <<pc, minCount, streamVars, timeVars, fileVars, index, offset,
                 out, finished, outcome, history>>

DrainEnds ==
  /\ pc = "drain" /\ sid = allocated
  /\ pc' = "meta"
  /\ UNCHANGED <<sid, minCount, streamVars, timeVars, fileVars, index, offset,
                 out, finished, outcome, history>>

(* writeTrailer(): the sections with the index and its time range ... *)
MetaSegment ==
  [kind |-> "meta", off |-> offset, size |-> MetaSize, index |-> index,
   begin |-> IF firstTime = NoTime THEN 0 ELSE firstTime,
   end |-> IF firstTime = NoTime THEN 0 ELSE lastTime + 1]

WriteMeta ==
  /\ pc = "meta"
  /\ \/ WriteOk(MetaSegment) /\ pc' = "footer" /\ UNCHANGED outcome
     \/ WriteFails(MetaSegment) /\ FinishThrows
  /\ UNCHANGED <<sid, minCount, streamVars, timeVars, index, finished, history>>

(* ... and the footer, which names their extent. *)
FooterSegment ==
  [kind |-> "footer", off |-> offset, size |-> FooterSize,
   metaOffset |-> offset - MetaSize, metaSize |-> MetaSize]

WriteFooter ==
  /\ pc = "footer"
  /\ \/ WriteOk(FooterSegment) /\ pc' = "sync" /\ UNCHANGED outcome
     \/ WriteFails(FooterSegment) /\ FinishThrows
  /\ UNCHANGED <<sid, minCount, streamVars, timeVars, index, finished, history>>

FlushAndClose ==
  /\ pc = "sync"
  /\ landed' = Len(written) /\ torn' = 0
  /\ out' = "closed"
  /\ pc' = "idle" /\ outcome' = "returned"
  /\ UNCHANGED <<sid, minCount, streamVars, timeVars, written, index, offset,
                 finished, history>>

FlushThrows ==
  /\ pc = "sync"
  /\ \E k \in landed .. Len(written) - 1 :
       landed' = k /\ torn' \in 0 .. written[k + 1].size - 1
  /\ out' = "failed"
  /\ FinishThrows
  /\ UNCHANGED <<sid, minCount, streamVars, timeVars, written, index, offset,
                 finished, history>>

(* takeDatabase(): the index moves into a LazyStorage over the file.  By    *)
(* contract it follows finish(); nothing asks whether finish() threw.       *)
TakeDatabase ==
  /\ pc = "idle" /\ finished
  /\ pc' = "taken"
  /\ UNCHANGED <<sid, minCount, streamVars, timeVars, fileVars, index, offset,
                 out, finished, outcome, history>>

----------------------------------------------------------------------------
(* The environment: buffered bytes reach the file on their own, in order,   *)
(* and the process may die between any two steps.                           *)
Land ==
  /\ out = "good" /\ pc # "gone"
  /\ landed < Len(written)
  /\ landed' = landed + 1
  /\ UNCHANGED <<callVars, streamVars, timeVars, written, torn, index, offset,
                 out, finished, outcome, history>>

Die ==
  /\ pc \notin {"gone", "taken"}
  /\ pc' = "gone"
  /\ IF out = "good" /\ landed < Len(written)
     THEN torn' \in 0 .. written[landed + 1].size - 1
     ELSE UNCHANGED torn
  /\ UNCHANGED <<sid, minCount, streamVars, timeVars, written, landed, index,
                 offset, out, finished, outcome, history>>

Calls ==
  \/ \E k \in Kinds : AllocStream(k)
  \/ \E t \in Times : SetTime(t)
  \/ \E s \in Sids : ValueChange(s)
  \/ Finish
  \/ TakeDatabase

(* What the builder does once it was called. *)
Internal ==
  \/ FlushFull
  \/ RelieveFlush \/ RelieveSkip \/ RelievePassEnds
  \/ DrainFlush \/ DrainSkip \/ DrainEnds
  \/ WriteMeta \/ WriteFooter \/ FlushAndClose \/ FlushThrows

Next == Calls \/ Internal \/ Land \/ Die

(* A call that runs keeps running: the builder has one thread and never     *)
(* waits.  Nothing is assumed of the reader, the file or the process.       *)
Spec == Init /\ [][Next]_vars /\ WF_vars(Internal)

----------------------------------------------------------------------------
(* The type of every variable; buffered_ is a size_t and must not wrap.     *)
TypeOK ==
  /\ pc \in Phases /\ sid \in 0 .. MaxStreams /\ minCount \in Nat \ {0}
  /\ allocated \in 0 .. MaxStreams
  /\ kind \in [Sids -> Kinds \cup {NoKind}]
  /\ block \in [Sids -> Seq(Change)]
  /\ payload \in [Sids -> Nat]
  /\ buffered \in Nat
  /\ now \in Times
  /\ firstTime \in Times \cup {NoTime} /\ lastTime \in Times \cup {NoTime}
  /\ index \in [Sids -> Seq(BlockRef)]
  /\ offset \in Nat
  /\ out \in {"good", "failed", "closed"}
  /\ finished \in BOOLEAN
  /\ outcome \in {"none", "returned", "threw"}
  /\ written \in Seq(Segment)
  /\ landed \in 0 .. Len(written) /\ torn \in Nat
  /\ history \in [Sids -> Seq(Change)]

(* offset_ is the end of the file and the segments tile it: "the offset of  *)
(* a block and the actual end of the file do not diverge" (writeRaw).       *)
Tiles(j) == written[j].off = IF j = 1 THEN 0 ELSE EndOf(j - 1)
OffsetIsFileEnd ==
  /\ \A j \in DOMAIN written : Tiles(j)
  /\ offset = EndOf(Len(written))

(* Upto(refs, n, i): the ordinal of the last change in the first i blocks.  *)
Upto(refs, n, i) == IF i = 0 THEN 0 ELSE Last(Stored(n, refs[i])).n

(* The blocks `refs' names in the first n segments, then `rest', are the    *)
(* history of stream s: each change once, in the order it was reported.     *)
Holds(refs, n, rest, s) ==
  /\ \A i \in 1 .. Len(refs) :
       /\ Readable(n, refs[i])
       /\ Upto(refs, n, i - 1) < Upto(refs, n, i)
       /\ Stored(n, refs[i]) = SubSeq(history[s], Upto(refs, n, i - 1) + 1, Upto(refs, n, i))
  /\ rest = SubSeq(history[s], Upto(refs, n, Len(refs)) + 1, Len(history[s]))

(* No change is lost, duplicated or reordered, whatever flushes, relief and *)
(* finish() do: the blocks on the way to the file, followed by the          *)
(* accumulator, are what the reader reported, as long as no write failed.   *)
NothingLost ==
  out # "failed" =>
    \A s \in Sids : Holds(index[s], Len(written), block[s], s)

(* What the binary searches of LazyStorage need of the index: begins and    *)
(* ends are both sorted, and a block's changes lie in its span.             *)
IndexSearchable ==
  out # "failed" =>
    \A s \in Sids : \A i \in 1 .. Len(index[s]) :
      /\ \A j \in 1 .. i - 1 :
           /\ index[s][j].begin <= index[s][i].begin
           /\ index[s][j].end <= index[s][i].end
           /\ index[s][j].end <= index[s][i].begin + 1
      /\ \A k \in DOMAIN Stored(Len(written), index[s][i]) :
           LET t == Stored(Len(written), index[s][i])[k].time
           IN index[s][i].begin <= t /\ t < index[s][i].end

(* A file that openStore() accepts holds every change of the dump, in       *)
(* blocks that landed, and its time range covers them; so an ingestion that *)
(* was cut short is never taken for a complete one.                         *)
OpenOnlyWhenComplete ==
  OpenResult = "opened" =>
    /\ finished
    /\ \A s \in Sids :
         /\ Holds(Meta.index[s], landed, <<>>, s)
         /\ \A k \in DOMAIN history[s] :
              Meta.begin <= history[s][k].time /\ history[s][k].time < Meta.end

(* Once finish() returned, the store opens, now and after any crash, and    *)
(* the database takeDatabase() returns can read every block.                *)
FinishPublishes ==
  outcome = "returned" =>
    /\ OpenResult = "opened"
    /\ \A s \in Sids : \A i \in DOMAIN index[s] : Readable(landed, index[s][i])

(* A store opens exactly when its ingestion is complete.                    *)
OpensExactly == OpenOnlyWhenComplete /\ FinishPublishes

(* Between calls the counter of buffered bytes is under its ceiling.        *)
BudgetHeld == pc = "idle" /\ out # "failed" => buffered <= BufferBytes

(* A relief that ends by itself leaves at most half the ceiling, and no     *)
(* step leaves a call with the counter above it.                            *)
ReliefReachesTarget ==
  [][/\ pc = "relieve" /\ pc' = "idle" /\ out' # "failed" => buffered' <= BufferBytes \div 2
     /\ BudgetHeld']_vars

(* The bytes of changes that accumulators hold, counted one by one.         *)
ChangeBytes ==
  SumFunction([s \in {r \in Sids : block[r] # <<>>} |->
                 payload[s] - EmptyPayload[kind[s]]])

(* The ceiling holds of the memory itself: "upper limit of the RAM for the  *)
(* block accumulators" (builder.hpp, IndexingOptions::bufferBytes).         *)
CeilingHeld == pc = "idle" /\ out # "failed" => ChangeBytes <= BufferBytes

(* Every call returns: no threshold makes relieve() loop for ever.          *)
CallsReturn == pc \in Running ~> pc \notin Running
=============================================================================
