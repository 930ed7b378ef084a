----------------------------- MODULE StoreFile -----------------------------
(***************************************************************************)
(* The bytes of a store file: what IndexingBuilder writes                  *)
(* (src/src/io/store_layout.hpp, SignalIndex::encode), what may happen to   *)
(* them on disk, and what openStore() makes of them (src/src/io/store.cpp). *)
(* The changes of one block are stored as the blocks of two streams.        *)
(*                                                                          *)
(* A file is a sequence of cells.  A cell is one byte, <<b>>; the cells of  *)
(* a checksum hold the bytes that were summed, so that sums agree exactly   *)
(* when those bytes do, and read as any number.  The hierarchy's rows are   *)
(* modelled in HierarchyCodec; here its body is one name.                   *)
(***************************************************************************)
EXTENDS DecodedBlock, TLC

CONSTANTS Kept,      \* bound: by kind, the histories that are stored
          Names,     \* stand for hierarchies
          Minors,    \* minor versions that may have written the file
          Tails,     \* what a later minor version adds to the bodies
          Spoils     \* how much a byte may change by

ASSUME StoreAssumption == 0 \in Minors /\ \A by \in Spoils : by \in 1 .. Byte - 1

VARIABLES file, written, fault
storeVars == <<file, written, fault>>

Magic == [store |-> 1, footer |-> 2, hierarchy |-> 3, index |-> 4]
Major == 1
MinorRange == 2 ^ ((ByteBits * HalfBytes) \div 2)    \* a version is two halves of a 32-bit number
Version(minor) == Major * MinorRange + minor
MajorOf(version) == version \div MinorRange

HeaderSize == 2 * HalfBytes
FooterSize == 2 * WordBytes + 2 * HalfBytes
SectionHeaderSize == 2 * HalfBytes + WordBytes

Cells(bytes) == [i \in DOMAIN bytes |-> <<bytes[i]>>]
Bytes(cells) == [i \in DOMAIN cells |-> Head(cells[i])]
Sum(bytes) == [i \in 1 .. HalfBytes |-> <<0>> \o bytes]

Section(magic, minor, body) == U32(magic) \o U32(Version(minor)) \o U64(Len(body)) \o body

EncodedRef(ref) ==
  U64(ref.begin) \o U64(ref.end) \o U64(ref.offset) \o U64(0) \o U32(ref.size) \o U32(ref.size)
    \o U32(0) \o U32(ref.count) \o U8(0)

(* SignalIndex::encode(), the streams in the order of the hash table.  The  *)
(* cookie, the block's own sum and the codec are zero.                      *)
EncodedIndex(index, order) ==
  U64(index.begin) \o U64(index.end) \o U32(index.exponent) \o U64(index.scale) \o U32(Len(order))
    \o FlattenSeq([k \in DOMAIN order |->
         LET refs == index.streams[order[k]]
         IN  U32(order[k]) \o U32(Len(refs)) \o FlattenSeq([r \in DOMAIN refs |-> EncodedRef(refs[r])])])

(* The blocks that `cut' splits the history into, and where they are put. *)
StoredBlocks(cut) == <<Slice(block, 0, cut), Slice(block, cut, Len(history))>>
Encoded(blocks) == [s \in DOMAIN blocks |-> EncodeBlock(blocks[s])]

RefsOf(blocks) ==
  LET raw == Encoded(blocks)
      ref(s) == [begin |-> Column!TimeAt(blocks[s].times, 0),
                 end |-> Column!TimeAt(blocks[s].times, Count(blocks[s]) - 1) + 1,
                 offset |-> HeaderSize + MapThenSumSet(LAMBDA r : Len(raw[r]), 1 .. s - 1),
                 size |-> Len(raw[s]) % Half, count |-> Count(blocks[s])]
  IN  [s \in {r \in DOMAIN blocks : Count(blocks[r]) > 0} |-> <<ref(s)>>]

IndexOfBlocks(blocks) ==
  [begin |-> Head(Times), end |-> Last(Times) + 1, exponent |-> -3, scale |-> 10, streams |-> RefsOf(blocks)]

(* The whole file, written from front to back. *)
FileOf(blocks, name, index, order, minor, tail) ==
  LET values == FlattenSeq(Encoded(blocks))
      meta == Section(Magic.hierarchy, minor, Str(name) \o tail)
                \o Section(Magic.index, minor, EncodedIndex(index, order) \o tail)
  IN  Cells(U32(Magic.store) \o U32(Version(minor)) \o values \o meta
              \o U64(HeaderSize + Len(values)) \o U64(Len(meta)))
        \o Sum(meta) \o Cells(U32(Magic.footer))

Write(cut, name, order, minor, tail) ==
  LET blocks == StoredBlocks(cut)
      index == IndexOfBlocks(blocks)
  IN  /\ written = <<>> /\ history \in Kept[block.kind]
      /\ \A s \in DOMAIN blocks : Count(blocks[s]) > 0
      /\ minor = 0 => tail = <<>>
      /\ order \in SetToSeqs(DOMAIN index.streams)
      /\ file' = FileOf(blocks, name, index, order, minor, tail)
      /\ written' = [name |-> name, index |-> index, blocks |-> blocks]
      /\ UNCHANGED <<block, history, fault>>

(* The end of the file is lost: the writer was stopped before it finished.  *)
CutOff(n) ==
  /\ written # <<>> /\ fault = "none" /\ n < Len(file)
  /\ file' = SubSeq(file, 1, n)
  /\ fault' = "cut"
  /\ UNCHANGED <<block, history, written>>

(* One byte reads as another. *)
Spoil(i, by) ==
  /\ written # <<>> /\ fault = "none"
  /\ file' = [file EXCEPT ![i] = <<(Head(@) + by) % Byte>>]
  /\ fault' = "byte"
  /\ UNCHANGED <<block, history, written>>

-----------------------------------------------------------------------------
\* Seeded fault: versions must be the same.  Violates OpensAsWritten.
Readable_SameMinor(version) == version = Version(0)

Readable(version) == MajorOf(version) = Major

(* readSection(): the body and the place after it, for the section that     *)
(* starts at pos.                                                           *)
ReadSection(meta, pos, magic) ==
  LET body(header) ==
        IF ~header.ok THEN Short
        ELSE IF header.value[1] # magic \/ ~Readable(header.value[2]) THEN Short
        ELSE TakeBytes(meta, header.pos, header.value[3])
  IN  body(Fields(meta, pos, <<HalfBytes, HalfBytes, WordBytes>>))

DecodedRef(data, pos) ==
  LET ref(read, v) ==
        IF ~read.ok THEN Short
        ELSE Got([begin |-> Signed(v[1], Word), end |-> Signed(v[2], Word), offset |-> v[3],
                  size |-> v[5], count |-> v[8]], read.pos)
      fields(read) == ref(read, read.value)
  IN  fields(Fields(data, pos, <<WordBytes, WordBytes, WordBytes, WordBytes,
                                 HalfBytes, HalfBytes, HalfBytes, HalfBytes, 1>>))

DecodedRefs(data, pos, count) ==
  LET add(r, next) == IF r.ok /\ next.ok THEN Got(Append(r.value, next.value), next.pos) ELSE Short
  IN  FoldLeft(LAMBDA r, i : add(r, DecodedRef(data, r.pos)), Got(<<>>, pos), [i \in 1 .. count |-> i])

(* The streams: those that come again add to the list they have. *)
DecodedStreams(data, pos, count) ==
  LET had(streams, id) == IF id \in DOMAIN streams THEN streams[id] ELSE <<>>
      add(streams, id, refs) ==
        IF refs.ok THEN Got((id :> (had(streams, id) \o refs.value)) @@ streams, refs.pos) ELSE Short
      stream(streams, header) ==
        IF header.ok THEN add(streams, header.value[1], DecodedRefs(data, header.pos, header.value[2]))
        ELSE Short
      step(r, i) ==
        IF r.ok THEN stream(r.value, Fields(data, r.pos, <<HalfBytes, HalfBytes>>)) ELSE Short
  IN  FoldLeft(step, Got(<<>>, pos), [i \in 1 .. count |-> i])

(* SignalIndex::decode(). *)
DecodedIndex(data) ==
  LET index(v, streams) ==
        IF ~streams.ok THEN Short
        ELSE Got([begin |-> Signed(v[1], Word), end |-> Signed(v[2], Word), exponent |-> Signed(v[3], Half),
                  scale |-> Signed(v[4], Word), streams |-> streams.value], streams.pos)
      header(head) ==
        IF ~head.ok THEN Short ELSE index(head.value, DecodedStreams(data, head.pos, head.value[5]))
  IN  header(Fields(data, 0, <<WordBytes, WordBytes, HalfBytes, WordBytes, HalfBytes>>))

(* Where the metadata lies according to the footer: [ok, offset, size].     *)
(* The sum that is compared with the length of the file may wrap.           *)
MetaExtent(cells) ==
  LET extent(offset, size, magic) ==
        [ok |-> /\ magic = Magic.footer
                /\ offset >= HeaderSize /\ size <= Len(cells)
                /\ (offset + size + FooterSize) % Word <= Len(cells),
         offset |-> offset, size |-> size]
      footer(v) == extent(v[1], v[2], v[4])
  IN  footer(Fields(Bytes(cells), Len(cells) - FooterSize, <<WordBytes, WordBytes, HalfBytes, HalfBytes>>).value)

\* Seeded fault: the metadata is parsed without looking at the sum.  Violates DamageNoticed.
SumAgrees_Unchecked(cells, meta) == TRUE

SumAgrees(cells, meta) == SubSeq(cells, Len(cells) - 2 * HalfBytes + 1, Len(cells) - HalfBytes) = Sum(meta)

Parsed(meta) ==
  LET both(name, index) ==
        IF name.ok /\ index.ok THEN [name |-> name.value, index |-> index.value] ELSE Refused
      bodies(hierarchy, index) ==
        IF index.ok THEN both(TakeStr(hierarchy.value, 0), DecodedIndex(index.value)) ELSE Refused
      second(hierarchy) ==
        IF hierarchy.ok THEN bodies(hierarchy, ReadSection(meta, hierarchy.pos, Magic.index)) ELSE Refused
  IN  second(ReadSection(meta, 0, Magic.hierarchy))

(* openStore(): the name and index read, or Refused for any exception.  A   *)
(* read that the file does not hold in full is one.                         *)
OpenStore(cells) ==
  LET summed(meta) == IF meta.ok /\ SumAgrees(cells, meta.value) THEN Parsed(meta.value) ELSE Refused
      footer(extent) ==
        IF extent.ok THEN summed(TakeBytes(Bytes(cells), extent.offset, extent.size)) ELSE Refused
      header(v) ==
        IF v[1] = Magic.store /\ Readable(v[2]) THEN footer(MetaExtent(cells)) ELSE Refused
  IN  IF Len(cells) < HeaderSize + FooterSize THEN Refused
      ELSE header(Fields(Bytes(cells), 0, <<HalfBytes, HalfBytes>>).value)

(* A block, read at its place. *)
ReadBlock(cells, ref) ==
  LET decoded(raw) == IF raw.ok THEN DecodeBlock(raw.value) ELSE Refused
  IN  decoded(TakeBytes(Bytes(cells), ref.offset, ref.size))

StoreInit == Init /\ file = <<>> /\ written = <<>> /\ fault = "none"

StoreNext ==
  \/ written = <<>> /\ Next /\ UNCHANGED storeVars
  \/ \E cut \in 1 .. MaxCount, name \in Names, minor \in Minors, tail \in Tails :
       \E order \in SetToSeqs({1, 2}) : cut < Len(history) /\ Write(cut, name, order, minor, tail)
  \/ \E n \in 0 .. Len(file) : CutOff(n)
  \/ \E i \in DOMAIN file, by \in Spoils : Spoil(i, by)

StoreSpec == StoreInit /\ [][StoreNext]_<<vars, storeVars>>

(* A store that was written in full opens with the name and index it was    *)
(* given, in whatever order the streams were written, also when a later     *)
(* minor version wrote it and added to its sections                         *)
(* (store_layout.hpp:27 "MINOR больше нашего читается"), and its index      *)
(* leads to the blocks.                                                     *)
OpensAsWritten ==
  LET leads(opened) ==
        /\ opened = [name |-> written.name, index |-> written.index]
        /\ \A s \in DOMAIN written.blocks :
             [r \in DOMAIN opened.index.streams[s] |-> ReadBlock(file, opened.index.streams[s][r])]
               = <<written.blocks[s]>>
  IN  written # <<>> /\ fault = "none" => leads(OpenStore(file))

(* A store cut off anywhere is refused, and one with a byte changed is      *)
(* refused or still has the name and index it was given: the header and the *)
(* footer, the extent in it that may wrap, and the sum see to that.         *)
DamageNoticed ==
  fault # "none" =>
    OpenStore(file) \in {Refused} \cup
      (IF fault = "byte" THEN {[name |-> written.name, index |-> written.index]} ELSE {})

(* A store file opens as it was written, or not at all.                     *)
StoreExact == OpensAsWritten /\ DamageNoticed
=============================================================================
