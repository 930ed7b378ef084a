---------------------------- MODULE DecodedBlock ----------------------------
(***************************************************************************)
(* DecodedBlock and its codec (src/src/storage/decoded_block.cpp): changes  *)
(* of one stream kept by columns, cut into slices, written to bytes and     *)
(* read back.  One block is filled by append().                             *)
(***************************************************************************)
EXTENDS ByteIo, LogicPlanes

CONSTANTS Streams,   \* the kinds and widths of streams, [kind, width]
          Samples,   \* by kind, the changes <<time, value>> that append() is given
          Probes,    \* times looked up
          MaxCount   \* bound on the changes

ASSUME BlockAssumption == K = WordBits

(* What TimeColumn takes for its two parameters.  Powers of two are numbers *)
(* for TLC; the provers know nothing of powers.                             *)
ASSUME ColumnAssumption == Half \in Nat \ {0} /\ Word \in Nat \ {0}

Column == INSTANCE TimeColumn
Search == INSTANCE TimeSearch

VARIABLES block, history   \* history: the changes as they were given
vars == <<block, history>>

KindCode == [NONE |-> 0, LOGIC |-> 1, REAL |-> 2, STRING |-> 3]

(* A view has, in each plane it has, the words its width takes; a string is *)
(* made of bytes.                                                           *)
IsValue(kind, v) ==
  /\ kind = "LOGIC" => /\ v \in [width : Nat, aval : Seq(SUBSET AllOnes), bval : Seq(SUBSET AllOnes)]
                       /\ Len(v.aval) = WordsFor(v.width) /\ Len(v.bval) \in {0, WordsFor(v.width)}
  /\ kind = "STRING" => v \in Seq(0 .. Byte - 1)

(* Times are words with a sign. *)
ASSUME SamplesAssumption ==
  /\ \A s \in Streams : /\ s.kind \in DOMAIN KindCode /\ s.width \in Nat
                        /\ \A change \in Samples[s.kind] : /\ change[1] \in -(Word \div 2) .. (Word \div 2) - 1
                                                           /\ IsValue(s.kind, change[2])
  /\ Probes \subseteq -(Word \div 2) .. (Word \div 2) - 1

KindOf(code) == CHOOSE kind \in DOMAIN KindCode : KindCode[kind] = code

(* The columns of every kind; those of the other kinds are left empty. *)
Empty(kind, width) ==
  [kind |-> kind, width |-> IF kind = "LOGIC" THEN width ELSE 0, times |-> Column!EmptyColumn,
   aval |-> <<>>, bval |-> <<>>, reals |-> <<>>,
   arena |-> <<>>, offsets |-> IF kind = "STRING" THEN <<0>> ELSE <<>>]

Count(b) == Column!Size(b.times)

WithValue(b, v) ==
  CASE b.kind = "NONE" -> b
    [] b.kind = "LOGIC" -> LET planes == WithLogic([aval |-> b.aval, bval |-> b.bval], b.width, v)
                           IN  [b EXCEPT !.aval = planes.aval, !.bval = planes.bval]
    [] b.kind = "REAL" -> [b EXCEPT !.reals = Append(@, v)]
    [] b.kind = "STRING" -> [b EXCEPT !.arena = @ \o v,
                                      !.offsets = Append(@, (Len(b.arena) + Len(v)) % Half)]

AppendChange(t, v) ==
  /\ Len(history) < MaxCount
  /\ block' = [WithValue(block, v) EXCEPT !.times = Column!Added(@, t)]
  /\ history' = Append(history, <<t, v>>)

\* Seeded fault: offsets start at zero again but the arena does not.  Violates SlicesExact.
ArenaPart_FromZero(arena, offsets, lo, hi) == SubSeq(arena, 1, offsets[hi + 1])

ArenaPart(arena, offsets, lo, hi) == SubSeq(arena, offsets[lo + 1] + 1, offsets[hi + 1])

(* The arena of a slice starts at zero again. *)
Rebased(offsets, lo, hi) == [k \in 1 .. hi - lo + 1 |-> offsets[lo + k] - offsets[lo + 1]]

Slice(b, lo, hi) ==
  LET words == WordsFor(b.width)
      part(plane) == IF plane = <<>> THEN <<>> ELSE SubSeq(plane, lo * words + 1, hi * words)
      cut == [b EXCEPT !.times = Column!ColumnSlice(@, lo, hi)]
  IN  CASE b.kind = "NONE" -> cut
        [] b.kind = "LOGIC" -> [cut EXCEPT !.aval = part(@), !.bval = part(@)]
        [] b.kind = "REAL" -> [cut EXCEPT !.reals = SubSeq(@, lo + 1, hi)]
        [] b.kind = "STRING" -> [cut EXCEPT !.arena = ArenaPart(@, b.offsets, lo, hi),
                                            !.offsets = Rebased(@, lo, hi)]

(* columns().valueAt(i): a view of the i-th value, from zero. *)
ValueAt(b, i) ==
  CASE b.kind = "NONE" -> <<>>
    [] b.kind = "LOGIC" -> SlotAt([aval |-> b.aval, bval |-> b.bval], b.width, i)
    [] b.kind = "REAL" -> b.reals[i + 1]
    [] b.kind = "STRING" -> SubSeq(b.arena, b.offsets[i + 1] + 1, b.offsets[i + 2])

(* byteSize() without the constant part of the object. *)
PayloadBytes(b) ==
  Column!ColumnBytes(b.times, HalfBytes, WordBytes)
    + (Len(b.aval) + Len(b.bval) + Len(b.reals)) * WordBytes
    + Len(b.arena) + Len(b.offsets) * HalfBytes

-----------------------------------------------------------------------------
(* encodeBlock() and decodeBlock(). *)
BlockMagic == Half - 3
HasBval == 1
Refused == [refused |-> TRUE]

EncodedTimes(times) ==
  FlattenSeq([i \in DOMAIN times |->
                IF i = 1 THEN Svarint(times[1]) ELSE Varint((times[i] - times[i - 1]) % Word)])

EncodedValues(b) ==
  LET numbers(plane) == [w \in DOMAIN plane |-> Number(plane[w])]
  IN  CASE b.kind = "NONE" -> <<>>
        [] b.kind = "LOGIC" -> Array(numbers(b.aval), WordBytes) \o Array(numbers(b.bval), WordBytes)
        [] b.kind = "REAL" -> Array(b.reals, WordBytes)
        [] b.kind = "STRING" -> Array(b.offsets, HalfBytes) \o U32(Len(b.arena)) \o b.arena

EncodeBlock(b) ==
  U32(BlockMagic) \o U8(KindCode[b.kind]) \o U8(IF b.bval # <<>> THEN HasBval ELSE 0)
    \o U32(b.width) \o U32(Count(b)) \o EncodedTimes(Column!TimesOf(b.times)) \o EncodedValues(b)

(* The times, each added to the one before modulo the width of a word: an   *)
(* earlier time comes back as it was.                                       *)
DecodedTimes(data, pos, count) ==
  LET put(column, t, end) == Got([column |-> Column!Added(column, t), last |-> t], end)
      first(r, read) == IF read.ok THEN put(r.value.column, read.value, read.pos) ELSE Short
      next(r, read) ==
        IF r.ok /\ read.ok
        THEN put(r.value.column, Signed((r.value.last + read.value) % Word, Word), read.pos) ELSE Short
      step(r, i) == IF i = 1 THEN first(r, TakeSvarint(data, r.pos)) ELSE next(r, TakeVarint(data, r.pos))
  IN  FoldLeft(step, Got([column |-> Column!EmptyColumn, last |-> 0], pos), [i \in 1 .. count |-> i])

WordOf(number) == {bit \in AllOnes : (number \div 2 ^ bit) % 2 = 1}
Planes(numbers) == [w \in DOMAIN numbers |-> WordOf(numbers[w])]

DecodedLogic(b, data, pos, count, flags) ==
  LET length == count * WordsFor(b.width)
      two(a, plane) ==
        IF a.ok /\ plane.ok THEN [b EXCEPT !.aval = Planes(a.value), !.bval = Planes(plane.value)] ELSE Refused
      one(a) ==
        CASE flags % 2 = HasBval -> two(a, TakeArray(data, a.pos, length, WordBytes))
          [] flags % 2 # HasBval /\ a.ok -> [b EXCEPT !.aval = Planes(a.value)]
          [] flags % 2 # HasBval /\ ~a.ok -> Refused
  IN  one(TakeArray(data, pos, length, WordBytes))

\* Seeded fault: an arena that is cut off is taken as far as it goes.  Violates CutRefused.
DecodedStrings_Lenient(b, data, pos, count) ==
  LET chars(offsets, size) ==
        IF ~offsets.ok \/ ~size.ok THEN Refused
        ELSE [b EXCEPT !.offsets = offsets.value,
                       !.arena = SubSeq(data, size.pos + 1, Min({Len(data), size.pos + size.value[1]}))]
      length(offsets) == chars(offsets, TakeArray(data, offsets.pos, 1, HalfBytes))
  IN  length(TakeArray(data, pos, count + 1, HalfBytes))

DecodedStrings(b, data, pos, count) ==
  LET both(offsets, arena) ==
        IF arena.ok THEN [b EXCEPT !.offsets = offsets.value, !.arena = arena.value] ELSE Refused
      chars(offsets, size) ==
        IF offsets.ok /\ size.ok THEN both(offsets, TakeBytes(data, size.pos, size.value[1])) ELSE Refused
      length(offsets) == chars(offsets, TakeArray(data, offsets.pos, 1, HalfBytes))
  IN  length(TakeArray(data, pos, count + 1, HalfBytes))

DecodedReals(b, data, pos, count) ==
  LET values(reals) == IF reals.ok THEN [b EXCEPT !.reals = reals.value] ELSE Refused
  IN  values(TakeArray(data, pos, count, WordBytes))

(* The header is <<magic, kind, flags, width, count>>. *)
DecodeBlock(data) ==
  LET values(b, pos, count, flags) ==
        CASE b.kind = "NONE" -> b
          [] b.kind = "LOGIC" -> DecodedLogic(b, data, pos, count, flags)
          [] b.kind = "REAL" -> DecodedReals(b, data, pos, count)
          [] b.kind = "STRING" -> DecodedStrings(b, data, pos, count)
      columns(v, times) ==
        IF times.ok
        THEN values([Empty(KindOf(v[2]), v[4]) EXCEPT !.times = times.value.column], times.pos, v[5], v[3])
        ELSE Refused
      header(read) ==
        IF read.ok /\ read.value[1] = BlockMagic
        THEN columns(read.value, DecodedTimes(data, read.pos, read.value[5])) ELSE Refused
  IN  header(Fields(data, 0, <<HalfBytes, 1, 1, HalfBytes, HalfBytes>>))

-----------------------------------------------------------------------------
Init == /\ \E s \in Streams : block = Empty(s.kind, s.width)
        /\ history = <<>>
Next == \E change \in Samples[block.kind] : AppendChange(change[1], change[2])
Spec == Init /\ [][Next]_vars

Times == [i \in DOMAIN history |-> history[i][1]]

(* What a value shows: all the bits of a stream of that width, or itself. *)
Shown(v) == IF block.kind = "LOGIC" THEN [bit \in 0 .. block.width - 1 |-> BitAt(v, bit)] ELSE v
Given == [i \in DOMAIN history |-> IF block.kind = "NONE" THEN <<>> ELSE Shown(history[i][2])]
ShownBy(b) == [i \in 1 .. Count(b) |-> Shown(ValueAt(b, i - 1))]

(* Every column has one entry for each change, a word only bits of a word,  *)
(* and the column of times one of its two forms.                            *)
TypeOK ==
  /\ block.kind \in DOMAIN KindCode
  /\ Len(block.aval) = IF block.kind = "LOGIC" THEN Len(history) * WordsFor(block.width) ELSE 0
  /\ block.bval # <<>> => Len(block.bval) = Len(block.aval)
  /\ \A w \in DOMAIN block.aval : block.aval[w] \subseteq AllOnes
  /\ Len(block.reals) = IF block.kind = "REAL" THEN Len(history) ELSE 0
  /\ block.kind = "STRING" => Len(block.offsets) = Len(history) + 1
  /\ block.times.narrow = <<>> \/ block.times.wide = <<>>

(* The column gives back the time of every change, in either form, however  *)
(* far apart they lie and even where they decrease                          *)
(* (time_column.cpp:18 "оно хотя бы сохранится").                           *)
TimesExact == Column!TimesOf(block.times) = Times

(* While times do not decrease, both searches give the same positions as on *)
(* the plain list of times, in both forms and for every time of the range.  *)
SearchesAgree ==
  Search!Ordered(Times) => \A t \in Probes : /\ Column!UpperBound(block.times, t) \in Search!UpperBounds(Times, t)
                                      /\ Column!LowerBound(block.times, t) \in Search!LowerBounds(Times, t)

(* Every value reads back bit by bit as it was given, whatever came before  *)
(* or after it; the bits a narrower one did not write read as X.            *)
ValuesExact == ShownBy(block) = Given

(* No stored word has bits above the width of the stream, whatever the      *)
(* source had there: comparison, toUint64 and isTwoState rest on it         *)
(* (bit_planes.cpp:33 "инвариант планов").                                  *)
PlanesClean ==
  LET words == WordsFor(block.width)
      clean(plane) == \A w \in DOMAIN plane : \A bit \in plane[w] : ((w - 1) % words) * K + bit < block.width
  IN  clean(block.aval) /\ clean(block.bval)

(* Columns hold what was appended: in a form of their own, the values       *)
(* given, and nothing besides.                                              *)
ColumnsExact == TypeOK /\ ValuesExact /\ PlanesClean

(* Every slice is a block of its own with exactly its part of the changes,  *)
(* and while times do not decrease it takes no more bytes than the whole.   *)
SlicesExact ==
  \A lo \in 0 .. Len(history) : \A hi \in lo .. Len(history) :
    LET part == Slice(block, lo, hi)
    IN  /\ Column!TimesOf(part.times) = SubSeq(Times, lo + 1, hi)
        /\ ShownBy(part) = SubSeq(Given, lo + 1, hi)
        /\ Search!Ordered(Times) => PayloadBytes(part) <= PayloadBytes(block)

(* Reading what was written gives the same block, column for column, for    *)
(* the block and for each of its slices.                                    *)
BlockRoundTrip ==
  \A lo \in 0 .. Len(history) : \A hi \in lo .. Len(history) :
    LET part == Slice(block, lo, hi) IN DecodeBlock(EncodeBlock(part)) = part

(* A block that lacks bytes at its end is refused, wherever it is cut. *)
CutRefused ==
  LET data == EncodeBlock(block)
  IN  \A n \in 0 .. Len(data) - 1 : DecodeBlock(SubSeq(data, 1, n)) = Refused

(* Bytes of a block decode to that block or to nothing.                     *)
CodecExact == BlockRoundTrip /\ CutRefused

(* A slice of a value has the bits at its place, X past the end of the      *)
(* source, with a source of either form and bits above its width.           *)
SlicesOfValues ==
  block.kind = "LOGIC" /\ history # <<>> =>
    LET v == Last(history)[2]
    IN  \A offset \in 0 .. K + 1, width \in 0 .. K + 2 :
          LET part == FromSlice(v, offset, width)
          IN  \A bit \in 0 .. width - 1 : BitAt(part, bit) = BitAt(v, offset + bit)

(* Parts of a block and parts of a value are the parts asked for.           *)
PartsExact == SlicesExact /\ SlicesOfValues

(* The number that two-state bits stand for. *)
Meant(v, signed) ==
  LET ones == {bit \in 0 .. v.width - 1 : BitAt(v, bit) = "1"}
  IN  MapThenSumSet(LAMBDA bit : IF signed /\ bit = v.width - 1 THEN -(2 ^ bit) ELSE 2 ^ bit, ones)

TailOfB(v) == {w \in DOMAIN v.bval : \E bit \in v.bval[w] : (w - 1) * K + bit >= v.width}

(* The decimal text of a two-state value is its number, signed or not, with *)
(* no leading zeros, whatever lies above its width; with any X or Z bit     *)
(* there are no digits.  Bits of the second plane above the width are left  *)
(* out: isTwoState does not mask them.                                      *)
DecimalExact ==
  block.kind = "LOGIC" /\ history # <<>> =>
    \A v \in {Last(history)[2], ValueAt(block, Len(history) - 1)} : v.width > 0 /\ TailOfB(v) = {} =>
      \A signed \in BOOLEAN :
        LET text == DecimalString(v, signed)
            size == FoldLeft(LAMBDA n, digit : n * Radix + digit, 0, text.digits)
        IN  IF \E bit \in 0 .. v.width - 1 : BitAt(v, bit) \in {"X", "Z"} THEN text.digits = <<>>
            ELSE /\ Meant(v, signed) = IF text.negative THEN -size ELSE size
                 /\ Head(text.digits) # 0 \/ text.digits = <<0>>

(* Binary, octal and hexadecimal text tell the same bits: a digit is a mark *)
(* just where a bit of its group is unknown, 'z' only if all of them are;   *)
(* with none unknown the digits are the number, which toUint64 gives too    *)
(* when it fits one word (logic_vector_view.cpp:19).                        *)
RadixesAgree ==
  block.kind = "LOGIC" /\ history # <<>> =>
    \A v \in {Last(history)[2], ValueAt(block, Len(history) - 1)} :
      LET unknown == {bit \in 0 .. v.width - 1 : BitAt(v, bit) \in {"X", "Z"}}
      IN  /\ TailOfB(v) = {} => ToUint64(v) = IF unknown = {} /\ v.width <= K THEN Meant(v, FALSE) ELSE NoNumber
          /\ \A perDigit \in {1, 3, 4} :
               LET text == Reverse(GroupedString(v, perDigit))
                   group(i) == {bit \in 0 .. v.width - 1 : bit \div perDigit = i - 1}
               IN  /\ unknown = {} =>
                        FoldRight(LAMBDA digit, n : n * 2 ^ perDigit + digit, text, 0) = Meant(v, FALSE)
                   /\ \A i \in DOMAIN text : /\ (text[i] < 0) <=> group(i) \cap unknown # {}
                                             /\ (text[i] = ZDigit) <=> \A bit \in group(i) : BitAt(v, bit) = "Z"

(* Texts and numbers of a value are those of its bits in every radix.       *)
TextExact == DecimalExact /\ RadixesAgree
=============================================================================
