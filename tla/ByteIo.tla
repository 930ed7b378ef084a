------------------------------- MODULE ByteIo -------------------------------
(***************************************************************************)
(* ByteWriter and ByteReader (src/src/core/byte_io.cpp) at reduced widths:  *)
(* a byte has ByteBits bits, a 64-bit word WordBytes bytes and a 32-bit one *)
(* HalfBytes.  Writing yields the bytes to be appended; reading at pos      *)
(* yields [ok, value, pos], with ok FALSE where the reader returns false.   *)
(* Doubles travel as their bit patterns, hence as words.                    *)
(***************************************************************************)
EXTENDS Integers, Sequences, SequencesExt, FiniteSetsExt

CONSTANTS ByteBits, WordBytes, HalfBytes

ASSUME WidthsAssumption == /\ ByteBits \in Nat \ {0, 1}
                           /\ HalfBytes \in Nat \ {0}
                           /\ WordBytes \in Nat
                           /\ HalfBytes <= WordBytes

Byte == 2 ^ ByteBits
Half == Byte ^ HalfBytes
Word == Byte ^ WordBytes
WordBits == ByteBits * WordBytes
Group == 2 ^ (ByteBits - 1)     \* a varint's byte is one flag and one group of bits

LittleEndian(v, size) == [i \in 1 .. size |-> (v \div Byte ^ (i - 1)) % Byte]
FromLittleEndian(bytes) == FoldRight(LAMBDA byte, high : byte + Byte * high, bytes, 0)

Signed(v, range) == IF 2 * v >= range THEN v - range ELSE v

U8(v) == <<v % Byte>>
U32(v) == LittleEndian(v % Half, HalfBytes)   \* callers narrow sizes to 32 bits
U64(v) == LittleEndian(v % Word, WordBytes)   \* and signed words are taken modulo the range

(* The sign moves to the lowest bit, so that small negative numbers stay   *)
(* short.                                                                   *)
Zigzag(v) == IF v < 0 THEN -2 * v - 1 ELSE 2 * v
Unzigzag(raw) == IF raw % 2 = 1 THEN -(raw \div 2) - 1 ELSE raw \div 2

MaxGroups == Min({n \in 1 .. WordBits : n * (ByteBits - 1) >= WordBits})

\* Seeded fault: one byte short of what the widest number needs.  Violates BlockRoundTrip.
Varint_OneByteLess(v) ==
  LET count == Min({n \in 1 .. MaxGroups : v < Group ^ n \/ n = MaxGroups - 1})
  IN  [i \in 1 .. count |-> ((v \div Group ^ (i - 1)) % Group) + IF i < count THEN Group ELSE 0]

Varint(v) ==
  LET count == Min({n \in 1 .. MaxGroups : v < Group ^ n})
  IN  [i \in 1 .. count |-> ((v \div Group ^ (i - 1)) % Group) + IF i < count THEN Group ELSE 0]
Svarint(v) == Varint(Zigzag(v))

Str(chars) == Varint(Len(chars)) \o chars
Array(values, size) == FlattenSeq([i \in DOMAIN values |-> LittleEndian(values[i], size)])

Got(value, pos) == [ok |-> TRUE, value |-> value, pos |-> pos]
Short == [ok |-> FALSE, value |-> 0, pos |-> 0]

TakeBytes(data, pos, count) ==
  IF pos + count > Len(data) THEN Short ELSE Got(SubSeq(data, pos + 1, pos + count), pos + count)

(* count equal elements of `size' bytes, all of them or none. *)
TakeArray(data, pos, count, size) ==
  LET elements(raw) ==
        IF ~raw.ok THEN Short
        ELSE Got([i \in 1 .. count |-> FromLittleEndian(SubSeq(raw.value, (i - 1) * size + 1, i * size))], raw.pos)
  IN  elements(TakeBytes(data, pos, count * size))

(* A chain of fixed-size reads joined by ||: the values, or Short when one  *)
(* of them is.                                                              *)
Fields(data, pos, sizes) ==
  LET add(r, field) == IF r.ok /\ field.ok THEN Got(r.value \o field.value, field.pos) ELSE Short
  IN  FoldLeft(LAMBDA r, size : add(r, TakeArray(data, r.pos, 1, size)), Got(<<>>, pos), sizes)

(* The first byte without the flag ends the number; it must come within    *)
(* MaxGroups bytes and before the end of the data.                          *)
TakeVarint(data, pos) ==
  LET groups(count) ==
        Got(MapThenSumSet(LAMBDA i : (data[pos + i] % Group) * Group ^ (i - 1), 1 .. count) % Word, pos + count)
      number(ends) == IF ends = {} THEN Short ELSE groups(Min(ends))
  IN  number({n \in 1 .. MaxGroups : pos + n <= Len(data) /\ data[pos + n] < Group})

TakeSvarint(data, pos) ==
  LET signed(raw) == IF raw.ok THEN Got(Unzigzag(raw.value), raw.pos) ELSE Short
  IN  signed(TakeVarint(data, pos))

(* The length is checked by pos + len modulo the width of a word.  A length *)
(* that wraps passes this check and is refused by std::string instead       *)
(* (length_error): a failed read all the same.                              *)
TakeStr(data, pos) ==
  LET chars(len) ==
        IF ~len.ok \/ (len.pos + len.value) % Word > Len(data) \/ len.value > Len(data) THEN Short
        ELSE TakeBytes(data, len.pos, len.value)
  IN  chars(TakeVarint(data, pos))
=============================================================================
