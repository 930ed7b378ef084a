---------------------------- MODULE LogicPlanes ----------------------------
(***************************************************************************)
(* Four-state values in two bit planes: appending one to a column of slots  *)
(* (src/src/storage/bit_planes.cpp), reading it back (LogicVectorView),     *)
(* cutting a slice (LogicVector::fromSlice) and the decimal form.  A word   *)
(* is the set of its one bits, 0 .. K - 1, and a plane a sequence of words. *)
(* A view is [width, aval, bval]; bval is empty for a two-state one.  A     *)
(* view may have bits set above its width.                                  *)
(***************************************************************************)
EXTENDS Integers, Sequences, SequencesExt, FiniteSetsExt

CONSTANTS K,           \* bits in a word; even
          Radix,       \* base of the decimal form
          ChunkDigits  \* digits that one division yields

ASSUME PlanesAssumption == /\ K \in Nat \ {0} /\ K % 2 = 0
                           /\ Radix \in Nat \ {0, 1} /\ ChunkDigits \in Nat \ {0}
                           /\ Radix ^ ChunkDigits < 2 ^ (K \div 2)

AllOnes == 0 .. K - 1
Zeros(n) == [w \in 1 .. n |-> {}]
WordsFor(width) == (width + K - 1) \div K

(* operator[]: beyond the width, and where both planes are set, unknown. *)
BitAt(v, bit) ==
  LET a == bit % K \in v.aval[bit \div K + 1]
      b == v.bval # <<>> /\ bit % K \in v.bval[bit \div K + 1]
  IN  CASE bit >= v.width -> "X"
        [] bit < v.width /\ a /\ b -> "X"
        [] bit < v.width /\ ~a /\ b -> "Z"
        [] bit < v.width /\ a /\ ~b -> "1"
        [] bit < v.width /\ ~a /\ ~b -> "0"

IsTwoState(v) == \A w \in DOMAIN v.bval : v.bval[w] = {}

LowMask(bits) == IF bits = 0 THEN AllOnes ELSE 0 .. bits - 1

(* A plane of the slot: the words of the source, as many as it is given and *)
(* the slot has, zero after them and where the source has no such plane.    *)
Copied(plane, words) == [w \in 1 .. words |-> IF w <= Len(plane) THEN plane[w] ELSE {}]

\* Seeded fault: garbage above the width of a wider value stays.  Violates PlanesClean.
Masked_Never(slot, width) == slot

Masked(slot, width) ==
  [slot EXCEPT ![Len(slot)] = @ \cap LowMask(width % K)]

(* The bits from `from' upwards are set in both planes: X, not written. *)
Filled(slot, from) ==
  [w \in DOMAIN slot |->
     slot[w] \cup {bit \in AllOnes : (w - 1) * K + bit >= from}]

\* Seeded fault: a narrower two-state value makes no plane for its X bits.  Violates ValuesExact.
NeedsPlane_OnlyByBits(width, src) == ~IsTwoState(src)

(* A value narrower than its slot leaves unwritten bits, which read as X and *)
(* so need the second plane even where the value itself does not.           *)
NeedsPlane(width, src) == ~IsTwoState(src) \/ src.width < width

(* appendLogicValue(): both planes with one more slot.  The first value to  *)
(* need the second plane gets it for all the slots before, as zeros.        *)
WithLogic(planes, width, src) ==
  LET words == WordsFor(width)
      slots == Len(planes.aval) + words
      unfolded == planes.bval # <<>> \/ NeedsPlane(width, src)
      before == planes.bval \o Zeros(Len(planes.aval) - Len(planes.bval))
      slot(plane) ==
        LET copy == IF src.width >= width THEN Copied(plane, words)
                    ELSE Filled(Copied(plane, words), src.width)
        IN  IF words = 0 THEN <<>> ELSE Masked(copy, width)
  IN  [aval |-> planes.aval \o slot(src.aval),
       bval |-> IF unfolded THEN before \o slot(src.bval) ELSE <<>>]

(* The i-th slot, from zero, as a view. *)
SlotAt(planes, width, i) ==
  LET words == WordsFor(width)
      part(plane) == IF plane = <<>> THEN <<>> ELSE SubSeq(plane, i * words + 1, (i + 1) * words)
  IN  [width |-> width, aval |-> part(planes.aval), bval |-> part(planes.bval)]

-----------------------------------------------------------------------------
(* fromSlice(): words are shifted together from two neighbours, and the bits *)
(* past the source are X.                                                   *)
PlaneWord(plane, w) == IF w < Len(plane) THEN plane[w + 1] ELSE {}

\* Seeded fault: the upper neighbour's bits are not brought in.  Violates SlicesOfValues.
Shifted_OneWord(plane, offset, w) ==
  {bit - (offset % K) : bit \in {c \in PlaneWord(plane, offset \div K + w) : c >= offset % K}}

Shifted(plane, offset, w) ==
  LET first == offset \div K + w
      shift == offset % K
  IN  {bit - shift : bit \in {c \in PlaneWord(plane, first) : c >= shift}}
        \cup {bit + K - shift : bit \in {c \in PlaneWord(plane, first + 1) : c < shift}}

FromSlice(src, offset, width) ==
  LET words == WordsFor(width)
      have == IF offset < src.width THEN Min({width, src.width - offset}) ELSE 0
      plane(p) == Masked(Filled([w \in 1 .. words |-> Shifted(p, offset, w - 1)], have), width)
  IN  [width |-> width,
       aval |-> IF width = 0 THEN <<>> ELSE plane(src.aval),
       bval |-> IF width = 0 THEN <<>> ELSE plane(src.bval)]

-----------------------------------------------------------------------------
(* decimalString(): the magnitude in half words, divided by Radix to the    *)
(* power of ChunkDigits until nothing is left, lowest digits first.         *)
Number(word) == MapThenSumSet(LAMBDA bit : 2 ^ bit, word)
HalfRange == 2 ^ (K \div 2)

MaskedWord(v, w) ==
  v.aval[w] \cap {bit \in AllOnes : (w - 1) * K + bit < v.width}

(* -x is ~x + 1: the carry runs through the words that become zero. *)
Negated(words, width) ==
  LET flipped == [w \in DOMAIN words |-> {bit \in AllOnes \ words[w] : (w - 1) * K + bit < width}]
      carried == Max({0} \cup {w \in DOMAIN words : \A u \in 1 .. w : flipped[u] = AllOnes})
      low == Min(AllOnes \ flipped[carried + 1])
      added == [w \in DOMAIN words |->
                  CASE w <= carried -> {}
                    [] w = carried + 1 -> {bit \in flipped[w] : bit > low} \cup {low}
                    [] w > carried + 1 -> flipped[w]]
  IN  [w \in DOMAIN words |-> {bit \in added[w] : (w - 1) * K + bit < width}]

IsNegative(v, signed) == signed /\ BitAt(v, v.width - 1) = "1"

MagnitudeLimbs(v, negative) ==
  LET value == [w \in DOMAIN v.aval |-> MaskedWord(v, w)]
      words == IF negative THEN Negated(value, v.width) ELSE value
  IN  FlattenSeq([w \in DOMAIN words |-> <<Number(words[w]) % HalfRange, Number(words[w]) \div HalfRange>>])

WithoutLeadingZeros(limbs) ==
  SubSeq(limbs, 1, Max({0} \cup {i \in DOMAIN limbs : limbs[i] # 0}))

(* One long division: the quotient's limbs and the remainder. *)
Divided(limbs) ==
  LET chunk == Radix ^ ChunkDigits
      step(limb, r) == LET cur == r.rem * HalfRange + limb
                       IN  [limbs |-> <<cur \div chunk>> \o r.limbs, rem |-> cur % chunk]
  IN  FoldRight(step, limbs, [limbs |-> <<>>, rem |-> 0])

DigitsFor(rem) == Min({n \in 1 .. ChunkDigits : rem < Radix ^ n})

\* Seeded fault: inner chunks drop their leading zeros.  Violates DecimalExact.
ChunkText_Unpadded(rem, last) == [i \in 1 .. DigitsFor(rem) |-> (rem \div Radix ^ (i - 1)) % Radix]

(* The digits of a remainder, lowest first: all of them while more limbs    *)
(* follow, without the leading zeros in the last one.                       *)
ChunkText(rem, last) ==
  [i \in 1 .. (IF last THEN DigitsFor(rem) ELSE ChunkDigits) |-> (rem \div Radix ^ (i - 1)) % Radix]

DecimalDigits[limbs \in Seq(Nat)] ==
  LET next == Divided(limbs)
      rest == WithoutLeadingZeros(next.limbs)
  IN  IF limbs = <<>> THEN <<>>
      ELSE ChunkText(next.rem, rest = <<>>) \o DecimalDigits[rest]

Unknown == [negative |-> FALSE, digits |-> <<>>]

(* The text as its sign and digits, highest first; no digits, the text "x", *)
(* with any bit unknown.                                                    *)
DecimalString(v, signed) ==
  LET negative == IsNegative(v, signed)
      limbs == WithoutLeadingZeros(MagnitudeLimbs(v, negative))
  IN  IF ~IsTwoState(v) THEN Unknown
      ELSE [negative |-> negative,
            digits |-> IF limbs = <<>> THEN <<0>> ELSE Reverse(DecimalDigits[limbs])]

-----------------------------------------------------------------------------
(* The other radixes: groups of bits, one digit each.  A digit is its       *)
(* number, or one of two marks.                                             *)
XDigit == -1
ZDigit == -2

GroupDigit(v, lo, count) ==
  LET bits == {BitAt(v, lo + i) : i \in 0 .. count - 1}
  IN  CASE bits \subseteq {"0", "1"} -> Number({i \in 0 .. count - 1 : BitAt(v, lo + i) = "1"})
        [] bits = {"Z"} -> ZDigit
        [] ~(bits \subseteq {"0", "1"}) /\ bits # {"Z"} -> XDigit

\* Seeded fault: the highest group is taken as full.  Violates RadixesAgree.
GroupSize_Whole(v, lo, perDigit) == perDigit

GroupSize(v, lo, perDigit) == Min({perDigit, v.width - lo})

(* groupedString(), highest digit first. *)
GroupedString(v, perDigit) ==
  LET digits == (v.width + perDigit - 1) \div perDigit
      lo(i) == (digits - i) * perDigit
  IN  [i \in 1 .. digits |-> GroupDigit(v, lo(i), GroupSize(v, lo(i), perDigit))]

NoNumber == -1
ToUint64(v) ==
  CASE v.width > K \/ ~IsTwoState(v) -> NoNumber
    [] v.width = 0 -> 0
    [] 0 < v.width /\ v.width <= K /\ IsTwoState(v) -> Number(MaskedWord(v, 1))
=============================================================================
