----------------------------- MODULE TimeColumn -----------------------------
(***************************************************************************)
(* TimeColumn (src/src/types/time_column.cpp): time stamps kept as 32-bit   *)
(* offsets from the first one while those fit, and as absolute times from   *)
(* the first one that does not.  Word and Half are the ranges of 64 and 32  *)
(* bits; times are signed words.                                            *)
(***************************************************************************)
EXTENDS Integers, Sequences, TimeSearch, SequencesExt

CONSTANTS Word, Half

EmptyColumn == [base |-> 0, narrow |-> <<>>, wide |-> <<>>]

MaxNarrow == Half - 1
NoTime == -(Word \div 2)

IsWide(c) == c.wide # <<>>
Size(c) == IF IsWide(c) THEN Len(c.wide) ELSE Len(c.narrow)

(* t - base in unsigned arithmetic: at the edges of the range the signed    *)
(* difference does not exist.                                               *)
OffsetFromBase(c, t) == IF t >= c.base THEN t - c.base ELSE t - c.base + Word

\* Seeded fault: promote() leaves the offsets in place.  Violates TypeOK.
Promoted_BothForms(c) == [c EXCEPT !.wide = [i \in DOMAIN c.narrow |-> c.base + c.narrow[i]]]

Promoted(c) == [c EXCEPT !.wide = [i \in DOMAIN c.narrow |-> c.base + c.narrow[i]], !.narrow = <<>>]

\* Seeded fault: a far time is cut to 32 bits instead of promoting.  Violates TimesExact.
Added_Truncated(c, t) ==
  CASE IsWide(c) -> [c EXCEPT !.wide = Append(@, t)]
    [] ~IsWide(c) /\ c.narrow = <<>> -> [c EXCEPT !.base = t, !.narrow = <<0>>]
    [] ~IsWide(c) /\ c.narrow # <<>> -> [c EXCEPT !.narrow = Append(@, OffsetFromBase(c, t) % Half)]

(* append(): a time below the base, or too far above it, moves the column   *)
(* to the absolute form first.                                              *)
Added(c, t) ==
  CASE IsWide(c) -> [c EXCEPT !.wide = Append(@, t)]
    [] ~IsWide(c) /\ c.narrow = <<>> -> [c EXCEPT !.base = t, !.narrow = <<0>>]
    [] ~IsWide(c) /\ c.narrow # <<>> ->
         IF t < c.base \/ OffsetFromBase(c, t) > MaxNarrow
         THEN [Promoted(c) EXCEPT !.wide = Append(@, t)]
         ELSE [c EXCEPT !.narrow = Append(@, OffsetFromBase(c, t))]

(* operator[], by the position from zero. *)
TimeAt(c, i) ==
  CASE i >= Size(c) -> NoTime
    [] i < Size(c) /\ IsWide(c) -> c.wide[i + 1]
    [] i < Size(c) /\ ~IsWide(c) -> c.base + c.narrow[i + 1]

TimesOf(c) == [i \in 1 .. Size(c) |-> TimeAt(c, i - 1)]

ColumnOf(times) == FoldLeft(Added, EmptyColumn, times)

(* slice(): the copies are appended anew, so that a part of a promoted     *)
(* column may be narrow again.                                              *)
ColumnSlice(c, lo, hi) == ColumnOf(SubSeq(TimesOf(c), lo + 1, hi))

(* The searches look in whichever form the column has.  In the narrow one   *)
(* an offset too large for it lies right of every entry.                    *)
UpperBound(c, t) ==
  CASE IsWide(c) -> CHOOSE u \in UpperBounds(c.wide, t) : TRUE
    [] ~IsWide(c) /\ (c.narrow = <<>> \/ t < c.base) -> 0
    [] ~IsWide(c) /\ c.narrow # <<>> /\ t >= c.base ->
         IF OffsetFromBase(c, t) > MaxNarrow THEN Len(c.narrow)
         ELSE CHOOSE u \in UpperBounds(c.narrow, OffsetFromBase(c, t)) : TRUE

\* Seeded fault: the key is cut to 32 bits without looking whether it fits.  Violates SearchesAgree.
LowerBound_Truncated(c, t) ==
  CASE IsWide(c) -> CHOOSE u \in LowerBounds(c.wide, t) : TRUE
    [] ~IsWide(c) /\ (c.narrow = <<>> \/ t <= c.base) -> 0
    [] ~IsWide(c) /\ c.narrow # <<>> /\ t > c.base ->
         CHOOSE u \in LowerBounds(c.narrow, OffsetFromBase(c, t) % Half) : TRUE

LowerBound(c, t) ==
  CASE IsWide(c) -> CHOOSE u \in LowerBounds(c.wide, t) : TRUE
    [] ~IsWide(c) /\ (c.narrow = <<>> \/ t <= c.base) -> 0
    [] ~IsWide(c) /\ c.narrow # <<>> /\ t > c.base ->
         IF OffsetFromBase(c, t) > MaxNarrow THEN Len(c.narrow)
         ELSE CHOOSE u \in LowerBounds(c.narrow, OffsetFromBase(c, t)) : TRUE

(* The bytes of the entries, for budgets: four or eight for each. *)
ColumnBytes(c, half, word) == half * Len(c.narrow) + word * Len(c.wide)
=============================================================================
