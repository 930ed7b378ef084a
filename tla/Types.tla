------------------------------- MODULE Types -------------------------------
(***************************************************************************)
(* Types of signals (types/type.hpp, types/type.cpp): what a type takes of *)
(* streams and bits, and how a composite expands into its parts.           *)
(*                                                                         *)
(* A type is a name for its descriptor, as a shared_ptr is: two names may  *)
(* have equal descriptors.  Names of members are left to Hierarchy.        *)
(***************************************************************************)
EXTENDS Integers, FiniteSets, SequencesExt

CONSTANTS
  Descriptor,  \* [types -> [kind, left, right, packed, element, members]]
  U32          \* how many values a uint32 has

Types == DOMAIN Descriptor

Composites == {"STRUCT", "UNION", "ARRAY"}
NoStreamKinds == {"EVENT", "VOID"}    \* VOID is also the null type
Kinds == Composites \cup NoStreamKinds \cup {"SCALAR", "VECTOR", "ENUM", "REAL", "STRING"}

(* A type is made after the types it consists of, so none contains itself.  *)
Parts(t) ==
  CASE Descriptor[t].kind \in {"STRUCT", "UNION"} -> {m.type : m \in ToSet(Descriptor[t].members)}
    [] Descriptor[t].kind \in {"ARRAY", "ENUM"}   -> {Descriptor[t].element}
    [] OTHER                                      -> {}

ASSUME TypesAssumption ==
  /\ U32 \in Nat \ {0, 1}
  /\ IsFiniteSet(Types)
  /\ \A t \in Types : Descriptor[t].kind \in Kinds /\ Parts(t) \subseteq Types
  /\ \A made \in SUBSET Types : made # {} => \E t \in made : Parts(t) \cap made = {}
----------------------------------------------------------------------------
(* Seeded faults: each replaces the definition it is named after, and the   *)
(* property named beside it (of module Builder) finds it.                   *)
StreamOf_OfAnyKind(t) == [kind |-> Descriptor[t].kind, width |-> 1]  \* TypeOK
StreamOf_OneBit(t) ==                                         \* SlicesFit
  [kind |-> IF Descriptor[t].kind \in {"REAL", "STRING"} THEN Descriptor[t].kind ELSE "LOGIC", width |-> 1]
FromTheRight_OneBased(d, ord) == ord + 1                      \* SlicesFit

(* The indices of a vector or of an array go from left to right. *)
Descends(d) == d.left >= d.right
Span(d) == (IF Descends(d) THEN d.left - d.right ELSE d.right - d.left) + 1

(* A width is computed in 32 bits with a sign, so the ends of a vector are  *)
(* no further apart; members are listed and have offsets within 32 bits.    *)
ASSUME LayoutAssumption ==
  \A t \in Types :
    LET d == Descriptor[t]
    IN /\ d.packed \in BOOLEAN
       /\ d.kind \in {"VECTOR", "ARRAY"} => d.left \in Int /\ d.right \in Int
       /\ d.kind = "VECTOR" => Span(d) < U32
       /\ d.kind \in {"STRUCT", "UNION"} =>
            /\ Len(d.members) \in Nat /\ DOMAIN d.members = 1 .. Len(d.members)
            /\ \A k \in DOMAIN d.members : d.members[k].offset \in 0 .. U32 - 1

ElementCount(d) ==
  CASE d.kind = "ARRAY"              -> Span(d)
    [] d.kind \in {"STRUCT", "UNION"} -> Len(d.members)
    [] OTHER                         -> 0

NoIndex == [none |-> TRUE]

OrdinalOf(d, index) ==
  LET ord == IF Descends(d) THEN d.left - index ELSE index - d.left
  IN IF ord \in 0 .. ElementCount(d) - 1 THEN ord ELSE NoIndex

IndexOf(d, ord) ==
  LET index == IF Descends(d) THEN d.left - ord ELSE d.left + ord
  IN IF ord \in 0 .. ElementCount(d) - 1 THEN index ELSE NoIndex

BitWidth[t \in Types] ==
  LET sum(d) == SumFunction([k \in DOMAIN d.members |-> BitWidth[d.members[k].type]])
      width(d) ==
        CASE d.kind = "SCALAR" -> 1
          [] d.kind = "VECTOR" -> Span(d)
          [] d.kind = "ENUM"   -> BitWidth[d.element]
          [] d.kind = "ARRAY" /\ d.packed -> (BitWidth[d.element] * ElementCount(d)) % U32
          [] d.kind \in {"STRUCT", "UNION"} /\ d.packed -> sum(d) % U32
          [] OTHER -> 0
  IN width(Descriptor[t])

(* singleStreamRepresentable(): one stream holds all of a value. *)
OneStream(d) == IF d.kind \in Composites THEN d.packed ELSE d.kind \notin NoStreamKinds
SingleStream(t) == OneStream(Descriptor[t])

(* The parts of a composite in the order of its expansion: members as they  *)
(* are declared, elements by ordinal.  In a packed array the left element   *)
(* takes the highest bits.                                                  *)
FromTheRight(d, ord) == ElementCount(d) - 1 - ord

PartsOf(d) ==
  CASE d.kind \in {"STRUCT", "UNION"} ->
         [k \in DOMAIN d.members |-> [type |-> d.members[k].type, offset |-> d.members[k].offset]]
    [] d.kind = "ARRAY" ->
         [k \in 1 .. ElementCount(d) |->
            [type |-> d.element, offset |-> FromTheRight(d, k - 1) * BitWidth[d.element]]]
    [] OTHER -> <<>>

Children(t) == PartsOf(Descriptor[t])

(* A layout is sound if the bits of a packed array are fewer than 2^32 and  *)
(* the members of a packed struct or union lie in it side by side.  Nothing *)
(* checks it: the offsets of members are the reader's.                      *)
Bits(offset, width) == offset .. offset + width - 1
LaidOut ==
  \A t \in Types :
    LET d == Descriptor[t]
        bits(k) == Bits(d.members[k].offset, BitWidth[d.members[k].type])
    IN /\ d.kind = "ARRAY" /\ d.packed => BitWidth[d.element] * ElementCount(d) < U32
       /\ d.kind \in {"STRUCT", "UNION"} /\ d.packed =>
            \A j, k \in DOMAIN d.members :
              /\ d.members[k].offset + BitWidth[d.members[k].type] <= BitWidth[t]
              /\ j # k => bits(j) \cap bits(k) = {}

(* expansionStreamCount(): streams that the expansion of a type allocates.  *)
ExpansionStreamCount[t \in Types] ==
  LET streamsOf(c) == IF SingleStream(c) THEN 1 ELSE ExpansionStreamCount[c]
      count(d) ==
        CASE d.kind \in {"STRUCT", "UNION"} ->
               SumFunction([k \in DOMAIN d.members |-> streamsOf(d.members[k].type)])
          [] d.kind = "ARRAY" -> ElementCount(d) * streamsOf(d.element)
          [] OTHER -> 0
  IN IF SingleStream(t) THEN 0 ELSE count(Descriptor[t])

(* What a stream of a type is allocated with: the kind of its values and,   *)
(* for logic, the width.                                                    *)
StreamOf(t) ==
  CASE Descriptor[t].kind \in {"REAL", "STRING"} -> [kind |-> Descriptor[t].kind, width |-> 0]
    [] OTHER -> [kind |-> "LOGIC", width |-> BitWidth[t]]
=============================================================================
