--------------------------- MODULE Builder_proofs ---------------------------
(* Proofs about Builder and the types it expands, for any types, calls and  *)
(* bounds.                                                                  *)
EXTENDS Builder, DataInduction, TLAPS

(* Places and indices of an array lead to one another, in either direction  *)
(* of its range, also where its bounds are the ends of an int32             *)
(* (ArrayType::ordinalOf, indexOf): the index in the name of an element,    *)
(* which the builder derives from the place, leads back to that place.      *)
THEOREM IndicesInverse ==
  ASSUME NEW d, d.kind = "ARRAY", d.left \in Int, d.right \in Int
  PROVE  /\ \A ord \in 0 .. ElementCount(d) - 1 :
              IndexOf(d, ord) \in Int /\ OrdinalOf(d, IndexOf(d, ord)) = ord
         /\ \A index \in Int :
              OrdinalOf(d, index) = NoIndex \/ IndexOf(d, OrdinalOf(d, index)) = index
<1>1. CASE Descends(d)
  <2>1. ElementCount(d) = d.left - d.right + 1
    BY <1>1 DEF ElementCount, Span
  <2>2. ASSUME NEW ord \in 0 .. ElementCount(d) - 1
        PROVE  IndexOf(d, ord) \in Int /\ OrdinalOf(d, IndexOf(d, ord)) = ord
    BY <1>1, <2>1, <2>2 DEF IndexOf, OrdinalOf
  <2>3. ASSUME NEW index \in Int, OrdinalOf(d, index) # NoIndex
        PROVE  IndexOf(d, OrdinalOf(d, index)) = index
    <3>1. OrdinalOf(d, index) = d.left - index
      BY <1>1, <2>3 DEF OrdinalOf
    <3>2. OrdinalOf(d, index) \in 0 .. ElementCount(d) - 1
      BY <1>1, <2>3 DEF OrdinalOf
    <3>3. QED
      BY <1>1, <2>1, <2>3, <3>1, <3>2 DEF IndexOf
  <2>4. QED
    BY <2>2, <2>3
<1>2. CASE ~Descends(d)
  <2>1. ElementCount(d) = d.right - d.left + 1
    BY <1>2 DEF ElementCount, Span
  <2>2. ASSUME NEW ord \in 0 .. ElementCount(d) - 1
        PROVE  IndexOf(d, ord) \in Int /\ OrdinalOf(d, IndexOf(d, ord)) = ord
    BY <1>2, <2>1, <2>2 DEF IndexOf, OrdinalOf
  <2>3. ASSUME NEW index \in Int, OrdinalOf(d, index) # NoIndex
        PROVE  IndexOf(d, OrdinalOf(d, index)) = index
    <3>1. OrdinalOf(d, index) = index - d.left
      BY <1>2, <2>3 DEF OrdinalOf
    <3>2. OrdinalOf(d, index) \in 0 .. ElementCount(d) - 1
      BY <1>2, <2>3 DEF OrdinalOf
    <3>3. QED
      BY <1>2, <2>1, <2>3, <3>1, <3>2 DEF IndexOf
  <2>4. QED
    BY <2>2, <2>3
<1>3. QED
  BY <1>1, <1>2
----------------------------------------------------------------------------
(* Scopes.  The stack is a path of the tree of scopes from the root, as     *)
(* long as the counter of the checker says; while scopes are open the       *)
(* header is not over.                                                      *)
Nested ==
  /\ scopes \in Seq(Nat) /\ openScopes \in Nat
  /\ stack \in Seq(Nat) /\ Len(stack) = openScopes + 1
  /\ stack[1] = 0
  /\ \A k \in 2 .. Len(stack) : stack[k] \in 1 .. Len(scopes) /\ scopes[stack[k]] = stack[k - 1]
  /\ headerDone => openScopes = 0

(* At first no scope is open and the stack is the root.                   *)
LEMMA NestedInit == Init => Nested
  BY DEF Init, Nested

(* beginScope() pushes a scope that exists (or has just been made).       *)
LEMMA NestedByBegin ==
  ASSUME Nested, BeginScope
  PROVE  Nested'
<1>1. /\ openScopes' = openScopes + 1 /\ headerDone' = headerDone /\ ~headerDone
      /\ scopes' = Append(scopes, stack[Len(stack)])
      /\ stack' = Append(stack, Len(scopes) + 1)
  BY DEF BeginScope, Last
<1>2. /\ scopes \in Seq(Nat) /\ openScopes \in Nat /\ stack \in Seq(Nat)
      /\ Len(stack) = openScopes + 1 /\ stack[1] = 0
  BY DEF Nested
<1>3. stack[Len(stack)] \in Nat
  BY <1>2
<1>4. /\ scopes' \in Seq(Nat) /\ stack' \in Seq(Nat) /\ openScopes' \in Nat
      /\ Len(stack') = openScopes' + 1 /\ stack'[1] = 0
      /\ Len(scopes') = Len(scopes) + 1
  BY <1>1, <1>2, <1>3
<1>5. ASSUME NEW k \in 2 .. Len(stack')
      PROVE  stack'[k] \in 1 .. Len(scopes') /\ scopes'[stack'[k]] = stack'[k - 1]
  <2>1. CASE k \in 2 .. Len(stack)
    <3>1. stack'[k] = stack[k] /\ stack'[k - 1] = stack[k - 1]
      BY <1>1, <1>2, <2>1
    <3>2. stack[k] \in 1 .. Len(scopes) /\ scopes[stack[k]] = stack[k - 1]
      BY <2>1 DEF Nested
    <3>3. scopes'[stack[k]] = scopes[stack[k]]
      BY <1>1, <1>2, <1>3, <3>2
    <3>4. QED
      BY <1>2, <1>4, <3>1, <3>2, <3>3, SMTT(30)
  <2>2. CASE k = Len(stack) + 1
    <3>1. stack'[k] = Len(scopes) + 1 /\ stack'[k - 1] = stack[Len(stack)]
      BY <1>1, <1>2, <2>2
    <3>2. scopes'[Len(scopes) + 1] = stack[Len(stack)]
      BY <1>1, <1>2, <1>3
    <3>3. QED
      BY <1>2, <1>4, <3>1, <3>2
  <2>3. QED
    BY <1>1, <1>2, <1>4, <2>1, <2>2
<1>6. QED
  BY <1>1, <1>4, <1>5 DEF Nested

(* endScope() pops one scope and is refused at the root.                  *)
LEMMA NestedByEnd ==
  ASSUME Nested, EndScope
  PROVE  Nested'
<1>1. /\ openScopes # 0 /\ openScopes' = openScopes - 1 /\ headerDone' = headerDone /\ ~headerDone
      /\ scopes' = scopes
      /\ stack' = IF Len(stack) > 1 THEN SubSeq(stack, 1, Len(stack) - 1) ELSE stack
  BY DEF EndScope, Front
<1>2. /\ scopes \in Seq(Nat) /\ openScopes \in Nat /\ stack \in Seq(Nat)
      /\ Len(stack) = openScopes + 1 /\ stack[1] = 0
  BY DEF Nested
<1>3. stack' = SubSeq(stack, 1, Len(stack) - 1) /\ Len(stack) > 1
  BY <1>1, <1>2
<1>4. /\ stack' \in Seq(Nat) /\ Len(stack') = Len(stack) - 1
      /\ \A k \in 1 .. Len(stack) - 1 : stack'[k] = stack[k]
  BY <1>2, <1>3, SMTT(30)
<1>5. ASSUME NEW k \in 2 .. Len(stack')
      PROVE  stack'[k] \in 1 .. Len(scopes') /\ scopes'[stack'[k]] = stack'[k - 1]
  <2>1. k \in 2 .. Len(stack) /\ stack'[k] = stack[k] /\ stack'[k - 1] = stack[k - 1]
    BY <1>2, <1>4
  <2>2. stack[k] \in 1 .. Len(scopes) /\ scopes[stack[k]] = stack[k - 1]
    BY <2>1 DEF Nested
  <2>3. QED
    BY <1>1, <2>1, <2>2
<1>6. /\ openScopes' \in Nat /\ Len(stack') = openScopes' + 1 /\ stack'[1] = 0
  BY <1>1, <1>2, <1>3, <1>4
<1>7. QED
  BY <1>1, <1>2, <1>4, <1>5, <1>6 DEF Nested

(* No other call touches the scopes, and the header ends at the root      *)
(* only.                                                                  *)
LEMMA NestedByOthers ==
  ASSUME Nested, [Next]_vars, ~BeginScope, ~EndScope
  PROVE  Nested'
<1>1. /\ stack' = stack /\ scopes' = scopes /\ openScopes' = openScopes
      /\ headerDone' => headerDone \/ openScopes = 0
  <2>1. CASE \E t \in Declared, alias \in Ids \cup {NoAlias, Invalid} :
               \E leaves \in Leaves[t] : DeclareVar(t, alias, leaves)
    BY <2>1 DEF DeclareVar, SinkDeclares
  <2>2. CASE HeaderDone
    BY <2>2 DEF HeaderDone, ClosedScopes, headerVars
  <2>3. CASE \E t \in Times : SetTime(t)
    BY <2>3 DEF SetTime, headerVars
  <2>4. CASE \E id \in Ids \cup {Invalid}, v \in Values : ValueChange(id, v)
    BY <2>4 DEF ValueChange, checkerVars, headerVars
  <2>5. CASE Finish
    BY <2>5 DEF Finish, headerVars
  <2>6. CASE TakeDatabase
    BY <2>6 DEF TakeDatabase, headerVars
  <2>7. CASE UNCHANGED vars
    BY <2>7 DEF vars, checkerVars, headerVars
  <2>8. QED
    BY <2>1, <2>2, <2>3, <2>4, <2>5, <2>6, <2>7 DEF Next, HeaderCalls, ValueCalls
<1>2. QED
  BY <1>1 DEF Nested

(* What is kept by every step says what is claimed of the scopes.         *)
LEMMA NestedIsEnough == Nested => ScopesFollow
<1> SUFFICES ASSUME Nested PROVE ScopesFollow
  OBVIOUS
<1>1. headerDone => stack = <<0>>
  <2>1. stack \in Seq(Nat) /\ Len(stack) = openScopes + 1 /\ stack[1] = 0 /\ (headerDone => openScopes = 0)
    BY DEF Nested
  <2>2. QED
    BY <2>1
<1>2. QED
  BY <1>1 DEF Nested, ScopesFollow

(* Whatever a reader calls, the scope in which the sink declares is the one *)
(* the reader has open, and the header ends in the root: the counter of     *)
(* ValidatingBuilder makes the silent return of BaseBuilder::endScope() in  *)
(* the root unreachable.                                                    *)
THEOREM ScopesCorrect == Spec => []ScopesFollow
<1>1. Nested /\ [Next]_vars => Nested'
  BY NestedByBegin, NestedByEnd, NestedByOthers
<1>2. QED
  BY NestedInit, <1>1, NestedIsEnough, PTL DEF Spec
----------------------------------------------------------------------------
(* The parts of a type, and what is assumed of them.                        *)
PartsBelow == [t \in Types |-> Parts(t)]

(* Types are finitely many and none is part of itself, however deep.      *)
LEMMA TypesGrounded ==
  /\ IsFiniteSet(Types) /\ PartsBelow \in [Types -> SUBSET Types] /\ Grounded(Types, PartsBelow)
  BY TypesAssumption DEF TypesAssumption, PartsBelow, Grounded

(* The members of a struct or union are parts of it, that is types.       *)
LEMMA MembersOf ==
  ASSUME NEW t \in Types, Descriptor[t].kind \in {"STRUCT", "UNION"}
  PROVE  /\ Len(Descriptor[t].members) \in Nat
         /\ DOMAIN Descriptor[t].members = 1 .. Len(Descriptor[t].members)
         /\ \A k \in 1 .. Len(Descriptor[t].members) :
              /\ Descriptor[t].members[k].type \in Parts(t)
              /\ Descriptor[t].members[k].type \in Types
              /\ Descriptor[t].members[k].offset \in 0 .. U32 - 1
<1> DEFINE d == Descriptor[t]
<1>1. /\ Len(d.members) \in Nat /\ DOMAIN d.members = 1 .. Len(d.members)
      /\ \A k \in DOMAIN d.members : d.members[k].offset \in 0 .. U32 - 1
  BY LayoutAssumption DEF LayoutAssumption
<1>2. Parts(t) \subseteq Types
  BY TypesAssumption DEF TypesAssumption
<1>3. Parts(t) = {m.type : m \in {d.members[k] : k \in DOMAIN d.members}}
  BY DEF Parts, ToSet
<1> QED
  BY <1>1, <1>2, <1>3

(* The element of an array, or the base of an enumeration, is a part of   *)
(* it.                                                                    *)
LEMMA ElementOf ==
  ASSUME NEW t \in Types, Descriptor[t].kind \in {"ARRAY", "ENUM"}
  PROVE  Descriptor[t].element \in Parts(t) /\ Descriptor[t].element \in Types
  BY TypesAssumption DEF TypesAssumption, Parts

(* An array has at least one element.                                     *)
LEMMA ElementsOf ==
  ASSUME NEW t \in Types, Descriptor[t].kind = "ARRAY"
  PROVE  ElementCount(Descriptor[t]) \in Nat \ {0}
<1> DEFINE d == Descriptor[t]
<1>1. d.left \in Int /\ d.right \in Int
  BY LayoutAssumption DEF LayoutAssumption
<1>2. ElementCount(d) = IF d.left >= d.right THEN d.left - d.right + 1 ELSE d.right - d.left + 1
  BY <1>1 DEF ElementCount, Span, Descends
<1> QED
  BY <1>1, <1>2

----------------------------------------------------------------------------
(* Widths: the recursive definition has a value, the only one, and it has   *)
(* 32 bits.                                                                 *)
WidthIn(f, d) ==
  LET sum(r) == SumFunction([k \in DOMAIN r.members |-> f[r.members[k].type]])
      width(r) ==
        CASE r.kind = "SCALAR" -> 1
          [] r.kind = "VECTOR" -> Span(r)
          [] r.kind = "ENUM"   -> f[r.element]
          [] r.kind = "ARRAY" /\ r.packed -> (f[r.element] * ElementCount(r)) % U32
          [] r.kind \in {"STRUCT", "UNION"} /\ r.packed -> sum(r) % U32
          [] OTHER -> 0
  IN width(d)

(* One level of bitWidth() asks for the widths of parts only.             *)
LEMMA WidthOfParts ==
  ASSUME NEW t \in Types, NEW f, NEW g, \A p \in Parts(t) : f[p] = g[p]
  PROVE  WidthIn(f, Descriptor[t]) = WidthIn(g, Descriptor[t])
<1> DEFINE d == Descriptor[t]
<1>1. CASE d.kind \in {"STRUCT", "UNION"}
  <2>1. [k \in DOMAIN d.members |-> f[d.members[k].type]] = [k \in DOMAIN d.members |-> g[d.members[k].type]]
    BY <1>1, MembersOf
  <2> QED
    BY <1>1, <2>1 DEF WidthIn
<1>2. CASE d.kind \in {"ARRAY", "ENUM"}
  <2>1. f[d.element] = g[d.element]
    BY <1>2, ElementOf
  <2> QED
    BY <1>2, <2>1 DEF WidthIn
<1>3. CASE d.kind \notin {"STRUCT", "UNION", "ARRAY", "ENUM"}
  BY <1>3 DEF WidthIn
<1> QED
  BY <1>1, <1>2, <1>3

(* One level of bitWidth() gives a number of 32 bits.                     *)
LEMMA WidthType ==
  ASSUME NEW t \in Types, NEW f \in [Types -> 0 .. U32 - 1]
  PROVE  WidthIn(f, Descriptor[t]) \in 0 .. U32 - 1
<1>d. PICK d : d = Descriptor[t]
  OBVIOUS
<1>a. SUFFICES WidthIn(f, d) \in 0 .. U32 - 1
  BY <1>d
<1>0. U32 \in Nat /\ 1 < U32 /\ \A n \in Nat : n % U32 \in 0 .. U32 - 1
  BY TypesAssumption DEF TypesAssumption
<1>1. CASE d.kind \in {"STRUCT", "UNION"}
  <2> DEFINE w == [k \in DOMAIN d.members |-> f[d.members[k].type]]
  <2>1. w \in [1 .. Len(d.members) -> Nat] /\ IsFiniteSet(1 .. Len(d.members))
    <3>1. ASSUME NEW k \in 1 .. Len(d.members)
          PROVE  f[d.members[k].type] \in Nat
      <4>1. d.members[k].type \in Types
        BY <1>d, <1>1, MembersOf
      <4>2. f[d.members[k].type] \in 0 .. U32 - 1
        BY <4>1
      <4> QED
        BY <1>0, <4>2
    <3>2. Len(d.members) \in Int /\ 1 \in Int /\ DOMAIN d.members = 1 .. Len(d.members)
      BY <1>d, <1>1, MembersOf
    <3> QED
      BY <3>1, <3>2, FS_Interval
  <2> HIDE DEF w
  <2>2. SumFunction(w) \in Nat
    BY <2>1, SumType
  <2>3. SumFunction(w) % U32 \in 0 .. U32 - 1 /\ 0 \in 0 .. U32 - 1
    BY <1>0, <2>2
  <2>4. WidthIn(f, d) = IF d.packed THEN SumFunction(w) % U32 ELSE 0
    BY <1>1 DEF WidthIn, w
  <2> QED
    BY <2>3, <2>4
<1>2. CASE d.kind = "ARRAY"
  <2>1. PICK a \in 0 .. U32 - 1 : a = f[d.element]
    BY <1>d, <1>2, ElementOf
  <2>2. PICK n \in Nat : n = ElementCount(d)
    BY <1>d, <1>2, ElementsOf
  <2>3. a * n \in Nat
    BY <1>0
  <2>4. (a * n) % U32 \in 0 .. U32 - 1 /\ 0 \in 0 .. U32 - 1
    BY <1>0, <2>3
  <2>5. WidthIn(f, d) = IF d.packed THEN (a * n) % U32 ELSE 0
    BY <1>2, <2>1, <2>2 DEF WidthIn
  <2> QED
    BY <2>4, <2>5
<1>3. CASE d.kind = "ENUM"
  BY <1>d, <1>3, ElementOf DEF WidthIn
<1>4. CASE d.kind = "VECTOR"
  <2>1. d.left \in Int /\ d.right \in Int /\ Span(d) < U32
    BY <1>d, <1>4, LayoutAssumption DEF LayoutAssumption
  <2>2. Span(d) = IF d.left >= d.right THEN d.left - d.right + 1 ELSE d.right - d.left + 1
    BY <2>1 DEF Span, Descends
  <2>3. Span(d) \in 0 .. U32 - 1
    BY <1>0, <2>1, <2>2
  <2>4. WidthIn(f, d) = Span(d)
    BY <1>4 DEF WidthIn
  <2> QED
    BY <2>3, <2>4
<1>5. CASE d.kind \notin {"STRUCT", "UNION", "ARRAY", "ENUM", "VECTOR"}
  <2>1. WidthIn(f, d) = 1 \/ WidthIn(f, d) = 0
    BY <1>5 DEF WidthIn
  <2> QED
    BY <1>0, <2>1
<1> QED
  BY <1>1, <1>2, <1>3, <1>4, <1>5

(* bitWidth() has a value for every type and obeys its own equation.      *)
LEMMA WidthsAre ==
  /\ BitWidth \in [Types -> 0 .. U32 - 1]
  /\ \A t \in Types : BitWidth[t] = WidthIn(BitWidth, Descriptor[t])
<1> DEFINE V == 0 .. U32 - 1
           H == [x \in Types \X [Types -> V] |-> WidthIn(x[2], Descriptor[x[1]])]
           Is(f) == f = [t \in Types |-> WidthIn(f, Descriptor[t])]
<1>1. V # {}
  BY TypesAssumption DEF TypesAssumption
<1>2. H \in [Types \X [Types -> V] -> V]
  BY WidthType
<1>3. ASSUME NEW t \in Types, NEW f \in [Types -> V], NEW g \in [Types -> V],
             \A p \in PartsBelow[t] : f[p] = g[p]
      PROVE  H[<<t, f>>] = H[<<t, g>>]
  <2>1. WidthIn(f, Descriptor[t]) = WidthIn(g, Descriptor[t])
    BY <1>3, WidthOfParts DEF PartsBelow
  <2> QED
    BY <2>1
<1>4. PICK f \in [Types -> V] : Solution(f, Types, H)
  <2>1. AsksParts(H, Types, V, PartsBelow)
    <3> HIDE DEF V, H
    <3> QED
      BY <1>2, <1>3 DEF AsksParts
  <2> HIDE DEF V, H
  <2> QED
    BY <1>1, <2>1, TypesGrounded, RecursionExists
<1>5. Is(f)
  <2>1. \A t \in Types : f[t] = WidthIn(f, Descriptor[t])
    BY <1>4 DEF Solution
  <2> QED
    BY <2>1
<1>6. BitWidth = CHOOSE g : Is(g)
  BY DEF BitWidth, WidthIn
<1>7. Is(BitWidth)
  <2> HIDE DEF Is
  <2> QED
    BY <1>5, <1>6
<1>8. ASSUME NEW t \in Types
      PROVE  BitWidth[t] = WidthIn(BitWidth, Descriptor[t])
  BY <1>7
<1>9. BitWidth = f
  <2> DEFINE U == {t \in Types : BitWidth[t] # f[t]}
  <2>1. U = {}
    <3>1. SUFFICES ASSUME U # {} PROVE FALSE
      OBVIOUS
    <3>2. PICK t \in U : PartsBelow[t] \cap U = {}
      <4>1. U \in SUBSET Types
        OBVIOUS
      <4> HIDE DEF U
      <4> QED
        BY <3>1, <4>1, TypesGrounded DEF Grounded
    <3>3. \A p \in Parts(t) : BitWidth[p] = f[p]
      BY <3>2, TypesGrounded DEF PartsBelow
    <3>4. WidthIn(BitWidth, Descriptor[t]) = WidthIn(f, Descriptor[t])
      BY <3>3, WidthOfParts
    <3>5. BitWidth[t] = f[t]
      BY <1>4, <1>8, <3>4 DEF Solution
    <3> QED
      BY <3>5
  <2>2. DOMAIN BitWidth = Types
    BY <1>7
  <2>3. BitWidth = [t \in Types |-> BitWidth[t]]
    BY <1>7
  <2> QED
    BY <2>1, <2>3
<1> QED
  BY <1>8, <1>9

(* The parts in the order of the expansion.                                 *)
LEMMA ChildrenOf ==
  ASSUME NEW t \in Types
  PROVE  \E n \in Nat : /\ Children(t) \in [1 .. n -> [type : Parts(t), offset : Nat]]
                        /\ Descriptor[t].kind \notin Composites => n = 0
<1>d. PICK d : d = Descriptor[t]
  OBVIOUS
<1>1. CASE d.kind \in {"STRUCT", "UNION"}
  <2>1. PICK n \in Nat : n = Len(d.members) /\ DOMAIN d.members = 1 .. n
    BY <1>d, <1>1, MembersOf
  <2>2. ASSUME NEW k \in 1 .. n
        PROVE  [type |-> d.members[k].type, offset |-> d.members[k].offset] \in [type : Parts(t), offset : Nat]
    <3>1. d.members[k].type \in Parts(t) /\ d.members[k].offset \in 0 .. U32 - 1
      BY <1>d, <1>1, <2>1, MembersOf
    <3>2. d.members[k].offset \in Nat
      BY <3>1, TypesAssumption DEF TypesAssumption
    <3> QED
      BY <3>1, <3>2
  <2>3. Children(t) = [k \in 1 .. n |-> [type |-> d.members[k].type, offset |-> d.members[k].offset]]
    BY <1>d, <1>1, <2>1 DEF Children, PartsOf
  <2>4. Children(t) \in [1 .. n -> [type : Parts(t), offset : Nat]]
    BY <2>2, <2>3
  <2>5. d.kind \in Composites
    BY <1>1 DEF Composites
  <2> QED
    BY <1>d, <2>4, <2>5
<1>2. CASE d.kind = "ARRAY"
  <2>1. PICK n \in Nat : n = ElementCount(d)
    BY <1>d, <1>2, ElementsOf
  <2>2. PICK w \in Nat : w = BitWidth[d.element]
    <3>1. BitWidth[d.element] \in 0 .. U32 - 1
      BY <1>d, <1>2, ElementOf, WidthsAre
    <3> QED
      BY <3>1, TypesAssumption DEF TypesAssumption
  <2>3. ASSUME NEW k \in 1 .. n
        PROVE  [type |-> d.element, offset |-> FromTheRight(d, k - 1) * w] \in [type : Parts(t), offset : Nat]
    <3>1. d.element \in Parts(t)
      BY <1>d, <1>2, ElementOf
    <3>2. PICK r \in Nat : r = FromTheRight(d, k - 1)
      <4>1. n - 1 - (k - 1) \in Nat
        OBVIOUS
      <4> QED
        BY <2>1, <4>1 DEF FromTheRight
    <3>3. r * w \in Nat
      OBVIOUS
    <3> QED
      BY <3>1, <3>2, <3>3
  <2>4. Children(t) = [k \in 1 .. n |-> [type |-> d.element, offset |-> FromTheRight(d, k - 1) * w]]
    BY <1>d, <1>2, <2>1, <2>2 DEF Children, PartsOf
  <2>5. Children(t) \in [1 .. n -> [type : Parts(t), offset : Nat]]
    BY <2>3, <2>4
  <2>6. d.kind \in Composites
    BY <1>2 DEF Composites
  <2> QED
    BY <1>d, <2>5, <2>6
<1>3. CASE d.kind \notin Composites
  <2>1. Children(t) = <<>>
    BY <1>d, <1>3 DEF Children, PartsOf, Composites
  <2>2. <<>> \in [1 .. 0 -> [type : Parts(t), offset : Nat]]
    OBVIOUS
  <2> QED
    BY <1>d, <1>3, <2>1, <2>2
<1> QED
  BY <1>1, <1>2, <1>3 DEF Composites
----------------------------------------------------------------------------
(* The walk of the builder: it has a value, for every node, and gives a     *)
(* sequence of nodes.                                                       *)
Offset == 0 .. U32 - 1
Node == [path : Seq(Nat), type : Types, slice : [offset : Offset, width : Offset] \cup {NoSlice},
         binds : {NoBinding, "leaf", "hidden"}]
Deeper == [x \in Places |-> Parts(x[1]) \X Offset \X BOOLEAN]

Subtree(f, t, base, below, k) ==
  LET subtree(j, part, packed) ==
        <<NodeFor(j, part, base, packed, below)>>
          \o Under(j, f[<<part.type, OffsetIn(base, packed, part), packed \/ below>>])
  IN subtree(k, Children(t)[k], Descriptor[t].packed)
NodesIn(f, t, base, below) ==
  FlattenSeq([k \in DOMAIN Children(t) |-> Subtree(f, t, base, below, k)])

(* The walk over nodes is finite: each step goes down to a part.          *)
LEMMA PlacesGrounded ==
  IsFiniteSet(Places) /\ Deeper \in [Places -> SUBSET Places] /\ Grounded(Places, Deeper)
<1>1. IsFiniteSet(Places)
  <2>1. U32 - 1 \in Int /\ 0 \in Int
    BY TypesAssumption DEF TypesAssumption
  <2>2. IsFiniteSet(Offset)
    BY <2>1, FS_Interval DEF Offset
  <2>3. IsFiniteSet(BOOLEAN)
    <3>1. IsFiniteSet({TRUE}) /\ IsFiniteSet({FALSE})
      BY FS_Singleton
    <3>2. IsFiniteSet({TRUE} \cup {FALSE})
      BY <3>1, FS_Union
    <3>3. BOOLEAN = {TRUE} \cup {FALSE}
      OBVIOUS
    <3> QED
      BY <3>2, <3>3
  <2>4. IsFiniteSet((Types \X Offset) \X BOOLEAN)
    BY <2>2, <2>3, TypesGrounded, FS_Product
  <2> DEFINE p == [x \in (Types \X Offset) \X BOOLEAN |-> <<x[1][1], x[1][2], x[2]>>]
  <2>5. p \in Surjection((Types \X Offset) \X BOOLEAN, Places)
    <3>1. p \in [(Types \X Offset) \X BOOLEAN -> Places]
      BY DEF Places, Offset
    <3>2. ASSUME NEW y \in Places
          PROVE  \E x \in (Types \X Offset) \X BOOLEAN : p[x] = y
      <4>1. <<<<y[1], y[2]>>, y[3]>> \in (Types \X Offset) \X BOOLEAN /\ y = <<y[1], y[2], y[3]>>
        BY DEF Places, Offset
      <4> QED
        BY <4>1
    <3> QED
      BY <3>1, <3>2 DEF Surjection
  <2> QED
    BY <2>4, <2>5, FS_Surjection
<1>2. ASSUME NEW x \in Places
      PROVE  Parts(x[1]) \X Offset \X BOOLEAN \subseteq Places
  BY TypesAssumption DEF TypesAssumption, Places, Offset
<1>3. Deeper \in [Places -> SUBSET Places]
  BY <1>2 DEF Deeper
<1>4. ASSUME NEW U \in SUBSET Places, U # {}
      PROVE  \E x \in U : Deeper[x] \cap U = {}
  <2> DEFINE first == {x[1] : x \in U}
  <2>1. first \in SUBSET Types /\ first # {}
    BY <1>4 DEF Places, Offset
  <2>2. PICK t \in first : PartsBelow[t] \cap first = {}
    BY <2>1, TypesGrounded DEF Grounded
  <2>3. PICK x \in U : x[1] = t
    BY <2>2
  <2>4. Deeper[x] = Parts(t) \X Offset \X BOOLEAN /\ PartsBelow[t] = Parts(t)
    BY <2>1, <2>3 DEF Deeper, PartsBelow
  <2>5. ASSUME NEW y \in Deeper[x], y \in U
        PROVE  FALSE
    <3>1. y[1] \in Parts(t) /\ y[1] \in first
      BY <2>4, <2>5
    <3> QED
      BY <2>2, <2>4, <3>1
  <2> QED
    BY <2>5
<1> QED
  BY <1>1, <1>3, <1>4 DEF Grounded

(* Hanging nodes under a parent changes their paths and nothing else.     *)
LEMMA UnderKeeps ==
  ASSUME NEW k \in Nat, NEW nodes \in Seq(Node)
  PROVE  /\ Under(k, nodes) \in Seq(Node) /\ Len(Under(k, nodes)) = Len(nodes)
         /\ \A j \in 1 .. Len(nodes) :
              /\ Under(k, nodes)[j].type = nodes[j].type /\ Under(k, nodes)[j].binds = nodes[j].binds
              /\ Under(k, nodes)[j].slice = nodes[j].slice
              /\ Under(k, nodes)[j].path = <<k>> \o nodes[j].path
<1>1. PICK m \in Nat : m = Len(nodes)
  OBVIOUS
<1>2. DOMAIN nodes = 1 .. m
  BY <1>1
<1> DEFINE moved(j) == [nodes[j] EXCEPT !.path = <<k>> \o @]
<1>3. ASSUME NEW j \in 1 .. m
      PROVE  /\ moved(j) \in Node
             /\ moved(j).type = nodes[j].type /\ moved(j).binds = nodes[j].binds
             /\ moved(j).slice = nodes[j].slice /\ moved(j).path = <<k>> \o nodes[j].path
  <2>1. nodes[j] \in Node
    BY <1>1, ElementOfSeq
  <2>2. <<k>> \o nodes[j].path \in Seq(Nat)
    <3>1. <<k>> \in Seq(Nat) /\ nodes[j].path \in Seq(Nat)
      BY <2>1 DEF Node
    <3> QED
      BY <3>1, ConcatProperties
  <2> QED
    BY <2>1, <2>2 DEF Node
<1>4. Under(k, nodes) = [j \in 1 .. m |-> moved(j)]
  BY <1>2 DEF Under
<1> HIDE DEF moved
<1>5. Under(k, nodes) \in [1 .. m -> Node]
  BY <1>3, <1>4
<1>6. Under(k, nodes) \in Seq(Node) /\ Len(Under(k, nodes)) = m
  BY <1>5, FunctionIsSeq
<1>7. \A j \in 1 .. m : Under(k, nodes)[j] = moved(j)
  BY <1>4
<1> QED
  BY <1>1, <1>3, <1>6, <1>7

(* A node made for a part has its type and its binding.                   *)
LEMMA NodeForType ==
  ASSUME NEW k \in Nat, NEW t \in Types, NEW part \in [type : Parts(t), offset : Nat],
         NEW base \in Offset, NEW packed \in BOOLEAN, NEW below \in BOOLEAN
  PROVE  /\ NodeFor(k, part, base, packed, below) \in Node
         /\ NodeFor(k, part, base, packed, below).type = part.type
         /\ NodeFor(k, part, base, packed, below).binds = BindingOf(part.type, packed, below)
         /\ OffsetIn(base, packed, part) \in Offset
         /\ part.type \in Parts(t) /\ part.type \in Types
<1>1. part.type \in Parts(t) /\ part.type \in Types /\ part.offset \in Nat
  BY TypesAssumption DEF TypesAssumption
<1>2. OffsetIn(base, packed, part) \in Offset
  <2>1. U32 \in Nat /\ 1 < U32
    BY TypesAssumption DEF TypesAssumption
  <2>2. PICK n \in Nat : n = base + part.offset
    BY <1>1, <2>1 DEF Offset
  <2>3. n % U32 \in 0 .. U32 - 1 /\ 0 \in 0 .. U32 - 1
    BY <2>1
  <2> QED
    BY <2>2, <2>3 DEF OffsetIn, Offset
<1>3. BitWidth[part.type] \in Offset
  BY <1>1, WidthsAre DEF Offset
<1>4. BindingOf(part.type, packed, below) \in {NoBinding, "leaf", "hidden"}
  BY DEF BindingOf
<1>5. <<k>> \in Seq(Nat)
  OBVIOUS
<1>6. NodeFor(k, part, base, packed, below) =
        [path |-> <<k>>, type |-> part.type,
         slice |-> IF packed THEN [offset |-> OffsetIn(base, packed, part), width |-> BitWidth[part.type]]
                   ELSE NoSlice,
         binds |-> BindingOf(part.type, packed, below)]
  BY DEF NodeFor
<1>7. (IF packed THEN [offset |-> OffsetIn(base, packed, part), width |-> BitWidth[part.type]]
       ELSE NoSlice) \in [offset : Offset, width : Offset] \cup {NoSlice}
  BY <1>2, <1>3
<1> QED
  BY <1>1, <1>2, <1>4, <1>5, <1>6, <1>7 DEF Node

(* What is below a child, if f gives what is below the types it consists of.*)
LEMMA SubtreeType ==
  ASSUME NEW t \in Types, NEW base \in Offset, NEW below \in BOOLEAN,
         NEW f \in [Places -> Seq(Node)], NEW k \in DOMAIN Children(t)
  PROVE  Subtree(f, t, base, below, k) \in Seq(Node)
<1>1. PICK n \in Nat : Children(t) \in [1 .. n -> [type : Parts(t), offset : Nat]]
  BY ChildrenOf
<1>2. PICK part \in [type : Parts(t), offset : Nat] : part = Children(t)[k]
  BY <1>1
<1>3. PICK packed \in BOOLEAN : packed = Descriptor[t].packed
  BY LayoutAssumption DEF LayoutAssumption
<1>4. k \in Nat
  BY <1>1
<1>5. /\ NodeFor(k, part, base, packed, below) \in Node
      /\ OffsetIn(base, packed, part) \in Offset /\ part.type \in Types
  BY <1>4, NodeForType
<1> DEFINE place == <<part.type, OffsetIn(base, packed, part), packed \/ below>>
<1>6. place \in Places
  BY <1>5 DEF Places, Offset
<1>7. f[place] \in Seq(Node)
  BY <1>6
<1> HIDE DEF place
<1>8. Under(k, f[place]) \in Seq(Node)
  BY <1>4, <1>7, UnderKeeps
<1>9. <<NodeFor(k, part, base, packed, below)>> \in Seq(Node)
  BY <1>5
<1>10. Subtree(f, t, base, below, k) = <<NodeFor(k, part, base, packed, below)>> \o Under(k, f[place])
  BY <1>2, <1>3 DEF Subtree, place
<1> QED
  BY <1>8, <1>9, <1>10, ConcatProperties

(* One level of the walk gives a list of nodes.                           *)
LEMMA NodesType ==
  ASSUME NEW t \in Types, NEW base \in Offset, NEW below \in BOOLEAN,
         NEW f \in [Places -> Seq(Node)]
  PROVE  NodesIn(f, t, base, below) \in Seq(Node)
<1>1. PICK n \in Nat : Children(t) \in [1 .. n -> [type : Parts(t), offset : Nat]]
  BY ChildrenOf
<1> DEFINE pieces == [k \in DOMAIN Children(t) |-> Subtree(f, t, base, below, k)]
<1>2. DOMAIN Children(t) = 1 .. n
  BY <1>1
<1>3. pieces \in [1 .. n -> Seq(Node)]
  BY <1>2, SubtreeType
<1> HIDE DEF pieces
<1>4. PICK g \in [0 .. n -> Seq(Node)] :
        /\ g[0] = <<>>
        /\ \A i \in 1 .. n : g[i] = g[i - 1] \o pieces[i]
        /\ FlattenSeq(pieces) = g[n]
  BY <1>3, FlattenSteps
<1>5. g[n] \in Seq(Node)
  OBVIOUS
<1> QED
  BY <1>4, <1>5 DEF NodesIn, pieces

(* One level of the walk asks for the nodes below parts only.             *)
LEMMA NodesOfParts ==
  ASSUME NEW t \in Types, NEW base \in Offset, NEW below \in BOOLEAN, NEW f, NEW g,
         \A p \in Parts(t) \X Offset \X BOOLEAN : f[p] = g[p]
  PROVE  NodesIn(f, t, base, below) = NodesIn(g, t, base, below)
<1>1. PICK n \in Nat : Children(t) \in [1 .. n -> [type : Parts(t), offset : Nat]]
  BY ChildrenOf
<1>2. ASSUME NEW k \in DOMAIN Children(t)
      PROVE  Subtree(f, t, base, below, k) = Subtree(g, t, base, below, k)
  <2>1. PICK part \in [type : Parts(t), offset : Nat] : part = Children(t)[k]
    BY <1>1
  <2>2. PICK packed \in BOOLEAN : packed = Descriptor[t].packed
    BY LayoutAssumption DEF LayoutAssumption
  <2>3. k \in Nat
    BY <1>1
  <2>4. OffsetIn(base, packed, part) \in Offset /\ part.type \in Parts(t)
    BY <2>3, NodeForType
  <2> DEFINE place == <<part.type, OffsetIn(base, packed, part), packed \/ below>>
  <2>5. place \in Parts(t) \X Offset \X BOOLEAN
    BY <2>4
  <2>6. f[place] = g[place]
    <3> HIDE DEF place
    <3> QED
      BY <2>5
  <2> QED
    BY <2>1, <2>2, <2>6 DEF Subtree
<1> QED
  BY <1>2 DEF NodesIn

(* The walk over nodes has a result everywhere and obeys its own          *)
(* equation.                                                              *)
LEMMA NodesAre ==
  /\ NodesBelow \in [Places -> Seq(Node)]
  /\ \A t \in Types : \A base \in Offset : \A below \in BOOLEAN :
       NodesBelow[<<t, base, below>>] = NodesIn(NodesBelow, t, base, below)
<1> DEFINE V == Seq(Node)
           H == [x \in Places \X [Places -> V] |-> NodesIn(x[2], x[1][1], x[1][2], x[1][3])]
           Is(f) == f = [x \in Places |-> NodesIn(f, x[1], x[2], x[3])]
<1>1. V # {}
  BY EmptySeq
<1>2. H \in [Places \X [Places -> V] -> V]
  BY NodesType DEF Places, Offset
<1>3. ASSUME NEW x \in Places, NEW f \in [Places -> V], NEW g \in [Places -> V],
             \A p \in Deeper[x] : f[p] = g[p]
      PROVE  H[<<x, f>>] = H[<<x, g>>]
  <2>1. x[1] \in Types /\ x[2] \in Offset /\ x[3] \in BOOLEAN /\ Deeper[x] = Parts(x[1]) \X Offset \X BOOLEAN
    BY DEF Places, Offset, Deeper
  <2>2. \A p \in Parts(x[1]) \X Offset \X BOOLEAN : f[p] = g[p]
    BY <1>3, <2>1
  <2>3. NodesIn(f, x[1], x[2], x[3]) = NodesIn(g, x[1], x[2], x[3])
    <3> HIDE DEF V, H
    <3> QED
      BY <2>1, <2>2, NodesOfParts
  <2> QED
    BY <2>3
<1>4. PICK f \in [Places -> V] : Solution(f, Places, H)
  <2>1. AsksParts(H, Places, V, Deeper)
    <3> HIDE DEF V, H
    <3> QED
      BY <1>2, <1>3 DEF AsksParts
  <2> HIDE DEF V, H
  <2> QED
    BY <1>1, <2>1, PlacesGrounded, RecursionExists
<1>5. Is(f)
  <2>1. ASSUME NEW x \in Places
        PROVE  f[x] = NodesIn(f, x[1], x[2], x[3])
    BY <1>4 DEF Solution
  <2> QED
    BY <2>1
<1>6. NodesBelow = CHOOSE g : Is(g)
  BY DEF NodesBelow, NodesIn, Subtree
<1>7. Is(NodesBelow)
  <2> HIDE DEF Is
  <2> QED
    BY <1>5, <1>6
<1>8. ASSUME NEW t \in Types, NEW base \in Offset, NEW below \in BOOLEAN
      PROVE  NodesBelow[<<t, base, below>>] = NodesIn(NodesBelow, t, base, below)
  <2>1. <<t, base, below>> \in Places
    BY DEF Places, Offset
  <2> QED
    BY <1>7, <2>1
<1>9. NodesBelow = f
  <2> DEFINE U == {x \in Places : NodesBelow[x] # f[x]}
  <2>1. U = {}
    <3>1. SUFFICES ASSUME U # {} PROVE FALSE
      OBVIOUS
    <3>2. PICK x \in U : Deeper[x] \cap U = {}
      <4>1. U \in SUBSET Places
        OBVIOUS
      <4> HIDE DEF U
      <4> QED
        BY <3>1, <4>1, PlacesGrounded DEF Grounded
    <3>3. /\ x[1] \in Types /\ x[2] \in Offset /\ x[3] \in BOOLEAN /\ x = <<x[1], x[2], x[3]>>
          /\ Deeper[x] = Parts(x[1]) \X Offset \X BOOLEAN
          /\ Deeper[x] \subseteq Places
      BY PlacesGrounded DEF Places, Offset, Deeper
    <3>4. \A p \in Parts(x[1]) \X Offset \X BOOLEAN : NodesBelow[p] = f[p]
      BY <3>2, <3>3
    <3>5. NodesIn(NodesBelow, x[1], x[2], x[3]) = NodesIn(f, x[1], x[2], x[3])
      BY <3>3, <3>4, NodesOfParts
    <3>6. f[x] = NodesIn(f, x[1], x[2], x[3])
      BY <1>5
    <3>7. NodesBelow[x] = NodesIn(NodesBelow, x[1], x[2], x[3])
      BY <1>7
    <3>8. NodesBelow[x] = f[x]
      BY <3>5, <3>6, <3>7
    <3> QED
      BY <3>8
  <2>2. NodesBelow = [x \in Places |-> NodesBelow[x]]
    BY <1>7
  <2> QED
    BY <2>1, <2>2
<1> QED
  BY <1>8, <1>9

----------------------------------------------------------------------------
(* The walk of the checker.                                                 *)
ItsOwn(c) == IF SingleStream(c) THEN <<c>> ELSE <<>>
ExpandsIn(f, t) ==
  LET part(c) == (IF SingleStream(c) THEN <<c>> ELSE <<>>) \o f[c]
  IN IF SingleStream(t) THEN <<>>
     ELSE FlattenSeq([k \in DOMAIN Children(t) |-> part(Children(t)[k].type)])

(* One level of collectExpansion(), with its list of children named.      *)
LEMMA ExpandsAs ==
  ASSUME NEW t \in Types, NEW f
  PROVE  ExpandsIn(f, t) =
           IF SingleStream(t) THEN <<>>
           ELSE FlattenSeq([k \in DOMAIN Children(t) |-> ItsOwn(Children(t)[k].type) \o f[Children(t)[k].type]])
  BY DEF ExpandsIn, ItsOwn

(* One level of collectExpansion() asks for the expansion of parts only.  *)
LEMMA ExpandsOfParts ==
  ASSUME NEW t \in Types, NEW f, NEW g, \A p \in Parts(t) : f[p] = g[p]
  PROVE  ExpandsIn(f, t) = ExpandsIn(g, t)
<1>1. PICK n \in Nat : Children(t) \in [1 .. n -> [type : Parts(t), offset : Nat]]
  BY ChildrenOf
<1>2. ASSUME NEW k \in DOMAIN Children(t)
      PROVE  f[Children(t)[k].type] = g[Children(t)[k].type]
  BY <1>1
<1> QED
  BY <1>2, ExpandsAs

(* One level of collectExpansion() gives a list of types.                 *)
LEMMA ExpandsType ==
  ASSUME NEW t \in Types, NEW f \in [Types -> Seq(Types)]
  PROVE  ExpandsIn(f, t) \in Seq(Types)
<1>1. PICK n \in Nat : Children(t) \in [1 .. n -> [type : Parts(t), offset : Nat]]
  BY ChildrenOf
<1> DEFINE pieces == [k \in DOMAIN Children(t) |-> ItsOwn(Children(t)[k].type) \o f[Children(t)[k].type]]
<1>2. DOMAIN Children(t) = 1 .. n
  BY <1>1
<1>3. ASSUME NEW k \in 1 .. n
      PROVE  ItsOwn(Children(t)[k].type) \o f[Children(t)[k].type] \in Seq(Types)
  <2>1. PICK c \in Types : c = Children(t)[k].type
    BY <1>1, TypesAssumption DEF TypesAssumption
  <2>2. ItsOwn(c) \in Seq(Types) /\ f[c] \in Seq(Types)
    BY EmptySeq DEF ItsOwn
  <2> QED
    BY <2>1, <2>2, ConcatProperties
<1>4. pieces \in [1 .. n -> Seq(Types)]
  BY <1>2, <1>3
<1> HIDE DEF pieces
<1>5. PICK g \in [0 .. n -> Seq(Types)] :
        /\ g[0] = <<>>
        /\ \A i \in 1 .. n : g[i] = g[i - 1] \o pieces[i]
        /\ FlattenSeq(pieces) = g[n]
  BY <1>4, FlattenSteps
<1>6. g[n] \in Seq(Types)
  OBVIOUS
<1>7. ExpandsIn(f, t) = IF SingleStream(t) THEN <<>> ELSE FlattenSeq(pieces)
  BY ExpandsAs DEF pieces
<1> QED
  BY <1>5, <1>6, <1>7, EmptySeq

(* collectExpansion() has a result for every type and obeys its own       *)
(* equation.                                                              *)
LEMMA ExpansionIs ==
  /\ Expansion \in [Types -> Seq(Types)]
  /\ \A t \in Types : Expansion[t] = ExpandsIn(Expansion, t)
<1> DEFINE V == Seq(Types)
           H == [x \in Types \X [Types -> V] |-> ExpandsIn(x[2], x[1])]
           Is(f) == f = [t \in Types |-> ExpandsIn(f, t)]
<1>1. V # {}
  BY EmptySeq
<1>2. H \in [Types \X [Types -> V] -> V]
  BY ExpandsType
<1>3. ASSUME NEW t \in Types, NEW f \in [Types -> V], NEW g \in [Types -> V],
             \A p \in PartsBelow[t] : f[p] = g[p]
      PROVE  H[<<t, f>>] = H[<<t, g>>]
  <2>1. \A p \in Parts(t) : f[p] = g[p]
    BY <1>3 DEF PartsBelow
  <2>2. ExpandsIn(f, t) = ExpandsIn(g, t)
    <3> HIDE DEF V, H
    <3> QED
      BY <2>1, ExpandsOfParts
  <2> QED
    BY <2>2
<1>4. PICK f \in [Types -> V] : Solution(f, Types, H)
  <2>1. AsksParts(H, Types, V, PartsBelow)
    <3> HIDE DEF V, H
    <3> QED
      BY <1>2, <1>3 DEF AsksParts
  <2> HIDE DEF V, H
  <2> QED
    BY <1>1, <2>1, TypesGrounded, RecursionExists
<1>5. Is(f)
  <2>1. \A t \in Types : f[t] = ExpandsIn(f, t)
    BY <1>4 DEF Solution
  <2> QED
    BY <2>1
<1>6. Expansion = CHOOSE g : Is(g)
  BY DEF Expansion, ExpandsIn
<1>7. Is(Expansion)
  <2> HIDE DEF Is
  <2> QED
    BY <1>5, <1>6
<1>8. ASSUME NEW t \in Types
      PROVE  Expansion[t] = ExpandsIn(Expansion, t)
  BY <1>7
<1>9. Expansion = f
  <2> DEFINE U == {t \in Types : Expansion[t] # f[t]}
  <2>1. U = {}
    <3>1. SUFFICES ASSUME U # {} PROVE FALSE
      OBVIOUS
    <3>2. PICK t \in U : PartsBelow[t] \cap U = {}
      <4>1. U \in SUBSET Types
        OBVIOUS
      <4> HIDE DEF U
      <4> QED
        BY <3>1, <4>1, TypesGrounded DEF Grounded
    <3>3. \A p \in Parts(t) : Expansion[p] = f[p]
      BY <3>2, TypesGrounded DEF PartsBelow
    <3>4. ExpandsIn(Expansion, t) = ExpandsIn(f, t)
      BY <3>3, ExpandsOfParts
    <3>5. Expansion[t] = f[t]
      BY <1>4, <1>8, <3>4 DEF Solution
    <3> QED
      BY <3>5
  <2>2. Expansion = [t \in Types |-> Expansion[t]]
    BY <1>7
  <2> QED
    BY <2>1, <2>2
<1> QED
  BY <1>8, <1>9

----------------------------------------------------------------------------
(* The leaves among nodes, in order, are the types of a list: at gives the  *)
(* place of each.                                                           *)
PlacesLeaves(at, nodes, types) ==
  /\ at \in [1 .. Len(types) -> 1 .. Len(nodes)]
  /\ \A i, j \in 1 .. Len(types) : i < j => at[i] < at[j]
  /\ \A i \in 1 .. Len(types) : nodes[at[i]].binds = "leaf" /\ nodes[at[i]].type = types[i]
  /\ \A k \in 1 .. Len(nodes) : nodes[k].binds = "leaf" => \E i \in 1 .. Len(types) : at[i] = k
LeavesAre(nodes, types) == \E at : PlacesLeaves(at, nodes, types)

(* A list of nodes without a leaf. *)
LeafFree == {node \in Node : node.binds # "leaf"}

(* Nodes without a leaf have no leaves.                                   *)
LEMMA LeavesOfNone ==
  ASSUME NEW nodes \in Seq(LeafFree)
  PROVE  LeavesAre(nodes, <<>>)
<1>1. \A k \in 1 .. Len(nodes) : nodes[k].binds # "leaf"
  <2> TAKE k \in 1 .. Len(nodes)
  <2>1. nodes[k] \in LeafFree
    BY ElementOfSeq
  <2> QED
    BY <2>1 DEF LeafFree
<1>2. 1 .. Len(<<>>) = {}
  OBVIOUS
<1>3. <<>> \in [1 .. 0 -> 1 .. Len(nodes)]
  OBVIOUS
<1>4. PlacesLeaves(<<>>, nodes, <<>>)
  BY <1>1, <1>2, <1>3 DEF PlacesLeaves
<1> QED
  BY <1>4 DEF LeavesAre

(* A leaf alone is a list with one leaf, of its type.                     *)
LEMMA LeavesOfOne ==
  ASSUME NEW node \in Node, node.binds = "leaf"
  PROVE  LeavesAre(<<node>>, <<node.type>>)
<1> DEFINE at == [i \in 1 .. 1 |-> 1]
<1>1. PlacesLeaves(at, <<node>>, <<node.type>>)
  <2>1. Len(<<node>>) = 1 /\ Len(<<node.type>>) = 1 /\ <<node>>[1] = node /\ <<node.type>>[1] = node.type
    OBVIOUS
  <2>2. at \in [1 .. 1 -> 1 .. 1] /\ at[1] = 1 /\ \A i \in 1 .. 1 : i = 1
    OBVIOUS
  <2> HIDE DEF at
  <2> QED
    BY <2>1, <2>2 DEF PlacesLeaves
<1> QED
  BY <1>1 DEF LeavesAre

(* Hanging nodes under a parent leaves the leaves as they are.            *)
LEMMA LeavesOfUnder ==
  ASSUME NEW nodes \in Seq(Node), NEW k \in Nat, NEW types, LeavesAre(nodes, types)
  PROVE  LeavesAre(Under(k, nodes), types)
<1>1. PICK at : PlacesLeaves(at, nodes, types)
  BY DEF LeavesAre
<1>2. /\ Len(Under(k, nodes)) = Len(nodes)
      /\ \A j \in 1 .. Len(nodes) :
           Under(k, nodes)[j].type = nodes[j].type /\ Under(k, nodes)[j].binds = nodes[j].binds
  BY UnderKeeps
<1>3. PlacesLeaves(at, Under(k, nodes), types)
  BY <1>1, <1>2 DEF PlacesLeaves
<1> QED
  BY <1>3 DEF LeavesAre

(* The leaves of two lists, one after the other, are those of the first   *)
(* and then those of the second.                                          *)
LEMMA LeavesOfConcat ==
  ASSUME NEW m1 \in Seq(Node), NEW m2 \in Seq(Node), NEW t1 \in Seq(Types), NEW t2 \in Seq(Types),
         LeavesAre(m1, t1), LeavesAre(m2, t2)
  PROVE  LeavesAre(m1 \o m2, t1 \o t2)
<1>1. PICK a : PlacesLeaves(a, m1, t1)
  BY DEF LeavesAre
<1>2. PICK b : PlacesLeaves(b, m2, t2)
  BY DEF LeavesAre
<1>3. PICK p \in Nat, q \in Nat, r \in Nat, s \in Nat :
        p = Len(m1) /\ q = Len(m2) /\ r = Len(t1) /\ s = Len(t2)
  OBVIOUS
<1>4. PICK nodes \in Seq(Node) :
        /\ nodes = m1 \o m2 /\ Len(nodes) = p + q
        /\ \A i \in 1 .. p : nodes[i] = m1[i]
        /\ \A i \in 1 .. q : nodes[p + i] = m2[i]
  <2>1. /\ m1 \o m2 \in Seq(Node) /\ Len(m1 \o m2) = p + q
        /\ \A i \in 1 .. p + q : (m1 \o m2)[i] = IF i <= p THEN m1[i] ELSE m2[i - p]
    BY <1>3, ConcatProperties
  <2>2. ASSUME NEW i \in 1 .. p
        PROVE  (m1 \o m2)[i] = m1[i]
    <3>1. i \in 1 .. p + q /\ i <= p
      OBVIOUS
    <3> QED
      BY <2>1, <3>1
  <2>3. ASSUME NEW i \in 1 .. q
        PROVE  (m1 \o m2)[p + i] = m2[i]
    <3>1. p + i \in 1 .. p + q /\ ~(p + i <= p) /\ p + i - p = i
      OBVIOUS
    <3> QED
      BY <2>1, <3>1
  <2> QED
    BY <2>1, <2>2, <2>3
<1>5. PICK types \in Seq(Types) :
        /\ types = t1 \o t2 /\ Len(types) = r + s
        /\ \A i \in 1 .. r : types[i] = t1[i]
        /\ \A i \in 1 .. s : types[r + i] = t2[i]
  <2>1. /\ t1 \o t2 \in Seq(Types) /\ Len(t1 \o t2) = r + s
        /\ \A i \in 1 .. r + s : (t1 \o t2)[i] = IF i <= r THEN t1[i] ELSE t2[i - r]
    BY <1>3, ConcatProperties
  <2>2. ASSUME NEW i \in 1 .. r
        PROVE  (t1 \o t2)[i] = t1[i]
    <3>1. i \in 1 .. r + s /\ i <= r
      OBVIOUS
    <3> QED
      BY <2>1, <3>1
  <2>3. ASSUME NEW i \in 1 .. s
        PROVE  (t1 \o t2)[r + i] = t2[i]
    <3>1. r + i \in 1 .. r + s /\ ~(r + i <= r) /\ r + i - r = i
      OBVIOUS
    <3> QED
      BY <2>1, <3>1
  <2> QED
    BY <2>1, <2>2, <2>3
<1> DEFINE at == [i \in 1 .. r + s |-> IF i <= r THEN a[i] ELSE p + b[i - r]]
<1>6. ASSUME NEW i \in 1 .. r
      PROVE  /\ a[i] \in 1 .. p /\ i \in 1 .. r + s /\ at[i] = a[i] /\ at[i] \in 1 .. p + q
             /\ nodes[at[i]].binds = "leaf" /\ nodes[at[i]].type = types[i]
  <2>1. /\ a[i] \in 1 .. p
        /\ m1[a[i]].binds = "leaf" /\ m1[a[i]].type = t1[i]
    BY <1>1, <1>3 DEF PlacesLeaves
  <2>2. i \in 1 .. r + s /\ i <= r
    OBVIOUS
  <2>3. at[i] = a[i]
    BY <2>2
  <2>4. at[i] \in 1 .. p + q
    BY <2>1, <2>3
  <2>5. nodes[a[i]] = m1[a[i]] /\ types[i] = t1[i]
    BY <1>4, <1>5, <2>1
  <2> QED
    BY <2>1, <2>2, <2>3, <2>4, <2>5
<1>7. ASSUME NEW i \in 1 .. s
      PROVE  /\ b[i] \in 1 .. q /\ r + i \in 1 .. r + s
             /\ at[r + i] = p + b[i] /\ at[r + i] \in 1 .. p + q
             /\ nodes[at[r + i]].binds = "leaf" /\ nodes[at[r + i]].type = types[r + i]
  <2>1. /\ b[i] \in 1 .. q
        /\ m2[b[i]].binds = "leaf" /\ m2[b[i]].type = t2[i]
    BY <1>2, <1>3 DEF PlacesLeaves
  <2>2. r + i \in 1 .. r + s /\ ~(r + i <= r) /\ r + i - r = i
    OBVIOUS
  <2>3. at[r + i] = p + b[i]
    BY <2>2
  <2>4. at[r + i] \in 1 .. p + q
    <3>1. PICK y \in 1 .. q : y = b[i]
      BY <2>1
    <3>2. p + y \in 1 .. p + q
      OBVIOUS
    <3> QED
      BY <2>3, <3>1, <3>2
  <2>5. nodes[p + b[i]] = m2[b[i]] /\ types[r + i] = t2[i]
    BY <1>4, <1>5, <2>1
  <2> QED
    BY <2>1, <2>2, <2>3, <2>4, <2>5
<1>8. ASSUME NEW i \in 1 .. r + s
      PROVE  i \in 1 .. r \/ \E j \in 1 .. s : i = r + j
  <2>1. CASE i <= r
    BY <2>1
  <2>2. CASE ~(i <= r)
    <3>1. i - r \in 1 .. s /\ i = r + (i - r)
      BY <2>2
    <3> QED
      BY <3>1
  <2> QED
    BY <2>1, <2>2
<1>14. DOMAIN at = 1 .. r + s
  OBVIOUS
<1>15. at = [i \in 1 .. r + s |-> at[i]]
  OBVIOUS
<1> HIDE DEF at
<1>9. ASSUME NEW i \in 1 .. r + s
      PROVE  at[i] \in 1 .. p + q /\ nodes[at[i]].binds = "leaf" /\ nodes[at[i]].type = types[i]
  BY <1>6, <1>7, <1>8
<1>10. at \in [1 .. r + s -> 1 .. p + q]
  BY <1>9, <1>15
<1>11. ASSUME NEW i \in 1 .. r + s, NEW j \in 1 .. r + s, i < j
       PROVE  at[i] < at[j]
  <2>1. CASE j \in 1 .. r
    <3>1. i \in 1 .. r
      BY <1>11, <2>1
    <3>2. a[i] < a[j]
      BY <1>1, <1>3, <1>11, <2>1, <3>1 DEF PlacesLeaves
    <3> QED
      BY <1>6, <2>1, <3>1, <3>2
  <2>2. CASE i \in 1 .. r /\ j \notin 1 .. r
    <3>1. PICK y \in 1 .. s : j = r + y
      BY <1>8, <2>2
    <3>2. at[i] \in 1 .. p
      BY <1>6, <2>2
    <3>3. PICK z \in 1 .. q : z = b[y] /\ at[j] = p + z
      BY <1>7, <3>1
    <3> QED
      BY <3>2, <3>3
  <2>3. CASE i \notin 1 .. r
    <3>1. PICK x \in 1 .. s : i = r + x
      BY <1>8, <2>3
    <3>2. PICK y \in 1 .. s : j = r + y
      <4>1. j \notin 1 .. r
        BY <1>11, <2>3
      <4> QED
        BY <1>8, <4>1
    <3>3. x < y
      BY <1>11, <3>1, <3>2
    <3>4. b[x] < b[y]
      BY <1>2, <1>3, <3>3 DEF PlacesLeaves
    <3>5. PICK u \in 1 .. q, v \in 1 .. q : u = b[x] /\ v = b[y] /\ at[i] = p + u /\ at[j] = p + v
      BY <1>7, <3>1, <3>2
    <3> QED
      BY <3>4, <3>5
  <2> QED
    BY <2>1, <2>2, <2>3
<1>12. ASSUME NEW k \in 1 .. p + q, nodes[k].binds = "leaf"
       PROVE  \E i \in 1 .. r + s : at[i] = k
  <2>1. CASE k \in 1 .. p
    <3>1. m1[k].binds = "leaf"
      BY <1>4, <1>12, <2>1
    <3>2. PICK i \in 1 .. r : a[i] = k
      BY <1>1, <1>3, <2>1, <3>1 DEF PlacesLeaves
    <3> QED
      BY <1>6, <3>2
  <2>2. CASE k \notin 1 .. p
    <3>1. PICK y \in 1 .. q : k = p + y
      <4>1. k - p \in 1 .. q /\ k = p + (k - p)
        BY <2>2
      <4> QED
        BY <4>1
    <3>2. m2[y].binds = "leaf"
      BY <1>4, <1>12, <3>1
    <3>3. PICK i \in 1 .. s : b[i] = y
      BY <1>2, <1>3, <3>2 DEF PlacesLeaves
    <3> QED
      BY <1>7, <3>1, <3>3
  <2> QED
    BY <2>1, <2>2
<1>13. PlacesLeaves(at, nodes, types)
  BY <1>4, <1>5, <1>9, <1>10, <1>11, <1>12 DEF PlacesLeaves
<1> QED
  BY <1>4, <1>5, <1>13 DEF LeavesAre

(* Gluing nodes piece by piece glues the types of their leaves likewise.    *)
LEMMA LeavesOfFlatten ==
  ASSUME NEW n \in Nat, NEW parts \in [1 .. n -> Seq(Node)], NEW lists \in [1 .. n -> Seq(Types)],
         \A k \in 1 .. n : LeavesAre(parts[k], lists[k])
  PROVE  LeavesAre(FlattenSeq(parts), FlattenSeq(lists))
<1>1. PICK f \in [0 .. n -> Seq(Node)] :
        /\ f[0] = <<>>
        /\ \A i \in 1 .. n : f[i] = f[i - 1] \o parts[i]
        /\ FlattenSeq(parts) = f[n]
  BY FlattenSteps
<1>2. PICK g \in [0 .. n -> Seq(Types)] :
        /\ g[0] = <<>>
        /\ \A i \in 1 .. n : g[i] = g[i - 1] \o lists[i]
        /\ FlattenSeq(lists) = g[n]
  BY FlattenSteps
<1> DEFINE T == {i \in 0 .. n : LeavesAre(f[i], g[i])}
<1>3. 0 \in T
  <2>1. <<>> \in Seq(LeafFree)
    BY EmptySeq
  <2>2. LeavesAre(<<>>, <<>>)
    BY <2>1, LeavesOfNone
  <2>3. 0 \in 0 .. n
    OBVIOUS
  <2> QED
    BY <1>1, <1>2, <2>2, <2>3
<1>4. ASSUME NEW i \in T, i < n
      PROVE  i + 1 \in T
  <2>1. i \in 0 .. n /\ LeavesAre(f[i], g[i]) /\ i + 1 \in 1 .. n /\ i + 1 \in 0 .. n /\ i + 1 - 1 = i
    BY <1>4
  <2>2. PICK k \in 1 .. n : k = i + 1 /\ k - 1 = i
    BY <2>1
  <2>3. f[k] = f[i] \o parts[k] /\ g[k] = g[i] \o lists[k]
    BY <1>1, <1>2, <2>2
  <2>4. f[i] \in Seq(Node) /\ g[i] \in Seq(Types) /\ parts[k] \in Seq(Node) /\ lists[k] \in Seq(Types)
    BY <2>1
  <2>5. LeavesAre(f[i] \o parts[k], g[i] \o lists[k])
    BY <2>1, <2>4, LeavesOfConcat
  <2> QED
    BY <2>1, <2>2, <2>3, <2>5
<1>5. T = 0 .. n
  <2>1. T \in SUBSET (0 .. n)
    OBVIOUS
  <2> HIDE DEF T
  <2> QED
    BY <1>3, <1>4, <2>1, UptoInduction
<1>6. n \in T
  <2>1. n \in 0 .. n
    OBVIOUS
  <2> HIDE DEF T
  <2> QED
    BY <1>5, <2>1
<1> QED
  BY <1>1, <1>2, <1>6

(* Gluing lists of members of a set gives a list of its members.            *)
LEMMA FlattenWithin ==
  ASSUME NEW n \in Nat, NEW S, NEW parts \in [1 .. n -> Seq(S)]
  PROVE  FlattenSeq(parts) \in Seq(S)
<1>1. PICK f \in [0 .. n -> Seq(S)] :
        /\ f[0] = <<>>
        /\ \A i \in 1 .. n : f[i] = f[i - 1] \o parts[i]
        /\ FlattenSeq(parts) = f[n]
  BY FlattenSteps
<1>2. f[n] \in Seq(S)
  OBVIOUS
<1> QED
  BY <1>1, <1>2

(* What Subtree() is made of: the node of a part, and the walk below it.    *)
DeeperPlace(t, base, below, k) ==
  <<Children(t)[k].type, OffsetIn(base, Descriptor[t].packed, Children(t)[k]), Descriptor[t].packed \/ below>>
PartNode(t, base, below, k) == NodeFor(k, Children(t)[k], base, Descriptor[t].packed, below)

(* The nodes made for one part: its own, then those below it.             *)
LEMMA SubtreeMade ==
  ASSUME NEW t \in Types, NEW base \in Offset, NEW below \in BOOLEAN, NEW k \in DOMAIN Children(t)
  PROVE  /\ k \in Nat /\ Children(t)[k].type \in Parts(t) /\ Children(t)[k].type \in Types
         /\ DeeperPlace(t, base, below, k) \in Places
         /\ \E o \in Offset :
              DeeperPlace(t, base, below, k) = <<Children(t)[k].type, o, Descriptor[t].packed \/ below>>
         /\ Descriptor[t].packed \in BOOLEAN
         /\ PartNode(t, base, below, k) \in Node
         /\ PartNode(t, base, below, k).type = Children(t)[k].type
         /\ PartNode(t, base, below, k).binds = BindingOf(Children(t)[k].type, Descriptor[t].packed, below)
         /\ NodesBelow[DeeperPlace(t, base, below, k)] \in Seq(Node)
         /\ Subtree(NodesBelow, t, base, below, k) =
              <<PartNode(t, base, below, k)>> \o Under(k, NodesBelow[DeeperPlace(t, base, below, k)])
<1>1. PICK n \in Nat : Children(t) \in [1 .. n -> [type : Parts(t), offset : Nat]]
  BY ChildrenOf
<1>2. PICK part \in [type : Parts(t), offset : Nat] : part = Children(t)[k]
  BY <1>1
<1>3. PICK packed \in BOOLEAN : packed = Descriptor[t].packed
  BY LayoutAssumption DEF LayoutAssumption
<1>4. k \in Nat
  BY <1>1
<1>5. /\ NodeFor(k, part, base, packed, below) \in Node
      /\ NodeFor(k, part, base, packed, below).type = part.type
      /\ NodeFor(k, part, base, packed, below).binds = BindingOf(part.type, packed, below)
      /\ OffsetIn(base, packed, part) \in Offset
      /\ part.type \in Parts(t) /\ part.type \in Types
  BY <1>4, NodeForType
<1>6. DeeperPlace(t, base, below, k) = <<part.type, OffsetIn(base, packed, part), packed \/ below>>
  BY <1>2, <1>3 DEF DeeperPlace
<1>7. DeeperPlace(t, base, below, k) \in Places
  BY <1>5, <1>6 DEF Places, Offset
<1>8. NodesBelow[DeeperPlace(t, base, below, k)] \in Seq(Node)
  BY <1>7, NodesAre
<1>9. Subtree(NodesBelow, t, base, below, k) =
        <<PartNode(t, base, below, k)>> \o Under(k, NodesBelow[DeeperPlace(t, base, below, k)])
  BY DEF Subtree, PartNode, DeeperPlace
<1>10. PartNode(t, base, below, k) = NodeFor(k, part, base, packed, below)
  BY <1>2, <1>3 DEF PartNode
<1> QED
  BY <1>2, <1>3, <1>4, <1>5, <1>6, <1>7, <1>8, <1>9, <1>10

(* The nodes below a type are those made for its parts, in order.         *)
LEMMA NodesGlued ==
  ASSUME NEW t \in Types, NEW base \in Offset, NEW below \in BOOLEAN
  PROVE  \E n \in Nat : \E pieces \in [1 .. n -> Seq(Node)] :
           /\ DOMAIN Children(t) = 1 .. n
           /\ \A k \in 1 .. n : pieces[k] = Subtree(NodesBelow, t, base, below, k)
           /\ NodesBelow[<<t, base, below>>] = FlattenSeq(pieces)
<1>1. PICK n \in Nat : Children(t) \in [1 .. n -> [type : Parts(t), offset : Nat]]
  BY ChildrenOf
<1> DEFINE pieces == [k \in DOMAIN Children(t) |-> Subtree(NodesBelow, t, base, below, k)]
<1>2. DOMAIN Children(t) = 1 .. n
  BY <1>1
<1>3. NodesBelow \in [Places -> Seq(Node)]
  BY NodesAre
<1>4. pieces \in [1 .. n -> Seq(Node)] /\ \A k \in 1 .. n : pieces[k] = Subtree(NodesBelow, t, base, below, k)
  BY <1>2, <1>3, SubtreeType
<1>5. NodesBelow[<<t, base, below>>] = FlattenSeq(pieces)
  BY NodesAre DEF NodesIn
<1> HIDE DEF pieces
<1> QED
  BY <1>2, <1>4, <1>5

(* Within a packed type no part binds a leaf.                             *)
LEMMA SubtreeLeafFree ==
  ASSUME NEW t \in Types, NEW base \in Offset, NEW below \in BOOLEAN, NEW k \in DOMAIN Children(t),
         Descriptor[t].packed \/ below,
         NodesBelow[DeeperPlace(t, base, below, k)] \in Seq(LeafFree)
  PROVE  Subtree(NodesBelow, t, base, below, k) \in Seq(LeafFree)
<1> DEFINE node == PartNode(t, base, below, k)
           nodes == NodesBelow[DeeperPlace(t, base, below, k)]
<1>1. /\ k \in Nat /\ node \in Node /\ nodes \in Seq(Node)
      /\ node.binds = BindingOf(Children(t)[k].type, Descriptor[t].packed, below)
      /\ Subtree(NodesBelow, t, base, below, k) = <<node>> \o Under(k, nodes)
  BY SubtreeMade
<1>2. node.binds # "leaf"
  BY <1>1 DEF BindingOf, NoBinding
<1>3. nodes \in Seq(LeafFree)
  OBVIOUS
<1> HIDE DEF node, nodes
<1>4. <<node>> \in Seq(LeafFree)
  BY <1>1, <1>2 DEF LeafFree
<1>5. PICK m \in Nat : m = Len(nodes) /\ nodes \in [1 .. m -> LeafFree]
  BY <1>3
<1>6. /\ Under(k, nodes) \in Seq(Node) /\ Len(Under(k, nodes)) = m
      /\ \A j \in 1 .. m : Under(k, nodes)[j].binds = nodes[j].binds
  BY <1>1, <1>5, UnderKeeps
<1>7. ASSUME NEW j \in 1 .. m
      PROVE  Under(k, nodes)[j] \in LeafFree
  <2>1. nodes[j].binds # "leaf" /\ Under(k, nodes)[j] \in Node
    BY <1>5, <1>6, ElementOfSeq DEF LeafFree
  <2> QED
    BY <1>6, <2>1 DEF LeafFree
<1>8. Under(k, nodes) \in [1 .. m -> LeafFree]
  <2>1. Under(k, nodes) = [j \in 1 .. m |-> Under(k, nodes)[j]]
    BY <1>6
  <2> QED
    BY <1>7, <2>1
<1>9. Under(k, nodes) \in Seq(LeafFree)
  BY <1>8, FunctionIsSeq
<1> QED
  BY <1>1, <1>4, <1>9, ConcatProperties

(* What holds of all nodes below a type if it holds of those below its parts*)
LEMMA HiddenBelow ==
  ASSUME NEW t \in Types, NEW base \in Offset
  PROVE  NodesBelow[<<t, base, TRUE>>] \in Seq(LeafFree)
<1> DEFINE U == {s \in Types : \E o \in Offset : NodesBelow[<<s, o, TRUE>>] \notin Seq(LeafFree)}
<1>1. U = {}
  <2>1. SUFFICES ASSUME U # {} PROVE FALSE
    OBVIOUS
  <2>2. PICK s \in U : PartsBelow[s] \cap U = {}
    <3>1. U \in SUBSET Types
      OBVIOUS
    <3> HIDE DEF U
    <3> QED
      BY <2>1, <3>1, TypesGrounded DEF Grounded
  <2>3. s \in Types /\ Parts(s) \cap U = {}
    BY <2>2 DEF PartsBelow
  <2>4. PICK o \in Offset : NodesBelow[<<s, o, TRUE>>] \notin Seq(LeafFree)
    BY <2>2
  <2>5. PICK n \in Nat : \E pieces \in [1 .. n -> Seq(Node)] :
          /\ DOMAIN Children(s) = 1 .. n
          /\ \A k \in 1 .. n : pieces[k] = Subtree(NodesBelow, s, o, TRUE, k)
          /\ NodesBelow[<<s, o, TRUE>>] = FlattenSeq(pieces)
    BY <2>3, NodesGlued
  <2>6. PICK pieces \in [1 .. n -> Seq(Node)] :
          /\ DOMAIN Children(s) = 1 .. n
          /\ \A k \in 1 .. n : pieces[k] = Subtree(NodesBelow, s, o, TRUE, k)
          /\ NodesBelow[<<s, o, TRUE>>] = FlattenSeq(pieces)
    BY <2>5
  <2>7. ASSUME NEW k \in 1 .. n
        PROVE  pieces[k] \in Seq(LeafFree)
    <3>1. /\ Children(s)[k].type \in Parts(s) /\ Children(s)[k].type \in Types
          /\ \E q \in Offset :
               DeeperPlace(s, o, TRUE, k) = <<Children(s)[k].type, q, Descriptor[s].packed \/ TRUE>>
      <4> HIDE DEF U
      <4>1. s \in Types /\ o \in Offset /\ TRUE \in BOOLEAN /\ k \in DOMAIN Children(s)
        BY <2>3, <2>4, <2>6
      <4> QED
        BY <4>1, SubtreeMade
    <3>2. PICK q \in Offset : DeeperPlace(s, o, TRUE, k) = <<Children(s)[k].type, q, TRUE>>
      BY <3>1
    <3>3. Children(s)[k].type \notin U
      BY <2>3, <3>1
    <3>4. NodesBelow[DeeperPlace(s, o, TRUE, k)] \in Seq(LeafFree)
      BY <3>1, <3>2, <3>3
    <3>5. Subtree(NodesBelow, s, o, TRUE, k) \in Seq(LeafFree)
      BY <2>3, <2>6, <3>4, SubtreeLeafFree
    <3> QED
      BY <2>6, <3>5
  <2>8. pieces \in [1 .. n -> Seq(LeafFree)]
    BY <2>7
  <2>9. FlattenSeq(pieces) \in Seq(LeafFree)
    BY <2>8, FlattenWithin
  <2> QED
    BY <2>4, <2>6, <2>9
<1> QED
  BY <1>1

(* Below a node that has a stream, no node is a leaf of the caller's.       *)
LEMMA HiddenInStream ==
  ASSUME NEW t \in Types, NEW base \in Offset, SingleStream(t)
  PROVE  NodesBelow[<<t, base, FALSE>>] \in Seq(LeafFree)
<1>1. PICK n \in Nat : \E pieces \in [1 .. n -> Seq(Node)] :
        /\ DOMAIN Children(t) = 1 .. n
        /\ \A k \in 1 .. n : pieces[k] = Subtree(NodesBelow, t, base, FALSE, k)
        /\ NodesBelow[<<t, base, FALSE>>] = FlattenSeq(pieces)
  BY NodesGlued
<1>2. PICK pieces \in [1 .. n -> Seq(Node)] :
        /\ DOMAIN Children(t) = 1 .. n
        /\ \A k \in 1 .. n : pieces[k] = Subtree(NodesBelow, t, base, FALSE, k)
        /\ NodesBelow[<<t, base, FALSE>>] = FlattenSeq(pieces)
  BY <1>1
<1>3. ASSUME NEW k \in 1 .. n
      PROVE  Descriptor[t].packed = TRUE
  <2>1. PICK m \in Nat : /\ Children(t) \in [1 .. m -> [type : Parts(t), offset : Nat]]
                         /\ Descriptor[t].kind \notin Composites => m = 0
    BY ChildrenOf
  <2>2. Descriptor[t].kind \in Composites
    BY <1>2, <2>1
  <2> QED
    BY <2>2, LayoutAssumption DEF SingleStream, OneStream, LayoutAssumption
<1>4. ASSUME NEW k \in 1 .. n
      PROVE  pieces[k] \in Seq(LeafFree)
  <2>1. /\ Children(t)[k].type \in Types
        /\ \E q \in Offset :
             DeeperPlace(t, base, FALSE, k) = <<Children(t)[k].type, q, Descriptor[t].packed \/ FALSE>>
    BY <1>2, SubtreeMade
  <2>2. PICK q \in Offset : DeeperPlace(t, base, FALSE, k) = <<Children(t)[k].type, q, TRUE>>
    BY <1>3, <2>1
  <2>3. NodesBelow[DeeperPlace(t, base, FALSE, k)] \in Seq(LeafFree)
    BY <2>1, <2>2, HiddenBelow
  <2>4. Subtree(NodesBelow, t, base, FALSE, k) \in Seq(LeafFree)
    BY <1>2, <1>3, <2>3, SubtreeLeafFree
  <2> QED
    BY <1>2, <2>4
<1>5. pieces \in [1 .. n -> Seq(LeafFree)]
  BY <1>4
<1>6. FlattenSeq(pieces) \in Seq(LeafFree)
  BY <1>5, FlattenWithin
<1> QED
  BY <1>2, <1>6

(* The leaves that the builder meets are the types that the checker         *)
(* collects, in the same order.                                             *)
LEMMA WalksAgree ==
  ASSUME NEW t \in Types, NEW base \in Offset
  PROVE  LeavesAre(NodesBelow[<<t, base, FALSE>>], Expansion[t])
<1> DEFINE U == {s \in Types : \E o \in Offset : ~ LeavesAre(NodesBelow[<<s, o, FALSE>>], Expansion[s])}
<1>1. U = {}
  <2>1. SUFFICES ASSUME U # {} PROVE FALSE
    OBVIOUS
  <2>2. PICK s \in U : PartsBelow[s] \cap U = {}
    <3>1. U \in SUBSET Types
      OBVIOUS
    <3> HIDE DEF U
    <3> QED
      BY <2>1, <3>1, TypesGrounded DEF Grounded
  <2>3. s \in Types /\ Parts(s) \cap U = {}
    BY <2>2 DEF PartsBelow
  <2>4. PICK o \in Offset : ~ LeavesAre(NodesBelow[<<s, o, FALSE>>], Expansion[s])
    BY <2>2
  <2>5. ~ SingleStream(s)
    <3>1. SUFFICES ASSUME SingleStream(s) PROVE FALSE
      OBVIOUS
    <3>2. NodesBelow[<<s, o, FALSE>>] \in Seq(LeafFree)
      BY <2>3, <3>1, HiddenInStream
    <3>3. Expansion[s] = <<>>
      BY <2>3, <3>1, ExpansionIs, ExpandsAs
    <3> QED
      BY <2>4, <3>2, <3>3, LeavesOfNone
  <2>6. PICK n \in Nat : \E pieces \in [1 .. n -> Seq(Node)] :
          /\ DOMAIN Children(s) = 1 .. n
          /\ \A k \in 1 .. n : pieces[k] = Subtree(NodesBelow, s, o, FALSE, k)
          /\ NodesBelow[<<s, o, FALSE>>] = FlattenSeq(pieces)
    BY <2>3, NodesGlued
  <2>7. PICK pieces \in [1 .. n -> Seq(Node)] :
          /\ DOMAIN Children(s) = 1 .. n
          /\ \A k \in 1 .. n : pieces[k] = Subtree(NodesBelow, s, o, FALSE, k)
          /\ NodesBelow[<<s, o, FALSE>>] = FlattenSeq(pieces)
    BY <2>6
  <2> DEFINE list(k) == ItsOwn(Children(s)[k].type) \o Expansion[Children(s)[k].type]
             lists == [k \in DOMAIN Children(s) |-> list(k)]
  <2>8. Expansion[s] = FlattenSeq(lists)
    BY <2>3, <2>5, ExpansionIs, ExpandsAs
  <2>9. ASSUME NEW k \in 1 .. n
        PROVE  list(k) \in Seq(Types) /\ LeavesAre(pieces[k], list(k))
    <3> DEFINE c == Children(s)[k].type
               node == PartNode(s, o, FALSE, k)
               nodes == NodesBelow[DeeperPlace(s, o, FALSE, k)]
    <3>1. /\ k \in Nat /\ c \in Parts(s) /\ c \in Types
          /\ \E q \in Offset : DeeperPlace(s, o, FALSE, k) = <<c, q, Descriptor[s].packed \/ FALSE>>
          /\ node \in Node /\ node.type = c
          /\ node.binds = BindingOf(c, Descriptor[s].packed, FALSE)
          /\ nodes \in Seq(Node)
          /\ Subtree(NodesBelow, s, o, FALSE, k) = <<node>> \o Under(k, nodes)
      <4> HIDE DEF U
      <4>1. s \in Types /\ o \in Offset /\ FALSE \in BOOLEAN /\ k \in DOMAIN Children(s)
        BY <2>3, <2>4, <2>7
      <4> QED
        BY <4>1, SubtreeMade
    <3>2. Descriptor[s].packed = FALSE
      <4>1. PICK m \in Nat : /\ Children(s) \in [1 .. m -> [type : Parts(s), offset : Nat]]
                             /\ Descriptor[s].kind \notin Composites => m = 0
        BY <2>3, ChildrenOf
      <4>2. Descriptor[s].kind \in Composites
        BY <2>7, <4>1
      <4> QED
        BY <2>3, <2>5, <4>2, LayoutAssumption DEF SingleStream, OneStream, LayoutAssumption
    <3>3. PICK q \in Offset : DeeperPlace(s, o, FALSE, k) = <<c, q, FALSE>>
      BY <3>1, <3>2
    <3>4. c \notin U
      BY <2>3, <3>1
    <3>5. LeavesAre(nodes, Expansion[c])
      BY <3>1, <3>3, <3>4
    <3>6. node.binds = IF SingleStream(c) THEN "leaf" ELSE NoBinding
      BY <3>1, <3>2 DEF BindingOf
    <3>7. ItsOwn(c) \in Seq(Types) /\ Expansion[c] \in Seq(Types)
      BY <3>1, EmptySeq, ExpansionIs DEF ItsOwn
    <3>8. list(k) = ItsOwn(c) \o Expansion[c] /\ pieces[k] = <<node>> \o Under(k, nodes)
      BY <2>7, <3>1
    <3> HIDE DEF c, node, nodes, list
    <3>9. LeavesAre(<<node>>, ItsOwn(c))
      <4>1. CASE SingleStream(c)
        <5>1. node.binds = "leaf" /\ ItsOwn(c) = <<node.type>>
          BY <3>1, <3>6, <4>1 DEF ItsOwn
        <5> QED
          BY <3>1, <5>1, LeavesOfOne
      <4>2. CASE ~ SingleStream(c)
        <5>1. node.binds # "leaf" /\ ItsOwn(c) = <<>>
          BY <3>6, <4>2 DEF ItsOwn, NoBinding
        <5>2. node \in LeafFree
          BY <3>1, <5>1 DEF LeafFree
        <5>3. <<node>> \in Seq(LeafFree)
          BY <5>2
        <5> QED
          BY <5>1, <5>3, LeavesOfNone
      <4> QED
        BY <4>1, <4>2
    <3>10. LeavesAre(Under(k, nodes), Expansion[c]) /\ Under(k, nodes) \in Seq(Node)
      BY <3>1, <3>5, LeavesOfUnder, UnderKeeps
    <3>11. <<node>> \in Seq(Node)
      BY <3>1
    <3>12. LeavesAre(<<node>> \o Under(k, nodes), ItsOwn(c) \o Expansion[c])
      BY <3>7, <3>9, <3>10, <3>11, LeavesOfConcat
    <3>13. list(k) \in Seq(Types)
      BY <3>7, <3>8, ConcatProperties
    <3> QED
      BY <3>8, <3>12, <3>13
  <2>10. lists \in [1 .. n -> Seq(Types)] /\ \A k \in 1 .. n : lists[k] = list(k)
    BY <2>7, <2>9
  <2> HIDE DEF lists, list
  <2>11. \A k \in 1 .. n : LeavesAre(pieces[k], lists[k])
    BY <2>9, <2>10
  <2>12. LeavesAre(FlattenSeq(pieces), FlattenSeq(lists))
    BY <2>10, <2>11, LeavesOfFlatten
  <2> QED
    BY <2>4, <2>7, <2>8, <2>12
<1> QED
  BY <1>1

----------------------------------------------------------------------------
(* Counting along a list.                                                   *)
LEMMA CountGrows ==
  ASSUME NEW n \in Nat, NEW S \in SUBSET (1 .. n), NEW k \in S, NEW i \in 1 .. n + 1, k < i
  PROVE  /\ Cardinality({j \in 1 .. k - 1 : j \in S}) \in Nat
         /\ Cardinality({j \in 1 .. i - 1 : j \in S}) \in Nat
         /\ Cardinality({j \in 1 .. k - 1 : j \in S}) < Cardinality({j \in 1 .. i - 1 : j \in S})
<1> DEFINE A == {j \in 1 .. k - 1 : j \in S}
           B == {j \in 1 .. i - 1 : j \in S}
<1>1. k \in 1 .. n /\ A \in SUBSET B /\ k \in B /\ k \notin A
  OBVIOUS
<1>2. IsFiniteSet(B)
  <2>1. IsFiniteSet(1 .. i - 1) /\ B \in SUBSET (1 .. i - 1)
    BY <1>1, FS_Interval
  <2> HIDE DEF B
  <2> QED
    BY <2>1, FS_Subset
<1> HIDE DEF A, B
<1>3. IsFiniteSet(A) /\ Cardinality(A) <= Cardinality(B) /\ Cardinality(A) # Cardinality(B)
  BY <1>1, <1>2, FS_Subset
<1>4. Cardinality(A) \in Nat /\ Cardinality(B) \in Nat
  BY <1>2, <1>3, FS_CardinalityType
<1> QED
  BY <1>3, <1>4 DEF A, B

Upto(S, k) == {j \in 1 .. k : j \in S}
Enumerates(at, m, S) ==
  /\ at \in [1 .. m -> S]
  /\ \A i, j \in 1 .. m : i < j => at[i] < at[j]
  /\ \A k \in S : \E i \in 1 .. m : at[i] = k

(* The i-th member of a set that is listed in order has i members up to   *)
(* it.                                                                    *)
LEMMA CountOfEnumerated ==
  ASSUME NEW n \in Nat, NEW S \in SUBSET (1 .. n), NEW m \in Nat, NEW at, Enumerates(at, m, S),
         NEW i \in 1 .. m
  PROVE  Cardinality(Upto(S, at[i])) = i
<1> DEFINE T == Upto(S, at[i])
           f == [j \in 1 .. i |-> at[j]]
<1> USE DEF Enumerates, Upto
<1>0. ASSUME NEW j \in 1 .. m
      PROVE  at[j] \in S /\ at[j] \in Nat
  <2>1. PICK x \in S : x = at[j]
    OBVIOUS
  <2>2. x \in 1 .. n
    OBVIOUS
  <2> QED
    BY <2>1, <2>2
<1>1. ASSUME NEW j \in 1 .. i
      PROVE  at[j] \in T
  <2>1. j \in 1 .. m /\ (j < i \/ j = i)
    OBVIOUS
  <2>2. at[j] \in S /\ at[j] \in 1 .. n /\ at[i] \in 1 .. n
    BY <2>1
  <2>3. at[j] <= at[i]
    BY <2>1, <2>2
  <2> QED
    BY <2>2, <2>3
<1>2. ASSUME NEW k \in T
      PROVE  \E j \in 1 .. i : at[j] = k
  <2>1. PICK j \in 1 .. m : at[j] = k
    OBVIOUS
  <2>2. ~ at[i] < at[j]
    BY <1>0, <2>1
  <2>3. j <= i
    BY <2>2
  <2> QED
    BY <2>1, <2>3
<1>3. ASSUME NEW j \in 1 .. i, NEW k \in 1 .. i, at[j] = at[k]
      PROVE  j = k
  <2>1. j \in 1 .. m /\ k \in 1 .. m
    OBVIOUS
  <2>2. PICK x \in Nat : x = at[j] /\ x = at[k]
    BY <1>0, <1>3, <2>1
  <2>3. j < k => at[j] < at[k]
    BY <2>1
  <2>4. k < j => at[k] < at[j]
    BY <2>1
  <2>5. ~ (j < k) /\ ~ (k < j)
    BY <2>2, <2>3, <2>4
  <2> QED
    BY <2>1, <2>5
<1> HIDE DEF T
<1>4. f \in Bijection(1 .. i, T)
  <2>1. f \in [1 .. i -> T]
    BY <1>1
  <2>2. f \in Injection(1 .. i, T)
    BY <1>3, <2>1 DEF Injection, IsInjective
  <2>3. f \in Surjection(1 .. i, T)
    BY <1>2, <2>1 DEF Surjection
  <2> QED
    BY <2>2, <2>3 DEF Bijection
<1>5. IsFiniteSet(1 .. i) /\ Cardinality(1 .. i) = i
  BY FS_Interval
<1> HIDE DEF f
<1>6. ExistsBijection(1 .. i, T)
  BY <1>4 DEF ExistsBijection
<1> QED
  BY <1>5, <1>6, FS_Bijection DEF T

(* Which place in leaves a leaf takes.                                      *)
LEMMA PlacesCounted ==
  ASSUME NEW nodes \in Seq(Node), NEW types \in Seq(Types), NEW at, PlacesLeaves(at, nodes, types),
         NEW i \in 1 .. Len(types)
  PROVE  /\ at[i] \in DOMAIN nodes /\ nodes[at[i]].binds = "leaf" /\ nodes[at[i]].type = types[i]
         /\ PlaceOf(nodes, at[i]) = i /\ PlaceFor(nodes, i) = at[i]
<1>1. PICK n \in Nat : n = Len(nodes) /\ DOMAIN nodes = 1 .. n
  OBVIOUS
<1>2. PICK m \in Nat : m = Len(types) /\ DOMAIN types = 1 .. m
  OBVIOUS
<1> DEFINE S == {k \in 1 .. n : nodes[k].binds = "leaf"}
<1>3. at \in [1 .. m -> 1 .. n] /\ \A j \in 1 .. m : nodes[at[j]].binds = "leaf" /\ nodes[at[j]].type = types[j]
  BY <1>1, <1>2 DEF PlacesLeaves
<1>4. /\ at \in [1 .. m -> S]
      /\ \A j, k \in 1 .. m : j < k => at[j] < at[k]
      /\ \A k \in S : \E j \in 1 .. m : at[j] = k
  BY <1>1, <1>2, <1>3 DEF PlacesLeaves
<1>5. S \in SUBSET (1 .. n)
  OBVIOUS
<1>6. ASSUME NEW j \in 1 .. m
      PROVE  PlaceOf(nodes, at[j]) = j
  <2>1. at[j] \in 1 .. n
    BY <1>3
  <2>2. {k \in 1 .. at[j] : nodes[k].binds = "leaf"} = Upto(S, at[j])
    BY <1>3, <2>1 DEF Upto
  <2>3. Cardinality(Upto(S, at[j])) = j
    <3> HIDE DEF S
    <3>1. Enumerates(at, m, S)
      BY <1>4 DEF Enumerates
    <3> QED
      BY <1>5, <3>1, CountOfEnumerated
  <2> HIDE DEF S
  <2> QED
    BY <2>2, <2>3 DEF PlaceOf
<1>7. \A k \in DOMAIN nodes : nodes[k].binds = "leaf" /\ PlaceOf(nodes, k) = i => k = at[i]
  <2> SUFFICES ASSUME NEW k \in DOMAIN nodes, nodes[k].binds = "leaf", PlaceOf(nodes, k) = i
               PROVE  k = at[i]
    OBVIOUS
  <2>1. PICK j \in 1 .. m : at[j] = k
    BY <1>1, <1>4
  <2> QED
    BY <1>6, <2>1
<1>8. at[i] \in DOMAIN nodes /\ nodes[at[i]].binds = "leaf" /\ PlaceOf(nodes, at[i]) = i
  BY <1>1, <1>2, <1>3, <1>6
<1>9. PlaceFor(nodes, i) = at[i]
  <2>1. \E k \in DOMAIN nodes : nodes[k].binds = "leaf" /\ PlaceOf(nodes, k) = i
    BY <1>8
  <2>2. PlaceFor(nodes, i) \in DOMAIN nodes /\ nodes[PlaceFor(nodes, i)].binds = "leaf"
        /\ PlaceOf(nodes, PlaceFor(nodes, i)) = i
    BY <2>1 DEF PlaceFor
  <2> QED
    BY <1>7, <2>2
<1> QED
  BY <1>2, <1>3, <1>8, <1>9
----------------------------------------------------------------------------
(* Streams are numbered without gaps, in the order they are allocated.      *)
Numbered == \E n \in Nat : DOMAIN streams = 0 .. n - 1

(* Streams are numbered from 0 up, without gaps.                          *)
LEMMA NumberedCount ==
  ASSUME Numbered
  PROVE  Count \in Nat /\ DOMAIN streams = 0 .. Count - 1
<1>1. PICK n \in Nat : DOMAIN streams = 0 .. n - 1
  BY DEF Numbered
<1>2. Cardinality(0 .. n - 1) = n
  <2>1. 0 \in Int /\ n - 1 \in Int
    OBVIOUS
  <2>2. Cardinality(0 .. n - 1) = IF 0 > n - 1 THEN 0 ELSE (n - 1) - 0 + 1
    BY <2>1, FS_Interval
  <2> QED
    BY <2>2
<1> QED
  BY <1>1, <1>2 DEF Count

Fresh(nodes, leaves) == {k \in DOMAIN nodes : Allocates(nodes, leaves, k)}
LastNew(t, nodes, leaves) == Count + OwnStreams(t) + Cardinality(Fresh(nodes, leaves)) - 1

(* The ids for new leaves follow the one of the variable and differ from  *)
(* each other.                                                            *)
LEMMA NewIds ==
  ASSUME Numbered, NEW t \in Types, NEW nodes \in Seq(Node), NEW leaves
  PROVE  /\ LastNew(t, nodes, leaves) \in Int /\ LastNew(t, nodes, leaves) >= Count + OwnStreams(t) - 1
         /\ OwnStreams(t) \in {0, 1}
         /\ \A k \in Fresh(nodes, leaves) :
              /\ NewId(t, nodes, leaves, k) \in Count + OwnStreams(t) .. LastNew(t, nodes, leaves)
              /\ \A j \in Fresh(nodes, leaves) :
                   NewId(t, nodes, leaves, j) = NewId(t, nodes, leaves, k) => j = k
<1>1. PICK n \in Nat : n = Len(nodes) /\ DOMAIN nodes = 1 .. n
  OBVIOUS
<1> DEFINE S == Fresh(nodes, leaves)
           below(k) == Cardinality({j \in 1 .. k - 1 : j \in S})
<1>2. S \in SUBSET (1 .. n)
  BY <1>1 DEF Fresh
<1>3. IsFiniteSet(S) /\ Cardinality(S) \in Nat
  <2>1. IsFiniteSet(1 .. n)
    BY FS_Interval
  <2> HIDE DEF S
  <2> QED
    BY <1>2, <2>1, FS_Subset, FS_CardinalityType
<1>4. OwnStreams(t) \in {0, 1} /\ Count \in Nat
  BY NumberedCount DEF OwnStreams
<1>5. LastNew(t, nodes, leaves) = Count + OwnStreams(t) + Cardinality(S) - 1
  BY DEF LastNew
<1>6. ASSUME NEW k \in S
      PROVE  NewId(t, nodes, leaves, k) = Count + OwnStreams(t) + below(k)
  <2>1. k \in 1 .. n
    BY <1>2
  <2>2. {j \in 1 .. k - 1 : Allocates(nodes, leaves, j)} = {j \in 1 .. k - 1 : j \in S}
    BY <1>1, <2>1 DEF Fresh
  <2> QED
    BY <2>2 DEF NewId
<1>7. ASSUME NEW k \in S
      PROVE  below(k) \in Nat /\ below(k) < Cardinality(S)
  <2>1. n + 1 \in 1 .. n + 1 /\ k < n + 1
    BY <1>2
  <2>2. {j \in 1 .. (n + 1) - 1 : j \in S} = S
    BY <1>2
  <2> HIDE DEF S
  <2> QED
    BY <1>2, <2>1, <2>2, CountGrows
<1>8. ASSUME NEW j \in S, NEW k \in S, j < k
      PROVE  below(j) < below(k)
  <2>1. k \in 1 .. n + 1
    BY <1>2
  <2> HIDE DEF S
  <2> QED
    BY <1>2, <1>8, <2>1, CountGrows
<1>9. ASSUME NEW j \in S, NEW k \in S, below(j) = below(k)
      PROVE  j = k
  <2>1. j \in Nat /\ k \in Nat
    BY <1>2
  <2> HIDE DEF S, below
  <2>2. below(j) \in Nat /\ below(k) \in Nat
    BY <1>7
  <2>3. ~ (j < k) /\ ~ (k < j)
    BY <1>8, <1>9, <2>2
  <2> QED
    BY <2>1, <2>3
<1>10. ASSUME NEW k \in S
       PROVE  NewId(t, nodes, leaves, k) \in Count + OwnStreams(t) .. LastNew(t, nodes, leaves)
  <2> HIDE DEF S, below
  <2> QED
    BY <1>3, <1>4, <1>5, <1>6, <1>7
<1>11. ASSUME NEW k \in S, NEW j \in S, NewId(t, nodes, leaves, j) = NewId(t, nodes, leaves, k)
       PROVE  j = k
  <2> HIDE DEF S, below
  <2>1. below(j) = below(k)
    BY <1>4, <1>6, <1>7, <1>11
  <2> QED
    BY <1>9, <2>1
<1>12. LastNew(t, nodes, leaves) \in Int /\ LastNew(t, nodes, leaves) >= Count + OwnStreams(t) - 1
  <2> HIDE DEF S, below
  <2> QED
    BY <1>3, <1>4, <1>5
<1> QED
  BY <1>4, <1>10, <1>11, <1>12

(* What a declaration allocates: the ids above those there are, each with *)
(* the kind and width of the type it is for.                              *)
LEMMA AllocatedAre ==
  ASSUME Numbered, NEW t \in Types, NEW nodes \in Seq(Node), NEW leaves
  PROVE  /\ DOMAIN Allocated(t, nodes, leaves) = Count .. LastNew(t, nodes, leaves)
         /\ SingleStream(t) => /\ Count \in DOMAIN Allocated(t, nodes, leaves)
                               /\ Allocated(t, nodes, leaves)[Count] = StreamOf(t)
         /\ \A k \in Fresh(nodes, leaves) :
              /\ NewId(t, nodes, leaves, k) \in DOMAIN Allocated(t, nodes, leaves)
              /\ NewId(t, nodes, leaves, k) >= Count /\ NewId(t, nodes, leaves, k) \in Nat
              /\ Allocated(t, nodes, leaves)[NewId(t, nodes, leaves, k)] = StreamOf(nodes[k].type)
<1> DEFINE new(k) == NewId(t, nodes, leaves, k)
           last == LastNew(t, nodes, leaves)
           F == Fresh(nodes, leaves)
<1>1. /\ Count \in Nat /\ last \in Int /\ last >= Count + OwnStreams(t) - 1 /\ OwnStreams(t) \in {0, 1}
      /\ \A k \in F : /\ new(k) \in Count + OwnStreams(t) .. last
                      /\ \A j \in F : new(j) = new(k) => j = k
  BY NumberedCount, NewIds
<1>2. Allocated(t, nodes, leaves) =
        [id \in Count .. last |->
          IF id = OwnStream(t) THEN StreamOf(t) ELSE StreamOf(nodes[CHOOSE k \in F : new(k) = id].type)]
  BY DEF Allocated, LastNew, Fresh
<1> HIDE DEF new, last, F
<1>3. SingleStream(t) => OwnStream(t) = Count /\ OwnStreams(t) = 1
  BY DEF OwnStream, OwnStreams
<1>4. ~ SingleStream(t) => OwnStream(t) \notin Nat
  BY BuilderAssumption DEF OwnStream, BuilderAssumption
<1>5. ASSUME NEW k \in F
      PROVE  /\ new(k) \in Count .. last /\ new(k) # OwnStream(t) /\ new(k) \in Nat /\ new(k) >= Count
             /\ (CHOOSE j \in F : new(j) = new(k)) = k
  <2>1. PICK id \in Count + OwnStreams(t) .. last : id = new(k)
    BY <1>1
  <2>2. id \in Count .. last /\ id \in Nat /\ id >= Count + OwnStreams(t)
    BY <1>1, <2>1
  <2>3. id # OwnStream(t)
    BY <1>1, <1>3, <1>4, <2>2
  <2>4. (CHOOSE j \in F : new(j) = new(k)) = k
    BY <1>1
  <2> QED
    BY <1>1, <2>1, <2>2, <2>3, <2>4
<1>6. ASSUME SingleStream(t)
      PROVE  Count \in Count .. last
  BY <1>1, <1>3, <1>6
<1>7. ASSUME NEW k \in F
      PROVE  Allocated(t, nodes, leaves)[new(k)] = StreamOf(nodes[k].type)
  BY <1>2, <1>5
<1>8. SingleStream(t) => Allocated(t, nodes, leaves)[Count] = StreamOf(t)
  BY <1>2, <1>3, <1>6
<1>9. DOMAIN Allocated(t, nodes, leaves) = Count .. last
  BY <1>2
<1> QED
  BY <1>5, <1>6, <1>7, <1>8, <1>9 DEF new, last, F

(* The leaves among the nodes of a type are its expansion (by WalksAgree, *)
(* from the top).                                                         *)
LEMMA NodesOfType ==
  ASSUME NEW t \in Types
  PROVE  NodesOf[t] \in Seq(Node) /\ LeavesAre(NodesOf[t], Expansion[t]) /\ Expansion[t] \in Seq(Types)
<1>1. 0 \in Offset /\ <<t, 0, FALSE>> \in Places
  <2>1. 0 \in 0 .. U32 - 1
    BY TypesAssumption DEF TypesAssumption
  <2>2. FALSE \in BOOLEAN
    OBVIOUS
  <2> QED
    BY <2>1, <2>2 DEF Offset, Places
<1>2. NodesOf[t] = NodesBelow[<<t, 0, FALSE>>]
  BY DEF NodesOf
<1> QED
  BY <1>1, <1>2, NodesAre, WalksAgree, ExpansionIs

(* A declaration numbers on where the last one stopped.                   *)
LEMMA NumberedByDeclare ==
  ASSUME Numbered, NEW t \in Types, NEW nodes \in Seq(Node), NEW leaves,
         streams' = Extended(streams, Allocated(t, nodes, leaves))
  PROVE  Numbered'
<1>1. Count \in Nat /\ DOMAIN streams = 0 .. Count - 1
  BY NumberedCount
<1>2. PICK last \in Int : last = LastNew(t, nodes, leaves) /\ last >= Count - 1
  BY <1>1, NewIds
<1>3. DOMAIN Allocated(t, nodes, leaves) = Count .. last
  BY <1>2, AllocatedAre
<1>4. DOMAIN streams' = (0 .. Count - 1) \cup (Count .. last)
  BY <1>1, <1>3 DEF Extended
<1>5. DOMAIN streams' = 0 .. (last + 1) - 1 /\ last + 1 \in Nat
  BY <1>1, <1>2, <1>4
<1> QED
  BY <1>5 DEF Numbered

(* The stream of a leaf is new, and of the type that the checker expects,   *)
(* or is one that the checker knows.                                        *)
LEMMA LeafKnown ==
  ASSUME Numbered, NEW t \in Types, NEW alias, NEW leaves \in Seq(Ids \cup {Invalid}),
         Expected(t, leaves), Acceptable(t, alias, leaves), NEW i \in DOMAIN Expansion[t],
         LeafId(t, NodesOf[t], leaves, i) \notin DOMAIN known
  PROVE  LET id == LeafId(t, NodesOf[t], leaves, i)
             made == Allocated(t, NodesOf[t], leaves)
         IN id \in DOMAIN made /\ id \notin DOMAIN streams /\ made[id] = StreamOf(Expansion[t][i])
<1>1. PICK nodes \in Seq(Node) : nodes = NodesOf[t] /\ LeavesAre(nodes, Expansion[t])
  BY NodesOfType
<1>2. PICK types \in Seq(Types) : types = Expansion[t]
  BY NodesOfType
<1>3. PICK at : PlacesLeaves(at, nodes, types)
  BY <1>1, <1>2 DEF LeavesAre
<1>4. i \in 1 .. Len(types)
  BY <1>2
<1>5. PICK k \in DOMAIN nodes : k = at[i] /\ nodes[k].binds = "leaf" /\ nodes[k].type = types[i]
                                /\ PlaceOf(nodes, k) = i /\ PlaceFor(nodes, i) = k
  BY <1>3, <1>4, PlacesCounted
<1>6. LeafId(t, nodes, leaves, i) = Bound(t, nodes, leaves, k)
  BY <1>5 DEF LeafId
<1>7. CASE Allocates(nodes, leaves, k)
  <2>1. k \in Fresh(nodes, leaves)
    BY <1>7 DEF Fresh
  <2>2. Bound(t, nodes, leaves, k) = NewId(t, nodes, leaves, k)
    BY <1>5, <1>7 DEF Bound, NoBinding
  <2>3. PICK id \in Nat : /\ id = NewId(t, nodes, leaves, k) /\ id >= Count
                          /\ id \in DOMAIN Allocated(t, nodes, leaves)
                          /\ Allocated(t, nodes, leaves)[id] = StreamOf(types[i])
    BY <1>5, <2>1, AllocatedAre
  <2>4. id \notin DOMAIN streams
    BY <2>3, NumberedCount
  <2> QED
    BY <1>1, <1>2, <1>6, <2>2, <2>3, <2>4
<1>8. CASE ~ Allocates(nodes, leaves, k)
  <2>1. leaves # <<>> /\ leaves[i] # Invalid
    BY <1>5, <1>8 DEF Allocates
  <2>2. Bound(t, nodes, leaves, k) = leaves[i]
    BY <1>5, <1>8 DEF Bound, NoBinding
  <2>3. i \in DOMAIN leaves
    BY <1>2, <1>4, <2>1 DEF Expected
  <2>4. Known(leaves[i])
    BY <2>1, <2>3 DEF Acceptable
  <2> QED
    BY <1>1, <1>6, <2>2, <2>4 DEF Known
<1> QED
  BY <1>7, <1>8

(* Each stream that the checker records and did not know is one that the  *)
(* declaration has just allocated, with the same kind and width.          *)
LEMMA RecordedAre ==
  ASSUME Numbered, NEW t \in Types, NEW alias, NEW leaves \in Seq(Ids \cup {Invalid}),
         Expected(t, leaves), Acceptable(t, alias, leaves),
         NEW id \in DOMAIN Recorded(t, NodesOf[t], alias, leaves), id \notin DOMAIN known
  PROVE  LET made == Allocated(t, NodesOf[t], leaves)
         IN /\ id \in DOMAIN made /\ id \notin DOMAIN streams
            /\ made[id] = Recorded(t, NodesOf[t], alias, leaves)[id]
<1>1. PICK nodes \in Seq(Node) : nodes = NodesOf[t]
  BY NodesOfType
<1> DEFINE own == IF alias = NoAlias /\ SingleStream(t) THEN {OwnStream(t)} ELSE {}
           leaf(i) == LeafId(t, nodes, leaves, i)
           given == {leaf(i) : i \in DOMAIN Expansion[t]}
           which == CHOOSE i \in DOMAIN Expansion[t] : leaf(i) = id
           made == Allocated(t, nodes, leaves)
<1>2. /\ id \in own \cup given
      /\ Recorded(t, nodes, alias, leaves)[id] = IF id \in own THEN StreamOf(t) ELSE StreamOf(Expansion[t][which])
  BY <1>1 DEF Recorded
<1>3. CASE id \in own
  <2>1. SingleStream(t) /\ id = Count
    BY <1>3 DEF OwnStream
  <2>2. Count \in DOMAIN made /\ made[Count] = StreamOf(t)
    BY <2>1, AllocatedAre
  <2>3. Count \notin DOMAIN streams
    BY NumberedCount
  <2> QED
    BY <1>1, <1>2, <1>3, <2>1, <2>2, <2>3
<1>4. CASE id \notin own
  <2>1. which \in DOMAIN Expansion[t] /\ leaf(which) = id
    BY <1>2, <1>4
  <2>2. PICK i \in DOMAIN Expansion[t] : i = which /\ leaf(i) = id
    BY <2>1
  <2>3. id \in DOMAIN made /\ id \notin DOMAIN streams /\ made[id] = StreamOf(Expansion[t][i])
    BY <1>1, <2>2, LeafKnown
  <2> QED
    BY <1>1, <1>2, <1>4, <2>2, <2>3
<1> QED
  BY <1>3, <1>4

(* What the checker records of a stream that is met for the first time is   *)
(* what the builder allocates it with.                                      *)
LEMMA KnownByDeclare ==
  ASSUME Numbered, KnownAgrees, NEW t \in Declared, NEW alias, NEW leaves \in Leaves[t],
         DeclareVar(t, alias, leaves)
  PROVE  KnownAgrees'
<1>1. /\ Acceptable(t, alias, leaves)
      /\ streams' = Extended(streams, Allocated(t, NodesOf[t], leaves))
      /\ known' = IF Expected(t, leaves) THEN Extended(known, Recorded(t, NodesOf[t], alias, leaves)) ELSE known
  BY DEF DeclareVar, SinkDeclares
<1>2. t \in Types /\ leaves \in Seq(Ids \cup {Invalid})
  BY BuilderAssumption DEF BuilderAssumption
<1>3. PICK made : made = Allocated(t, NodesOf[t], leaves)
  OBVIOUS
<1>4. streams' = [x \in DOMAIN streams \cup DOMAIN made |-> IF x \in DOMAIN streams THEN streams[x] ELSE made[x]]
  BY <1>1, <1>3 DEF Extended
<1>5. ASSUME NEW id \in DOMAIN known
      PROVE  id \in DOMAIN streams' /\ streams'[id] = known[id]
  BY <1>4 DEF KnownAgrees
<1>6. CASE ~ Expected(t, leaves)
  BY <1>1, <1>5, <1>6 DEF KnownAgrees
<1>7. CASE Expected(t, leaves)
  <2>1. PICK seen : seen = Recorded(t, NodesOf[t], alias, leaves)
    OBVIOUS
  <2>2. known' = [x \in DOMAIN known \cup DOMAIN seen |-> IF x \in DOMAIN known THEN known[x] ELSE seen[x]]
    BY <1>1, <1>7, <2>1 DEF Extended
  <2>3. ASSUME NEW id \in DOMAIN seen, id \notin DOMAIN known
        PROVE  id \in DOMAIN streams' /\ streams'[id] = seen[id]
    <3>1. id \in DOMAIN made /\ id \notin DOMAIN streams /\ made[id] = seen[id]
      BY <1>1, <1>2, <1>3, <1>7, <2>1, <2>3, RecordedAre
    <3> QED
      BY <1>4, <3>1
  <2>4. ASSUME NEW id \in DOMAIN known'
        PROVE  id \in DOMAIN streams' /\ known'[id] = streams'[id]
    <3>1. CASE id \in DOMAIN known
      BY <1>5, <2>2, <3>1
    <3>2. CASE id \notin DOMAIN known
      BY <2>2, <2>3, <3>2
    <3> QED
      BY <3>1, <3>2
  <2> QED
    BY <2>4 DEF KnownAgrees
<1> QED
  BY <1>6, <1>7

(* Every call keeps what the checker knows in step with the streams.      *)
LEMMA KnownByStep ==
  ASSUME Numbered, KnownAgrees, [Next]_vars
  PROVE  Numbered' /\ KnownAgrees'
<1>1. CASE \E t \in Declared, alias \in Ids \cup {NoAlias, Invalid} :
             \E leaves \in Leaves[t] : DeclareVar(t, alias, leaves)
  <2>1. PICK t \in Declared, alias \in Ids \cup {NoAlias, Invalid} :
               \E leaves \in Leaves[t] : DeclareVar(t, alias, leaves)
    BY <1>1
  <2>2. PICK leaves \in Leaves[t] : DeclareVar(t, alias, leaves)
    BY <2>1
  <2>3. KnownAgrees'
    BY <2>2, KnownByDeclare
  <2>4. t \in Types /\ NodesOf[t] \in Seq(Node)
    BY BuilderAssumption, NodesOfType DEF BuilderAssumption
  <2>5. streams' = Extended(streams, Allocated(t, NodesOf[t], leaves))
    BY <2>2 DEF DeclareVar, SinkDeclares
  <2> QED
    BY <2>3, <2>4, <2>5, NumberedByDeclare
<1>2. CASE UNCHANGED <<streams, known>>
  BY <1>2 DEF Numbered, KnownAgrees
<1>3. BeginScope \/ EndScope \/ HeaderDone \/ ValueCalls \/ UNCHANGED vars => UNCHANGED <<streams, known>>
  BY DEF BeginScope, EndScope, HeaderDone, ValueCalls, SetTime, ValueChange, Finish, TakeDatabase,
         vars, headerVars, checkerVars
<1> QED
  BY <1>1, <1>2, <1>3 DEF Next, HeaderCalls

(* At first there are no streams and nothing is known.                    *)
LEMMA KnownInit == Init => Numbered /\ KnownAgrees
<1> SUFFICES ASSUME Init PROVE Numbered /\ KnownAgrees
  OBVIOUS
<1>1. known = <<>> /\ streams = <<>>
  BY DEF Init
<1>2. DOMAIN known = {} /\ DOMAIN streams = {}
  BY <1>1
<1>3. 0 .. 0 - 1 = {}
  OBVIOUS
<1> QED
  BY <1>2, <1>3 DEF Numbered, KnownAgrees

(* Whatever is given in alias and leaves, the kind and the width under      *)
(* which ValidatingBuilder knows a stream are those BaseBuilder allocated   *)
(* it with: the checker, which only walks the types, counts the streams as  *)
(* the builder does, which walks the nodes, for any nesting of the types.   *)
THEOREM KnownCorrect == Spec => []KnownAgrees
<1>1. Numbered /\ KnownAgrees /\ [Next]_vars => Numbered' /\ KnownAgrees'
  BY KnownByStep
<1> QED
  BY KnownInit, <1>1, PTL DEF Spec

(* Both together: what ValidatingBuilder keeps beside the sink it wraps,    *)
(* kinds and widths of streams and the number of open scopes, is what the   *)
(* sink has, whatever a reader calls.                                       *)
THEOREM CheckerCorrect == Spec => []CheckerAgrees
<1>1. KnownAgrees /\ ScopesFollow => CheckerAgrees
  BY DEF CheckerAgrees
<1> QED
  BY KnownCorrect, ScopesCorrect, <1>1, PTL
----------------------------------------------------------------------------
(* Changes.  The clock of the builder is the time of the checker once it is *)
(* set; nothing is stored before, and nothing later than it.                *)
StoredChange == [id : Ids \cup {Invalid}, time : Int, value : Values]

Ordered ==
  /\ now \in Int /\ clock \in Int /\ timeSet \in BOOLEAN
  /\ timeSet => clock = now
  /\ stored \in Seq(StoredChange)
  /\ ~timeSet => stored = <<>>
  /\ \A k \in 1 .. Len(stored) : stored[k].time <= now
  /\ \A j, k \in 1 .. Len(stored) : j < k => stored[j].time <= stored[k].time

Holds(id, v) ==
  /\ id \in DOMAIN streams /\ v.kind = streams[id].kind
  /\ v.kind = "LOGIC" => v.width = streams[id].width

Held == \A k \in 1 .. Len(stored) : Holds(stored[k].id, stored[k].value)

(* A stored change has a time.                                            *)
LEMMA StoredElements ==
  ASSUME NEW list \in Seq(StoredChange), NEW k \in 1 .. Len(list)
  PROVE  list[k].time \in Int
<1>1. \A S : \A l \in Seq(S) : \A i \in 1 .. Len(l) : l[i] \in S
  OBVIOUS
<1>2. list[k] \in StoredChange
  BY <1>1
<1>3. QED
  BY <1>2 DEF StoredChange

(* setTime() does not go back, so the clocks stay together.               *)
LEMMA OrderedBySetTime ==
  ASSUME Ordered, NEW t \in Times, SetTime(t)
  PROVE  Ordered'
<1>1. /\ now' = t /\ timeSet' = TRUE /\ clock' = t /\ stored' = stored
      /\ timeSet => t >= now
  BY DEF SetTime
<1>2. t \in Int
  BY BuilderAssumption DEF BuilderAssumption
<1>3. ASSUME NEW k \in 1 .. Len(stored)
      PROVE  stored[k].time <= t
  <2>1. timeSet
    BY DEF Ordered
  <2>2. stored[k].time \in Int /\ stored[k].time <= now /\ now \in Int
    BY StoredElements DEF Ordered
  <2>3. QED
    BY <1>1, <1>2, <2>1, <2>2
<1>4. QED
  BY <1>1, <1>2, <1>3 DEF Ordered

(* A change is stored at the time of the clock, no earlier than the last. *)
LEMMA OrderedByValueChange ==
  ASSUME Ordered, NEW id \in Ids \cup {Invalid}, NEW v \in Values, ValueChange(id, v)
  PROVE  Ordered'
<1> DEFINE change == [id |-> id, time |-> clock, value |-> v]
<1>1. /\ timeSet /\ stored' = Append(stored, change)
      /\ now' = now /\ clock' = clock /\ timeSet' = timeSet
  BY DEF ValueChange, checkerVars
<1>2. change \in StoredChange /\ change.time = now /\ now \in Int
  BY <1>1 DEF Ordered, StoredChange
<1> HIDE DEF change
<1>3. stored \in Seq(StoredChange)
  BY DEF Ordered
<1>4. /\ stored' \in Seq(StoredChange) /\ Len(stored') = Len(stored) + 1
      /\ stored'[Len(stored) + 1] = change
      /\ \A k \in 1 .. Len(stored) : stored'[k] = stored[k]
  BY <1>1, <1>2, <1>3
<1>5. \A k \in 1 .. Len(stored') : stored'[k].time <= now
  <2> TAKE k \in 1 .. Len(stored')
  <2>1. CASE k \in 1 .. Len(stored)
    BY <1>4, <2>1 DEF Ordered
  <2>2. CASE k = Len(stored) + 1
    BY <1>2, <1>4, <2>2
  <2>3. QED
    BY <1>3, <1>4, <2>1, <2>2
<1>6. ASSUME NEW j \in 1 .. Len(stored'), NEW k \in 1 .. Len(stored'), j < k
      PROVE  stored'[j].time <= stored'[k].time
  <2>1. j \in 1 .. Len(stored)
    BY <1>3, <1>4, <1>6
  <2>2. CASE k \in 1 .. Len(stored)
    BY <1>4, <1>6, <2>1, <2>2 DEF Ordered
  <2>3. CASE k = Len(stored) + 1
    BY <1>2, <1>4, <1>5, <2>3
  <2>4. QED
    BY <1>3, <1>4, <2>2, <2>3
<1>7. QED
  BY <1>1, <1>4, <1>5, <1>6 DEF Ordered

(* No other call stores a change or moves a clock.                        *)
LEMMA OrderedByOthers ==
  ASSUME Ordered, [Next]_vars,
         \A t \in Times : ~SetTime(t),
         \A id \in Ids \cup {Invalid}, v \in Values : ~ValueChange(id, v)
  PROVE  Ordered'
<1>1. UNCHANGED <<now, timeSet, clock, stored>>
  <2>1. CASE BeginScope \/ EndScope \/ HeaderDone
    BY <2>1 DEF BeginScope, EndScope, HeaderDone, valueVars
  <2>2. CASE \E t \in Declared, alias \in Ids \cup {NoAlias, Invalid} :
               \E leaves \in Leaves[t] : DeclareVar(t, alias, leaves)
    BY <2>2 DEF DeclareVar, valueVars
  <2>3. CASE Finish \/ TakeDatabase
    BY <2>3 DEF Finish, TakeDatabase, valueVars
  <2>4. CASE UNCHANGED vars
    BY <2>4 DEF vars, checkerVars, valueVars
  <2>5. QED
    BY <2>1, <2>2, <2>3, <2>4 DEF Next, HeaderCalls, ValueCalls
<1>2. QED
  BY <1>1 DEF Ordered

(* Streams, once allocated, keep their kind and width. *)
LEMMA StreamsStay ==
  ASSUME [Next]_vars, NEW id, id \in DOMAIN streams
  PROVE  id \in DOMAIN streams' /\ streams'[id] = streams[id]
<1>1. CASE \E t \in Declared, alias \in Ids \cup {NoAlias, Invalid} :
             \E leaves \in Leaves[t] : DeclareVar(t, alias, leaves)
  <2>1. PICK t \in Declared, alias \in Ids \cup {NoAlias, Invalid} :
               \E leaves \in Leaves[t] : DeclareVar(t, alias, leaves)
    BY <1>1
  <2>2. PICK leaves \in Leaves[t] : DeclareVar(t, alias, leaves)
    BY <2>1
  <2>3. streams' = Extended(streams, Allocated(t, NodesOf[t], leaves))
    BY <2>2 DEF DeclareVar, SinkDeclares
  <2> DEFINE made == Allocated(t, NodesOf[t], leaves)
  <2> HIDE DEF made
  <2>4. streams' = [x \in DOMAIN streams \cup DOMAIN made |-> IF x \in DOMAIN streams THEN streams[x] ELSE made[x]]
    BY <2>3 DEF Extended, made
  <2>5. QED
    BY <2>4
<1>2. CASE UNCHANGED streams
  BY <1>2
<1>3. BeginScope \/ EndScope \/ HeaderDone \/ ValueCalls \/ UNCHANGED vars => UNCHANGED streams
  BY DEF BeginScope, EndScope, HeaderDone, ValueCalls, SetTime, ValueChange, Finish, TakeDatabase,
         vars, headerVars
<1>4. QED
  BY <1>1, <1>2, <1>3 DEF Next, HeaderCalls

(* A stored change goes to a known stream, which keeps its kind and       *)
(* width.                                                                 *)
LEMMA HeldByStep ==
  ASSUME Ordered, Held, KnownAgrees, [Next]_vars
  PROVE  Held'
<1>1. ASSUME NEW id, NEW v, Holds(id, v)
      PROVE  Holds(id, v)'
  BY <1>1, StreamsStay DEF Holds
<1>2. CASE \E id \in Ids \cup {Invalid}, v \in Values : ValueChange(id, v)
  <2>1. PICK id \in Ids \cup {Invalid}, v \in Values : ValueChange(id, v)
    BY <1>2
  <2> DEFINE change == [id |-> id, time |-> clock, value |-> v]
  <2>2. stored' = Append(stored, change) /\ Known(id) /\ Fits(id, v)
    BY <2>1 DEF ValueChange
  <2>3. Holds(change.id, change.value)
    BY <2>2 DEF Known, Fits, KnownAgrees, Holds
  <2> HIDE DEF change
  <2>4. change \in StoredChange
    BY DEF change, StoredChange, Ordered
  <2>5. stored \in Seq(StoredChange)
    BY DEF Ordered
  <2>6. ASSUME NEW k \in 1 .. Len(stored')
        PROVE  Holds(stored'[k].id, stored'[k].value)
    <3>1. CASE k \in 1 .. Len(stored)
      BY <2>2, <2>4, <2>5, <3>1 DEF Held
    <3>2. CASE k = Len(stored) + 1
      BY <2>2, <2>3, <2>4, <2>5, <3>2
    <3>3. QED
      BY <2>2, <2>4, <2>5, <3>1, <3>2
  <2>7. QED
    BY <1>1, <2>6 DEF Held, Holds
<1>3. CASE stored' = stored
  BY <1>1, <1>3 DEF Held, Holds
<1>4. stored' = stored \/ \E id \in Ids \cup {Invalid}, v \in Values : ValueChange(id, v)
  BY DEF Next, HeaderCalls, ValueCalls, BeginScope, EndScope, DeclareVar, HeaderDone, SetTime,
         Finish, TakeDatabase, vars, valueVars
<1>5. QED
  BY <1>2, <1>3, <1>4

(* At first nothing is stored.                                            *)
LEMMA OrderedInit == Init => Ordered /\ Held
<1> SUFFICES ASSUME Init PROVE Ordered /\ Held
  OBVIOUS
<1>1. stored = <<>> /\ Len(stored) = 0 /\ stored \in Seq(StoredChange)
  BY DEF Init
<1>2. now \in Int /\ clock \in Int /\ timeSet = FALSE
  BY DEF Init
<1>3. 1 .. Len(stored) = {}
  BY <1>1
<1>4. Ordered
  BY <1>1, <1>2, <1>3 DEF Ordered
<1>5. Held
  BY <1>3 DEF Held
<1>6. QED
  BY <1>4, <1>5

(* Every change that reaches the storage fits its stream, and changes come  *)
(* in the order of time: as the checker knows the streams as they are,      *)
(* nothing is left to go wrong between setTime(), valueChange() and the     *)
(* storage.                                                                 *)
THEOREM ChangesCorrect == Spec => []ChangesFit
<1>1. Init => Ordered /\ Held
  BY OrderedInit
<1>2. Ordered /\ [Next]_vars => Ordered'
  BY OrderedBySetTime, OrderedByValueChange, OrderedByOthers
<1>3. Ordered /\ Held /\ KnownAgrees /\ [Next]_vars => Held'
  BY HeldByStep
<1>4. Ordered /\ Held => ChangesFit
  <2> SUFFICES ASSUME Ordered, Held PROVE ChangesFit
    OBVIOUS
  <2>1. DOMAIN stored = 1 .. Len(stored)
    BY DEF Ordered
  <2>2. QED
    BY <2>1 DEF Ordered, Held, Holds, ChangesFit
<1>5. QED
  BY <1>1, <1>2, <1>3, <1>4, KnownCorrect, PTL DEF Spec
----------------------------------------------------------------------------
(* The third walk: how many streams the expansion of a type allocates.      *)
Counts(f, c) == IF SingleStream(c) THEN 1 ELSE f[c]
CountIn(f, t) ==
  LET streamsOf(c) == IF SingleStream(c) THEN 1 ELSE f[c]
      count(d) ==
        CASE d.kind \in {"STRUCT", "UNION"} ->
               SumFunction([k \in DOMAIN d.members |-> streamsOf(d.members[k].type)])
          [] d.kind = "ARRAY" -> ElementCount(d) * streamsOf(d.element)
          [] OTHER -> 0
  IN IF SingleStream(t) THEN 0 ELSE count(Descriptor[t])

(* One level of expansionStreamCount(), case by case.                     *)
LEMMA CountsAs ==
  ASSUME NEW t \in Types, NEW f, ~ SingleStream(t)
  PROVE  /\ Descriptor[t].kind \in {"STRUCT", "UNION"} =>
              CountIn(f, t) =
                SumFunction([k \in DOMAIN Descriptor[t].members |-> Counts(f, Descriptor[t].members[k].type)])
         /\ Descriptor[t].kind = "ARRAY" =>
              CountIn(f, t) = ElementCount(Descriptor[t]) * Counts(f, Descriptor[t].element)
         /\ Descriptor[t].kind \notin Composites => CountIn(f, t) = 0
<1>1. PICK d : d = Descriptor[t]
  OBVIOUS
<1>2. CASE d.kind \in {"STRUCT", "UNION"}
  BY <1>1, <1>2 DEF CountIn, Counts, Composites
<1>3. CASE d.kind = "ARRAY"
  BY <1>1, <1>3 DEF CountIn, Counts, Composites
<1>4. CASE d.kind \notin Composites
  BY <1>1, <1>4 DEF CountIn, Counts, Composites
<1> QED
  BY <1>1, <1>2, <1>3, <1>4 DEF Composites

(* One level of expansionStreamCount() asks for the counts of parts only. *)
LEMMA CountOfParts ==
  ASSUME NEW t \in Types, NEW f, NEW g, \A p \in Parts(t) : f[p] = g[p]
  PROVE  CountIn(f, t) = CountIn(g, t)
<1>1. CASE SingleStream(t)
  BY <1>1 DEF CountIn
<1>2. CASE ~ SingleStream(t) /\ Descriptor[t].kind \in {"STRUCT", "UNION"}
  <2>1. PICK d : d = Descriptor[t]
    OBVIOUS
  <2>2. ASSUME NEW k \in DOMAIN d.members
        PROVE  Counts(f, d.members[k].type) = Counts(g, d.members[k].type)
    <3>1. d.members[k].type \in Parts(t)
      BY <1>2, <2>1, MembersOf
    <3> QED
      BY <3>1 DEF Counts
  <2>3. [k \in DOMAIN d.members |-> Counts(f, d.members[k].type)] =
          [k \in DOMAIN d.members |-> Counts(g, d.members[k].type)]
    BY <2>2
  <2> QED
    BY <1>2, <2>1, <2>3, CountsAs
<1>3. CASE ~ SingleStream(t) /\ Descriptor[t].kind = "ARRAY"
  <2>1. PICK e : e = Descriptor[t].element /\ e \in Parts(t)
    BY <1>3, ElementOf
  <2>2. Counts(f, e) = Counts(g, e)
    BY <2>1 DEF Counts
  <2> QED
    BY <1>3, <2>1, <2>2, CountsAs
<1>4. CASE ~ SingleStream(t) /\ Descriptor[t].kind \notin Composites
  BY <1>4, CountsAs
<1> QED
  BY <1>1, <1>2, <1>3, <1>4 DEF Composites

(* How the lists that the checker glues are laid out.                       *)
ListFor(t, k) == ItsOwn(Children(t)[k].type) \o Expansion[Children(t)[k].type]

(* What one part adds to the expansion, and how long that is.             *)
LEMMA ListIs ==
  ASSUME NEW c \in Types
  PROVE  /\ ItsOwn(c) \o Expansion[c] \in Seq(Types)
         /\ Len(ItsOwn(c) \o Expansion[c]) = IF SingleStream(c) THEN 1 ELSE Len(Expansion[c])
<1>1. ItsOwn(c) \in Seq(Types) /\ Expansion[c] \in Seq(Types)
  BY EmptySeq, ExpansionIs DEF ItsOwn
<1>2. Len(ItsOwn(c) \o Expansion[c]) = Len(ItsOwn(c)) + Len(Expansion[c]) /\ Len(Expansion[c]) \in Nat
      /\ ItsOwn(c) \o Expansion[c] \in Seq(Types)
  BY <1>1, ConcatProperties, LenProperties
<1>3. CASE SingleStream(c)
  <2>1. ItsOwn(c) = <<c>> /\ Expansion[c] = <<>>
    BY <1>3, ExpansionIs, ExpandsAs DEF ItsOwn
  <2>2. Len(<<c>>) = 1 /\ Len(<<>>) = 0
    OBVIOUS
  <2>3. Len(ItsOwn(c)) = 1 /\ Len(Expansion[c]) = 0
    BY <2>1, <2>2
  <2> QED
    BY <1>2, <1>3, <2>3
<1>4. CASE ~ SingleStream(c)
  <2>1. ItsOwn(c) = <<>>
    BY <1>4 DEF ItsOwn
  <2>2. Len(ItsOwn(c)) = 0
    BY <2>1
  <2> QED
    BY <1>2, <1>4, <2>2
<1> QED
  BY <1>3, <1>4

(* The expansion is as long as what the parts add, summed up.             *)
LEMMA LengthOfExpansion ==
  ASSUME NEW t \in Types, ~ SingleStream(t)
  PROVE  \E n \in Nat : /\ DOMAIN Children(t) = 1 .. n
                        /\ Descriptor[t].kind \notin Composites => n = 0
                        /\ \A k \in 1 .. n : Children(t)[k].type \in Parts(t) /\ Children(t)[k].type \in Types
                        /\ Len(Expansion[t]) = SumFunction([k \in 1 .. n |-> Len(ListFor(t, k))])
<1>1. PICK n \in Nat : /\ Children(t) \in [1 .. n -> [type : Parts(t), offset : Nat]]
                       /\ Descriptor[t].kind \notin Composites => n = 0
  BY ChildrenOf
<1>2. ASSUME NEW k \in 1 .. n
      PROVE  Children(t)[k].type \in Parts(t) /\ Children(t)[k].type \in Types
  <2>1. Children(t)[k].type \in Parts(t)
    BY <1>1
  <2> QED
    BY <2>1, TypesAssumption DEF TypesAssumption
<1> DEFINE lists == [k \in DOMAIN Children(t) |-> ListFor(t, k)]
<1>3. DOMAIN Children(t) = 1 .. n
  BY <1>1
<1>4. lists \in [1 .. n -> Seq(Types)] /\ \A k \in 1 .. n : lists[k] = ListFor(t, k)
  <2>1. ASSUME NEW k \in 1 .. n
        PROVE  ListFor(t, k) \in Seq(Types)
    BY <1>2, ListIs DEF ListFor
  <2> QED
    BY <1>3, <2>1
<1>5. Expansion[t] = FlattenSeq(lists)
  BY ExpansionIs, ExpandsAs DEF ListFor
<1> HIDE DEF lists
<1>6. Len(FlattenSeq(lists)) = SumFunction([k \in 1 .. n |-> Len(lists[k])])
  BY <1>4, LengthOfFlatten
<1>7. [k \in 1 .. n |-> Len(lists[k])] = [k \in 1 .. n |-> Len(ListFor(t, k))]
  BY <1>4
<1> QED
  BY <1>1, <1>2, <1>3, <1>5, <1>6, <1>7

(* The length of the expansion satisfies the equations of the count.        *)
LEMMA LengthCounts ==
  ASSUME NEW t \in Types, NEW f, \A p \in Parts(t) : f[p] = Len(Expansion[p])
  PROVE  CountIn(f, t) = Len(Expansion[t])
<1>1. CASE SingleStream(t)
  <2>1. Expansion[t] = <<>>
    BY <1>1, ExpansionIs, ExpandsAs
  <2> QED
    BY <1>1, <2>1 DEF CountIn
<1>2. CASE ~ SingleStream(t)
  <2>1. PICK n \in Nat : /\ DOMAIN Children(t) = 1 .. n
                         /\ Descriptor[t].kind \notin Composites => n = 0
                         /\ \A k \in 1 .. n : Children(t)[k].type \in Parts(t) /\ Children(t)[k].type \in Types
                         /\ Len(Expansion[t]) = SumFunction([k \in 1 .. n |-> Len(ListFor(t, k))])
    BY <1>2, LengthOfExpansion
  <2>2. ASSUME NEW k \in 1 .. n
        PROVE  Len(ListFor(t, k)) = Counts(f, Children(t)[k].type) /\ Len(ListFor(t, k)) \in Nat
    <3>1. PICK c \in Types : c = Children(t)[k].type /\ c \in Parts(t)
      BY <2>1
    <3>2. Len(ListFor(t, k)) = IF SingleStream(c) THEN 1 ELSE Len(Expansion[c])
      BY <3>1, ListIs DEF ListFor
    <3>3. Len(Expansion[c]) \in Nat
      BY ExpansionIs, LenProperties
    <3> QED
      BY <3>1, <3>2, <3>3 DEF Counts
  <2>3. [k \in 1 .. n |-> Len(ListFor(t, k))] = [k \in 1 .. n |-> Counts(f, Children(t)[k].type)]
    BY <2>2
  <2>4. PICK d : d = Descriptor[t]
    OBVIOUS
  <2>5. CASE d.kind \in {"STRUCT", "UNION"}
    <3>1. Children(t) = [k \in DOMAIN d.members |-> [type |-> d.members[k].type, offset |-> d.members[k].offset]]
      BY <2>4, <2>5 DEF Children, PartsOf
    <3>2. DOMAIN d.members = 1 .. n
      BY <2>1, <3>1
    <3>3. \A k \in 1 .. n : Children(t)[k].type = d.members[k].type
      BY <3>1, <3>2
    <3>4. [k \in 1 .. n |-> Counts(f, Children(t)[k].type)] = [k \in DOMAIN d.members |-> Counts(f, d.members[k].type)]
      BY <3>2, <3>3
    <3>5. CountIn(f, t) = SumFunction([k \in DOMAIN d.members |-> Counts(f, d.members[k].type)])
      BY <1>2, <2>4, <2>5, CountsAs
    <3> QED
      BY <2>1, <2>3, <3>4, <3>5
  <2>6. CASE d.kind = "ARRAY"
    <3>1. PICK m \in Nat \ {0} : m = ElementCount(d)
      BY <2>4, <2>6, ElementsOf
    <3>2. Children(t) = [k \in 1 .. m |->
            [type |-> d.element, offset |-> FromTheRight(d, k - 1) * BitWidth[d.element]]]
      BY <2>4, <2>6, <3>1 DEF Children, PartsOf
    <3>3. 1 .. m = 1 .. n
      BY <2>1, <3>2
    <3>4. m = n
      <4>1. m \in 1 .. n
        BY <3>3
      <4>2. n \in 1 .. m
        BY <3>3, <4>1
      <4> QED
        BY <4>1, <4>2
    <3>5. \A k \in 1 .. n : Children(t)[k].type = d.element
      BY <3>2, <3>3
    <3>6. CountIn(f, t) = n * Counts(f, d.element)
      BY <1>2, <2>4, <2>6, <3>1, <3>4, CountsAs
    <3>7. PICK s : s = [k \in 1 .. n |-> Len(ListFor(t, k))]
      OBVIOUS
    <3>8. PICK c : c = Counts(f, d.element)
      OBVIOUS
    <3>9. s \in [1 .. n -> Nat] /\ \A k \in 1 .. n : s[k] = c
      BY <2>2, <3>5, <3>7, <3>8
    <3>10. c \in Nat
      BY <3>1, <3>4, <3>9
    <3>11. SumFunction(s) = n * c
      BY <3>9, <3>10, SumOfEqual
    <3> QED
      BY <2>1, <3>6, <3>7, <3>8, <3>11
  <2>7. CASE d.kind \notin Composites
    <3>1. n = 0 /\ CountIn(f, t) = 0
      BY <1>2, <2>1, <2>4, <2>7, CountsAs
    <3>2. PICK s : s = [k \in 1 .. n |-> Len(ListFor(t, k))]
      OBVIOUS
    <3>3. s \in [1 .. n -> Nat] /\ IsFiniteSet(1 .. n) /\ \A x \in 1 .. n : s[x] = 0
      BY <2>2, <3>1, <3>2, FS_EmptySet
    <3>4. SumFunction(s) = 0
      BY <3>3, SumOfNothing
    <3> QED
      BY <2>1, <3>1, <3>2, <3>4
  <2> QED
    BY <2>5, <2>6, <2>7 DEF Composites
<1> QED
  BY <1>1, <1>2

(* The sink and the checker expect as many leaves: expansionStreamCount()   *)
(* is the length of what collectExpansion() collects, for every type.       *)
THEOREM CountsAgree == \A t \in Types : ExpansionStreamCount[t] = Len(Expansion[t])
<1> DEFINE Is(f) == f = [t \in Types |-> CountIn(f, t)]
           lengths == [t \in Types |-> Len(Expansion[t])]
<1>1. Is(lengths)
  <2>1. ASSUME NEW t \in Types
        PROVE  CountIn(lengths, t) = Len(Expansion[t])
    <3>1. \A p \in Parts(t) : lengths[p] = Len(Expansion[p])
      BY TypesAssumption DEF TypesAssumption
    <3> HIDE DEF lengths
    <3> QED
      BY <3>1, LengthCounts
  <2> QED
    BY <2>1
<1>2. ExpansionStreamCount = CHOOSE g : Is(g)
  BY DEF ExpansionStreamCount, CountIn
<1>3. Is(ExpansionStreamCount)
  <2> HIDE DEF Is, lengths
  <2> QED
    BY <1>1, <1>2
<1>4. ASSUME NEW t \in Types
      PROVE  ExpansionStreamCount[t] = CountIn(ExpansionStreamCount, t)
  BY <1>3
<1> DEFINE U == {t \in Types : ExpansionStreamCount[t] # Len(Expansion[t])}
<1>5. U = {}
  <2>1. SUFFICES ASSUME U # {} PROVE FALSE
    OBVIOUS
  <2>2. PICK t \in U : PartsBelow[t] \cap U = {}
    <3>1. U \in SUBSET Types
      OBVIOUS
    <3> HIDE DEF U
    <3> QED
      BY <2>1, <3>1, TypesGrounded DEF Grounded
  <2>3. t \in Types /\ \A p \in Parts(t) : ExpansionStreamCount[p] = Len(Expansion[p])
    BY <2>2, TypesGrounded DEF PartsBelow
  <2>4. CountIn(ExpansionStreamCount, t) = Len(Expansion[t])
    BY <2>3, LengthCounts
  <2> QED
    BY <1>4, <2>2, <2>3, <2>4
<1> QED
  BY <1>5
----------------------------------------------------------------------------
(* What a storage hands out.  Everything has its type: a stream gets the    *)
(* kind and the width of a type of values, and every place in a variable a  *)
(* stream or none.                                                          *)
LEMMA StreamOfType ==
  ASSUME NEW t \in Types
  PROVE  StreamOf(t) \in Stream
<1>1. BitWidth[t] \in 0 .. U32 - 1
  BY WidthsAre
<1>2. 0 \in 0 .. U32 - 1
  BY TypesAssumption DEF TypesAssumption
<1>3. PICK kind : kind = Descriptor[t].kind
  OBVIOUS
<1>4. CASE kind \in {"REAL", "STRING"}
  BY <1>2, <1>3, <1>4 DEF StreamOf, Stream
<1>5. CASE kind \notin {"REAL", "STRING"}
  BY <1>1, <1>3, <1>5 DEF StreamOf, Stream
<1> QED
  BY <1>4, <1>5

(* Every number that is allocated belongs to the variable or to a node.     *)
LEMMA NewIdsAll ==
  ASSUME Numbered, NEW t \in Types, NEW nodes \in Seq(Node), NEW leaves,
         NEW id \in Count + OwnStreams(t) .. LastNew(t, nodes, leaves)
  PROVE  \E k \in Fresh(nodes, leaves) : NewId(t, nodes, leaves, k) = id
<1>1. PICK F : F = Fresh(nodes, leaves) /\ IsFiniteSet(F)
  <2>1. PICK n \in Nat : DOMAIN nodes = 1 .. n
    BY LenProperties
  <2>2. IsFiniteSet(1 .. n) /\ Fresh(nodes, leaves) \in SUBSET (1 .. n)
    BY <2>1, FS_Interval DEF Fresh
  <2> QED
    BY <2>2, FS_Subset
<1>2. PICK c \in Nat, own \in {0, 1}, size \in Nat :
        c = Count /\ own = OwnStreams(t) /\ size = Cardinality(F)
  BY <1>1, NumberedCount, FS_CardinalityType DEF OwnStreams
<1>3. PICK last \in Int : last = LastNew(t, nodes, leaves) /\ last = c + own + size - 1
  BY <1>1, <1>2 DEF LastNew
<1> DEFINE new == [k \in F |-> NewId(t, nodes, leaves, k)]
           N == (c + own) .. last
<1>4. new \in [F -> N] /\ \A j, k \in F : new[j] = new[k] => j = k
  BY <1>1, <1>2, <1>3, NewIds
<1>5. IsFiniteSet(N) /\ Cardinality(N) = size
  <2>1. c + own \in Int /\ c + own - 1 <= last
    BY <1>2, <1>3
  <2>2. IsFiniteSet(N) /\ Cardinality(N) = IF c + own > last THEN 0 ELSE last - (c + own) + 1
    BY <2>1, FS_Interval
  <2> HIDE DEF N
  <2> QED
    BY <1>2, <1>3, <2>2
<1>6. \A x \in N : \E k \in F : new[k] = x
  <2> HIDE DEF new, N
  <2>1. new \in Injection(F, N)
    BY <1>4 DEF Injection, IsInjective
  <2>2. Cardinality(F) = Cardinality(N)
    BY <1>2, <1>5
  <2>3. new \in Surjection(F, N)
    BY <1>5, <2>1, <2>2, FS_Injection
  <2> QED
    BY <2>3 DEF Surjection
<1>7. id \in N
  BY <1>2, <1>3
<1> QED
  BY <1>1, <1>6, <1>7

(* What is allocated is a stream: a kind and a width.                     *)
LEMMA AllocatedType ==
  ASSUME Numbered, NEW t \in Types, NEW nodes \in Seq(Node), NEW leaves,
         NEW id \in DOMAIN Allocated(t, nodes, leaves)
  PROVE  Allocated(t, nodes, leaves)[id] \in Stream
<1>1. PICK c \in Nat, own \in {0, 1}, last \in Int :
        c = Count /\ own = OwnStreams(t) /\ last = LastNew(t, nodes, leaves)
  BY NumberedCount, NewIds
<1>2. id \in c .. last
  BY <1>1, AllocatedAre
<1>3. CASE id \in c + own .. last
  <2>1. PICK k \in Fresh(nodes, leaves) : id = NewId(t, nodes, leaves, k)
    BY <1>1, <1>3, NewIdsAll
  <2>2. Allocated(t, nodes, leaves)[id] = StreamOf(nodes[k].type)
    BY <2>1, AllocatedAre
  <2>3. nodes[k] \in Node
    BY ElementOfSeq DEF Fresh
  <2>4. nodes[k].type \in Types
    BY <2>3 DEF Node
  <2> QED
    BY <2>2, <2>4, StreamOfType
<1>4. CASE id \notin c + own .. last
  <2>1. own = 1 /\ id = c
    BY <1>1, <1>2, <1>4
  <2>2. SingleStream(t) /\ id = Count
    BY <1>1, <2>1 DEF OwnStreams
  <2> QED
    BY <2>2, AllocatedAre, StreamOfType
<1> QED
  BY <1>3, <1>4

(* Leaves are as many as the places they are asked for.                     *)
LEMMA BoundType ==
  ASSUME Numbered, NEW t \in Types, NEW leaves \in Seq(Ids \cup {Invalid}), MayBind(t, leaves),
         NEW k \in DOMAIN NodesOf[t]
  PROVE  Bound(t, NodesOf[t], leaves, k) \in Nat \cup {Invalid}
<1>1. PICK nodes \in Seq(Node) : nodes = NodesOf[t] /\ LeavesAre(nodes, Expansion[t])
  BY NodesOfType
<1>2. PICK types \in Seq(Types) : types = Expansion[t]
  BY NodesOfType
<1>3. PICK at : PlacesLeaves(at, nodes, types)
  BY <1>1, <1>2 DEF LeavesAre
<1>4. k \in DOMAIN nodes /\ k \in 1 .. Len(nodes) /\ nodes[k] \in Node
  BY <1>1, ElementOfSeq
<1>5. CASE nodes[k].binds = NoBinding
  <2>1. ~ Allocates(nodes, leaves, k)
    BY <1>5 DEF Allocates, NoBinding
  <2> QED
    BY <1>1, <1>5, <2>1 DEF Bound
<1>6. CASE Allocates(nodes, leaves, k)
  <2>1. nodes[k].binds # NoBinding
    BY <1>6 DEF Allocates, NoBinding
  <2>2. k \in Fresh(nodes, leaves)
    BY <1>4, <1>6 DEF Fresh
  <2>3. NewId(t, nodes, leaves, k) \in Nat
    BY <2>2, AllocatedAre
  <2> QED
    BY <1>1, <1>6, <2>1, <2>3 DEF Bound
<1>7. CASE nodes[k].binds # NoBinding /\ ~ Allocates(nodes, leaves, k)
  <2>1. nodes[k].binds \in {NoBinding, "leaf", "hidden"}
    BY <1>4 DEF Node
  <2>2. nodes[k].binds = "leaf" /\ leaves # <<>>
    BY <1>7, <2>1 DEF Allocates
  <2>3. PICK i \in 1 .. Len(types) : at[i] = k
    BY <1>3, <1>4, <2>2 DEF PlacesLeaves
  <2>4. PlaceOf(nodes, k) = i
    BY <1>3, <2>3, PlacesCounted
  <2>5. Len(leaves) = Len(types)
    BY <1>2, <2>2, CountsAgree DEF MayBind
  <2>6. leaves[i] \in Ids \cup {Invalid}
    BY <2>3, <2>5, ElementOfSeq
  <2>7. Bound(t, nodes, leaves, k) = leaves[i]
    BY <1>7, <2>4 DEF Bound
  <2> QED
    BY <1>1, <2>6, <2>7, BuilderAssumption DEF BuilderAssumption
<1> QED
  BY <1>5, <1>6, <1>7

Typed ==
  /\ headerDone \in BOOLEAN /\ finished \in BOOLEAN /\ taken \in BOOLEAN
  /\ \A id \in DOMAIN streams : streams[id] \in Stream
  /\ variables \in Seq(Variable)
  /\ timeSet => clock \in Times
  /\ stored \in Seq(Change)

(* A declaration makes a variable whose nodes are bound to ids.           *)
LEMMA TypedByDeclare ==
  ASSUME Typed, Numbered, KnownAgrees, Nested, NEW t \in Declared,
         NEW alias \in Ids \cup {NoAlias, Invalid}, NEW leaves \in Leaves[t],
         DeclareVar(t, alias, leaves)
  PROVE  Typed'
<1>1. t \in Types /\ leaves \in Seq(Ids \cup {Invalid})
  BY BuilderAssumption DEF BuilderAssumption
<1>2. /\ Acceptable(t, alias, leaves)
      /\ streams' = Extended(streams, Allocated(t, NodesOf[t], leaves))
      /\ UNCHANGED <<headerDone, finished, taken, timeSet, clock, stored>>
  BY DEF DeclareVar, SinkDeclares, valueVars
<1>3. PICK nodes \in Seq(Node) : nodes = NodesOf[t]
  BY <1>1, NodesOfType
<1>4. PICK made : made = Allocated(t, nodes, leaves)
  OBVIOUS
<1>5. \A id \in DOMAIN streams' : streams'[id] \in Stream
  <2>1. streams' = [x \in DOMAIN streams \cup DOMAIN made |-> IF x \in DOMAIN streams THEN streams[x] ELSE made[x]]
    BY <1>2, <1>3, <1>4 DEF Extended
  <2>2. \A id \in DOMAIN made : made[id] \in Stream
    BY <1>1, <1>4, AllocatedType
  <2>3. \A id \in DOMAIN streams : streams[id] \in Stream
    BY DEF Typed
  <2> QED
    BY <2>1, <2>2, <2>3
<1> DEFINE below == [k \in DOMAIN nodes |-> Bound(t, nodes, leaves, k)]
           stream == IF alias = NoAlias THEN OwnStream(t) ELSE alias
           variable == [scope |-> Last(stack), type |-> t, aliased |-> alias # NoAlias,
                        stream |-> stream, below |-> below]
<1>6. variables' = Append(variables, variable)
  BY <1>3 DEF DeclareVar, SinkDeclares
<1>7. below \in Seq(Nat \cup {Invalid})
  <2>1. PICK n \in Nat : DOMAIN nodes = 1 .. n
    BY LenProperties
  <2>2. ASSUME NEW k \in DOMAIN nodes
        PROVE  Bound(t, nodes, leaves, k) \in Nat \cup {Invalid}
    BY <1>1, <1>2, <1>3, BoundType DEF Acceptable
  <2>3. below \in [1 .. n -> Nat \cup {Invalid}]
    BY <2>1, <2>2
  <2> HIDE DEF below
  <2> QED
    BY <2>3, FunctionIsSeq
<1>8. stream \in Nat \cup {Invalid}
  <2>1. CASE alias = NoAlias
    BY <2>1, NumberedCount DEF OwnStream
  <2>2. CASE alias # NoAlias
    <3>1. alias \in DOMAIN known
      BY <1>2, <2>2 DEF Acceptable, Known
    <3>2. alias \in Nat
      BY <3>1, NumberedCount DEF KnownAgrees
    <3> QED
      BY <2>2, <3>2
  <2> QED
    BY <2>1, <2>2
<1>9. Last(stack) \in Nat
  BY DEF Last, Nested
<1>10. variable \in Variable
  <2> HIDE DEF below, stream
  <2> QED
    BY <1>7, <1>8, <1>9 DEF Variable
<1>11. variables' \in Seq(Variable)
  <2> HIDE DEF variable
  <2>1. variables \in Seq(Variable)
    BY DEF Typed
  <2> QED
    BY <1>6, <1>10, <2>1
<1> QED
  BY <1>2, <1>5, <1>11 DEF Typed

(* valueChange() stores a change of the type of stored changes.           *)
LEMMA TypedByValueChange ==
  ASSUME Typed, Numbered, KnownAgrees, NEW id \in Ids \cup {Invalid}, NEW v \in Values, ValueChange(id, v)
  PROVE  Typed'
<1> DEFINE change == [id |-> id, time |-> clock, value |-> v]
<1>1. /\ timeSet /\ id \in DOMAIN known /\ stored' = Append(stored, change)
      /\ UNCHANGED <<headerDone, finished, taken, streams, variables, timeSet, clock>>
  BY DEF ValueChange, Known, checkerVars, headerVars
<1>2. id \in Nat
  BY <1>1, NumberedCount DEF KnownAgrees
<1>3. change \in Change
  BY <1>1, <1>2 DEF Change, Typed
<1> HIDE DEF change
<1>4. stored' \in Seq(Change)
  BY <1>1, <1>3 DEF Typed
<1> QED
  BY <1>1, <1>4 DEF Typed

(* The other calls keep every variable within its type.                   *)
LEMMA TypedByOthers ==
  ASSUME Typed, [Next]_vars,
         \A t \in Declared, alias \in Ids \cup {NoAlias, Invalid} :
           \A leaves \in Leaves[t] : ~ DeclareVar(t, alias, leaves),
         \A id \in Ids \cup {Invalid}, v \in Values : ~ ValueChange(id, v)
  PROVE  Typed'
<1>1. /\ UNCHANGED <<streams, variables, stored>>
      /\ headerDone' = headerDone \/ headerDone' = TRUE
      /\ finished' = finished \/ finished' = TRUE
      /\ taken' = taken \/ taken' = TRUE
      /\ UNCHANGED <<timeSet, clock>> \/ clock' \in Times
  <2>1. CASE BeginScope
    BY <2>1 DEF BeginScope, valueVars
  <2>2. CASE EndScope
    BY <2>2 DEF EndScope, valueVars
  <2>3. CASE HeaderDone
    BY <2>3 DEF HeaderDone, headerVars, valueVars
  <2>4. CASE \E t \in Times : SetTime(t)
    BY <2>4 DEF SetTime, headerVars
  <2>5. CASE Finish
    BY <2>5 DEF Finish, headerVars
  <2>6. CASE TakeDatabase
    BY <2>6 DEF TakeDatabase, headerVars, valueVars
  <2>7. CASE UNCHANGED vars
    BY <2>7 DEF vars, checkerVars, headerVars, valueVars
  <2> QED
    BY <2>1, <2>2, <2>3, <2>4, <2>5, <2>6, <2>7 DEF Next, HeaderCalls, ValueCalls
<1>2. /\ headerDone' \in BOOLEAN /\ finished' \in BOOLEAN /\ taken' \in BOOLEAN
      /\ timeSet' => clock' \in Times
  <2>1. headerDone \in BOOLEAN /\ finished \in BOOLEAN /\ taken \in BOOLEAN
    BY DEF Typed
  <2>2. headerDone' \in BOOLEAN /\ finished' \in BOOLEAN /\ taken' \in BOOLEAN
    BY <1>1, <2>1
  <2>3. CASE UNCHANGED <<timeSet, clock>>
    <3>1. timeSet => clock \in Times
      BY DEF Typed
    <3> QED
      BY <2>2, <2>3, <3>1
  <2>4. CASE clock' \in Times
    BY <2>2, <2>4
  <2> QED
    BY <1>1, <2>3, <2>4
<1>3. /\ \A id \in DOMAIN streams' : streams'[id] \in Stream
      /\ variables' \in Seq(Variable) /\ stored' \in Seq(Change)
  <2>1. streams' = streams /\ variables' = variables /\ stored' = stored
    BY <1>1
  <2>2. \A id \in DOMAIN streams : streams[id] \in Stream
    BY DEF Typed
  <2>3. variables \in Seq(Variable) /\ stored \in Seq(Change)
    BY DEF Typed
  <2> QED
    BY <2>1, <2>2, <2>3
<1> QED
  BY <1>2, <1>3 DEF Typed

(* The first and the last change of a stream are among those stored, and    *)
(* those of all streams enclose all that is stored.                         *)
LEMMA EndsAreIn ==
  ASSUME NEW n \in Nat, NEW S \in SUBSET (1 .. n), S # {}
  PROVE  /\ Min(S) \in S /\ \A y \in S : Min(S) <= y
         /\ Max(S) \in S /\ \A y \in S : y <= Max(S)
<1>1. \E x \in S : \A y \in S : x <= y
  BY FirstAndLast
<1>2. Min(S) \in S /\ \A y \in S : Min(S) <= y
  BY <1>1 DEF Min
<1>3. PICK x \in S : \A y \in S : y <= x
  BY FirstAndLast
<1>4. \A y \in S : x >= y
  BY <1>3
<1>5. Max(S) \in S /\ \A y \in S : Max(S) >= y
  BY <1>4 DEF Max
<1>6. \A y \in S : y <= Max(S)
  BY <1>5
<1> QED
  BY <1>2, <1>5, <1>6

(* A member that none is below is the minimum.                            *)
LEMMA LeastTime ==
  ASSUME NEW A \in SUBSET Int, NEW x \in A, \A y \in A : x <= y
  PROVE  Min(A) = x
<1>1. Min(A) \in A /\ \A y \in A : Min(A) <= y
  BY DEF Min
<1>2. PICK m \in A : m = Min(A) /\ m <= x
  BY <1>1
<1>3. m \in Int /\ x \in Int /\ x <= m
  OBVIOUS
<1> QED
  BY <1>2, <1>3

(* A member that none is above is the maximum.                            *)
LEMMA GreatestTime ==
  ASSUME NEW A \in SUBSET Int, NEW x \in A, \A y \in A : y <= x
  PROVE  Max(A) = x
<1>1. \A y \in A : x >= y
  OBVIOUS
<1>2. Max(A) \in A /\ \A y \in A : Max(A) >= y
  BY <1>1 DEF Max
<1>3. PICK m \in A : m = Max(A) /\ m >= x
  BY <1>2
<1>4. m \in Int /\ x \in Int /\ m <= x
  OBVIOUS
<1> QED
  BY <1>3, <1>4

(* The range over all streams begins with the first change stored and     *)
(* ends after the last one, since changes come in the order of time.      *)
LEMMA TotalRangeIs ==
  ASSUME Ordered, Held
  PROVE  IF stored = <<>> THEN TotalRange = NoRange
         ELSE TotalRange = <<stored[1].time, stored[Len(stored)].time + 1>>
<1>1. PICK n \in Nat : n = Len(stored) /\ DOMAIN stored = 1 .. n
  BY LenProperties DEF Ordered
<1> DEFINE written == {id \in DOMAIN streams : ChangesOf(id) # {}}
           first(id) == stored[Min(ChangesOf(id))].time
           last(id)  == stored[Max(ChangesOf(id))].time
           A == {first(id) : id \in written}
           B == {last(id) : id \in written}
<1>2. TotalRange = IF written = {} THEN NoRange ELSE <<Min(A), RangeEnd(B)>>
  BY DEF TotalRange
<1>3. CASE stored = <<>>
  <2>1. DOMAIN stored = {}
    BY <1>3
  <2>2. written = {}
    BY <2>1 DEF ChangesOf
  <2> QED
    BY <1>2, <1>3, <2>2
<1>4. CASE stored # <<>>
  <2>1. 1 \in 1 .. n /\ n \in 1 .. n
    <3>1. n # 0
      BY <1>1, <1>4, EmptySeq DEF Ordered
    <3> QED
      BY <3>1
  <2>2. \A k \in 1 .. n : stored[k].time \in Int /\ stored[k].id \in DOMAIN streams
    BY <1>1, StoredElements DEF Ordered, Held, Holds
  <2>3. \A j, k \in 1 .. n : j < k => stored[j].time <= stored[k].time
    BY <1>1 DEF Ordered
  <2>4. \A j, k \in 1 .. n : j <= k => stored[j].time <= stored[k].time
    <3> SUFFICES ASSUME NEW j \in 1 .. n, NEW k \in 1 .. n, j <= k
                 PROVE  stored[j].time <= stored[k].time
      OBVIOUS
    <3>1. CASE j = k
      BY <2>2, <3>1
    <3>2. CASE j < k
      BY <2>3, <3>2
    <3> QED
      BY <3>1, <3>2
  <2>5. ASSUME NEW k \in 1 .. n
        PROVE  stored[k].id \in written /\ k \in ChangesOf(stored[k].id)
    BY <1>1, <2>2 DEF ChangesOf
  <2>6. ASSUME NEW id \in written
        PROVE  /\ Min(ChangesOf(id)) \in 1 .. n /\ \A y \in ChangesOf(id) : Min(ChangesOf(id)) <= y
               /\ Max(ChangesOf(id)) \in 1 .. n /\ \A y \in ChangesOf(id) : y <= Max(ChangesOf(id))
    <3>1. ChangesOf(id) \in SUBSET (1 .. n) /\ ChangesOf(id) # {}
      BY <1>1 DEF ChangesOf
    <3> HIDE DEF written
    <3>2. /\ Min(ChangesOf(id)) \in ChangesOf(id) /\ \A y \in ChangesOf(id) : Min(ChangesOf(id)) <= y
          /\ Max(ChangesOf(id)) \in ChangesOf(id) /\ \A y \in ChangesOf(id) : y <= Max(ChangesOf(id))
      BY <3>1, EndsAreIn
    <3> QED
      BY <3>1, <3>2
  <2> HIDE DEF written
  <2>7. Min(ChangesOf(stored[1].id)) = 1 /\ Max(ChangesOf(stored[n].id)) = n
    <3>1. PICK i \in 1 .. n : i = Min(ChangesOf(stored[1].id)) /\ i <= 1
      BY <2>1, <2>5, <2>6
    <3>2. PICK j \in 1 .. n : j = Max(ChangesOf(stored[n].id)) /\ n <= j
      BY <2>1, <2>5, <2>6
    <3> QED
      BY <3>1, <3>2
  <2>8. A \in SUBSET Int /\ B \in SUBSET Int
    BY <2>2, <2>6
  <2>9. stored[1].time \in A /\ stored[n].time \in B
    BY <2>1, <2>5, <2>7
  <2>10. \A y \in A : stored[1].time <= y
    BY <2>1, <2>4, <2>6
  <2>11. \A y \in B : y <= stored[n].time
    BY <2>1, <2>4, <2>6
  <2> HIDE DEF A, B
  <2>12. Min(A) = stored[1].time /\ Max(B) = stored[n].time
    BY <2>8, <2>9, <2>10, <2>11, LeastTime, GreatestTime
  <2>13. written # {}
    BY <2>1, <2>5
  <2> QED
    BY <1>1, <1>2, <1>4, <2>12, <2>13 DEF RangeEnd
<1> QED
  BY <1>3, <1>4

(* finish() reports a range that holds every change.                      *)
LEMMA CoversByFinish ==
  ASSUME Ordered, Held, Finish
  PROVE  RangeCovers'
<1>1. stored' = stored /\ range' = TotalRange
  BY DEF Finish
<1>2. PICK n \in Nat : n = Len(stored) /\ DOMAIN stored = 1 .. n
  BY LenProperties DEF Ordered
<1> DEFINE times == {stored[k].time : k \in DOMAIN stored}
<1>3. IF times = {} THEN range' = NoRange
      ELSE times \subseteq range'[1] .. range'[2] - 1 /\ {range'[1], range'[2] - 1} \subseteq times
  <2>1. CASE stored = <<>>
    <3>1. times = {}
      BY <2>1
    <3> QED
      BY <1>1, <2>1, <3>1, TotalRangeIs
  <2>2. CASE stored # <<>>
    <3>1. 1 \in 1 .. n /\ n \in 1 .. n
      <4>1. n # 0
        BY <1>2, <2>2, EmptySeq DEF Ordered
      <4> QED
        BY <4>1
    <3>2. PICK a \in Int, b \in Int : a = stored[1].time /\ b = stored[n].time
      BY <1>2, <3>1, StoredElements DEF Ordered
    <3>3. range' = <<a, b + 1>>
      BY <1>1, <1>2, <2>2, <3>2, TotalRangeIs
    <3>4. range'[1] = a /\ range'[2] - 1 = b
      BY <3>3
    <3>5. ASSUME NEW k \in 1 .. n
          PROVE  stored[k].time \in a .. b
      <4>1. PICK x \in Int : x = stored[k].time
        BY <1>2, StoredElements DEF Ordered
      <4>2. 1 < k => stored[1].time <= stored[k].time
        BY <1>2, <3>1 DEF Ordered
      <4>3. k < n => stored[k].time <= stored[n].time
        BY <1>2, <3>1 DEF Ordered
      <4>4. a <= x
        BY <3>2, <4>1, <4>2
      <4>5. x <= b
        BY <3>2, <4>1, <4>3
      <4> QED
        BY <4>1, <4>4, <4>5
    <3>6. a \in times /\ b \in times
      BY <1>2, <3>1, <3>2
    <3>7. times \subseteq a .. b
      BY <1>2, <3>5
    <3> QED
      BY <3>4, <3>6, <3>7
  <2> QED
    BY <2>1, <2>2
<1>4. {stored'[k].time : k \in DOMAIN stored'} = times
  BY <1>1
<1> HIDE DEF times
<1> QED
  BY <1>3, <1>4 DEF RangeCovers

(* After finish() nothing is stored, so the range goes on to hold them    *)
(* all.                                                                   *)
LEMMA CoversByStep ==
  ASSUME Ordered, Held, RangeCovers, [Next]_vars
  PROVE  RangeCovers'
<1>1. CASE Finish
  BY <1>1, CoversByFinish
<1>2. CASE UNCHANGED <<finished, stored, range>>
  BY <1>2 DEF RangeCovers
<1>3. CASE \E id \in Ids \cup {Invalid}, v \in Values : ValueChange(id, v)
  BY <1>3 DEF ValueChange, ValuePhase, checkerVars, RangeCovers
<1>4. BeginScope \/ EndScope \/ HeaderDone \/ TakeDatabase \/ UNCHANGED vars => UNCHANGED <<finished, stored, range>>
  BY DEF BeginScope, EndScope, HeaderDone, TakeDatabase, vars, checkerVars, valueVars
<1>5. ASSUME NEW t \in Declared, NEW alias \in Ids \cup {NoAlias, Invalid}, NEW leaves \in Leaves[t],
             DeclareVar(t, alias, leaves)
      PROVE  UNCHANGED <<finished, stored, range>>
  BY <1>5 DEF DeclareVar, valueVars
<1>6. ASSUME NEW t \in Times, SetTime(t)
      PROVE  UNCHANGED <<finished, stored, range>>
  BY <1>6 DEF SetTime
<1> QED
  BY <1>1, <1>2, <1>3, <1>4, <1>5, <1>6 DEF Next, HeaderCalls, ValueCalls

(* What a builder hands out: streams numbered without gaps, of the kind and *)
(* the width of their type, variables bound to streams or to none, and a    *)
(* time range that begins with the first change and ends behind the last,   *)
(* whatever a reader calls and however its streams are mixed.               *)
THEOREM StorageCorrect == Spec => []StorageExact
<1>1. Init => Typed /\ Ordered /\ Held /\ RangeCovers
  <2> SUFFICES ASSUME Init PROVE Typed /\ Ordered /\ Held /\ RangeCovers
    OBVIOUS
  <2>1. /\ streams = <<>> /\ variables = <<>> /\ stored = <<>> /\ timeSet = FALSE /\ finished = FALSE
        /\ headerDone = FALSE /\ taken = FALSE
    BY DEF Init
  <2>2. DOMAIN streams = {} /\ variables \in Seq(Variable) /\ stored \in Seq(Change)
    BY <2>1
  <2>3. Typed
    BY <2>1, <2>2 DEF Typed
  <2>4. RangeCovers
    BY <2>1 DEF RangeCovers
  <2> QED
    BY <2>3, <2>4, OrderedInit
<1>2. Typed /\ Numbered /\ KnownAgrees /\ Nested /\ [Next]_vars => Typed'
  BY TypedByDeclare, TypedByValueChange, TypedByOthers
<1>3. Ordered /\ [Next]_vars => Ordered'
  BY OrderedBySetTime, OrderedByValueChange, OrderedByOthers
<1>4. Ordered /\ Held /\ KnownAgrees /\ [Next]_vars => Held'
  BY HeldByStep
<1>5. Ordered /\ Held /\ RangeCovers /\ [Next]_vars => RangeCovers'
  BY CoversByStep
<1>6. Numbered /\ KnownAgrees /\ [Next]_vars => Numbered' /\ KnownAgrees'
  BY KnownByStep
<1>7. Nested /\ [Next]_vars => Nested'
  BY NestedByBegin, NestedByEnd, NestedByOthers
<1>8. Typed /\ Numbered /\ KnownAgrees /\ Nested /\ Ordered /\ RangeCovers => StorageExact
  <2> SUFFICES ASSUME Typed, Numbered, KnownAgrees, Nested, Ordered, RangeCovers PROVE StorageExact
    OBVIOUS
  <2>1. DOMAIN streams = 0 .. Count - 1 /\ Count \in Nat
    BY NumberedCount
  <2>2. DOMAIN known \subseteq Nat /\ \A id \in DOMAIN known : known[id] \in Stream
    BY <2>1 DEF KnownAgrees, Typed
  <2>3. stack \in Seq(Nat) /\ stack # <<>> /\ scopes \in Seq(Nat) /\ openScopes \in Nat
    BY DEF Nested
  <2>4. now \in Int /\ timeSet \in BOOLEAN /\ clock \in Int
    BY DEF Ordered
  <2>5. TypeOK
    BY <2>1, <2>2, <2>3, <2>4 DEF TypeOK, Typed
  <2> QED
    BY <2>5 DEF StorageExact
<1> QED
  BY KnownInit, NestedInit, <1>1, <1>2, <1>3, <1>4, <1>5, <1>6, <1>7, <1>8, PTL DEF Spec
----------------------------------------------------------------------------
(* A list of ids in which each is met before or is the highest so far goes  *)
(* on so, if each of the ids that follow is in the list or higher than all  *)
(* before it.                                                               *)
Id == Nat \cup {Invalid}
Higher(ids, k) == \A j \in 1 .. k - 1 : ids[j] # Invalid => ids[j] < ids[k]
Walks(ids) ==
  \A k \in 1 .. Len(ids) : ids[k] = Invalid \/ (\E j \in 1 .. k - 1 : ids[j] = ids[k]) \/ Higher(ids, k)
GoesOn(ids, next, k) ==
  \/ next[k] = Invalid
  \/ \E j \in 1 .. Len(ids) : ids[j] = next[k]
  \/ (\A j \in 1 .. Len(ids) : ids[j] # Invalid => ids[j] < next[k]) /\ Higher(next, k)

(* A rising list of ids that is gone on with in a rising way rises.       *)
LEMMA WalkGoesOn ==
  ASSUME NEW ids \in Seq(Id), NEW next \in Seq(Id), Walks(ids),
         \A k \in 1 .. Len(next) : GoesOn(ids, next, k)
  PROVE  Walks(ids \o next)
<1>1. PICK m \in Nat, n \in Nat : m = Len(ids) /\ n = Len(next)
  BY LenProperties
<1>2. PICK all \in Seq(Id) : /\ all = ids \o next /\ Len(all) = m + n
                             /\ \A k \in 1 .. m : all[k] = ids[k]
                             /\ \A k \in 1 .. n : all[m + k] = next[k]
  <2>1. ids \o next \in Seq(Id) /\ Len(ids \o next) = Len(ids) + Len(next)
    BY ConcatProperties
  <2>2. \A k \in 1 .. m : (ids \o next)[k] = ids[k]
    BY <1>1
  <2>3. \A k \in 1 .. n : (ids \o next)[m + k] = next[k]
    BY <1>1
  <2> QED
    BY <1>1, <2>1, <2>2, <2>3
<1>3. ASSUME NEW k \in 1 .. m + n
      PROVE  all[k] = Invalid \/ (\E j \in 1 .. k - 1 : all[j] = all[k]) \/ Higher(all, k)
  <2>1. CASE k \in 1 .. m
    <3>1. \A j \in 1 .. k : j \in 1 .. m /\ all[j] = ids[j]
      BY <1>2, <2>1
    <3>2. ids[k] = Invalid \/ (\E j \in 1 .. k - 1 : ids[j] = ids[k]) \/ Higher(ids, k)
      BY <1>1, <2>1 DEF Walks
    <3>3. \A j \in 1 .. k - 1 : j \in 1 .. k
      BY <2>1
    <3>4. k \in 1 .. k
      BY <2>1
    <3> QED
      BY <3>1, <3>2, <3>3, <3>4 DEF Higher
  <2>2. CASE k \notin 1 .. m
    <3>1. PICK i \in 1 .. n : k = m + i
      <4>1. k - m \in 1 .. n /\ k = m + (k - m)
        BY <2>2
      <4> QED
        BY <4>1
    <3>2. GoesOn(ids, next, i) /\ all[k] = next[i]
      BY <1>1, <1>2, <3>1
    <3>3. CASE \E j \in 1 .. m : ids[j] = next[i]
      <4>1. PICK j \in 1 .. m : ids[j] = next[i]
        BY <3>3
      <4>2. j \in 1 .. k - 1
        BY <3>1
      <4> QED
        BY <1>2, <3>2, <4>1, <4>2
    <3>4. CASE (\A j \in 1 .. m : ids[j] # Invalid => ids[j] < next[i]) /\ Higher(next, i)
      <4>1. ASSUME NEW j \in 1 .. k - 1, all[j] # Invalid
            PROVE  all[j] < all[k]
        <5>1. CASE j \in 1 .. m
          BY <1>2, <3>2, <3>4, <4>1, <5>1
        <5>2. CASE j \notin 1 .. m
          <6>1. PICK l \in 1 .. n : j = m + l /\ l \in 1 .. i - 1
            <7>1. j - m \in 1 .. n /\ j = m + (j - m) /\ j - m \in 1 .. i - 1
              BY <3>1, <5>2
            <7> QED
              BY <7>1
          <6>2. all[j] = next[l]
            BY <1>2, <6>1
          <6> QED
            BY <3>2, <3>4, <4>1, <6>1, <6>2 DEF Higher
        <5> QED
          BY <5>1, <5>2
      <4> QED
        BY <4>1 DEF Higher
    <3> QED
      BY <1>1, <3>2, <3>3, <3>4 DEF GoesOn
  <2> QED
    BY <2>1, <2>2
<1> QED
  BY <1>2, <1>3 DEF Walks

(* Walks says the same of the list as the property says of the variables. *)
LEMMA WalksFollow ==
  ASSUME Bindings \in Seq(Id)
  PROVE  IdsFollowWalk <=> Walks(Bindings)
<1>1. PICK ids \in Seq(Id) : ids = Bindings
  OBVIOUS
<1>2. DOMAIN ids = 1 .. Len(ids)
  BY LenProperties
<1> DEFINE before(k) == {ids[j] : j \in 1 .. k - 1} \ {Invalid}
<1>3. ASSUME NEW k \in 1 .. Len(ids)
      PROVE  (ids[k] = Invalid \/ ids[k] \in before(k) \/ \A other \in before(k) : other < ids[k])
               <=> (ids[k] = Invalid \/ (\E j \in 1 .. k - 1 : ids[j] = ids[k]) \/ Higher(ids, k))
  BY DEF Higher
<1>4. IdsFollowWalk <=> \A k \in DOMAIN ids :
        ids[k] = Invalid \/ ids[k] \in before(k) \/ \A other \in before(k) : other < ids[k]
  BY <1>1 DEF IdsFollowWalk
<1> QED
  BY <1>1, <1>2, <1>3, <1>4 DEF Walks
----------------------------------------------------------------------------
(* The bindings of all variables are a list of ids.                       *)
LEMMA BindingsAre ==
  ASSUME variables \in Seq(Variable)
  PROVE  Bindings \in Seq(Id)
<1>1. PICK m \in Nat : variables \in [1 .. m -> Variable] /\ DOMAIN variables = 1 .. m
  BY LenProperties
<1> DEFINE pieces == [i \in DOMAIN variables |-> <<variables[i].stream>> \o variables[i].below]
<1>2. ASSUME NEW i \in 1 .. m
      PROVE  <<variables[i].stream>> \o variables[i].below \in Seq(Id)
  <2>1. variables[i].stream \in Id /\ variables[i].below \in Seq(Id)
    BY <1>1 DEF Variable, Id
  <2>2. <<variables[i].stream>> \in Seq(Id)
    BY <2>1
  <2> QED
    BY <2>1, <2>2, ConcatProperties
<1>3. pieces \in [1 .. m -> Seq(Id)]
  BY <1>1, <1>2
<1>4. Bindings = FlattenSeq(pieces)
  BY DEF Bindings
<1> HIDE DEF pieces
<1> QED
  BY <1>3, <1>4, LengthOfFlatten

(* A new variable adds its own stream and those of the nodes below it.    *)
LEMMA BindingsGrow ==
  ASSUME variables \in Seq(Variable), NEW v \in Variable, variables' = Append(variables, v)
  PROVE  /\ Bindings' = Bindings \o (<<v.stream>> \o v.below)
         /\ <<v.stream>> \o v.below \in Seq(Id)
         /\ Len(<<v.stream>> \o v.below) = 1 + Len(v.below)
         /\ (<<v.stream>> \o v.below)[1] = v.stream
         /\ \A k \in 1 .. Len(v.below) : (<<v.stream>> \o v.below)[k + 1] = v.below[k]
<1>1. PICK m \in Nat : m = Len(variables) /\ DOMAIN variables = 1 .. m
  BY LenProperties
<1> DEFINE glue(w) == <<w.stream>> \o w.below
           pieces == [i \in 1 .. m |-> glue(variables[i])]
           more == [i \in 1 .. m + 1 |-> glue(variables'[i])]
<1>2. ASSUME NEW w \in Variable
      PROVE  /\ glue(w) \in Seq(Id) /\ Len(glue(w)) = 1 + Len(w.below) /\ glue(w)[1] = w.stream
             /\ \A k \in 1 .. Len(w.below) : glue(w)[k + 1] = w.below[k]
  <2>1. PICK s \in Id, b \in Seq(Id) : s = w.stream /\ b = w.below
    BY DEF Variable, Id
  <2>2. <<s>> \in Seq(Id) /\ Len(<<s>>) = 1 /\ <<s>>[1] = s
    OBVIOUS
  <2>3. PICK n \in Nat : n = Len(b)
    BY LenProperties
  <2>4. /\ <<s>> \o b \in Seq(Id) /\ Len(<<s>> \o b) = 1 + n
        /\ (<<s>> \o b)[1] = s
        /\ \A k \in 1 .. n : (<<s>> \o b)[k + 1] = b[k]
    BY <2>2, <2>3
  <2> QED
    BY <2>1, <2>3, <2>4
<1>3. /\ DOMAIN variables' = 1 .. m + 1
      /\ variables'[m + 1] = v
      /\ \A i \in 1 .. m : variables'[i] = variables[i] /\ variables[i] \in Variable
  BY <1>1, AppendProperties
<1>4. pieces \in [1 .. m -> Seq(Id)]
  BY <1>2, <1>3
<1>5. more \in [1 .. m + 1 -> Seq(Id)]
  <2>1. ASSUME NEW i \in 1 .. m + 1
        PROVE  variables'[i] \in Variable
    <3>1. i \in 1 .. m \/ i = m + 1
      OBVIOUS
    <3> QED
      BY <1>3, <3>1
  <2> QED
    BY <1>2, <2>1
<1>6. (\A i \in 1 .. m : more[i] = pieces[i]) /\ more[m + 1] = glue(v)
  BY <1>3
<1>7. Bindings = FlattenSeq(pieces)
  BY <1>1 DEF Bindings
<1>8. Bindings' = FlattenSeq(more)
  BY <1>3 DEF Bindings
<1>9. FlattenSeq(more) = FlattenSeq(pieces) \o more[m + 1]
  <2> HIDE DEF pieces, more
  <2> QED
    BY <1>4, <1>5, <1>6, FlattenOneMore
<1> HIDE DEF pieces, more
<1>10. Bindings' = Bindings \o glue(v)
  BY <1>6, <1>7, <1>8, <1>9
<1> QED
  BY <1>2, <1>10
----------------------------------------------------------------------------
(* Of two nodes for which a stream is allocated, the later in the walk has  *)
(* the higher id.                                                           *)
LEMMA NewIdsRise ==
  ASSUME Numbered, NEW t \in Types, NEW nodes \in Seq(Node), NEW leaves,
         NEW j \in Fresh(nodes, leaves), NEW k \in Fresh(nodes, leaves), j < k
  PROVE  NewId(t, nodes, leaves, j) < NewId(t, nodes, leaves, k)
<1>1. PICK n \in Nat : n = Len(nodes) /\ DOMAIN nodes = 1 .. n
  OBVIOUS
<1> DEFINE S == Fresh(nodes, leaves)
           before(i) == Cardinality({l \in 1 .. i - 1 : l \in S})
<1>2. S \in SUBSET (1 .. n)
  BY <1>1 DEF Fresh
<1>3. PICK base \in Nat : base = Count + OwnStreams(t)
  BY NumberedCount DEF OwnStreams
<1>4. ASSUME NEW i \in S
      PROVE  NewId(t, nodes, leaves, i) = base + before(i)
  <2>1. i \in 1 .. n
    BY <1>2
  <2>2. {l \in 1 .. i - 1 : Allocates(nodes, leaves, l)} = {l \in 1 .. i - 1 : l \in S}
    BY <1>1, <2>1 DEF Fresh
  <2> QED
    BY <1>3, <2>2 DEF NewId
<1>5. before(j) \in Nat /\ before(k) \in Nat /\ before(j) < before(k)
  <2>1. k \in 1 .. n + 1 /\ j \in S
    BY <1>2
  <2> HIDE DEF S
  <2> QED
    BY <1>2, <2>1, CountGrows
<1>6. NewId(t, nodes, leaves, j) = base + before(j) /\ NewId(t, nodes, leaves, k) = base + before(k)
  BY <1>4
<1> HIDE DEF S, before
<1> QED
  BY <1>5, <1>6

(* What a node below a variable is bound to: nothing, a new stream, or one  *)
(* that is known.                                                           *)
LEMMA BoundIs ==
  ASSUME Numbered, NEW t \in Types, NEW alias, NEW leaves \in Seq(Ids \cup {Invalid}),
         Acceptable(t, alias, leaves), NEW nodes \in Seq(Node), nodes = NodesOf[t],
         NEW k \in DOMAIN nodes
  PROVE  \/ Bound(t, nodes, leaves, k) = Invalid
         \/ k \in Fresh(nodes, leaves) /\ Bound(t, nodes, leaves, k) = NewId(t, nodes, leaves, k)
         \/ Bound(t, nodes, leaves, k) \in DOMAIN known
<1>1. LeavesAre(nodes, Expansion[t])
  BY NodesOfType
<1>2. PICK types \in Seq(Types) : types = Expansion[t]
  BY NodesOfType
<1>3. PICK at : PlacesLeaves(at, nodes, types)
  BY <1>1, <1>2 DEF LeavesAre
<1>4. k \in 1 .. Len(nodes) /\ nodes[k] \in Node
  BY ElementOfSeq
<1>5. CASE nodes[k].binds = NoBinding
  <2>1. ~ Allocates(nodes, leaves, k)
    BY <1>5 DEF Allocates, NoBinding
  <2> QED
    BY <1>5, <2>1 DEF Bound
<1>6. CASE Allocates(nodes, leaves, k)
  <2>1. nodes[k].binds # NoBinding
    BY <1>6 DEF Allocates, NoBinding
  <2>2. k \in Fresh(nodes, leaves)
    BY <1>6 DEF Fresh
  <2> QED
    BY <1>6, <2>1, <2>2 DEF Bound
<1>7. CASE nodes[k].binds # NoBinding /\ ~ Allocates(nodes, leaves, k)
  <2>1. nodes[k].binds \in {NoBinding, "leaf", "hidden"}
    BY <1>4 DEF Node
  <2>2. nodes[k].binds = "leaf" /\ leaves # <<>>
    BY <1>7, <2>1 DEF Allocates
  <2>3. PICK i \in 1 .. Len(types) : at[i] = k
    BY <1>3, <1>4, <2>2 DEF PlacesLeaves
  <2>4. PlaceOf(nodes, k) = i
    BY <1>3, <2>3, PlacesCounted
  <2>5. Len(leaves) = Len(Expansion[t])
    BY <2>2, CountsAgree DEF Acceptable, MayBind
  <2>6. Expected(t, leaves)
    BY <2>5 DEF Expected
  <2>7. i \in DOMAIN leaves
    BY <1>2, <2>3, <2>5
  <2>8. leaves[i] = Invalid \/ leaves[i] \in DOMAIN known
    BY <2>6, <2>7 DEF Acceptable, Known
  <2>9. Bound(t, nodes, leaves, k) = leaves[i]
    BY <1>7, <2>4 DEF Bound
  <2> QED
    BY <2>8, <2>9
<1> QED
  BY <1>5, <1>6, <1>7
----------------------------------------------------------------------------
(* What DeclareVar() adds to the bindings: the stream of the variable and   *)
(* those of the nodes below it.                                             *)
Added(t, nodes, alias, leaves) ==
  <<IF alias = NoAlias THEN OwnStream(t) ELSE alias>> \o [k \in DOMAIN nodes |-> Bound(t, nodes, leaves, k)]

BoundIds == ToSet(Bindings) \ {Invalid}

Counted ==
  /\ Bindings \in Seq(Id)
  /\ BoundIds \subseteq DOMAIN streams
  /\ DOMAIN known \subseteq BoundIds
  /\ Walks(Bindings)
  /\ OnlyAliasesWaste

(* What a declaration adds to the bindings, entry by entry.               *)
LEMMA BindingsByDeclare ==
  ASSUME Typed, Numbered, KnownAgrees, Typed', NEW t \in Declared, NEW alias, NEW leaves \in Leaves[t],
         DeclareVar(t, alias, leaves), NEW nodes \in Seq(Node), nodes = NodesOf[t]
  PROVE  LET next == Added(t, nodes, alias, leaves)
         IN /\ next \in Seq(Id) /\ Len(next) = 1 + Len(nodes)
            /\ next[1] = (IF alias = NoAlias THEN OwnStream(t) ELSE alias)
            /\ \A k \in DOMAIN nodes : next[k + 1] = Bound(t, nodes, leaves, k)
            /\ Bindings' = Bindings \o next
<1> DEFINE stream == IF alias = NoAlias THEN OwnStream(t) ELSE alias
           below == [k \in DOMAIN nodes |-> Bound(t, nodes, leaves, k)]
           v == [scope |-> Last(stack), type |-> t, aliased |-> alias # NoAlias,
                 stream |-> stream, below |-> below]
<1>1. variables' = Append(variables, v)
  BY DEF DeclareVar, SinkDeclares
<1>2. variables \in Seq(Variable) /\ variables' \in Seq(Variable)
  BY DEF Typed
<1>3. PICK m \in Nat : m = Len(variables)
  BY <1>2, LenProperties
<1>4. PICK n \in Nat : n = Len(nodes) /\ DOMAIN nodes = 1 .. n
  BY LenProperties
<1>5. v \in Variable
  <2> HIDE DEF v
  <2>1. Len(variables') = m + 1 /\ variables'[m + 1] = v
    BY <1>1, <1>2, <1>3
  <2>2. m + 1 \in 1 .. Len(variables')
    BY <2>1
  <2>3. variables'[m + 1] \in Variable
    BY <1>2, <2>2, ElementOfSeq
  <2> QED
    BY <2>1, <2>3
<1>6. v.stream = stream /\ v.below = below /\ below \in Seq(Id)
  BY <1>5 DEF Variable, Id
<1>7. Len(below) = n
  <2>1. DOMAIN below = 1 .. n
    BY <1>4
  <2>2. Len(below) \in Nat /\ DOMAIN below = 1 .. Len(below)
    BY <1>6, LenProperties
  <2> HIDE DEF below
  <2> QED
    BY <2>1, <2>2
<1>8. \A k \in DOMAIN nodes : below[k] = Bound(t, nodes, leaves, k)
  OBVIOUS
<1>9. Added(t, nodes, alias, leaves) = <<stream>> \o below
  BY DEF Added
<1> HIDE DEF v, stream, below
<1>10. /\ Bindings' = Bindings \o (<<stream>> \o below)
       /\ <<stream>> \o below \in Seq(Id)
       /\ Len(<<stream>> \o below) = 1 + n
       /\ (<<stream>> \o below)[1] = stream
       /\ \A k \in 1 .. n : (<<stream>> \o below)[k + 1] = below[k]
  BY <1>1, <1>2, <1>5, <1>6, <1>7, BindingsGrow
<1> QED
  BY <1>4, <1>8, <1>9, <1>10 DEF stream

(* The places of what is added, and what is there.                          *)
AddedFits(t, nodes, alias, leaves, next) ==
  /\ next \in Seq(Id) /\ Len(next) = 1 + Len(nodes)
  /\ \/ next[1] = Invalid
     \/ next[1] = Count /\ OwnStreams(t) = 1 /\ alias = NoAlias
     \/ next[1] \in DOMAIN known
  /\ SingleStream(t) /\ alias = NoAlias => next[1] = Count
  /\ \A k \in DOMAIN nodes :
       \/ next[k + 1] = Invalid
       \/ k \in Fresh(nodes, leaves) /\ next[k + 1] = NewId(t, nodes, leaves, k)
       \/ next[k + 1] \in DOMAIN known
  /\ \A k \in Fresh(nodes, leaves) : next[k + 1] = NewId(t, nodes, leaves, k)
  /\ \A k \in DOMAIN nodes : next[k + 1] = Bound(t, nodes, leaves, k)

(* The same in the form that the next lemmas ask for.                     *)
LEMMA AddedByDeclare ==
  ASSUME Typed, Numbered, KnownAgrees, Typed', NEW t \in Declared, NEW alias, NEW leaves \in Leaves[t],
         DeclareVar(t, alias, leaves), NEW nodes \in Seq(Node), nodes = NodesOf[t]
  PROVE  LET next == Added(t, nodes, alias, leaves)
         IN AddedFits(t, nodes, alias, leaves, next) /\ Bindings' = Bindings \o next
<1>1. PICK next : next = Added(t, nodes, alias, leaves)
  OBVIOUS
<1>2. /\ next \in Seq(Id) /\ Len(next) = 1 + Len(nodes)
      /\ next[1] = (IF alias = NoAlias THEN OwnStream(t) ELSE alias)
      /\ \A k \in DOMAIN nodes : next[k + 1] = Bound(t, nodes, leaves, k)
      /\ Bindings' = Bindings \o next
  BY <1>1, BindingsByDeclare, SMTT(30)
<1>3. t \in Types /\ leaves \in Seq(Ids \cup {Invalid}) /\ Acceptable(t, alias, leaves)
  BY BuilderAssumption DEF BuilderAssumption, DeclareVar
<1>4. \/ next[1] = Invalid
      \/ next[1] = Count /\ OwnStreams(t) = 1 /\ alias = NoAlias
      \/ next[1] \in DOMAIN known
  BY <1>2, <1>3 DEF Acceptable, Known, OwnStream, OwnStreams
<1>5. SingleStream(t) /\ alias = NoAlias => next[1] = Count
  BY <1>2 DEF OwnStream
<1>6. ASSUME NEW k \in DOMAIN nodes
      PROVE  \/ next[k + 1] = Invalid
             \/ k \in Fresh(nodes, leaves) /\ next[k + 1] = NewId(t, nodes, leaves, k)
             \/ next[k + 1] \in DOMAIN known
  <2>1. next[k + 1] = Bound(t, nodes, leaves, k)
    BY <1>2
  <2> QED
    BY <1>3, <2>1, BoundIs
<1>7. ASSUME NEW k \in Fresh(nodes, leaves)
      PROVE  next[k + 1] = NewId(t, nodes, leaves, k)
  <2>1. k \in DOMAIN nodes /\ Allocates(nodes, leaves, k)
    BY DEF Fresh
  <2>2. nodes[k].binds # NoBinding
    BY <2>1 DEF Allocates, NoBinding
  <2> QED
    BY <1>2, <2>1, <2>2 DEF Bound
<1> QED
  BY <1>1, <1>2, <1>4, <1>5, <1>6, <1>7 DEF AddedFits

(* Ids met for the first time in a declaration go on where the last one   *)
(* stopped.                                                               *)
LEMMA WalkByDeclare ==
  ASSUME Numbered, Counted, NEW t \in Types, NEW alias, NEW leaves, NEW nodes \in Seq(Node),
         NEW next, AddedFits(t, nodes, alias, leaves, next)
  PROVE  Walks(Bindings \o next)
<1>1. PICK ids \in Seq(Id) : ids = Bindings
  BY DEF Counted
<1>2. PICK c \in Nat, own \in {0, 1} : c = Count /\ own = OwnStreams(t) /\ DOMAIN streams = 0 .. c - 1
  BY NumberedCount DEF OwnStreams
<1>3. ASSUME NEW j \in 1 .. Len(ids), ids[j] # Invalid
      PROVE  ids[j] \in Nat /\ ids[j] < c
  <2>1. ids[j] \in BoundIds
    BY <1>1, <1>3, LenProperties DEF BoundIds, ToSet
  <2> QED
    BY <1>2, <2>1 DEF Counted
<1>4. ASSUME NEW id \in DOMAIN known
      PROVE  id \in Nat /\ id < c /\ \E j \in 1 .. Len(ids) : ids[j] = id
  <2>1. id \in BoundIds
    BY DEF Counted
  <2>2. \E j \in 1 .. Len(ids) : ids[j] = id
    BY <1>1, <2>1, LenProperties DEF BoundIds, ToSet
  <2>3. id \in DOMAIN streams
    BY <2>1 DEF Counted
  <2> QED
    BY <1>2, <2>2, <2>3
<1>5. PICK n \in Nat : n = Len(nodes) /\ DOMAIN nodes = 1 .. n
  BY LenProperties
<1>6. next \in Seq(Id) /\ Len(next) = 1 + n
  BY <1>5 DEF AddedFits
<1>7. ASSUME NEW k \in Fresh(nodes, leaves)
      PROVE  /\ k \in 1 .. n /\ next[k + 1] = NewId(t, nodes, leaves, k)
             /\ next[k + 1] \in Nat /\ next[k + 1] >= c + own
  <2>1. k \in 1 .. n /\ next[k + 1] = NewId(t, nodes, leaves, k)
    BY <1>5 DEF AddedFits, Fresh
  <2>2. NewId(t, nodes, leaves, k) \in c + own .. LastNew(t, nodes, leaves)
    BY <1>2, NewIds
  <2>3. NewId(t, nodes, leaves, k) \in Nat
    BY AllocatedAre
  <2> QED
    BY <1>2, <2>1, <2>2, <2>3
<1>8. ASSUME NEW k \in 1 .. Len(next)
      PROVE  GoesOn(ids, next, k)
  <2>1. CASE k = 1
    <3>1. next[k] = Invalid \/ (next[k] = c /\ own = 1) \/ next[k] \in DOMAIN known
      BY <1>2, <2>1 DEF AddedFits
    <3>2. CASE next[k] = c
      <4>1. Higher(next, k)
        BY <2>1 DEF Higher
      <4> QED
        BY <1>3, <3>2, <4>1 DEF GoesOn
    <3> QED
      BY <1>4, <3>1, <3>2 DEF GoesOn
  <2>2. CASE k # 1
    <3>1. PICK i \in 1 .. n : k = i + 1
      <4>1. k - 1 \in 1 .. n /\ k = (k - 1) + 1
        BY <1>6, <2>2
      <4> QED
        BY <4>1
    <3>2. \/ next[k] = Invalid
          \/ i \in Fresh(nodes, leaves) /\ next[k] = NewId(t, nodes, leaves, i)
          \/ next[k] \in DOMAIN known
      BY <1>5, <3>1 DEF AddedFits
    <3>3. CASE i \in Fresh(nodes, leaves)
      <4>1. next[k] = NewId(t, nodes, leaves, i) /\ next[k] \in Nat /\ next[k] >= c + own
        BY <1>7, <3>1, <3>3
      <4>2. ASSUME NEW j \in 1 .. k - 1, next[j] # Invalid
            PROVE  next[j] < next[k]
        <5>1. CASE j = 1
          <6>1. (next[1] = c /\ own = 1) \/ next[1] \in DOMAIN known
            BY <1>2, <4>2, <5>1 DEF AddedFits
          <6>2. CASE next[1] = c /\ own = 1
            BY <1>2, <4>1, <5>1, <6>2
          <6>3. CASE next[1] \in DOMAIN known
            <7>1. PICK id \in DOMAIN known : id = next[j]
              BY <5>1, <6>3
            <7>2. id \in Nat /\ id < c
              BY <1>4
            <7> QED
              BY <1>2, <4>1, <7>1, <7>2
          <6> QED
            BY <6>1, <6>2, <6>3
        <5>2. CASE j # 1
          <6>1. PICK l \in 1 .. n : j = l + 1 /\ l < i
            <7>1. j - 1 \in 1 .. n /\ j = (j - 1) + 1 /\ j - 1 < i
              BY <3>1, <5>2
            <7> QED
              BY <7>1
          <6>2. \/ l \in Fresh(nodes, leaves) /\ next[j] = NewId(t, nodes, leaves, l)
                \/ next[j] \in DOMAIN known
            BY <1>5, <4>2, <6>1 DEF AddedFits
          <6>3. CASE l \in Fresh(nodes, leaves) /\ next[j] = NewId(t, nodes, leaves, l)
            BY <3>3, <4>1, <6>1, <6>3, NewIdsRise
          <6>4. CASE next[j] \in DOMAIN known
            <7>1. PICK id \in DOMAIN known : id = next[j]
              BY <6>4
            <7>2. id \in Nat /\ id < c
              BY <1>4
            <7> QED
              BY <1>2, <4>1, <7>1, <7>2
          <6> QED
            BY <6>2, <6>3, <6>4
        <5> QED
          BY <5>1, <5>2
      <4>3. ASSUME NEW j \in 1 .. Len(ids), ids[j] # Invalid
            PROVE  ids[j] < next[k]
        <5>1. ids[j] \in Nat /\ ids[j] < c
          BY <1>3, <4>3
        <5> QED
          BY <1>2, <4>1, <5>1
      <4> QED
        BY <4>2, <4>3 DEF GoesOn, Higher
    <3> QED
      BY <1>4, <3>2, <3>3 DEF GoesOn
  <2> QED
    BY <2>1, <2>2
<1>9. Walks(ids)
  BY <1>1 DEF Counted
<1> QED
  BY <1>1, <1>6, <1>8, <1>9, WalkGoesOn

(* What a declaration binds for the first time: all streams that it         *)
(* allocates, but for that of a variable that has an alias.                 *)
NewlyBound(t, nodes, alias, leaves) ==
  (Count + OwnStreams(t) .. LastNew(t, nodes, leaves))
    \cup (IF OwnStreams(t) = 1 /\ alias = NoAlias THEN {Count} ELSE {})

(* The ids bound after a declaration: those before, and what it binds for *)
(* the first time.                                                        *)
LEMMA BoundByDeclare ==
  ASSUME Numbered, Counted, NEW t \in Types, NEW alias, NEW leaves, NEW nodes \in Seq(Node),
         NEW next, AddedFits(t, nodes, alias, leaves, next)
  PROVE  ToSet(Bindings \o next) \ {Invalid} = BoundIds \cup NewlyBound(t, nodes, alias, leaves)
<1>1. PICK ids \in Seq(Id) : ids = Bindings
  BY DEF Counted
<1>2. PICK c \in Nat, own \in {0, 1}, last \in Int :
        c = Count /\ own = OwnStreams(t) /\ last = LastNew(t, nodes, leaves)
  BY NumberedCount, NewIds
<1>3. PICK m \in Nat, n \in Nat : m = Len(ids) /\ n = Len(nodes) /\ DOMAIN nodes = 1 .. n /\ DOMAIN ids = 1 .. m
  BY LenProperties
<1>4. next \in Seq(Id) /\ Len(next) = 1 + n /\ DOMAIN next = 1 .. 1 + n
  BY <1>3, LenProperties DEF AddedFits
<1>5. PICK all \in Seq(Id) : /\ all = ids \o next /\ DOMAIN all = 1 .. m + (1 + n)
                             /\ \A k \in 1 .. m : all[k] = ids[k]
                             /\ \A k \in 1 .. 1 + n : all[m + k] = next[k]
  <2>1. ids \o next \in Seq(Id) /\ Len(ids \o next) = m + (1 + n)
    <3>1. ids \o next \in Seq(Id) /\ Len(ids \o next) = Len(ids) + Len(next)
      BY <1>4, ConcatProperties
    <3> QED
      BY <1>3, <1>4, <3>1
  <2>2. \A k \in 1 .. m : (ids \o next)[k] = ids[k]
    BY <1>3, <1>4
  <2>3. \A k \in 1 .. 1 + n : (ids \o next)[m + k] = next[k]
    BY <1>3, <1>4
  <2> QED
    BY <2>1, <2>2, <2>3, LenProperties
<1>6. ToSet(all) = ToSet(ids) \cup ToSet(next)
  <2>1. ASSUME NEW k \in 1 .. m + (1 + n)
        PROVE  all[k] \in ToSet(ids) \cup ToSet(next)
    <3>1. CASE k \in 1 .. m
      BY <1>3, <1>5, <3>1 DEF ToSet
    <3>2. CASE k \notin 1 .. m
      <4>1. k - m \in 1 .. 1 + n /\ m + (k - m) = k
        BY <3>2
      <4>2. all[k] = next[k - m]
        BY <1>5, <4>1
      <4> QED
        BY <1>4, <4>1, <4>2 DEF ToSet
    <3> QED
      BY <3>1, <3>2
  <2>2. ASSUME NEW k \in 1 .. m
        PROVE  ids[k] \in ToSet(all)
    <3>1. k \in DOMAIN all /\ all[k] = ids[k]
      BY <1>5
    <3> QED
      BY <3>1 DEF ToSet
  <2>3. ASSUME NEW k \in 1 .. 1 + n
        PROVE  next[k] \in ToSet(all)
    <3>1. m + k \in DOMAIN all /\ all[m + k] = next[k]
      BY <1>5
    <3> QED
      BY <3>1 DEF ToSet
  <2>4. /\ ToSet(all) = {all[k] : k \in 1 .. m + (1 + n)}
        /\ ToSet(ids) = {ids[k] : k \in 1 .. m}
        /\ ToSet(next) = {next[k] : k \in 1 .. 1 + n}
    <3>1. DOMAIN all = 1 .. m + (1 + n)
      BY <1>5
    <3>2. DOMAIN ids = 1 .. m
      BY <1>3
    <3>3. DOMAIN next = 1 .. 1 + n
      BY <1>4
    <3> QED
      BY <3>1, <3>2, <3>3, Zenon DEF ToSet
  <2>5. ToSet(all) \subseteq ToSet(ids) \cup ToSet(next)
    BY <2>1, <2>4, Zenon
  <2>6. ToSet(ids) \subseteq ToSet(all) /\ ToSet(next) \subseteq ToSet(all)
    BY <2>2, <2>3, <2>4, Zenon
  <2> QED
    BY <2>5, <2>6, Zenon
<1> DEFINE new == NewlyBound(t, nodes, alias, leaves)
<1>7. new = (c + own .. last) \cup (IF own = 1 /\ alias = NoAlias THEN {c} ELSE {})
  BY <1>2 DEF NewlyBound
<1>8. ASSUME NEW k \in 1 .. 1 + n, next[k] # Invalid
      PROVE  next[k] \in BoundIds \cup new
  <2>1. CASE k = 1
    <3>1. (next[1] = c /\ own = 1 /\ alias = NoAlias) \/ next[1] \in DOMAIN known
      BY <1>2, <1>8, <2>1 DEF AddedFits
    <3> QED
      BY <1>7, <2>1, <3>1 DEF Counted
  <2>2. CASE k # 1
    <3>1. PICK i \in 1 .. n : k = i + 1
      <4>1. k - 1 \in 1 .. n /\ k = (k - 1) + 1
        BY <2>2
      <4> QED
        BY <4>1
    <3>2. \/ i \in Fresh(nodes, leaves) /\ next[k] = NewId(t, nodes, leaves, i)
          \/ next[k] \in DOMAIN known
      BY <1>3, <1>8, <3>1 DEF AddedFits
    <3>3. i \in Fresh(nodes, leaves) => NewId(t, nodes, leaves, i) \in c + own .. last
      BY <1>2, NewIds
    <3> QED
      BY <1>7, <3>2, <3>3 DEF Counted
  <2> QED
    BY <2>1, <2>2
<1>9. ASSUME NEW id \in new
      PROVE  id \in ToSet(next) /\ id \in Nat
  <2>1. CASE id \in c + own .. last
    <3>1. PICK k \in Fresh(nodes, leaves) : NewId(t, nodes, leaves, k) = id
      BY <1>2, <2>1, NewIdsAll
    <3>2. next[k + 1] = id /\ k \in 1 .. n
      BY <1>3, <3>1 DEF AddedFits, Fresh
    <3>3. k + 1 \in DOMAIN next
      BY <1>4, <3>2
    <3>4. id \in Nat
      BY <1>2, <2>1
    <3> QED
      BY <3>2, <3>3, <3>4 DEF ToSet
  <2>2. CASE id \notin c + own .. last
    <3>1. own = 1 /\ alias = NoAlias /\ id = c
      BY <1>7, <2>2
    <3>2. SingleStream(t)
      BY <1>2, <3>1 DEF OwnStreams
    <3>3. next[1] = c /\ 1 \in DOMAIN next
      BY <1>2, <1>4, <3>1, <3>2 DEF AddedFits
    <3> QED
      BY <3>1, <3>3 DEF ToSet
  <2> QED
    BY <2>1, <2>2
<1>10. Invalid \notin Nat
  BY BuilderAssumption DEF BuilderAssumption
<1>11. ToSet(next) \ {Invalid} \subseteq BoundIds \cup new
  BY <1>4, <1>8 DEF ToSet
<1>12. BoundIds = ToSet(ids) \ {Invalid}
  BY <1>1 DEF BoundIds
<1> HIDE DEF new
<1>13. ToSet(all) \ {Invalid} = BoundIds \cup new
  BY <1>6, <1>9, <1>10, <1>11, <1>12
<1> QED
  BY <1>1, <1>5, <1>13 DEF new

(* What the checker records of a declaration is bound by it.              *)
LEMMA KnownIsBound ==
  ASSUME NEW t \in Types, NEW alias, NEW leaves, NEW nodes \in Seq(Node), nodes = NodesOf[t],
         NEW next, AddedFits(t, nodes, alias, leaves, next)
  PROVE  DOMAIN Recorded(t, nodes, alias, leaves) \subseteq ToSet(next)
<1>1. LeavesAre(nodes, Expansion[t])
  BY NodesOfType
<1>2. PICK types \in Seq(Types) : types = Expansion[t]
  BY NodesOfType
<1>3. PICK at : PlacesLeaves(at, nodes, types)
  BY <1>1, <1>2 DEF LeavesAre
<1>4. PICK n \in Nat : n = Len(nodes) /\ DOMAIN nodes = 1 .. n
  BY LenProperties
<1>5. next \in Seq(Id) /\ DOMAIN next = 1 .. 1 + n
  BY <1>4, LenProperties DEF AddedFits
<1>6. ASSUME NEW i \in DOMAIN Expansion[t]
      PROVE  LeafId(t, nodes, leaves, i) \in ToSet(next)
  <2>1. i \in 1 .. Len(types)
    BY <1>2, LenProperties
  <2>2. PICK k \in DOMAIN nodes : k = at[i] /\ PlaceFor(nodes, i) = k
    BY <1>3, <2>1, PlacesCounted
  <2>3. LeafId(t, nodes, leaves, i) = Bound(t, nodes, leaves, k)
    BY <2>2 DEF LeafId
  <2>4. next[k + 1] = Bound(t, nodes, leaves, k)
    BY DEF AddedFits
  <2>5. k + 1 \in DOMAIN next
    BY <1>4, <1>5
  <2> QED
    BY <2>3, <2>4, <2>5 DEF ToSet
<1>7. ASSUME alias = NoAlias, SingleStream(t)
      PROVE  OwnStream(t) \in ToSet(next)
  <2>1. 1 \in DOMAIN next
    BY <1>5
  <2>2. next[1] = OwnStream(t)
    BY <1>7 DEF AddedFits, OwnStream
  <2> QED
    BY <2>1, <2>2 DEF ToSet
<1> DEFINE own == IF alias = NoAlias /\ SingleStream(t) THEN {OwnStream(t)} ELSE {}
<1>8. DOMAIN Recorded(t, nodes, alias, leaves) = own \cup {LeafId(t, nodes, leaves, i) : i \in DOMAIN Expansion[t]}
  BY DEF Recorded
<1> QED
  BY <1>6, <1>7, <1>8

(* A declaration keeps all that is said of the ids bound so far.          *)
LEMMA CountedByDeclare ==
  ASSUME Typed, Numbered, KnownAgrees, Counted, Typed', NEW t \in Declared,
         NEW alias \in Ids \cup {NoAlias, Invalid}, NEW leaves \in Leaves[t],
         DeclareVar(t, alias, leaves)
  PROVE  Counted'
<1>1. t \in Types /\ leaves \in Seq(Ids \cup {Invalid})
  BY BuilderAssumption DEF BuilderAssumption
<1>2. PICK nodes \in Seq(Node) : nodes = NodesOf[t]
  BY <1>1, NodesOfType
<1>3. PICK next : /\ AddedFits(t, nodes, alias, leaves, next) /\ Bindings' = Bindings \o next
  BY <1>2, AddedByDeclare
<1>4. PICK c \in Nat, own \in {0, 1}, last \in Int :
        /\ c = Count /\ own = OwnStreams(t) /\ last = LastNew(t, nodes, leaves)
        /\ last >= c + own - 1 /\ DOMAIN streams = 0 .. c - 1
  BY <1>1, NumberedCount, NewIds
<1>5. DOMAIN streams' = 0 .. last
  <2>1. DOMAIN Allocated(t, nodes, leaves) = c .. last
    BY <1>1, <1>4, AllocatedAre
  <2>2. streams' = Extended(streams, Allocated(t, nodes, leaves))
    BY <1>2 DEF DeclareVar, SinkDeclares
  <2>3. DOMAIN streams' = (0 .. c - 1) \cup (c .. last)
    BY <1>4, <2>1, <2>2 DEF Extended
  <2> QED
    BY <1>4, <2>3
<1>6. Bindings' \in Seq(Id)
  <2>1. Bindings \in Seq(Id) /\ next \in Seq(Id)
    BY <1>3 DEF Counted, AddedFits
  <2> QED
    BY <1>3, <2>1, ConcatProperties
<1> DEFINE new == NewlyBound(t, nodes, alias, leaves)
<1>7. BoundIds' = BoundIds \cup new
  <2>1. ToSet(Bindings') = ToSet(Bindings \o next)
    BY <1>3
  <2>2. BoundIds' = ToSet(Bindings') \ {Invalid}
    BY DEF BoundIds
  <2> QED
    BY <1>1, <1>3, <2>1, <2>2, BoundByDeclare
<1>8. new = (c + own .. last) \cup (IF own = 1 /\ alias = NoAlias THEN {c} ELSE {})
  BY <1>4 DEF NewlyBound
<1>9. BoundIds \subseteq 0 .. c - 1
  BY <1>4 DEF Counted
<1>10. BoundIds' \subseteq DOMAIN streams'
  <2>1. new \subseteq 0 .. last
    BY <1>4, <1>8
  <2>2. 0 .. c - 1 \subseteq 0 .. last
    BY <1>4
  <2> QED
    BY <1>5, <1>7, <1>9, <2>1, <2>2
<1>11. DOMAIN known' \subseteq BoundIds'
  <2>1. DOMAIN known \subseteq BoundIds'
    BY <1>7 DEF Counted
  <2>2. CASE ~ Expected(t, leaves)
    BY <2>1, <2>2 DEF DeclareVar
  <2>3. CASE Expected(t, leaves)
    <3>1. known' = Extended(known, Recorded(t, nodes, alias, leaves))
      BY <1>2, <2>3 DEF DeclareVar
    <3>2. DOMAIN known' = DOMAIN known \cup DOMAIN Recorded(t, nodes, alias, leaves)
      BY <3>1 DEF Extended
    <3>3. DOMAIN Recorded(t, nodes, alias, leaves) \subseteq ToSet(next)
      BY <1>1, <1>2, <1>3, KnownIsBound
    <3>4. ToSet(next) \subseteq ToSet(Bindings')
      <4>1. PICK ids \in Seq(Id), more \in Seq(Id) : ids = Bindings /\ more = next
        BY <1>3 DEF Counted, AddedFits
      <4>2. PICK m \in Nat, n \in Nat : /\ m = Len(ids) /\ n = Len(more) /\ DOMAIN more = 1 .. n
        BY LenProperties
      <4>3. Len(ids \o more) = m + n /\ ids \o more \in Seq(Id)
        BY <4>2, ConcatProperties
      <4>4. DOMAIN (ids \o more) = 1 .. m + n
        BY <4>3, LenProperties
      <4>5. ASSUME NEW k \in 1 .. n
            PROVE  more[k] \in ToSet(ids \o more)
        <5>1. (ids \o more)[m + k] = more[k] /\ m + k \in 1 .. m + n
          BY <4>2
        <5> QED
          BY <4>4, <5>1 DEF ToSet
      <4> QED
        BY <1>3, <4>1, <4>2, <4>5 DEF ToSet
    <3>5. Invalid \notin DOMAIN known'
      <4>1. KnownAgrees'
        BY KnownByDeclare
      <4>2. DOMAIN known' \subseteq DOMAIN streams'
        BY <4>1 DEF KnownAgrees
      <4>3. Invalid \notin Nat
        BY BuilderAssumption DEF BuilderAssumption
      <4> QED
        BY <1>5, <4>2, <4>3
    <3>6. DOMAIN Recorded(t, nodes, alias, leaves) \subseteq BoundIds'
      BY <3>2, <3>3, <3>4, <3>5 DEF BoundIds
    <3> QED
      BY <2>1, <3>2, <3>6
  <2> QED
    BY <2>2, <2>3
<1>12. Walks(Bindings')
  BY <1>1, <1>3, WalkByDeclare
<1>13. PICK m \in Nat : m = Len(variables) /\ DOMAIN variables = 1 .. m
  BY LenProperties DEF Typed
<1>14. /\ DOMAIN variables' = 1 .. m + 1
       /\ variables'[m + 1].aliased = (alias # NoAlias) /\ variables'[m + 1].type = t
       /\ \A i \in 1 .. m : variables'[i] = variables[i]
  <2> DEFINE v == [scope |-> Last(stack), type |-> t, aliased |-> alias # NoAlias,
                   stream |-> IF alias = NoAlias THEN OwnStream(t) ELSE alias,
                   below |-> [k \in DOMAIN nodes |-> Bound(t, nodes, leaves, k)]]
  <2>1. variables' = Append(variables, v)
    BY <1>2 DEF DeclareVar, SinkDeclares
  <2>2. v.aliased = (alias # NoAlias) /\ v.type = t
    OBVIOUS
  <2> HIDE DEF v
  <2>3. Len(variables') = m + 1 /\ variables'[m + 1] = v /\ \A i \in 1 .. m : variables'[i] = variables[i]
    BY <1>13, <2>1 DEF Typed
  <2>4. DOMAIN variables' = 1 .. m + 1
    <3>1. variables' \in Seq(Variable)
      BY DEF Typed
    <3> QED
      BY <2>3, <3>1, LenProperties
  <2> QED
    BY <2>2, <2>3, <2>4
<1> DEFINE unused == DOMAIN streams \ ToSet(Bindings)
           wasted == IF own = 1 /\ alias # NoAlias THEN {c} ELSE {}
           shared == IF own = 1 /\ alias # NoAlias THEN {m + 1} ELSE {}
<1>15. (DOMAIN streams \ ToSet(Bindings))' = unused \cup wasted
  <2>1. Invalid \notin Nat
    BY BuilderAssumption DEF BuilderAssumption
  <2>2. \A id \in Nat : id \in ToSet(Bindings) <=> id \in BoundIds
    BY <2>1 DEF BoundIds
  <2>3. \A id \in Nat : id \in ToSet(Bindings') <=> id \in BoundIds'
    BY <2>1 DEF BoundIds
  <2>4. \A id : id \in unused <=> id \in 0 .. c - 1 /\ id \notin BoundIds
    BY <1>4, <2>2
  <2>5. \A id : id \in (DOMAIN streams \ ToSet(Bindings))' <=> id \in 0 .. last /\ id \notin BoundIds'
    BY <1>5, <2>3
  <2>6. \A id \in Int : id \in 0 .. last <=> id \in 0 .. c - 1 \/ (own = 1 /\ id = c) \/ id \in c + own .. last
    BY <1>4
  <2>7. \A id \in Int : id \in new <=> id \in c + own .. last \/ (own = 1 /\ alias = NoAlias /\ id = c)
    BY <1>8
  <2>8. \A id \in 0 .. c - 1 : id \notin c + own .. last /\ id # c
    BY <1>4
  <2>9. \A id : id \in wasted <=> own = 1 /\ alias # NoAlias /\ id = c
    OBVIOUS
  <2>10. (c \notin BoundIds /\ c \in 0 .. last) \/ own = 0
    BY <1>4, <1>9
  <2>11. own = 1 => c \notin c + own .. last
    BY <1>4
  <2>12. c \notin BoundIds
    BY <1>9
  <2> HIDE DEF new, unused, wasted
  <2> QED
    BY <1>7, <2>4, <2>5, <2>6, <2>7, <2>8, <2>9, <2>10, <2>11, <2>12
<1>16. Aliases' = Aliases \cup shared
  <2>1. SingleStream(t) <=> own = 1
    BY <1>4 DEF OwnStreams
  <2>2. \A i : i \in Aliases <=> i \in 1 .. m /\ variables[i].aliased /\ SingleStream(variables[i].type)
    BY <1>13 DEF Aliases
  <2>3. \A i : i \in Aliases' <=> i \in 1 .. m + 1 /\ variables'[i].aliased /\ SingleStream(variables'[i].type)
    BY <1>14 DEF Aliases
  <2>4. \A i : i \in 1 .. m + 1 <=> i \in 1 .. m \/ i = m + 1
    OBVIOUS
  <2>5. m + 1 \notin 1 .. m
    OBVIOUS
  <2>6. \A i : i \in shared <=> own = 1 /\ alias # NoAlias /\ i = m + 1
    OBVIOUS
  <2> HIDE DEF shared
  <2>7. ASSUME NEW i
        PROVE  i \in Aliases' <=> i \in Aliases \cup shared
    BY <1>14, <2>1, <2>2, <2>3, <2>4, <2>5, <2>6
  <2> QED
    BY <2>7
<1>17. IsFiniteSet(unused) /\ IsFiniteSet(Aliases)
  <2>1. IsFiniteSet(0 .. c - 1) /\ IsFiniteSet(1 .. m)
    BY FS_Interval
  <2>2. unused \subseteq 0 .. c - 1 /\ Aliases \subseteq 1 .. m
    BY <1>4, <1>13 DEF Aliases
  <2> HIDE DEF unused
  <2> QED
    BY <2>1, <2>2, FS_Subset
<1>18. c \notin unused /\ m + 1 \notin Aliases
  BY <1>4, <1>13 DEF Aliases
<1>19. Cardinality(unused) = Cardinality(Aliases)
  BY DEF Counted, OnlyAliasesWaste
<1>20. Cardinality(unused \cup wasted) = Cardinality(Aliases \cup shared)
  <2>1. CASE own = 1 /\ alias # NoAlias
    <3>1. wasted = {c} /\ shared = {m + 1}
      BY <2>1
    <3> HIDE DEF unused, wasted, shared
    <3>2. Cardinality(unused \cup {c}) = Cardinality(unused) + 1
      BY <1>17, <1>18, FS_AddElement
    <3>3. Cardinality(Aliases \cup {m + 1}) = Cardinality(Aliases) + 1
      BY <1>17, <1>18, FS_AddElement
    <3> QED
      BY <1>19, <3>1, <3>2, <3>3
  <2>2. CASE ~ (own = 1 /\ alias # NoAlias)
    <3>1. wasted = {} /\ shared = {}
      BY <2>2
    <3> HIDE DEF unused, wasted, shared
    <3> QED
      BY <1>19, <3>1
  <2> QED
    BY <2>1, <2>2
<1>21. OnlyAliasesWaste'
  BY <1>15, <1>16, <1>20 DEF OnlyAliasesWaste
<1> QED
  BY <1>6, <1>10, <1>11, <1>12, <1>21 DEF Counted
----------------------------------------------------------------------------
(* Along the declarations, and in each along its nodes, the stream that is  *)
(* met for the first time has a higher id than all before, and the ids that *)
(* are nowhere bound are those of the variables with an alias, whatever is  *)
(* given in alias and leaves: a reader can count the streams along with the *)
(* builder instead of being told their ids.                                 *)
THEOREM IdsCorrect == Spec => []IdsPredictable
<1>1. Init => Typed /\ Counted
  <2> SUFFICES ASSUME Init PROVE Typed /\ Counted
    OBVIOUS
  <2>1. /\ streams = <<>> /\ variables = <<>> /\ known = <<>> /\ stored = <<>> /\ timeSet = FALSE
        /\ finished = FALSE /\ headerDone = FALSE /\ taken = FALSE
    BY DEF Init
  <2>2. DOMAIN streams = {} /\ DOMAIN known = {} /\ variables \in Seq(Variable) /\ stored \in Seq(Change)
    BY <2>1
  <2>3. Typed
    BY <2>1, <2>2 DEF Typed
  <2>4. Bindings = <<>>
    BY <2>1 DEF Bindings, FlattenSeq
  <2>5. Aliases = {}
    BY <2>1 DEF Aliases
  <2>6. Walks(Bindings) /\ Bindings \in Seq(Id)
    BY <2>4 DEF Walks
  <2>7. ToSet(Bindings) = {}
    BY <2>4 DEF ToSet
  <2> QED
    BY <2>2, <2>3, <2>5, <2>6, <2>7 DEF Counted, BoundIds, OnlyAliasesWaste
<1>2. Typed /\ Numbered /\ KnownAgrees /\ Nested /\ [Next]_vars => Typed'
  BY TypedByDeclare, TypedByValueChange, TypedByOthers
<1>3. Numbered /\ KnownAgrees /\ [Next]_vars => Numbered' /\ KnownAgrees'
  BY KnownByStep
<1>4. Nested /\ [Next]_vars => Nested'
  BY NestedByBegin, NestedByEnd, NestedByOthers
<1>5. Typed /\ Numbered /\ KnownAgrees /\ Counted /\ [Next]_vars /\ Typed' => Counted'
  <2> SUFFICES ASSUME Typed, Numbered, KnownAgrees, Counted, [Next]_vars, Typed' PROVE Counted'
    OBVIOUS
  <2>1. CASE \E t \in Declared, alias \in Ids \cup {NoAlias, Invalid} :
               \E leaves \in Leaves[t] : DeclareVar(t, alias, leaves)
    BY <2>1, CountedByDeclare
  <2>2. CASE UNCHANGED <<streams, known, variables>>
    <3>1. Bindings' = Bindings /\ Aliases' = Aliases
      BY <2>2 DEF Bindings, Aliases
    <3> QED
      BY <2>2, <3>1 DEF Counted, BoundIds, OnlyAliasesWaste
  <2>3. BeginScope \/ EndScope \/ HeaderDone \/ ValueCalls \/ UNCHANGED vars
          => UNCHANGED <<streams, known, variables>>
    BY DEF BeginScope, EndScope, HeaderDone, ValueCalls, SetTime, ValueChange, Finish, TakeDatabase,
           vars, headerVars, checkerVars
  <2> QED
    BY <2>1, <2>2, <2>3 DEF Next, HeaderCalls
<1>6. Counted => IdsPredictable
  BY WalksFollow DEF Counted, IdsPredictable
<1> QED
  BY KnownInit, NestedInit, <1>1, <1>2, <1>3, <1>4, <1>5, <1>6, PTL DEF Spec
----------------------------------------------------------------------------
(* The members of two lists that are glued are those of both.               *)
LEMMA MembersOfConcat ==
  ASSUME NEW S, NEW a \in Seq(S), NEW b \in Seq(S)
  PROVE  ToSet(a \o b) = ToSet(a) \cup ToSet(b)
<1>1. PICK m \in Nat, n \in Nat : m = Len(a) /\ n = Len(b)
  BY LenProperties
<1>2. PICK all \in Seq(S) : all = a \o b
  BY ConcatProperties
<1>3. /\ DOMAIN a = 1 .. m /\ DOMAIN b = 1 .. n /\ DOMAIN all = 1 .. m + n
      /\ \A i \in 1 .. m + n : all[i] = IF i <= m THEN a[i] ELSE b[i - m]
  BY <1>1, <1>2, ConcatProperties, LenProperties
<1>4. ASSUME NEW i \in 1 .. m + n
      PROVE  all[i] \in ToSet(a) \cup ToSet(b)
  <2>1. CASE i <= m
    <3>1. i \in DOMAIN a /\ all[i] = a[i]
      BY <1>3, <2>1
    <3> QED
      BY <3>1 DEF ToSet
  <2>2. CASE ~ (i <= m)
    <3>1. i - m \in DOMAIN b /\ all[i] = b[i - m]
      BY <1>3, <2>2
    <3> QED
      BY <3>1 DEF ToSet
  <2> QED
    BY <2>1, <2>2
<1>5. ASSUME NEW i \in 1 .. m
      PROVE  a[i] \in ToSet(all)
  <2>1. i \in DOMAIN all /\ all[i] = a[i]
    BY <1>3
  <2> QED
    BY <2>1 DEF ToSet
<1>6. ASSUME NEW i \in 1 .. n
      PROVE  b[i] \in ToSet(all)
  <2>1. m + i \in DOMAIN all /\ all[m + i] = b[i]
    BY <1>3
  <2> QED
    BY <2>1 DEF ToSet
<1>7. ToSet(all) \subseteq ToSet(a) \cup ToSet(b)
  BY <1>3, <1>4, Zenon DEF ToSet
<1>8. ToSet(a) \subseteq ToSet(all)
  BY <1>3, <1>5, Zenon DEF ToSet
<1>9. ToSet(b) \subseteq ToSet(all)
  BY <1>3, <1>6, Zenon DEF ToSet
<1> QED
  BY <1>2, <1>7, <1>8, <1>9

(* The members of a list of lists that are glued are those of all.          *)
LEMMA MembersOfFlatten ==
  ASSUME NEW S, NEW m \in Nat, NEW pieces \in [1 .. m -> Seq(S)]
  PROVE  ToSet(FlattenSeq(pieces)) = UNION {ToSet(pieces[i]) : i \in 1 .. m}
<1>1. PICK g \in [0 .. m -> Seq(S)] :
        /\ g[0] = <<>>
        /\ \A i \in 1 .. m : g[i] = g[i - 1] \o pieces[i]
        /\ FlattenSeq(pieces) = g[m]
  BY FlattenSteps
<1> DEFINE T == {i \in 0 .. m : ToSet(g[i]) = UNION {ToSet(pieces[j]) : j \in 1 .. i}}
<1>2. 0 \in T
  <2>1. ToSet(g[0]) = {}
    BY <1>1 DEF ToSet
  <2>2. UNION {ToSet(pieces[j]) : j \in 1 .. 0} = {}
    OBVIOUS
  <2> QED
    BY <2>1, <2>2
<1>3. ASSUME NEW i \in T, i < m
      PROVE  i + 1 \in T
  <2>1. i \in 0 .. m /\ i + 1 \in 1 .. m /\ i + 1 \in 0 .. m
    BY <1>3
  <2>2. g[i + 1] = g[i] \o pieces[i + 1] /\ g[i] \in Seq(S) /\ pieces[i + 1] \in Seq(S)
    <3>1. PICK j \in 1 .. m : j = i + 1 /\ j - 1 = i
      BY <2>1
    <3>2. g[j] = g[j - 1] \o pieces[j]
      BY <1>1
    <3>3. g[i] \in Seq(S) /\ pieces[j] \in Seq(S)
      BY <2>1
    <3> QED
      BY <3>1, <3>2, <3>3, Zenon
  <2>3. ToSet(g[i + 1]) = ToSet(g[i]) \cup ToSet(pieces[i + 1])
    BY <2>2, MembersOfConcat
  <2>4. 1 .. i + 1 = (1 .. i) \cup {i + 1}
    BY <2>1
  <2>5. UNION {ToSet(pieces[j]) : j \in (1 .. i) \cup {i + 1}}
          = (UNION {ToSet(pieces[j]) : j \in 1 .. i}) \cup ToSet(pieces[i + 1])
    BY Zenon
  <2>6. ToSet(g[i]) = UNION {ToSet(pieces[j]) : j \in 1 .. i}
    BY <1>3
  <2>7. ToSet(g[i + 1]) = UNION {ToSet(pieces[j]) : j \in 1 .. i + 1}
    BY <2>3, <2>4, <2>5, <2>6, Zenon
  <2> QED
    BY <2>1, <2>7
<1>4. T = 0 .. m
  <2>1. T \in SUBSET (0 .. m)
    OBVIOUS
  <2> HIDE DEF T
  <2> QED
    BY <1>2, <1>3, <2>1, UptoInduction
<1>5. m \in T
  BY <1>4
<1> QED
  BY <1>1, <1>5

(* The nodes below a place, without their order.                            *)
NodeSet(t, base, below) == ToSet(NodesBelow[<<t, base, below>>])
Moved(k, node) == [node EXCEPT !.path = <<k>> \o @]

(* Hanging nodes under a parent moves each.                                 *)
LEMMA MembersOfUnder ==
  ASSUME NEW k, NEW nodes
  PROVE  ToSet(Under(k, nodes)) = {Moved(k, node) : node \in ToSet(nodes)}
<1>1. DOMAIN Under(k, nodes) = DOMAIN nodes /\ \A j \in DOMAIN nodes : Under(k, nodes)[j] = Moved(k, nodes[j])
  BY DEF Under, Moved
<1> QED
  BY <1>1, Zenon DEF ToSet

(* A place has the nodes of its parts, and below each those of its place.   *)
LEMMA NodeSetIs ==
  ASSUME NEW t \in Types, NEW base \in Offset, NEW below \in BOOLEAN
  PROVE  /\ NodeSet(t, base, below) \subseteq Node
         /\ \A node : node \in NodeSet(t, base, below) <=>
              \E k \in DOMAIN Children(t) :
                \/ node = PartNode(t, base, below, k)
                \/ \E m \in ToSet(NodesBelow[DeeperPlace(t, base, below, k)]) : node = Moved(k, m)
<1>1. PICK n \in Nat : \E pieces \in [1 .. n -> Seq(Node)] :
        /\ DOMAIN Children(t) = 1 .. n
        /\ \A k \in 1 .. n : pieces[k] = Subtree(NodesBelow, t, base, below, k)
        /\ NodesBelow[<<t, base, below>>] = FlattenSeq(pieces)
  BY NodesGlued
<1>2. PICK pieces \in [1 .. n -> Seq(Node)] :
        /\ DOMAIN Children(t) = 1 .. n
        /\ \A k \in 1 .. n : pieces[k] = Subtree(NodesBelow, t, base, below, k)
        /\ NodesBelow[<<t, base, below>>] = FlattenSeq(pieces)
  BY <1>1
<1>3. NodeSet(t, base, below) = UNION {ToSet(pieces[k]) : k \in 1 .. n}
  BY <1>2, MembersOfFlatten DEF NodeSet
<1>4. ASSUME NEW k \in 1 .. n
      PROVE  /\ ToSet(pieces[k]) = {PartNode(t, base, below, k)} \cup
                  {Moved(k, m) : m \in ToSet(NodesBelow[DeeperPlace(t, base, below, k)])}
             /\ ToSet(pieces[k]) \subseteq Node
  <2> DEFINE part == PartNode(t, base, below, k)
             nodes == NodesBelow[DeeperPlace(t, base, below, k)]
  <2>1. /\ k \in Nat /\ part \in Node /\ nodes \in Seq(Node)
        /\ pieces[k] = <<part>> \o Under(k, nodes)
    <3>1. k \in DOMAIN Children(t) /\ pieces[k] = Subtree(NodesBelow, t, base, below, k)
      BY <1>2
    <3>2. k \in Nat /\ part \in Node
      BY <3>1, SubtreeMade
    <3>3. nodes \in Seq(Node)
      BY <3>1, SubtreeMade
    <3>4. Subtree(NodesBelow, t, base, below, k) = <<part>> \o Under(k, nodes)
      BY <3>1, SubtreeMade
    <3> QED
      BY <3>1, <3>2, <3>3, <3>4
  <2> HIDE DEF part, nodes
  <2>2. <<part>> \in Seq(Node) /\ ToSet(<<part>>) = {part}
    BY <2>1 DEF ToSet
  <2>3. Under(k, nodes) \in Seq(Node)
    BY <2>1, UnderKeeps
  <2>4. ToSet(pieces[k]) = {part} \cup {Moved(k, m) : m \in ToSet(nodes)}
    <3>1. PICK a \in Seq(Node), b \in Seq(Node) : a = <<part>> /\ b = Under(k, nodes)
      BY <2>2, <2>3
    <3>2. ToSet(a \o b) = ToSet(a) \cup ToSet(b)
      BY MembersOfConcat
    <3>3. ToSet(<<part>> \o Under(k, nodes)) = ToSet(<<part>>) \cup ToSet(Under(k, nodes))
      BY <3>1, <3>2
    <3>4. ToSet(Under(k, nodes)) = {Moved(k, m) : m \in ToSet(nodes)}
      BY MembersOfUnder
    <3> QED
      BY <2>1, <2>2, <3>3, <3>4, Zenon
  <2>5. ToSet(pieces[k]) \subseteq Node
    BY ElementOfSeq, LenProperties DEF ToSet
  <2> QED
    BY <2>4, <2>5 DEF part, nodes
<1>5. ASSUME NEW node
      PROVE  node \in NodeSet(t, base, below) <=>
               \E k \in 1 .. n : \/ node = PartNode(t, base, below, k)
                                 \/ \E m \in ToSet(NodesBelow[DeeperPlace(t, base, below, k)]) : node = Moved(k, m)
  BY <1>3, <1>4, Zenon
<1>6. NodeSet(t, base, below) \subseteq Node
  BY <1>3, <1>4, Zenon
<1> QED
  BY <1>2, <1>5, <1>6, Zenon

(* The members of Node, and of what is moved.                               *)
LEMMA MovedKeeps ==
  ASSUME NEW k \in Nat, NEW node \in Node
  PROVE  /\ Moved(k, node).type = node.type /\ Moved(k, node).slice = node.slice
         /\ Moved(k, node).binds = node.binds /\ Moved(k, node).path = <<k>> \o node.path
         /\ Moved(k, node) \in Node
<1>1. <<k>> \o node.path \in Seq(Nat)
  <2>1. <<k>> \in Seq(Nat) /\ node.path \in Seq(Nat)
    BY DEF Node
  <2> QED
    BY <2>1, ConcatProperties
<1> QED
  BY <1>1 DEF Moved, Node

(* Nodes that have moved to one path were at one path before.               *)
LEMMA MovedFromOne ==
  ASSUME NEW k \in Nat, NEW j \in Nat, NEW p \in Seq(Nat), NEW q \in Seq(Nat), <<k>> \o p = <<j>> \o q
  PROVE  p = q
<1>1. PICK m \in Nat, n \in Nat : m = Len(p) /\ n = Len(q)
  BY LenProperties
<1>2. /\ Len(<<k>> \o p) = m + 1 /\ (<<k>> \o p)[1] = k /\ \A i \in 1 .. m : (<<k>> \o p)[i + 1] = p[i]
      /\ Len(<<j>> \o q) = n + 1 /\ (<<j>> \o q)[1] = j /\ \A i \in 1 .. n : (<<j>> \o q)[i + 1] = q[i]
  BY <1>1
<1>3. PICK s : s = <<k>> \o p /\ s = <<j>> \o q
  OBVIOUS
<1>4. /\ Len(s) = m + 1 /\ s[1] = k /\ \A i \in 1 .. m : s[i + 1] = p[i]
      /\ Len(s) = n + 1 /\ s[1] = j /\ \A i \in 1 .. n : s[i + 1] = q[i]
  BY <1>2, <1>3
<1>5. k = j /\ m = n
  BY <1>4
<1>6. \A i \in 1 .. m : p[i] = q[i]
  BY <1>4, <1>5
<1> QED
  BY <1>1, <1>5, <1>6, SeqEqual

(* And under one parent.                                                    *)
LEMMA MovedUnderOne ==
  ASSUME NEW k \in Nat, NEW j \in Nat, NEW p \in Seq(Nat), NEW q \in Seq(Nat), <<k>> \o p = <<j>> \o q
  PROVE  k = j
<1>1. (<<k>> \o p)[1] = k /\ (<<j>> \o q)[1] = j
  OBVIOUS
<1> QED
  BY <1>1

(* What lies under a parent is told apart from it, and by its path.         *)
LEMMA PathsUnder ==
  ASSUME NEW k \in Nat, NEW j \in Nat, NEW p \in Seq(Nat)
  PROVE  /\ <<k>> \o p = <<j>> => k = j /\ p = <<>>
         /\ <<k>> \o p # <<>>
         /\ <<k>> \o Append(p, j) = Append(<<k>> \o p, j)
         /\ <<k>> \o Append(<<>>, j) = Append(<<k>>, j)
<1>1. PICK m \in Nat : m = Len(p)
  BY LenProperties
<1>2. Len(<<k>> \o p) = m + 1 /\ (<<k>> \o p)[1] = k
  BY <1>1
<1>3. ASSUME <<k>> \o p = <<j>>
      PROVE  k = j /\ p = <<>>
  <2>1. Len(<<j>>) = 1 /\ <<j>>[1] = j
    OBVIOUS
  <2>2. Len(<<k>> \o p) = Len(<<j>>) /\ (<<k>> \o p)[1] = <<j>>[1]
    BY <1>3
  <2>3. m + 1 = 1 /\ k = j
    BY <1>2, <2>1, <2>2, Zenon
  <2>4. m = 0 /\ k = j
    BY <2>3
  <2> QED
    BY <1>1, <2>4, EmptySeq
<1>4. <<k>> \o p # <<>>
  BY <1>2
<1>5. <<k>> \o Append(p, j) = Append(<<k>> \o p, j)
  OBVIOUS
<1>6. <<k>> \o Append(<<>>, j) = Append(<<k>>, j)
  OBVIOUS
<1> QED
  BY <1>3, <1>4, <1>5, <1>6

(* What a node is made of: the part of the type above it, whose node has the*)
(* path prefix and begins at bit base of the stream.                        *)
ChildOf(node, t, base, prefix, k) ==
  /\ k \in DOMAIN Children(t)
  /\ node.path = Append(prefix, k) /\ node.type = Children(t)[k].type
  /\ node.slice = IF Descriptor[t].packed
                  THEN [offset |-> OffsetIn(base, TRUE, Children(t)[k]), width |-> BitWidth[node.type]]
                  ELSE NoSlice
  /\ node.binds = NoBinding <=> Descriptor[t].packed \/ ~SingleStream(node.type)

BaseOf(node) == IF node.slice = NoSlice THEN 0 ELSE node.slice.offset

Hung(node, t, base, nodes) ==
  \/ \E k \in DOMAIN Children(t) : ChildOf(node, t, base, <<>>, k)
  \/ \E m \in nodes : \E k \in DOMAIN Children(m.type) : ChildOf(node, m.type, BaseOf(m), m.path, k)

(* The nodes of a place form a tree: each has a path of its own, and hangs  *)
(* at the place or at another of them.                                      *)
Tree(t, base, below) ==
  /\ \A node \in NodeSet(t, base, below) :
       node.path # <<>> /\ Hung(node, t, base, NodeSet(t, base, below))
  /\ \A node, m \in NodeSet(t, base, below) : node.path = m.path => node = m

(* The node of a part hangs at the place, and what is below it begins where *)
(* it does.                                                                 *)
LEMMA PartHangs ==
  ASSUME NEW t \in Types, NEW base \in Offset, NEW below \in BOOLEAN, NEW k \in DOMAIN Children(t)
  PROVE  /\ ChildOf(PartNode(t, base, below, k), t, base, <<>>, k)
         /\ PartNode(t, base, below, k).path = <<k>>
         /\ DeeperPlace(t, base, below, k) =
              <<Children(t)[k].type, BaseOf(PartNode(t, base, below, k)), Descriptor[t].packed \/ below>>
         /\ BaseOf(PartNode(t, base, below, k)) \in Offset
<1>1. PICK n \in Nat : Children(t) \in [1 .. n -> [type : Parts(t), offset : Nat]]
  BY ChildrenOf
<1>2. PICK part \in [type : Parts(t), offset : Nat] : part = Children(t)[k]
  BY <1>1
<1>3. PICK packed \in BOOLEAN : packed = Descriptor[t].packed
  BY LayoutAssumption DEF LayoutAssumption
<1>4. k \in Nat
  BY <1>1
<1>5. /\ NodeFor(k, part, base, packed, below) \in Node
      /\ OffsetIn(base, packed, part) \in Offset
      /\ part.type \in Types
  BY <1>4, NodeForType
<1>6. PICK node : node = NodeFor(k, part, base, packed, below)
  OBVIOUS
<1>7. /\ node.path = <<k>> /\ node.type = part.type
      /\ node.slice = (IF packed THEN [offset |-> OffsetIn(base, packed, part), width |-> BitWidth[part.type]]
                       ELSE NoSlice)
      /\ node.binds = BindingOf(part.type, packed, below)
  BY <1>6 DEF NodeFor
<1>8. node.binds = NoBinding <=> packed \/ ~SingleStream(part.type)
  BY <1>7 DEF BindingOf, NoBinding
<1>9. PartNode(t, base, below, k) = node
  BY <1>2, <1>3, <1>6 DEF PartNode
<1>10. BaseOf(node) = OffsetIn(base, packed, part)
  <2>1. CASE packed
    <3>1. node.slice = [offset |-> OffsetIn(base, packed, part), width |-> BitWidth[part.type]]
      BY <1>7, <2>1
    <3>2. BitWidth[part.type] \in Offset
      BY <1>5, WidthsAre DEF Offset
    <3>3. node.slice # NoSlice
      BY <1>5, <3>1, <3>2, BuilderAssumption DEF BuilderAssumption, Offset
    <3> QED
      BY <3>1, <3>3 DEF BaseOf
  <2>2. CASE ~ packed
    <3>1. node.slice = NoSlice
      BY <1>7, <2>2
    <3> QED
      BY <2>2, <3>1 DEF BaseOf, OffsetIn
  <2> QED
    BY <2>1, <2>2
<1>11. DeeperPlace(t, base, below, k) = <<part.type, OffsetIn(base, packed, part), packed \/ below>>
  BY <1>2, <1>3 DEF DeeperPlace
<1>12. Append(<<>>, k) = <<k>>
  OBVIOUS
<1>13. node.slice = IF packed THEN [offset |-> OffsetIn(base, TRUE, part), width |-> BitWidth[node.type]]
                   ELSE NoSlice
  BY <1>7
<1>14. ChildOf(node, t, base, <<>>, k)
  BY <1>2, <1>3, <1>7, <1>8, <1>12, <1>13, Zenon DEF ChildOf
<1> QED
  BY <1>2, <1>3, <1>5, <1>7, <1>9, <1>10, <1>11, <1>14, Zenon

(* A child that is moved with its parent stays its child.                   *)
LEMMA ChildMoves ==
  ASSUME NEW t \in Types, NEW base, NEW prefix \in Seq(Nat), NEW j \in DOMAIN Children(t), NEW k \in Nat,
         NEW node \in Node, ChildOf(node, t, base, prefix, j)
  PROVE  ChildOf(Moved(k, node), t, base, <<k>> \o prefix, j)
<1>1. j \in Nat
  BY ChildrenOf
<1>2. <<k>> \o Append(prefix, j) = Append(<<k>> \o prefix, j)
  BY <1>1, PathsUnder
<1>3. PICK moved : moved = Moved(k, node)
  OBVIOUS
<1>4. /\ moved.type = node.type /\ moved.slice = node.slice /\ moved.binds = node.binds
      /\ moved.path = <<k>> \o node.path
  BY <1>3, MovedKeeps
<1>5. moved.path = Append(<<k>> \o prefix, j)
  BY <1>2, <1>4 DEF ChildOf
<1>6. ChildOf(moved, t, base, <<k>> \o prefix, j)
  BY <1>4, <1>5 DEF ChildOf
<1> QED
  BY <1>3, <1>6

(* What hangs below a part hangs in the whole when both are moved.          *)
LEMMA HangsMoved ==
  ASSUME NEW t \in Types, NEW base \in Offset, NEW below \in BOOLEAN, NEW k \in DOMAIN Children(t),
         NEW c \in Types, NEW b \in Offset, NEW hidden \in BOOLEAN,
         DeeperPlace(t, base, below, k) = <<c, b, hidden>>, Tree(c, b, hidden),
         NEW m \in NodeSet(c, b, hidden)
  PROVE  Hung(Moved(k, m), t, base, NodeSet(t, base, below))
<1> DEFINE S == NodeSet(t, base, below)
           D == NodeSet(c, b, hidden)
           part == PartNode(t, base, below, k)
<1>1. k \in Nat /\ part \in Node /\ part.type = Children(t)[k].type
  BY SubtreeMade
<1>2. part.path = <<k>> /\ part.type = c /\ BaseOf(part) = b
  BY <1>1, PartHangs
<1>3. part \in S /\ \A x \in D : Moved(k, x) \in S
  BY NodeSetIs DEF NodeSet
<1>4. D \subseteq Node /\ m \in Node
  BY NodeSetIs
<1>5. Hung(m, c, b, D)
  BY DEF Tree
<1>6. CASE \E j \in DOMAIN Children(c) : ChildOf(m, c, b, <<>>, j)
  <2>1. PICK j \in DOMAIN Children(c) : ChildOf(m, c, b, <<>>, j)
    BY <1>6
  <2>2. <<>> \in Seq(Nat) /\ <<k>> \o <<>> = <<k>>
    OBVIOUS
  <2>3. ChildOf(Moved(k, m), c, b, <<k>> \o <<>>, j)
    BY <1>1, <1>4, <2>1, <2>2, ChildMoves
  <2>4. ChildOf(Moved(k, m), part.type, BaseOf(part), part.path, j)
    BY <1>2, <2>2, <2>3
  <2>5. j \in DOMAIN Children(part.type)
    BY <1>2, <2>1
  <2> QED
    BY <1>3, <2>4, <2>5, Zenon DEF Hung
<1>7. CASE \E x \in D : \E j \in DOMAIN Children(x.type) : ChildOf(m, x.type, BaseOf(x), x.path, j)
  <2>1. PICK x \in D : \E j \in DOMAIN Children(x.type) : ChildOf(m, x.type, BaseOf(x), x.path, j)
    BY <1>7
  <2>2. PICK j \in DOMAIN Children(x.type) : ChildOf(m, x.type, BaseOf(x), x.path, j)
    BY <2>1
  <2>3. x \in Node /\ x.type \in Types /\ x.path \in Seq(Nat)
    BY <1>4 DEF Node
  <2>4. ChildOf(Moved(k, m), x.type, BaseOf(x), <<k>> \o x.path, j)
    BY <1>1, <1>4, <2>2, <2>3, ChildMoves
  <2>5. PICK y \in S : y = Moved(k, x)
    BY <1>3
  <2>6. y.type = x.type /\ y.slice = x.slice /\ y.path = <<k>> \o x.path
    BY <1>1, <2>3, <2>5, MovedKeeps
  <2>7. BaseOf(y) = BaseOf(x)
    BY <2>6 DEF BaseOf
  <2>8. ChildOf(Moved(k, m), y.type, BaseOf(y), y.path, j) /\ j \in DOMAIN Children(y.type)
    BY <2>2, <2>4, <2>6, <2>7
  <2> QED
    BY <2>5, <2>8, Zenon DEF Hung
<1> QED
  BY <1>5, <1>6, <1>7 DEF Hung

(* The walk over a type adds its nodes to the hierarchy as a tree.          *)
LEMMA TreeBelow ==
  ASSUME NEW t \in Types, NEW base \in Offset, NEW below \in BOOLEAN,
         \A k \in DOMAIN Children(t) : \E c \in Types, b \in Offset, hidden \in BOOLEAN :
           DeeperPlace(t, base, below, k) = <<c, b, hidden>> /\ Tree(c, b, hidden)
  PROVE  Tree(t, base, below)
<1> DEFINE S == NodeSet(t, base, below)
           D(k) == ToSet(NodesBelow[DeeperPlace(t, base, below, k)])
<1>1. \A node : node \in S <=> \E k \in DOMAIN Children(t) :
        node = PartNode(t, base, below, k) \/ \E m \in D(k) : node = Moved(k, m)
  BY NodeSetIs
<1>2. ASSUME NEW k \in DOMAIN Children(t)
      PROVE  /\ k \in Nat /\ PartNode(t, base, below, k).path = <<k>>
             /\ Hung(PartNode(t, base, below, k), t, base, S)
             /\ D(k) \subseteq Node
             /\ \A m \in D(k) : m.path # <<>> /\ Hung(Moved(k, m), t, base, S)
             /\ \A x, y \in D(k) : x.path = y.path => x = y
  <2>1. PICK c \in Types, b \in Offset, hidden \in BOOLEAN :
          DeeperPlace(t, base, below, k) = <<c, b, hidden>> /\ Tree(c, b, hidden)
    OBVIOUS
  <2>2. D(k) = NodeSet(c, b, hidden)
    BY <2>1 DEF NodeSet
  <2>3. k \in Nat /\ PartNode(t, base, below, k).path = <<k>>
    <3>1. k \in Nat
      BY SubtreeMade
    <3>2. PartNode(t, base, below, k).path = <<k>>
      BY PartHangs
    <3> QED
      BY <3>1, <3>2
  <2>4. Hung(PartNode(t, base, below, k), t, base, S)
    BY PartHangs, Zenon DEF Hung
  <2>5. D(k) \subseteq Node
    BY <2>2, NodeSetIs
  <2> HIDE DEF D, S
  <2>6. ASSUME NEW m \in D(k)
        PROVE  m.path # <<>> /\ Hung(Moved(k, m), t, base, S)
    <3>1. m \in NodeSet(c, b, hidden)
      BY <2>2
    <3>2. m.path # <<>>
      BY <2>1, <3>1 DEF Tree
    <3>3. Hung(Moved(k, m), t, base, NodeSet(t, base, below))
      BY <2>1, <3>1, HangsMoved
    <3> QED
      BY <3>2, <3>3 DEF S
  <2>7. \A x, y \in D(k) : x.path = y.path => x = y
    BY <2>1, <2>2 DEF Tree
  <2> QED
    BY <2>3, <2>4, <2>5, <2>6, <2>7
<1> HIDE DEF S, D
<1>3. ASSUME NEW k \in DOMAIN Children(t), NEW m \in D(k)
      PROVE  Moved(k, m).path = <<k>> \o m.path /\ m.path \in Seq(Nat) /\ Moved(k, m).path # <<>>
  <2>1. k \in Nat /\ m \in Node /\ m.path \in Seq(Nat)
    BY <1>2 DEF Node
  <2> QED
    BY <2>1, MovedKeeps, PathsUnder
<1>4. ASSUME NEW node \in S
      PROVE  node.path # <<>> /\ Hung(node, t, base, S)
  <2>1. PICK k \in DOMAIN Children(t) : node = PartNode(t, base, below, k) \/ \E m \in D(k) : node = Moved(k, m)
    BY <1>1
  <2>2. CASE node = PartNode(t, base, below, k)
    <3>1. node.path = <<k>> /\ <<k>> # <<>>
      BY <1>2, <2>2
    <3>2. Hung(node, t, base, S)
      BY <1>2, <2>2
    <3> QED
      BY <3>1, <3>2
  <2>3. CASE \E m \in D(k) : node = Moved(k, m)
    BY <1>2, <1>3, <2>3
  <2> QED
    BY <2>1, <2>2, <2>3
<1>5. ASSUME NEW x \in S, NEW y \in S, x.path = y.path
      PROVE  x = y
  <2>1. PICK k \in DOMAIN Children(t) : x = PartNode(t, base, below, k) \/ \E m \in D(k) : x = Moved(k, m)
    BY <1>1
  <2>2. PICK j \in DOMAIN Children(t) : y = PartNode(t, base, below, j) \/ \E m \in D(j) : y = Moved(j, m)
    BY <1>1
  <2>3. j \in Nat /\ k \in Nat
    BY <1>2
  <2>4. CASE x = PartNode(t, base, below, k) /\ y = PartNode(t, base, below, j)
    <3>1. <<k>> = <<j>>
      BY <1>2, <1>5, <2>4
    <3>2. k = j
      BY <3>1
    <3> QED
      BY <2>4, <3>2
  <2>5. ASSUME x = PartNode(t, base, below, k), NEW m \in D(j), y = Moved(j, m)
        PROVE  FALSE
    <3>1. PICK p \in Seq(Nat) : p = m.path
      BY <1>3
    <3>2. <<j>> \o p = <<k>> /\ p # <<>>
      BY <1>2, <1>3, <1>5, <2>5, <3>1
    <3>3. <<j>> \o p = <<k>> => j = k /\ p = <<>>
      BY <2>3, PathsUnder
    <3> QED
      BY <3>2, <3>3
  <2>6. ASSUME y = PartNode(t, base, below, j), NEW m \in D(k), x = Moved(k, m)
        PROVE  FALSE
    <3>1. PICK p \in Seq(Nat) : p = m.path
      BY <1>3
    <3>2. <<k>> \o p = <<j>> /\ p # <<>>
      BY <1>2, <1>3, <1>5, <2>6, <3>1
    <3>3. <<k>> \o p = <<j>> => k = j /\ p = <<>>
      BY <2>3, PathsUnder
    <3> QED
      BY <3>2, <3>3
  <2>7. ASSUME NEW m \in D(k), x = Moved(k, m), NEW n \in D(j), y = Moved(j, n)
        PROVE  x = y
    <3>1. PICK p \in Seq(Nat), q \in Seq(Nat) : p = m.path /\ q = n.path
      BY <1>3
    <3>2. <<k>> \o p = <<j>> \o q
      BY <1>3, <1>5, <2>7, <3>1
    <3>3. k = j
      BY <2>3, <3>2, MovedUnderOne
    <3>4. p = q
      BY <2>3, <3>2, MovedFromOne
    <3>5. m = n
      BY <1>2, <2>7, <3>1, <3>3, <3>4
    <3> QED
      BY <2>7, <3>3, <3>5
  <2> QED
    BY <2>1, <2>2, <2>4, <2>5, <2>6, <2>7
<1> QED
  BY <1>4, <1>5 DEF Tree, S

(* So it is for every type, by induction over the types.                    *)
LEMMA NodesFormTree ==
  ASSUME NEW t \in Types, NEW base \in Offset, NEW below \in BOOLEAN
  PROVE  Tree(t, base, below)
<1> DEFINE U == {s \in Types : \E o \in Offset, hidden \in BOOLEAN : ~ Tree(s, o, hidden)}
<1>1. U = {}
  <2>1. SUFFICES ASSUME U # {} PROVE FALSE
    OBVIOUS
  <2>2. PICK s \in U : PartsBelow[s] \cap U = {}
    <3>1. U \in SUBSET Types
      OBVIOUS
    <3> HIDE DEF U
    <3> QED
      BY <2>1, <3>1, TypesGrounded DEF Grounded
  <2>3. s \in Types /\ Parts(s) \cap U = {}
    BY <2>2 DEF PartsBelow
  <2>4. PICK o \in Offset, hidden \in BOOLEAN : ~ Tree(s, o, hidden)
    BY <2>2
  <2>5. ASSUME NEW k \in DOMAIN Children(s)
        PROVE  \E c \in Types, b \in Offset, h \in BOOLEAN :
                 DeeperPlace(s, o, hidden, k) = <<c, b, h>> /\ Tree(c, b, h)
    <3>1. /\ Children(s)[k].type \in Parts(s) /\ Children(s)[k].type \in Types
          /\ Descriptor[s].packed \in BOOLEAN
          /\ \E b \in Offset :
               DeeperPlace(s, o, hidden, k) = <<Children(s)[k].type, b, Descriptor[s].packed \/ hidden>>
      <4> HIDE DEF U
      <4>1. s \in Types /\ o \in Offset /\ hidden \in BOOLEAN /\ k \in DOMAIN Children(s)
        BY <2>3
      <4> QED
        BY <4>1, SubtreeMade
    <3>2. PICK b \in Offset :
            DeeperPlace(s, o, hidden, k) = <<Children(s)[k].type, b, Descriptor[s].packed \/ hidden>>
      BY <3>1
    <3>3. Tree(Children(s)[k].type, b, Descriptor[s].packed \/ hidden)
      BY <2>3, <3>1
    <3> QED
      BY <3>1, <3>2, <3>3
  <2>6. Tree(s, o, hidden)
    BY <2>3, <2>5, TreeBelow
  <2> QED
    BY <2>4, <2>6
<1> QED
  BY <1>1
----------------------------------------------------------------------------
(* Where the parts of a packed type lie, if its layout is sound: within the *)
(* type, beside each other.                                                 *)
PartBits(part) == Bits(part.offset, BitWidth[part.type])

(* A product grows with its factor.                                         *)
LEMMA ProductGrows ==
  ASSUME NEW a \in Nat, NEW b \in Nat, NEW w \in Nat, a < b
  PROVE  a * w + w <= b * w
<1>1. PICK c \in Nat : b = a + 1 + c
  <2>1. b - a - 1 \in Nat /\ b = a + 1 + (b - a - 1)
    OBVIOUS
  <2> QED
    BY <2>1
<1>2. b * w = a * w + w + c * w
  BY <1>1
<1>3. c * w \in Nat /\ a * w \in Nat
  OBVIOUS
<1> QED
  BY <1>2, <1>3

(* Parts fit the packed type they belong to.                                *)
LEMMA PartsLaidOut ==
  ASSUME LaidOut, NEW t \in Types, Descriptor[t].packed, NEW j \in DOMAIN Children(t), NEW k \in DOMAIN Children(t)
  PROVE  /\ Children(t)[k].offset \in Nat /\ Children(t)[k].type \in Types
         /\ Children(t)[k].offset + BitWidth[Children(t)[k].type] <= BitWidth[t]
         /\ j # k => PartBits(Children(t)[j]) \cap PartBits(Children(t)[k]) = {}
<1>1. PICK d : d = Descriptor[t]
  OBVIOUS
<1>2. PICK n \in Nat : /\ Children(t) \in [1 .. n -> [type : Parts(t), offset : Nat]]
                       /\ d.kind \notin Composites => n = 0
  BY <1>1, ChildrenOf
<1>3. Children(t)[k].offset \in Nat /\ Children(t)[k].type \in Types
  BY <1>2, TypesAssumption DEF TypesAssumption
<1>4. d.kind \in Composites
  BY <1>2
<1>5. CASE d.kind \in {"STRUCT", "UNION"}
  <2>1. Children(t) = [i \in DOMAIN d.members |-> [type |-> d.members[i].type, offset |-> d.members[i].offset]]
    BY <1>1, <1>5 DEF Children, PartsOf
  <2>2. /\ j \in DOMAIN d.members /\ k \in DOMAIN d.members
        /\ Children(t)[j].type = d.members[j].type /\ Children(t)[j].offset = d.members[j].offset
        /\ Children(t)[k].type = d.members[k].type /\ Children(t)[k].offset = d.members[k].offset
    BY <2>1
  <2>3. /\ d.members[k].offset + BitWidth[d.members[k].type] <= BitWidth[t]
        /\ j # k => Bits(d.members[j].offset, BitWidth[d.members[j].type])
                      \cap Bits(d.members[k].offset, BitWidth[d.members[k].type]) = {}
    BY <1>1, <1>5, <2>2 DEF LaidOut
  <2> QED
    BY <1>3, <2>2, <2>3 DEF PartBits
<1>6. CASE d.kind = "ARRAY"
  <2>1. PICK m \in Nat : m = ElementCount(d)
    BY <1>1, <1>6, ElementsOf
  <2>2. PICK w \in Nat : w = BitWidth[d.element]
    <3>1. BitWidth[d.element] \in 0 .. U32 - 1
      BY <1>1, <1>6, ElementOf, WidthsAre
    <3> QED
      BY <3>1, TypesAssumption DEF TypesAssumption
  <2>3. Children(t) = [i \in 1 .. m |-> [type |-> d.element, offset |-> FromTheRight(d, i - 1) * w]]
    BY <1>1, <1>6, <2>1, <2>2 DEF Children, PartsOf
  <2>4. /\ j \in 1 .. m /\ k \in 1 .. m
        /\ Children(t)[j].type = d.element /\ Children(t)[j].offset = FromTheRight(d, j - 1) * w
        /\ Children(t)[k].type = d.element /\ Children(t)[k].offset = FromTheRight(d, k - 1) * w
    BY <2>3
  <2>5. PICK r \in Nat, s \in Nat : r = m - j /\ s = m - k
    <3>1. m - j \in Nat /\ m - k \in Nat
      BY <2>4
    <3> QED
      BY <3>1, Zenon
  <2>6. Children(t)[j].offset = r * w /\ Children(t)[k].offset = s * w
    <3>1. FromTheRight(d, j - 1) = r /\ FromTheRight(d, k - 1) = s
      BY <2>1, <2>4, <2>5 DEF FromTheRight
    <3> QED
      BY <2>4, <3>1
  <2>7. BitWidth[t] = m * w
    <3>1. WidthIn(BitWidth, d) = (w * m) % U32
      BY <1>1, <1>6, <2>1, <2>2 DEF WidthIn
    <3>2. w * m < U32
      BY <1>1, <1>6, <2>1, <2>2 DEF LaidOut
    <3>3. PICK all \in Nat : all = w * m /\ all = m * w
      OBVIOUS
    <3>4. all % U32 = all
      BY <3>2, <3>3, TypesAssumption DEF TypesAssumption
    <3>5. BitWidth[t] = WidthIn(BitWidth, d)
      BY <1>1, WidthsAre
    <3> QED
      BY <3>1, <3>3, <3>4, <3>5
  <2>8. s * w + w <= m * w
    BY <2>4, <2>5, ProductGrows
  <2>9. PICK x \in Nat, y \in Nat : x = r * w /\ y = s * w
    OBVIOUS
  <2>10. j # k => x + w <= y \/ y + w <= x
    <3>1. r < s => r * w + w <= s * w
      BY ProductGrows
    <3>2. s < r => s * w + w <= r * w
      BY ProductGrows
    <3>3. j # k => r < s \/ s < r
      BY <2>4, <2>5
    <3> QED
      BY <2>9, <3>1, <3>2, <3>3
  <2>11. j # k => Bits(x, w) \cap Bits(y, w) = {}
    BY <2>10 DEF Bits
  <2>12. PartBits(Children(t)[j]) = Bits(x, w) /\ PartBits(Children(t)[k]) = Bits(y, w)
    BY <2>2, <2>4, <2>6, <2>9 DEF PartBits
  <2>13. Children(t)[k].offset + BitWidth[Children(t)[k].type] <= BitWidth[t]
    BY <2>2, <2>4, <2>6, <2>7, <2>8
  <2> QED
    BY <1>3, <2>11, <2>12, <2>13
<1> QED
  BY <1>4, <1>5, <1>6 DEF Composites

(* Below a part at bit base of a stream, the sum of offsets does not wrap,  *)
(* and what fits the type fits what the type fits.                          *)
LEMMA PartsFit ==
  ASSUME LaidOut, NEW t \in Types, Descriptor[t].packed, NEW k \in DOMAIN Children(t),
         NEW base \in Nat, NEW width \in Offset, base + BitWidth[t] <= width
  PROVE  /\ OffsetIn(base, TRUE, Children(t)[k]) = base + Children(t)[k].offset
         /\ base + Children(t)[k].offset + BitWidth[Children(t)[k].type] <= width
<1>1. PICK off \in Nat, s \in Types : off = Children(t)[k].offset /\ s = Children(t)[k].type
  BY PartsLaidOut
<1>2. PICK w \in Offset, all \in Offset : w = BitWidth[s] /\ all = BitWidth[t]
  BY WidthsAre DEF Offset
<1>3. off + w <= all
  BY <1>1, <1>2, PartsLaidOut
<1>4. U32 \in Nat /\ 1 < U32
  BY TypesAssumption DEF TypesAssumption
<1>5. base + off + w <= width /\ base + off < U32 /\ base + off \in Nat
  BY <1>2, <1>3, <1>4 DEF Offset
<1>6. (base + off) % U32 = base + off
  BY <1>4, <1>5
<1> QED
  BY <1>1, <1>2, <1>5, <1>6 DEF OffsetIn
----------------------------------------------------------------------------
(* A path to which an ordinal is appended.                                  *)
LEMMA PathAppended ==
  ASSUME NEW p \in Seq(Nat), NEW k \in Nat
  PROVE  /\ Append(p, k) \in Seq(Nat) /\ Len(Append(p, k)) = Len(p) + 1
         /\ Append(p, k)[Len(p) + 1] = k
         /\ \A i \in 1 .. Len(p) : Append(p, k)[i] = p[i]
  OBVIOUS

(* The first ordinals of a path.                                            *)
LEMMA PathCut ==
  ASSUME NEW p \in Seq(Nat), NEW m \in Nat, m <= Len(p)
  PROVE  /\ SubSeq(p, 1, m) \in Seq(Nat) /\ Len(SubSeq(p, 1, m)) = m
         /\ \A i \in 1 .. m : SubSeq(p, 1, m)[i] = p[i]
<1>1. PICK n \in Nat : n = Len(p)
  BY LenProperties
<1>2. \A i \in 1 .. m : p[i] \in Nat
  BY <1>1
<1>3. 1 \in Int /\ m \in Int /\ m - 1 + 1 = m /\ \A i \in 1 .. m : 1 + i - 1 = i
  OBVIOUS
<1>4. /\ SubSeq(p, 1, m) \in Seq(Nat)
      /\ Len(SubSeq(p, 1, m)) = IF 1 <= m THEN m - 1 + 1 ELSE 0
      /\ \A i \in 1 .. m - 1 + 1 : SubSeq(p, 1, m)[i] = p[1 + i - 1]
  BY <1>2, <1>3, SubSeqProperties
<1>5. (IF 1 <= m THEN m - 1 + 1 ELSE 0) = m
  OBVIOUS
<1>6. Len(SubSeq(p, 1, m)) = m
  BY <1>4, <1>5
<1>7. \A i \in 1 .. m : SubSeq(p, 1, m)[i] = p[i]
  BY <1>3, <1>4
<1> QED
  BY <1>4, <1>6, <1>7

(* A path is a prefix of another if they agree as far as it goes.           *)
LEMMA PrefixIs ==
  ASSUME NEW q \in Seq(Nat), NEW p \in Seq(Nat)
  PROVE  IsPrefix(q, p) <=> Len(q) <= Len(p) /\ \A i \in 1 .. Len(q) : q[i] = p[i]
<1>1. PICK m \in Nat, n \in Nat : m = Len(q) /\ n = Len(p)
  BY LenProperties
<1>2. CASE m <= n
  <2>1. PICK a : a = SubSeq(q, 1, m)
    OBVIOUS
  <2>2. PICK b : b = SubSeq(p, 1, m)
    OBVIOUS
  <2>3. a \in Seq(Nat) /\ Len(a) = m /\ \A i \in 1 .. m : a[i] = q[i]
    BY <1>1, <2>1, PathCut
  <2>4. b \in Seq(Nat) /\ Len(b) = m /\ \A i \in 1 .. m : b[i] = p[i]
    BY <1>1, <1>2, <2>2, PathCut
  <2>5. (\A i \in 1 .. m : q[i] = p[i]) => a = b
    BY <2>4, <2>3, SeqEqual
  <2>6. a = b => \A i \in 1 .. m : q[i] = p[i]
    BY <2>4, <2>3
  <2>7. IsPrefix(q, p) <=> a = b
    BY <1>1, <1>2, <2>1, <2>2 DEF IsPrefix
  <2> QED
    BY <1>1, <1>2, <2>5, <2>6, <2>7
<1>3. CASE ~ (m <= n)
  BY <1>1, <1>3 DEF IsPrefix
<1> QED
  BY <1>2, <1>3

(* What lies above a child is its parent and what lies above that.          *)
LEMMA PrefixesOfChild ==
  ASSUME NEW q \in Seq(Nat), NEW p \in Seq(Nat), NEW k \in Nat
  PROVE  IsStrictPrefix(q, Append(p, k)) <=> IsPrefix(q, p)
<1>1. PICK m \in Nat, n \in Nat : m = Len(q) /\ n = Len(p)
  BY LenProperties
<1>2. PICK c : c = Append(p, k)
  OBVIOUS
<1>3. c \in Seq(Nat) /\ c = Append(p, k) /\ Len(c) = n + 1 /\ \A i \in 1 .. n : c[i] = p[i]
  BY <1>1, <1>2, PathAppended
<1>4. IsPrefix(q, p) <=> m <= n /\ \A i \in 1 .. m : q[i] = p[i]
  BY <1>1, PrefixIs
<1>5. IsPrefix(q, c) <=> m <= n + 1 /\ \A i \in 1 .. m : q[i] = c[i]
  BY <1>1, <1>3, PrefixIs
<1>6. ASSUME IsPrefix(q, p)
      PROVE  IsPrefix(q, c) /\ q # c
  <2>1. m <= n /\ m <= n + 1 /\ \A i \in 1 .. m : q[i] = c[i]
    BY <1>3, <1>4, <1>6
  <2>2. q # c
    BY <1>1, <1>3, <2>1
  <2> QED
    BY <1>5, <2>1, <2>2
<1>7. ASSUME IsPrefix(q, c), q # c
      PROVE  IsPrefix(q, p)
  <2>1. m <= n + 1 /\ \A i \in 1 .. m : q[i] = c[i]
    BY <1>5, <1>7
  <2>2. m # n + 1
    <3>1. SUFFICES ASSUME m = n + 1 PROVE FALSE
      OBVIOUS
    <3>2. q = c
      BY <1>1, <1>3, <2>1, <3>1, SeqEqual
    <3> QED
      BY <1>7, <3>2
  <2>3. m <= n /\ \A i \in 1 .. m : q[i] = p[i]
    BY <1>3, <2>1, <2>2
  <2> QED
    BY <1>4, <2>3
<1> QED
  BY <1>3, <1>6, <1>7 DEF IsStrictPrefix

(* Two prefixes of one path that are as long are the same.                  *)
LEMMA PrefixesAgree ==
  ASSUME NEW q \in Seq(Nat), NEW p \in Seq(Nat), NEW r \in Seq(Nat),
         IsPrefix(p, r), IsPrefix(q, r), Len(p) = Len(q)
  PROVE  p = q
<1>1. \A i \in 1 .. Len(p) : p[i] = r[i] /\ q[i] = r[i]
  BY PrefixIs
<1>2. \A i \in 1 .. Len(p) : p[i] = q[i]
  BY <1>1
<1> QED
  BY <1>2, SeqEqual

(* A path is a prefix of itself, the empty path of every path; it has none  *)
(* but itself.                                                              *)
LEMMA PrefixesOfPath ==
  ASSUME NEW p \in Seq(Nat)
  PROVE  IsPrefix(p, p) /\ IsPrefix(<<>>, p) /\ (IsPrefix(p, <<>>) => p = <<>>)
<1>1. PICK n \in Nat : n = Len(p)
  BY LenProperties
<1>2. PICK none : none = <<>>
  OBVIOUS
<1>3. none \in Seq(Nat) /\ Len(none) = 0
  BY <1>2, EmptySeq
<1>4. IsPrefix(p, p)
  <2>1. IsPrefix(p, p) <=> Len(p) <= Len(p) /\ \A i \in 1 .. Len(p) : p[i] = p[i]
    BY PrefixIs
  <2> QED
    BY <1>1, <2>1
<1>5. IsPrefix(none, p)
  <2>1. IsPrefix(none, p) <=> Len(none) <= Len(p) /\ \A i \in 1 .. Len(none) : none[i] = p[i]
    BY <1>3, PrefixIs
  <2>2. 0 <= n /\ 1 .. 0 = {}
    OBVIOUS
  <2> QED
    BY <1>1, <1>3, <2>1, <2>2
<1>6. IsPrefix(p, none) => p = <<>>
  <2>1. IsPrefix(p, none) <=> Len(p) <= Len(none) /\ \A i \in 1 .. Len(p) : p[i] = none[i]
    BY <1>3, PrefixIs
  <2>2. IsPrefix(p, none) => n = 0
    BY <1>1, <1>3, <2>1
  <2> QED
    BY <1>1, <2>2, EmptySeq
<1> QED
  BY <1>2, <1>4, <1>5, <1>6

(* Children are told apart by their parent and their place in it.           *)
LEMMA ChildPaths ==
  ASSUME NEW p \in Seq(Nat), NEW k \in Nat
  PROVE  /\ Append(p, k) \in Seq(Nat) /\ Front(Append(p, k)) = p /\ Len(Append(p, k)) = Len(p) + 1
         /\ Append(p, k)[Len(p) + 1] = k
<1>1. PICK n \in Nat : n = Len(p)
  BY LenProperties
<1>2. PICK c : c = Append(p, k)
  OBVIOUS
<1>3. c \in Seq(Nat) /\ Len(c) = n + 1 /\ c[n + 1] = k /\ \A i \in 1 .. n : c[i] = p[i]
  BY <1>1, <1>2, PathAppended
<1>4. Front(c) = SubSeq(c, 1, n)
  <2>1. (n + 1) - 1 = n
    OBVIOUS
  <2> QED
    BY <1>3, <2>1 DEF Front
<1>5. PICK s : s = SubSeq(c, 1, n)
  OBVIOUS
<1>6. s \in Seq(Nat) /\ Len(s) = n /\ \A i \in 1 .. n : s[i] = c[i]
  BY <1>3, <1>5, PathCut
<1>7. s = p
  BY <1>1, <1>3, <1>6, SeqEqual
<1> QED
  BY <1>1, <1>2, <1>3, <1>4, <1>5, <1>7
----------------------------------------------------------------------------
(* The nodes of a variable, and the paths of those that have a stream.      *)
AllNodes(t) == NodeSet(t, 0, FALSE)
Owners(t) == {<<>>} \cup {m.path : m \in {x \in AllNodes(t) : x.binds # NoBinding}}

(* They are a tree of nodes, the places of NodesOf.                         *)
LEMMA AllNodesAre ==
  ASSUME NEW t \in Types
  PROVE  /\ AllNodes(t) \subseteq Node /\ Tree(t, 0, FALSE)
         /\ \A m : m \in AllNodes(t) <=> \E k \in DOMAIN NodesOf[t] : m = NodesOf[t][k]
<1>1. 0 \in Offset /\ FALSE \in BOOLEAN
  BY TypesAssumption DEF TypesAssumption, Offset
<1>2. AllNodes(t) = ToSet(NodesOf[t])
  BY DEF AllNodes, NodeSet, NodesOf
<1>3. AllNodes(t) \subseteq Node
  BY <1>1, NodeSetIs DEF AllNodes
<1>4. Tree(t, 0, FALSE)
  BY <1>1, NodesFormTree
<1>5. \A m : m \in AllNodes(t) <=> \E k \in DOMAIN NodesOf[t] : m = NodesOf[t][k]
  BY <1>2, Zenon DEF ToSet
<1> QED
  BY <1>3, <1>4, <1>5

(* A node of a type has a path of its own and hangs at the variable or at   *)
(* another node.                                                            *)
LEMMA NodeHangs ==
  ASSUME NEW t \in Types, NEW m \in AllNodes(t)
  PROVE  /\ m \in Node /\ m.path \in Seq(Nat) /\ m.path # <<>> /\ m.type \in Types /\ BaseOf(m) \in Offset
         /\ Hung(m, t, 0, AllNodes(t))
         /\ \A x \in AllNodes(t) : x.path = m.path => x = m
<1>1. m \in Node /\ Tree(t, 0, FALSE)
  BY AllNodesAre
<1>2. m.path \in Seq(Nat) /\ m.type \in Types /\ m.slice \in [offset : Offset, width : Offset] \cup {NoSlice}
  BY <1>1 DEF Node
<1>3. BaseOf(m) \in Offset
  <2>1. 0 \in Offset
    BY TypesAssumption DEF TypesAssumption, Offset
  <2> QED
    BY <1>2, <2>1 DEF BaseOf
<1>4. m.path # <<>> /\ Hung(m, t, 0, AllNodes(t)) /\ \A x \in AllNodes(t) : x.path = m.path => x = m
  BY <1>1 DEF Tree, AllNodes
<1> QED
  BY <1>1, <1>2, <1>3, <1>4

(* The type at the path of a node is its type.                              *)
LEMMA TypeAtNode ==
  ASSUME NEW t \in Types
  PROVE  /\ TypeAt(t, <<>>) = t
         /\ \A m \in AllNodes(t) : TypeAt(t, m.path) = m.type
         /\ \A p \in Owners(t) : p \in Seq(Nat) /\ TypeAt(t, p) \in Types
<1>1. TypeAt(t, <<>>) = t
  BY DEF TypeAt
<1>2. ASSUME NEW m \in AllNodes(t)
      PROVE  TypeAt(t, m.path) = m.type
  <2>1. m.path # <<>> /\ \A x \in AllNodes(t) : x.path = m.path => x = m
    BY NodeHangs
  <2>2. PICK k \in DOMAIN NodesOf[t] : NodesOf[t][k].path = m.path
    BY AllNodesAre
  <2>3. PICK j : j = CHOOSE i \in DOMAIN NodesOf[t] : NodesOf[t][i].path = m.path
    OBVIOUS
  <2>4. j \in DOMAIN NodesOf[t] /\ NodesOf[t][j].path = m.path
    BY <2>2, <2>3
  <2>5. NodesOf[t][j] = m
    BY <2>1, <2>4, AllNodesAre
  <2>6. TypeAt(t, m.path) = NodesOf[t][j].type
    BY <2>1, <2>3 DEF TypeAt
  <2> QED
    BY <2>5, <2>6
<1>3. ASSUME NEW p \in Owners(t)
      PROVE  p \in Seq(Nat) /\ TypeAt(t, p) \in Types
  <2>1. CASE p = <<>>
    BY <1>1, <2>1, EmptySeq
  <2>2. CASE p # <<>>
    <3>1. PICK m \in AllNodes(t) : p = m.path
      BY <2>2 DEF Owners
    <3> QED
      BY <1>2, <3>1, NodeHangs
  <2> QED
    BY <2>1, <2>2
<1> QED
  BY <1>1, <1>2, <1>3

(* A packed type that has parts has a stream, for all of its bits.          *)
Packs(t) == SingleStream(t) /\ Descriptor[t].kind \in Composites
LEMMA PackedHasStream ==
  ASSUME NEW t \in Types, Descriptor[t].packed, NEW k \in DOMAIN Children(t)
  PROVE  Packs(t) /\ SingleStream(t)
<1>1. PICK n \in Nat : /\ Children(t) \in [1 .. n -> [type : Parts(t), offset : Nat]]
                       /\ Descriptor[t].kind \notin Composites => n = 0
  BY ChildrenOf
<1>2. Descriptor[t].kind \in Composites
  BY <1>1
<1> QED
  BY <1>2 DEF Packs, SingleStream, OneStream

(* A node is a slice, of its width, or binds a stream if its type has one.  *)
IsSlice(node, offset) ==
  /\ node.slice # NoSlice /\ node.binds = NoBinding
  /\ node.slice.offset = offset /\ node.slice.width = BitWidth[node.type]
IsWhole(node) == node.slice = NoSlice /\ (node.binds = NoBinding <=> ~SingleStream(node.type))

(* The former within a packed type, the latter elsewhere.                   *)
LEMMA SliceOrStream ==
  ASSUME NEW t \in Types, NEW base \in Offset, NEW prefix, NEW k \in DOMAIN Children(t), NEW node,
         ChildOf(node, t, base, prefix, k)
  PROVE  /\ Descriptor[t].packed => IsSlice(node, OffsetIn(base, TRUE, Children(t)[k]))
         /\ ~Descriptor[t].packed => IsWhole(node)
<1>1. PICK packed \in BOOLEAN : packed = Descriptor[t].packed
  BY LayoutAssumption DEF LayoutAssumption
<1>2. CASE packed
  <2>1. PICK n \in Nat : Children(t) \in [1 .. n -> [type : Parts(t), offset : Nat]]
    BY ChildrenOf
  <2>2. PICK part \in [type : Parts(t), offset : Nat] : part = Children(t)[k]
    BY <2>1
  <2>3. 0 \in Nat /\ TRUE \in BOOLEAN
    OBVIOUS
  <2>4. OffsetIn(base, TRUE, part) \in Offset /\ part.type \in Types
    BY <2>3, NodeForType
  <2>5. BitWidth[part.type] \in Offset
    BY <2>4, WidthsAre DEF Offset
  <2>6. node.type = part.type /\ node.binds = NoBinding
    BY <1>1, <1>2, <2>2 DEF ChildOf
  <2>7. PICK off \in Offset, width \in Offset : off = OffsetIn(base, TRUE, part) /\ width = BitWidth[part.type]
    BY <2>4, <2>5
  <2>8. node.slice = [offset |-> off, width |-> width]
    BY <1>1, <1>2, <2>2, <2>6, <2>7 DEF ChildOf
  <2>9. [offset |-> off, width |-> width] \in [offset : 0 .. U32 - 1, width : 0 .. U32 - 1]
    BY DEF Offset
  <2>10. NoSlice \notin [offset : 0 .. U32 - 1, width : 0 .. U32 - 1]
    BY BuilderAssumption DEF BuilderAssumption
  <2>11. node.slice # NoSlice
    BY <2>8, <2>9, <2>10, Zenon
  <2>12. node.slice.offset = off /\ node.slice.width = width
    BY <2>8
  <2>13. IsSlice(node, OffsetIn(base, TRUE, Children(t)[k]))
    BY <2>2, <2>6, <2>7, <2>11, <2>12, Zenon DEF IsSlice
  <2> QED
    BY <1>1, <1>2, <2>13
<1>3. CASE ~ packed
  BY <1>1, <1>3 DEF ChildOf, IsWhole
<1> QED
  BY <1>2, <1>3
----------------------------------------------------------------------------
(* The stream that covers what is below a packed node at prefix, of type s  *)
(* and at bit base: that of the nearest node above, or of the node itself.  *)
(* It has room for it if the layouts are sound.                             *)
Over(t, prefix, s, base, p) ==
  /\ p \in Owners(t) /\ IsPrefix(p, prefix)
  /\ \A q \in Owners(t) : IsPrefix(q, prefix) => Len(q) <= Len(p)
  /\ Packs(TypeAt(t, p))
  /\ LaidOut => base \in Nat /\ base + BitWidth[s] <= BitWidth[TypeAt(t, p)]

CoveredBy(t, node, p) ==
  /\ p \in Owners(t) /\ IsStrictPrefix(p, node.path)
  /\ \A q \in Owners(t) : IsStrictPrefix(q, node.path) => Len(q) <= Len(p)
  /\ Packs(TypeAt(t, p))
  /\ node.slice.width = BitWidth[node.type]
  /\ LaidOut => /\ node.slice.offset \in Nat
                /\ node.slice.offset + node.slice.width <= BitWidth[TypeAt(t, p)]

(* A part of a packed node is covered by what covers the node, and lies     *)
(* where its offset says if the layouts are sound.                          *)
LEMMA PartCovered ==
  ASSUME NEW t \in Types, NEW s \in Types, Descriptor[s].packed, NEW prefix \in Seq(Nat),
         NEW base \in Offset, NEW p, Over(t, prefix, s, base, p),
         NEW k \in DOMAIN Children(s), NEW node, ChildOf(node, s, base, prefix, k)
  PROVE  /\ CoveredBy(t, node, p)
         /\ node.slice.width = BitWidth[node.type]
         /\ LaidOut => node.slice.offset = base + Children(s)[k].offset
<1>1. p \in Owners(t) /\ p \in Seq(Nat) /\ TypeAt(t, p) \in Types /\ Packs(TypeAt(t, p))
  BY TypeAtNode DEF Over
<1>2. PICK width \in Offset : width = BitWidth[TypeAt(t, p)]
  BY <1>1, WidthsAre DEF Offset
<1>3. IsSlice(node, OffsetIn(base, TRUE, Children(s)[k]))
  BY SliceOrStream
<1>5. /\ node.slice.offset = OffsetIn(base, TRUE, Children(s)[k])
      /\ node.slice.width = BitWidth[node.type]
  BY <1>3 DEF IsSlice
<1>6. node.path = Append(prefix, k) /\ node.type = Children(s)[k].type /\ k \in Nat
  BY ChildrenOf DEF ChildOf
<1>7. \A q \in Owners(t) : q \in Seq(Nat)
  BY TypeAtNode
<1>8. \A q \in Owners(t) : IsStrictPrefix(q, node.path) <=> IsPrefix(q, prefix)
  BY <1>6, <1>7, PrefixesOfChild
<1>9. IsStrictPrefix(p, node.path) /\ \A q \in Owners(t) : IsStrictPrefix(q, node.path) => Len(q) <= Len(p)
  BY <1>1, <1>8 DEF Over
<1>10. ASSUME LaidOut
       PROVE  /\ node.slice.offset = base + Children(s)[k].offset /\ node.slice.offset \in Nat
              /\ node.slice.offset + node.slice.width <= BitWidth[TypeAt(t, p)]
  <2>1. base \in Nat /\ base + BitWidth[s] <= width
    BY <1>2, <1>10 DEF Over
  <2>2. /\ OffsetIn(base, TRUE, Children(s)[k]) = base + Children(s)[k].offset
        /\ base + Children(s)[k].offset + BitWidth[Children(s)[k].type] <= width
    BY <1>2, <1>10, <2>1, PartsFit
  <2>3. PICK off \in Nat : off = Children(s)[k].offset
    BY <1>10, PartsLaidOut
  <2>4. PICK w : w = BitWidth[node.type]
    OBVIOUS
  <2>5. node.slice.offset = base + off /\ node.slice.width = w /\ base + off + w <= width
    BY <1>5, <1>6, <2>2, <2>3, <2>4
  <2>6. base + off \in Nat
    BY <2>1, <2>3
  <2> QED
    BY <1>2, <2>3, <2>5, <2>6
<1> QED
  BY <1>1, <1>5, <1>9, <1>10 DEF CoveredBy

(* What is below a packed variable is covered by the stream of the variable.*)
LEMMA VariableOver ==
  ASSUME NEW t \in Types, Descriptor[t].packed, NEW k \in DOMAIN Children(t)
  PROVE  Over(t, <<>>, t, 0, <<>>)
<1>1. Packs(t) /\ TypeAt(t, <<>>) = t
  BY PackedHasStream, TypeAtNode
<1>2. <<>> \in Owners(t) /\ IsPrefix(<<>>, <<>>)
  BY EmptySeq, PrefixesOfPath DEF Owners
<1>3. ASSUME NEW q \in Owners(t), IsPrefix(q, <<>>)
      PROVE  Len(q) <= Len(<<>>)
  <2>1. q = <<>>
    BY <1>3, TypeAtNode, PrefixesOfPath
  <2> QED
    BY <2>1
<1>4. PICK w \in Nat : w = BitWidth[t]
  <2>1. BitWidth[t] \in 0 .. U32 - 1
    BY WidthsAre
  <2> QED
    BY <2>1, TypesAssumption DEF TypesAssumption
<1>5. 0 \in Nat /\ 0 + BitWidth[t] <= BitWidth[TypeAt(t, <<>>)]
  BY <1>1, <1>4
<1> QED
  BY <1>1, <1>2, <1>3, <1>5 DEF Over

(* What is below a packed node is covered by its stream or, if it is a slice*)
(* itself, by the stream it is a slice of.                                  *)
LEMMA NodeOver ==
  ASSUME NEW t \in Types, NEW m \in AllNodes(t), Descriptor[m.type].packed,
         NEW k \in DOMAIN Children(m.type),
         m.slice # NoSlice => \E p \in Owners(t) : CoveredBy(t, m, p)
  PROVE  \E p \in Owners(t) : Over(t, m.path, m.type, BaseOf(m), p)
<1>1. /\ m.path \in Seq(Nat) /\ m.path # <<>> /\ m.type \in Types
      /\ \A x \in AllNodes(t) : x.path = m.path => x = m
  BY NodeHangs
<1>2. SingleStream(m.type) /\ Packs(m.type) /\ TypeAt(t, m.path) = m.type
  BY <1>1, PackedHasStream, TypeAtNode
<1>3. PICK w \in Nat : w = BitWidth[m.type]
  <2>1. BitWidth[m.type] \in 0 .. U32 - 1
    BY <1>1, WidthsAre
  <2> QED
    BY <2>1, TypesAssumption DEF TypesAssumption
<1>4. \A q \in Owners(t) : q \in Seq(Nat)
  BY TypeAtNode
<1>5. (m.slice # NoSlice /\ m.binds = NoBinding) \/ (m.slice = NoSlice /\ m.binds # NoBinding)
  <2>1. PICK s \in Types, base \in Offset : \E prefix : \E j \in DOMAIN Children(s) : ChildOf(m, s, base, prefix, j)
    <3>1. 0 \in Offset
      BY TypesAssumption DEF TypesAssumption, Offset
    <3>2. Hung(m, t, 0, AllNodes(t))
      BY NodeHangs
    <3>3. \A x \in AllNodes(t) : x.type \in Types /\ BaseOf(x) \in Offset
      BY NodeHangs
    <3> QED
      BY <3>1, <3>2, <3>3, Zenon DEF Hung
  <2>2. PICK prefix : \E j \in DOMAIN Children(s) : ChildOf(m, s, base, prefix, j)
    BY <2>1
  <2>3. PICK j \in DOMAIN Children(s) : ChildOf(m, s, base, prefix, j)
    BY <2>2
  <2>4. IsSlice(m, OffsetIn(base, TRUE, Children(s)[j])) \/ IsWhole(m)
    BY <2>3, SliceOrStream
  <2> QED
    BY <1>2, <2>4 DEF IsSlice, IsWhole
<1>6. CASE m.slice = NoSlice /\ m.binds # NoBinding
  <2>1. m.path \in Owners(t)
    BY <1>6 DEF Owners
  <2>2. IsPrefix(m.path, m.path)
    BY <1>1, PrefixesOfPath
  <2>3. \A q \in Owners(t) : IsPrefix(q, m.path) => Len(q) <= Len(m.path)
    BY <1>1, <1>4, PrefixIs
  <2>4. BaseOf(m) = 0 /\ BaseOf(m) + BitWidth[m.type] <= BitWidth[TypeAt(t, m.path)]
    BY <1>2, <1>3, <1>6 DEF BaseOf
  <2>5. Over(t, m.path, m.type, BaseOf(m), m.path)
    BY <1>2, <2>1, <2>2, <2>3, <2>4 DEF Over
  <2> QED
    BY <2>1, <2>5
<1>7. CASE m.slice # NoSlice /\ m.binds = NoBinding
  <2>1. PICK p \in Owners(t) : CoveredBy(t, m, p)
    BY <1>7
  <2>2. m.path \notin Owners(t)
    BY <1>1, <1>7 DEF Owners
  <2>3. \A q \in Owners(t) : IsPrefix(q, m.path) => IsStrictPrefix(q, m.path)
    BY <2>2 DEF IsStrictPrefix
  <2>4. IsPrefix(p, m.path) /\ \A q \in Owners(t) : IsPrefix(q, m.path) => Len(q) <= Len(p)
    BY <2>1, <2>3 DEF CoveredBy, IsStrictPrefix
  <2>5. BaseOf(m) = m.slice.offset
    BY <1>7 DEF BaseOf
  <2>6. Over(t, m.path, m.type, BaseOf(m), p)
    BY <2>1, <2>4, <2>5 DEF Over, CoveredBy
  <2> QED
    BY <2>6
<1> QED
  BY <1>5, <1>6, <1>7

(* So every slice is covered, by induction over the length of the path.     *)
LEMMA SlicesCovered ==
  ASSUME NEW t \in Types, NEW node \in AllNodes(t), node.slice # NoSlice
  PROVE  \E p \in Owners(t) : CoveredBy(t, node, p)
<1> DEFINE T == {l \in Nat : \A m \in AllNodes(t) :
                   Len(m.path) <= l /\ m.slice # NoSlice => \E p \in Owners(t) : CoveredBy(t, m, p)}
<1>1. 0 \in Offset
  BY TypesAssumption DEF TypesAssumption, Offset
<1>2. \A m \in AllNodes(t) : m.path \in Seq(Nat) /\ m.path # <<>> /\ Len(m.path) \in Nat \ {0}
  <2> TAKE m \in AllNodes(t)
  <2>1. m.path \in Seq(Nat) /\ m.path # <<>>
    BY NodeHangs
  <2> QED
    BY <2>1, EmptySeq, LenProperties
<1>3. 0 \in T
  BY <1>2
<1>4. ASSUME NEW l \in T
      PROVE  l + 1 \in T
  <2>1. l \in Nat /\ \A m \in AllNodes(t) :
          Len(m.path) <= l /\ m.slice # NoSlice => \E p \in Owners(t) : CoveredBy(t, m, p)
    BY <1>4
  <2> HIDE DEF T
  <2>2. ASSUME NEW m \in AllNodes(t), Len(m.path) <= l + 1, m.slice # NoSlice
        PROVE  \E p \in Owners(t) : CoveredBy(t, m, p)
    <3>1. Hung(m, t, 0, AllNodes(t))
      BY NodeHangs
    <3>2. CASE \E k \in DOMAIN Children(t) : ChildOf(m, t, 0, <<>>, k)
      <4>1. PICK k \in DOMAIN Children(t) : ChildOf(m, t, 0, <<>>, k)
        BY <3>2
      <4>2. Descriptor[t].packed
        BY <1>1, <2>2, <4>1, SliceOrStream DEF IsWhole
      <4>3. Over(t, <<>>, t, 0, <<>>) /\ <<>> \in Seq(Nat)
        BY <4>2, VariableOver, EmptySeq
      <4>4. CoveredBy(t, m, <<>>)
        BY <1>1, <4>1, <4>2, <4>3, PartCovered
      <4> QED
        BY <4>4 DEF Owners
    <3>3. CASE \E x \in AllNodes(t) : \E k \in DOMAIN Children(x.type) : ChildOf(m, x.type, BaseOf(x), x.path, k)
      <4>1. PICK x \in AllNodes(t) : \E k \in DOMAIN Children(x.type) : ChildOf(m, x.type, BaseOf(x), x.path, k)
        BY <3>3
      <4>2. PICK k \in DOMAIN Children(x.type) : ChildOf(m, x.type, BaseOf(x), x.path, k)
        BY <4>1
      <4>3. x.type \in Types /\ x.path \in Seq(Nat) /\ BaseOf(x) \in Offset
        BY NodeHangs
      <4>4. Descriptor[x.type].packed
        <5>1. ~Descriptor[x.type].packed => IsWhole(m)
          <6>1. PICK s \in Types, b \in Offset, prefix \in Seq(Nat) : s = x.type /\ b = BaseOf(x) /\ prefix = x.path
            BY <4>3
          <6>2. k \in DOMAIN Children(s) /\ ChildOf(m, s, b, prefix, k)
            BY <4>2, <6>1
          <6>3. ~Descriptor[s].packed => IsWhole(m)
            BY <6>2, SliceOrStream
          <6> QED
            BY <6>1, <6>3
        <5> QED
          BY <2>2, <5>1 DEF IsWhole
      <4>5. Len(x.path) <= l
        <5>1. k \in Nat /\ m.path = Append(x.path, k)
          BY <4>2, <4>3, ChildrenOf DEF ChildOf
        <5>2. Len(m.path) = Len(x.path) + 1
          BY <4>3, <5>1, PathAppended
        <5> QED
          BY <1>2, <2>1, <2>2, <5>2
      <4>6. x.slice # NoSlice => \E p \in Owners(t) : CoveredBy(t, x, p)
        BY <2>1, <4>5
      <4>7. PICK p \in Owners(t) : Over(t, x.path, x.type, BaseOf(x), p)
        BY <4>2, <4>4, <4>6, NodeOver
      <4>8. CoveredBy(t, m, p)
        BY <4>2, <4>3, <4>4, <4>7, PartCovered
      <4> QED
        BY <4>8
    <3> QED
      BY <3>1, <3>2, <3>3 DEF Hung
  <2> QED
    BY <2>1, <2>2 DEF T
<1>5. T = Nat
  <2>1. T \in SUBSET Nat
    OBVIOUS
  <2> HIDE DEF T
  <2> QED
    BY <1>3, <1>4, <2>1, NatSetInduction
<1>6. Len(node.path) \in T /\ Len(node.path) <= Len(node.path)
  <2> HIDE DEF T
  <2>1. Len(node.path) \in Nat
    BY <1>2
  <2> QED
    BY <1>5, <2>1
<1> QED
  BY <1>6
----------------------------------------------------------------------------
(* The owner of a slice is the node whose stream covers it: two prefixes of *)
(* one path that are longest are the same.                                  *)
LEMMA OwnerIs ==
  ASSUME NEW v, NEW t \in Types, v.type = t, PathsWithStream(v) = Owners(t),
         NEW node \in AllNodes(t), NEW p, CoveredBy(t, node, p)
  PROVE  OwnerPath(v, node.path) = p
<1> DEFINE Is(r) == /\ r \in Owners(t) /\ IsStrictPrefix(r, node.path)
                    /\ \A q \in Owners(t) : IsStrictPrefix(q, node.path) => Len(q) <= Len(r)
<1>1. Is(p)
  BY DEF CoveredBy
<1>2. PICK r : r = OwnerPath(v, node.path)
  OBVIOUS
<1>3. r = CHOOSE x \in Owners(t) :
            /\ IsStrictPrefix(x, node.path)
            /\ \A q \in Owners(t) : IsStrictPrefix(q, node.path) => Len(q) <= Len(x)
  BY <1>2 DEF OwnerPath
<1>4. Is(r)
  BY <1>1, <1>3
<1>5. r \in Seq(Nat) /\ p \in Seq(Nat) /\ node.path \in Seq(Nat)
  BY <1>1, <1>4, TypeAtNode, NodeHangs
<1>6. Len(r) = Len(p)
  <2>1. Len(r) <= Len(p) /\ Len(p) <= Len(r)
    BY <1>1, <1>4
  <2>2. Len(r) \in Nat /\ Len(p) \in Nat
    BY <1>5, LenProperties
  <2> QED
    BY <2>1, <2>2
<1>7. IsPrefix(r, node.path) /\ IsPrefix(p, node.path)
  BY <1>1, <1>4 DEF IsStrictPrefix
<1>8. r = p
  BY <1>5, <1>6, <1>7, PrefixesAgree
<1> QED
  BY <1>2, <1>8

(* Where a node hangs: at a type s, whose node has the path prefix and      *)
(* begins at bit base.                                                      *)
PlaceAbove(t, prefix, s, base) ==
  \/ prefix = <<>> /\ s = t /\ base = 0
  \/ \E x \in AllNodes(t) : prefix = x.path /\ s = x.type /\ base = BaseOf(x)

(* It is the only one for a path.                                           *)
LEMMA OnePlaceAbove ==
  ASSUME NEW t \in Types, NEW prefix, NEW s, NEW base, NEW r, NEW b,
         PlaceAbove(t, prefix, s, base), PlaceAbove(t, prefix, r, b)
  PROVE  s = r /\ base = b
<1>1. \A x \in AllNodes(t) : x.path # <<>> /\ \A y \in AllNodes(t) : y.path = x.path => y = x
  BY NodeHangs
<1> QED
  BY <1>1, Zenon DEF PlaceAbove

(* A slice hangs at a packed type, and lies where its offset says.          *)
LEMMA SliceHangs ==
  ASSUME LaidOut, NEW t \in Types, NEW node \in AllNodes(t), node.slice # NoSlice
  PROVE  \E prefix \in Seq(Nat), s \in Types, base \in Offset : \E k \in DOMAIN Children(s) :
           /\ PlaceAbove(t, prefix, s, base) /\ Descriptor[s].packed
           /\ node.path = Append(prefix, k)
           /\ node.slice.offset = base + Children(s)[k].offset
           /\ node.slice.width = BitWidth[Children(s)[k].type]
<1>1. 0 \in Offset /\ <<>> \in Seq(Nat)
  BY TypesAssumption, EmptySeq DEF TypesAssumption, Offset
<1>2. PICK prefix \in Seq(Nat), s \in Types, base \in Offset : \E k \in DOMAIN Children(s) :
        PlaceAbove(t, prefix, s, base) /\ ChildOf(node, s, base, prefix, k)
  <2>1. Hung(node, t, 0, AllNodes(t))
    BY NodeHangs
  <2>2. CASE \E k \in DOMAIN Children(t) : ChildOf(node, t, 0, <<>>, k)
    BY <1>1, <2>2, Zenon DEF PlaceAbove
  <2>3. CASE \E x \in AllNodes(t) : \E k \in DOMAIN Children(x.type) : ChildOf(node, x.type, BaseOf(x), x.path, k)
    <3>1. PICK x \in AllNodes(t) : \E k \in DOMAIN Children(x.type) : ChildOf(node, x.type, BaseOf(x), x.path, k)
      BY <2>3
    <3>2. x.type \in Types /\ x.path \in Seq(Nat) /\ BaseOf(x) \in Offset
      BY NodeHangs
    <3>3. PlaceAbove(t, x.path, x.type, BaseOf(x))
      BY DEF PlaceAbove
    <3> QED
      BY <3>1, <3>2, <3>3, Zenon
  <2> QED
    BY <2>1, <2>2, <2>3 DEF Hung
<1>3. PICK k \in DOMAIN Children(s) : PlaceAbove(t, prefix, s, base) /\ ChildOf(node, s, base, prefix, k)
  BY <1>2
<1>4. Descriptor[s].packed
  <2>1. ~Descriptor[s].packed => IsWhole(node)
    BY <1>3, SliceOrStream
  <2> QED
    BY <2>1 DEF IsWhole
<1>5. PICK p : Over(t, prefix, s, base, p)
  <2>1. CASE prefix = <<>> /\ s = t /\ base = 0
    BY <1>3, <1>4, <2>1, VariableOver
  <2>2. CASE \E x \in AllNodes(t) : prefix = x.path /\ s = x.type /\ base = BaseOf(x)
    <3>1. PICK x \in AllNodes(t) : prefix = x.path /\ s = x.type /\ base = BaseOf(x)
      BY <2>2
    <3>2. x.slice # NoSlice => \E q \in Owners(t) : CoveredBy(t, x, q)
      BY SlicesCovered
    <3>3. \E q \in Owners(t) : Over(t, x.path, x.type, BaseOf(x), q)
      BY <1>3, <1>4, <3>1, <3>2, NodeOver
    <3> QED
      BY <3>1, <3>3
  <2> QED
    BY <1>3, <2>1, <2>2 DEF PlaceAbove
<1>6. node.slice.offset = base + Children(s)[k].offset /\ node.slice.width = BitWidth[node.type]
  BY <1>3, <1>4, <1>5, PartCovered
<1>7. node.path = Append(prefix, k) /\ node.type = Children(s)[k].type
  BY <1>3 DEF ChildOf
<1> QED
  BY <1>3, <1>4, <1>6, <1>7

(* Bits that lie apart do so wherever they begin.                           *)
LEMMA ApartShifted ==
  ASSUME NEW base \in Nat, NEW a \in Nat, NEW m \in Nat, NEW b \in Nat, NEW n \in Nat,
         Bits(a, m) \cap Bits(b, n) = {}
  PROVE  Bits(base + a, m) \cap Bits(base + b, n) = {}
<1>1. ASSUME NEW x \in Bits(base + a, m), x \in Bits(base + b, n)
      PROVE  FALSE
  <2>1. x \in Int /\ base + a <= x /\ x <= base + a + m - 1 /\ base + b <= x /\ x <= base + b + n - 1
    BY <1>1 DEF Bits
  <2>2. x - base \in a .. a + m - 1 /\ x - base \in b .. b + n - 1
    BY <2>1
  <2> QED
    BY <2>2 DEF Bits
<1> QED
  BY <1>1

(* Slices of siblings do not overlap.                                       *)
LEMMA SlicesApart ==
  ASSUME LaidOut, NEW t \in Types, NEW x \in AllNodes(t), NEW y \in AllNodes(t),
         x.slice # NoSlice, y.slice # NoSlice, Siblings(x.path, y.path)
  PROVE  BitsOf(x.slice) \cap BitsOf(y.slice) = {}
<1>1. PICK pre \in Seq(Nat), s \in Types, base \in Offset : \E k \in DOMAIN Children(s) :
        /\ PlaceAbove(t, pre, s, base) /\ Descriptor[s].packed
        /\ x.path = Append(pre, k)
        /\ x.slice.offset = base + Children(s)[k].offset
        /\ x.slice.width = BitWidth[Children(s)[k].type]
  BY SliceHangs
<1>2. PICK k \in DOMAIN Children(s) :
        /\ PlaceAbove(t, pre, s, base) /\ Descriptor[s].packed
        /\ x.path = Append(pre, k)
        /\ x.slice.offset = base + Children(s)[k].offset
        /\ x.slice.width = BitWidth[Children(s)[k].type]
  BY <1>1
<1>3. PICK qre \in Seq(Nat), r \in Types, b \in Offset : \E j \in DOMAIN Children(r) :
        /\ PlaceAbove(t, qre, r, b) /\ Descriptor[r].packed
        /\ y.path = Append(qre, j)
        /\ y.slice.offset = b + Children(r)[j].offset
        /\ y.slice.width = BitWidth[Children(r)[j].type]
  BY SliceHangs
<1>4. PICK j \in DOMAIN Children(r) :
        /\ PlaceAbove(t, qre, r, b) /\ Descriptor[r].packed
        /\ y.path = Append(qre, j)
        /\ y.slice.offset = b + Children(r)[j].offset
        /\ y.slice.width = BitWidth[Children(r)[j].type]
  BY <1>3
<1>5. k \in Nat /\ j \in Nat
  BY ChildrenOf
<1>6. Front(x.path) = pre /\ Front(y.path) = qre
  BY <1>2, <1>4, <1>5, ChildPaths
<1>7. pre = qre /\ x.path # y.path
  BY <1>6 DEF Siblings
<1>8. s = r /\ base = b
  BY <1>2, <1>4, <1>7, OnePlaceAbove
<1>9. j # k
  BY <1>2, <1>4, <1>7
<1>10. PICK m \in Nat, n \in Nat, a \in Nat, c \in Nat :
         /\ m = BitWidth[Children(s)[k].type] /\ n = BitWidth[Children(s)[j].type]
         /\ a = Children(s)[k].offset /\ c = Children(s)[j].offset
  <2>1. /\ Children(s)[k].type \in Types /\ Children(s)[j].type \in Types
        /\ Children(s)[k].offset \in Nat /\ Children(s)[j].offset \in Nat
    BY <1>2, <1>4, <1>8, PartsLaidOut
  <2>2. BitWidth[Children(s)[k].type] \in Nat /\ BitWidth[Children(s)[j].type] \in Nat
    BY <2>1, WidthsAre, TypesAssumption DEF TypesAssumption
  <2> QED
    BY <2>1, <2>2
<1>11. Bits(a, m) \cap Bits(c, n) = {}
  <2>1. k # j => PartBits(Children(s)[k]) \cap PartBits(Children(s)[j]) = {}
    BY <1>2, <1>4, <1>8, PartsLaidOut
  <2> QED
    BY <1>9, <1>10, <2>1 DEF PartBits
<1>12. base \in Nat
  BY TypesAssumption DEF TypesAssumption, Offset
<1>13. Bits(base + a, m) \cap Bits(base + c, n) = {}
  BY <1>11, <1>12, ApartShifted
<1>14. BitsOf(x.slice) = Bits(base + a, m) /\ BitsOf(y.slice) = Bits(base + c, n)
  BY <1>2, <1>4, <1>8, <1>10 DEF BitsOf
<1> QED
  BY <1>13, <1>14
----------------------------------------------------------------------------
(* A node that binds no stream though its type has one is a slice.          *)
LEMMA SliceUnlessBound ==
  ASSUME NEW t \in Types, NEW m \in AllNodes(t), SingleStream(m.type), m.binds = NoBinding
  PROVE  m.slice # NoSlice
<1>1. PICK s \in Types, base \in Offset : \E prefix : \E j \in DOMAIN Children(s) : ChildOf(m, s, base, prefix, j)
  <2>1. 0 \in Offset
    BY TypesAssumption DEF TypesAssumption, Offset
  <2>2. Hung(m, t, 0, AllNodes(t))
    BY NodeHangs
  <2>3. \A x \in AllNodes(t) : x.type \in Types /\ BaseOf(x) \in Offset
    BY NodeHangs
  <2> QED
    BY <2>1, <2>2, <2>3, Zenon DEF Hung
<1>2. PICK prefix : \E j \in DOMAIN Children(s) : ChildOf(m, s, base, prefix, j)
  BY <1>1
<1>3. PICK j \in DOMAIN Children(s) : ChildOf(m, s, base, prefix, j)
  BY <1>2
<1>4. IsSlice(m, OffsetIn(base, TRUE, Children(s)[j])) \/ IsWhole(m)
  BY <1>3, SliceOrStream
<1> QED
  BY <1>4 DEF IsSlice, IsWhole

(* A declaration binds a stream to every node that is to have one, and to   *)
(* no other.                                                                *)
LEMMA BoundIff ==
  ASSUME Numbered, KnownAgrees, NEW t \in Types, NEW alias, NEW leaves \in Seq(Ids \cup {Invalid}),
         Acceptable(t, alias, leaves), NEW nodes \in Seq(Node), nodes = NodesOf[t],
         NEW k \in DOMAIN nodes
  PROVE  Bound(t, nodes, leaves, k) # Invalid <=> nodes[k].binds # NoBinding
<1>1. LeavesAre(nodes, Expansion[t])
  BY NodesOfType
<1>2. PICK types \in Seq(Types) : types = Expansion[t]
  BY NodesOfType
<1>3. PICK at : PlacesLeaves(at, nodes, types)
  BY <1>1, <1>2 DEF LeavesAre
<1>4. k \in 1 .. Len(nodes) /\ nodes[k] \in Node
  BY ElementOfSeq
<1>5. CASE nodes[k].binds = NoBinding
  <2>1. ~ Allocates(nodes, leaves, k)
    BY <1>5 DEF Allocates, NoBinding
  <2> QED
    BY <1>5, <2>1 DEF Bound
<1>6. CASE Allocates(nodes, leaves, k)
  <2>1. nodes[k].binds # NoBinding
    BY <1>6 DEF Allocates, NoBinding
  <2>2. k \in Fresh(nodes, leaves)
    BY <1>6 DEF Fresh
  <2>3. NewId(t, nodes, leaves, k) \in Nat
    BY <2>2, AllocatedAre
  <2>4. Bound(t, nodes, leaves, k) = NewId(t, nodes, leaves, k)
    BY <1>6, <2>1 DEF Bound
  <2> QED
    BY <2>1, <2>3, <2>4, BuilderAssumption DEF BuilderAssumption
<1>7. CASE nodes[k].binds # NoBinding /\ ~ Allocates(nodes, leaves, k)
  <2>1. nodes[k].binds \in {NoBinding, "leaf", "hidden"}
    BY <1>4 DEF Node
  <2>2. nodes[k].binds = "leaf" /\ leaves # <<>> /\ leaves[PlaceOf(nodes, k)] # Invalid
    BY <1>7, <2>1 DEF Allocates
  <2>3. Bound(t, nodes, leaves, k) = leaves[PlaceOf(nodes, k)]
    BY <1>7 DEF Bound
  <2> QED
    BY <1>7, <2>2, <2>3
<1> QED
  BY <1>5, <1>6, <1>7

(* What is bound in a declared variable: a stream to it, if its type is     *)
(* held by one, and streams to the nodes that are to have one.              *)
BoundRight(v) ==
  /\ v.type \in Types /\ DOMAIN v.below = DOMAIN NodesOf[v.type]
  /\ \A k \in DOMAIN v.below : v.below[k] # Invalid <=> NodesOf[v.type][k].binds # NoBinding
  /\ SingleStream(v.type) => v.stream # Invalid
AllBoundRight == variables \in Seq(Variable) /\ \A i \in 1 .. Len(variables) : BoundRight(variables[i])

(* A declaration binds right, and leaves the other variables alone.         *)
LEMMA BoundRightByDeclare ==
  ASSUME AllBoundRight, Numbered, KnownAgrees, Typed', NEW t \in Declared,
         NEW alias \in Ids \cup {NoAlias, Invalid}, NEW leaves \in Leaves[t],
         DeclareVar(t, alias, leaves)
  PROVE  AllBoundRight'
<1>1. t \in Types /\ leaves \in Seq(Ids \cup {Invalid}) /\ Acceptable(t, alias, leaves)
  BY BuilderAssumption DEF BuilderAssumption, DeclareVar
<1>2. PICK nodes \in Seq(Node) : nodes = NodesOf[t]
  BY <1>1, NodesOfType
<1> DEFINE below == [k \in DOMAIN nodes |-> Bound(t, nodes, leaves, k)]
           stream == IF alias = NoAlias THEN OwnStream(t) ELSE alias
           variable == [scope |-> Last(stack), type |-> t, aliased |-> alias # NoAlias,
                        stream |-> stream, below |-> below]
<1>3. variables' = Append(variables, variable)
  BY <1>2 DEF DeclareVar, SinkDeclares
<1>4. \A k \in DOMAIN nodes : below[k] # Invalid <=> nodes[k].binds # NoBinding
  <2> TAKE k \in DOMAIN nodes
  <2>1. below[k] = Bound(t, nodes, leaves, k)
    OBVIOUS
  <2> HIDE DEF below
  <2> QED
    BY <1>1, <1>2, <2>1, BoundIff
<1>5. SingleStream(t) => stream # Invalid
  <2>1. CASE alias = NoAlias
    <3>1. Count \in Nat
      BY NumberedCount
    <3> QED
      BY <2>1, <3>1, BuilderAssumption DEF OwnStream, BuilderAssumption
  <2>2. CASE alias # NoAlias
    <3>1. alias \in DOMAIN known
      BY <1>1, <2>2 DEF Acceptable, Known
    <3>2. alias \in Nat
      BY <3>1, NumberedCount DEF KnownAgrees
    <3> QED
      BY <2>2, <3>2, BuilderAssumption DEF BuilderAssumption
  <2> QED
    BY <2>1, <2>2
<1>6. BoundRight(variable)
  <2>1. DOMAIN below = DOMAIN nodes
    OBVIOUS
  <2> HIDE DEF below, stream
  <2>2. variable.type = t /\ variable.below = below /\ variable.stream = stream
    OBVIOUS
  <2> HIDE DEF variable
  <2> QED
    BY <1>1, <1>2, <1>4, <1>5, <2>1, <2>2 DEF BoundRight
<1> HIDE DEF variable
<1>7. PICK n \in Nat : n = Len(variables) /\ variables \in Seq(Variable)
  BY LenProperties DEF AllBoundRight
<1>8. /\ Len(variables') = n + 1 /\ variables'[n + 1] = variable
      /\ \A i \in 1 .. n : variables'[i] = variables[i]
  BY <1>3, <1>7
<1>9. ASSUME NEW i \in 1 .. n + 1
      PROVE  BoundRight(variables'[i])
  <2>1. CASE i = n + 1
    BY <1>6, <1>8, <2>1
  <2>2. CASE i # n + 1
    <3>1. i \in 1 .. n
      BY <1>7, <2>2
    <3> QED
      BY <1>7, <1>8, <3>1 DEF AllBoundRight
  <2> QED
    BY <2>1, <2>2
<1>10. variables' \in Seq(Variable)
  BY DEF Typed
<1> QED
  BY <1>7, <1>8, <1>9, <1>10 DEF AllBoundRight, BoundRight

(* A stream that is bound exists, and if it was made for its variable, it   *)
(* was made as its node's type asks; what the checker knows is bound.       *)
StreamMade(i, id, t) == id \in DOMAIN streams /\ (MadeFor(i, id) => streams[id] = StreamOf(t))
KnownBound == \A id \in DOMAIN known : \E h \in 1 .. Len(variables) : BoundIn(variables[h], id)
MadeIn(i, v) ==
  /\ SingleStream(v.type) => StreamMade(i, v.stream, v.type)
  /\ \A k \in DOMAIN v.below : v.below[k] # Invalid => StreamMade(i, v.below[k], NodesOf[v.type][k].type)
MadeRight == KnownBound /\ \A i \in 1 .. Len(variables) : MadeIn(i, variables[i])

(* What a declaration leaves alone: the variables before and their streams. *)
LEMMA MadeStays ==
  ASSUME [Next]_vars, \A h \in 1 .. Len(variables) : variables'[h] = variables[h],
         NEW i \in 1 .. Len(variables), NEW id, NEW t, StreamMade(i, id, t)
  PROVE  StreamMade(i, id, t)'
<1>1. id \in DOMAIN streams /\ (MadeFor(i, id) => streams[id] = StreamOf(t))
  BY DEF StreamMade
<1>2. id \in DOMAIN streams' /\ streams'[id] = streams[id]
  BY <1>1, StreamsStay
<1>3. MadeFor(i, id)' => MadeFor(i, id)
  BY DEF MadeFor, BoundIn
<1> QED
  BY <1>1, <1>2, <1>3 DEF StreamMade

(* What a declaration allocates is made for it; what it is given is bound.  *)
LEMMA MadeByDeclare ==
  ASSUME MadeRight, Typed, Numbered, KnownAgrees, Typed', NEW t \in Declared,
         NEW alias \in Ids \cup {NoAlias, Invalid}, NEW leaves \in Leaves[t],
         DeclareVar(t, alias, leaves)
  PROVE  MadeRight'
<1>1. t \in Types /\ leaves \in Seq(Ids \cup {Invalid}) /\ Acceptable(t, alias, leaves)
  BY BuilderAssumption DEF BuilderAssumption, DeclareVar
<1>2. PICK nodes \in Seq(Node) : nodes = NodesOf[t]
  BY <1>1, NodesOfType
<1>3. PICK next : next = Added(t, nodes, alias, leaves)
  OBVIOUS
<1>4. AddedFits(t, nodes, alias, leaves, next)
  BY <1>2, <1>3, AddedByDeclare
<1>5. PICK variable : /\ variables' = Append(variables, variable) /\ variable.type = t
                      /\ variable.stream = (IF alias = NoAlias THEN OwnStream(t) ELSE alias)
                      /\ variable.below = [k \in DOMAIN nodes |-> Bound(t, nodes, leaves, k)]
  <2> DEFINE stream == IF alias = NoAlias THEN OwnStream(t) ELSE alias
             below == [k \in DOMAIN nodes |-> Bound(t, nodes, leaves, k)]
             v == [scope |-> Last(stack), type |-> t, aliased |-> alias # NoAlias,
                   stream |-> stream, below |-> below]
  <2>1. variables' = Append(variables, v)
    BY <1>2 DEF DeclareVar, SinkDeclares
  <2> HIDE DEF stream, below
  <2>2. v.type = t /\ v.stream = stream /\ v.below = below
    OBVIOUS
  <2> HIDE DEF v
  <2> QED
    BY <2>1, <2>2 DEF stream, below
<1>6. PICK n \in Nat : n = Len(variables) /\ variables \in Seq(Variable)
  BY LenProperties DEF Typed
<1>7. /\ Len(variables') = n + 1 /\ variables'[n + 1] = variable
      /\ \A h \in 1 .. n : variables'[h] = variables[h]
  BY <1>5, <1>6
<1>8. [Next]_vars
  BY DEF Next, HeaderCalls
<1>9. PICK made : made = Allocated(t, nodes, leaves)
  OBVIOUS
<1>10. streams' = [x \in DOMAIN streams \cup DOMAIN made |-> IF x \in DOMAIN streams THEN streams[x] ELSE made[x]]
  BY <1>2, <1>9 DEF DeclareVar, SinkDeclares, Extended
<1>11. Count \in Nat /\ DOMAIN streams = 0 .. Count - 1
  BY NumberedCount
(* A stream that was known is bound in a variable before.                   *)
<1>12. ASSUME NEW id \in DOMAIN known, NEW s
       PROVE  StreamMade(n + 1, id, s)'
  <2>1. PICK h \in 1 .. n : BoundIn(variables[h], id)
    BY <1>6 DEF MadeRight, KnownBound
  <2>2. h \in 1 .. (n + 1) - 1 /\ BoundIn(variables'[h], id)
    BY <1>6, <1>7, <2>1
  <2>3. ~ MadeFor(n + 1, id)'
    BY <2>2 DEF MadeFor, BoundIn
  <2>4. id \in DOMAIN streams'
    BY <1>8, StreamsStay DEF KnownAgrees
  <2> QED
    BY <2>3, <2>4 DEF StreamMade
(* A new one has just been made.                                            *)
<1>13. ASSUME NEW id \in Nat, id >= Count, id \in DOMAIN made, NEW s, made[id] = StreamOf(s)
       PROVE  StreamMade(n + 1, id, s)'
  <2>1. id \notin DOMAIN streams
    BY <1>11, <1>13
  <2>2. id \in DOMAIN streams' /\ streams'[id] = StreamOf(s)
    BY <1>10, <1>13, <2>1
  <2> QED
    BY <2>2 DEF StreamMade
<1>14. ASSUME SingleStream(t)
       PROVE  StreamMade(n + 1, variable.stream, t)'
  <2>1. CASE alias = NoAlias
    <3>1. variable.stream = Count
      BY <1>5, <1>14, <2>1 DEF OwnStream
    <3>2. Count \in DOMAIN made /\ made[Count] = StreamOf(t) /\ Count >= Count
      BY <1>1, <1>9, <1>11, <1>14, AllocatedAre
    <3> QED
      BY <1>11, <1>13, <3>1, <3>2
  <2>2. CASE alias # NoAlias
    <3>1. variable.stream \in DOMAIN known
      BY <1>1, <1>5, <2>2 DEF Acceptable, Known
    <3> QED
      BY <1>12, <3>1
  <2> QED
    BY <2>1, <2>2
<1>15. ASSUME NEW k \in DOMAIN nodes, variable.below[k] # Invalid
       PROVE  StreamMade(n + 1, variable.below[k], nodes[k].type)'
  <2>1. variable.below[k] = Bound(t, nodes, leaves, k)
    BY <1>5
  <2>2. \/ k \in Fresh(nodes, leaves) /\ variable.below[k] = NewId(t, nodes, leaves, k)
        \/ variable.below[k] \in DOMAIN known
    BY <1>1, <1>2, <1>15, <2>1, BoundIs
  <2>3. CASE variable.below[k] \in DOMAIN known
    BY <1>12, <2>3
  <2>4. CASE k \in Fresh(nodes, leaves) /\ variable.below[k] = NewId(t, nodes, leaves, k)
    <3>1. PICK id \in Nat : /\ id = NewId(t, nodes, leaves, k) /\ id >= Count /\ id \in DOMAIN made
                            /\ made[id] = StreamOf(nodes[k].type)
      BY <1>1, <1>9, <2>4, AllocatedAre
    <3> QED
      BY <1>13, <2>4, <3>1
  <2> QED
    BY <2>2, <2>3, <2>4
<1>16. ASSUME NEW id \in DOMAIN known'
       PROVE  \E h \in 1 .. n + 1 : BoundIn(variables'[h], id)
  <2>1. CASE id \in DOMAIN known
    <3>1. PICK h \in 1 .. n : BoundIn(variables[h], id)
      BY <1>6, <2>1 DEF MadeRight, KnownBound
    <3> QED
      BY <1>6, <1>7, <3>1
  <2>2. CASE id \notin DOMAIN known
    <3>1. id \in DOMAIN Recorded(t, nodes, alias, leaves)
      BY <1>2, <2>2 DEF DeclareVar, Extended
    <3>2. id \in ToSet(next)
      BY <1>1, <1>2, <1>4, <3>1, KnownIsBound
    <3>3. PICK j \in DOMAIN next : id = next[j]
      BY <3>2 DEF ToSet
    <3>4. PICK m \in Nat : m = Len(nodes) /\ DOMAIN nodes = 1 .. m
      BY LenProperties
    <3>5. DOMAIN next = 1 .. 1 + m
      BY <1>4, <3>4, LenProperties DEF AddedFits
    <3>6. next[1] = variable.stream /\ \A k \in DOMAIN nodes : next[k + 1] = variable.below[k]
      <4>1. Added(t, nodes, alias, leaves)[1] = (IF alias = NoAlias THEN OwnStream(t) ELSE alias)
        BY <1>2, BindingsByDeclare
      <4>2. \A k \in DOMAIN nodes : next[k + 1] = Bound(t, nodes, leaves, k)
        BY <1>4 DEF AddedFits
      <4> QED
        BY <1>3, <1>5, <4>1, <4>2
    <3>7. BoundIn(variable, id)
      <4>1. CASE j = 1
        BY <3>3, <3>6, <4>1 DEF BoundIn
      <4>2. CASE j # 1
        <5>1. j - 1 \in DOMAIN nodes /\ j = (j - 1) + 1
          BY <3>4, <3>5, <4>2
        <5>2. id = variable.below[j - 1] /\ j - 1 \in DOMAIN variable.below
          BY <1>5, <3>3, <3>6, <5>1
        <5> QED
          BY <5>2 DEF BoundIn
      <4> QED
        BY <4>1, <4>2
    <3> QED
      BY <1>6, <1>7, <3>7
  <2> QED
    BY <2>1, <2>2
<1>17. ASSUME NEW i \in 1 .. n + 1
       PROVE  MadeIn(i, variables[i])'
  <2>1. CASE i = n + 1
    <3>1. MadeIn(n + 1, variable)'
      <4>1. DOMAIN variable.below = DOMAIN nodes
        BY <1>5
      <4> QED
        BY <1>2, <1>5, <1>14, <1>15, <4>1 DEF MadeIn
    <3>2. variables'[i] = variable
      BY <1>7, <2>1
    <3> QED
      BY <2>1, <3>1, <3>2 DEF MadeIn
  <2>2. CASE i # n + 1
    <3>1. i \in 1 .. Len(variables) /\ variables'[i] = variables[i]
      BY <1>6, <1>7, <2>2
    <3>2. \A h \in 1 .. Len(variables) : variables'[h] = variables[h]
      BY <1>6, <1>7
    <3>3. \A id, s : StreamMade(i, id, s) => StreamMade(i, id, s)'
      BY <1>8, <3>1, <3>2, MadeStays
    <3>4. MadeIn(i, variables[i])
      BY <3>1 DEF MadeRight
    <3> QED
      BY <3>1, <3>3, <3>4 DEF MadeIn
  <2> QED
    BY <2>1, <2>2
<1>18. Len(variables') = n + 1
  BY <1>7
<1>19. KnownBound'
  BY <1>16, <1>18 DEF KnownBound
<1>20. (\A i \in 1 .. Len(variables) : MadeIn(i, variables[i]))'
  BY <1>17, <1>18
<1> QED
  BY <1>19, <1>20 DEF MadeRight

(* The nodes of a variable with a stream are those that are to have one.    *)
LEMMA PathsAreOwners ==
  ASSUME NEW v, BoundRight(v)
  PROVE  PathsWithStream(v) = Owners(v.type)
<1>1. PICK t \in Types : t = v.type
  BY DEF BoundRight
<1>2. /\ DOMAIN v.below = DOMAIN NodesOf[t]
      /\ \A k \in DOMAIN v.below : v.below[k] # Invalid <=> NodesOf[t][k].binds # NoBinding
  BY <1>1 DEF BoundRight
<1>3. ASSUME NEW p \in PathsWithStream(v)
      PROVE  p \in Owners(t)
  <2>1. CASE p = <<>>
    BY <2>1 DEF Owners
  <2>2. CASE p # <<>>
    <3>1. PICK k \in DOMAIN v.below : v.below[k] # Invalid /\ p = NodesOf[t][k].path
      BY <1>1, <2>2 DEF PathsWithStream
    <3>2. NodesOf[t][k] \in AllNodes(t) /\ NodesOf[t][k].binds # NoBinding
      BY <1>2, <3>1, AllNodesAre
    <3> QED
      BY <3>1, <3>2 DEF Owners
  <2> QED
    BY <2>1, <2>2
<1>4. ASSUME NEW p \in Owners(t)
      PROVE  p \in PathsWithStream(v)
  <2>1. CASE p = <<>>
    BY <2>1 DEF PathsWithStream
  <2>2. CASE p # <<>>
    <3>1. PICK m \in AllNodes(t) : m.binds # NoBinding /\ p = m.path
      BY <2>2 DEF Owners
    <3>2. PICK k \in DOMAIN NodesOf[t] : m = NodesOf[t][k]
      BY AllNodesAre
    <3>3. k \in DOMAIN v.below /\ v.below[k] # Invalid
      BY <1>2, <3>1, <3>2
    <3> QED
      BY <1>1, <3>1, <3>2, <3>3 DEF PathsWithStream
  <2> QED
    BY <2>1, <2>2
<1> QED
  BY <1>1, <1>3, <1>4

(* A slice has an owner with a stream and, if the layouts are sound, lies   *)
(* within it.                                                               *)
LEMMA SliceWithinOwner ==
  ASSUME NEW v, BoundRight(v), NEW node \in AllNodes(v.type), node.slice # NoSlice
  PROVE  /\ LaidOut => BitsOf(node.slice) \subseteq 0 .. BitWidth[TypeAt(v.type, OwnerPath(v, node.path))] - 1
         /\ OwnerPath(v, node.path) \in Owners(v.type) /\ Packs(TypeAt(v.type, OwnerPath(v, node.path)))
<1>1. PICK t \in Types : t = v.type
  BY DEF BoundRight
<1>2. PICK p \in Owners(t) : CoveredBy(t, node, p)
  BY <1>1, SlicesCovered
<1>3. OwnerPath(v, node.path) = p
  BY <1>1, <1>2, PathsAreOwners, OwnerIs
<1>4. TypeAt(t, p) \in Types /\ node.type \in Types
  BY <1>1, TypeAtNode, NodeHangs
<1>5. PICK w \in Nat, n \in Nat : w = BitWidth[TypeAt(t, p)] /\ n = BitWidth[node.type]
  BY <1>4, WidthsAre, TypesAssumption DEF TypesAssumption
<1>6. ASSUME LaidOut
      PROVE  BitsOf(node.slice) \subseteq 0 .. w - 1
  <2>1. PICK off \in Nat : off = node.slice.offset /\ node.slice.width = n /\ off + n <= w
    BY <1>2, <1>5, <1>6 DEF CoveredBy
  <2>2. off .. off + n - 1 \subseteq 0 .. w - 1
    BY <2>1
  <2>3. BitsOf(node.slice) = off .. off + n - 1
    BY <2>1 DEF BitsOf, Bits
  <2> QED
    BY <2>2, <2>3
<1>7. Packs(TypeAt(t, p))
  BY <1>2 DEF CoveredBy
<1> QED
  BY <1>1, <1>2, <1>3, <1>5, <1>6, <1>7

(* The stream of an owner is bound to it.                                   *)
LEMMA OwnerStream ==
  ASSUME AllBoundRight, MadeRight, NEW i \in 1 .. Len(variables), NEW p \in Owners(variables[i].type),
         SingleStream(TypeAt(variables[i].type, p))
  PROVE  StreamMade(i, StreamAt(variables[i], p), TypeAt(variables[i].type, p))
<1>1. PICK v : v = variables[i]
  OBVIOUS
<1>2. BoundRight(v)
  BY <1>1 DEF AllBoundRight
<1>3. PICK t \in Types : t = v.type
  BY <1>2 DEF BoundRight
<1>4. CASE p = <<>>
  <2>1. StreamAt(v, p) = v.stream /\ TypeAt(t, p) = t
    BY <1>4 DEF StreamAt, TypeAt
  <2> QED
    BY <1>1, <1>3, <2>1 DEF MadeRight, MadeIn
<1>5. CASE p # <<>>
  <2>1. p \in PathsWithStream(v)
    BY <1>1, <1>2, PathsAreOwners
  <2>2. PICK j \in DOMAIN v.below : v.below[j] # Invalid /\ NodesOf[t][j].path = p
    BY <1>3, <1>5, <2>1 DEF PathsWithStream
  <2>3. PICK k : k = CHOOSE c \in DOMAIN v.below : NodesOf[v.type][c].path = p
    OBVIOUS
  <2>4. k \in DOMAIN v.below /\ NodesOf[t][k].path = p
    BY <1>3, <2>2, <2>3
  <2>5. DOMAIN v.below = DOMAIN NodesOf[t]
    BY <1>2, <1>3 DEF BoundRight
  <2>6. NodesOf[t][j] \in AllNodes(t) /\ NodesOf[t][k] \in AllNodes(t)
    BY <2>4, <2>5, AllNodesAre
  <2>7. NodesOf[t][j] = NodesOf[t][k]
    BY <2>2, <2>4, <2>6, NodeHangs
  <2>8. v.below[k] # Invalid
    BY <1>2, <1>3, <2>2, <2>4, <2>7 DEF BoundRight
  <2>9. StreamAt(v, p) = v.below[k]
    BY <1>5, <2>3 DEF StreamAt
  <2>10. TypeAt(t, p) = NodesOf[t][k].type
    BY <2>4, <2>6, TypeAtNode
  <2>11. StreamMade(i, v.below[k], NodesOf[t][k].type)
    BY <1>1, <1>3, <2>4, <2>8 DEF MadeRight, MadeIn
  <2> QED
    BY <1>1, <1>3, <2>9, <2>10, <2>11
<1> QED
  BY <1>4, <1>5

(* A slice is covered by the stream that is bound to its owner.             *)
LEMMA SliceCoveredIfMade ==
  ASSUME LaidOut, Typed, AllBoundRight, MadeRight, NEW i \in 1 .. Len(variables),
         NEW k \in Sliced(variables[i])
  PROVE  SliceCovered(i, k)
<1>1. PICK v : v = variables[i]
  OBVIOUS
<1>2. BoundRight(v)
  BY <1>1 DEF AllBoundRight
<1>3. PICK t \in Types : t = v.type
  BY <1>2 DEF BoundRight
<1>4. PICK node \in AllNodes(t) : node = NodesOf[t][k] /\ node.slice # NoSlice
  BY <1>1, <1>3, AllNodesAre DEF Sliced
<1>5. PICK p \in Owners(t) : /\ p = OwnerPath(v, node.path) /\ Packs(TypeAt(t, p))
                             /\ BitsOf(node.slice) \subseteq 0 .. BitWidth[TypeAt(t, p)] - 1
  BY <1>2, <1>3, <1>4, SliceWithinOwner
<1>6. PICK whole \in Types : whole = TypeAt(t, p)
  BY TypeAtNode
<1>7. PICK w \in Nat : w = BitWidth[whole]
  BY WidthsAre, TypesAssumption DEF TypesAssumption
<1>8. PICK id : id = StreamAt(v, p)
  OBVIOUS
<1>9. id \in DOMAIN streams /\ (MadeFor(i, id) => streams[id] = StreamOf(whole))
  BY <1>1, <1>3, <1>5, <1>6, <1>8, OwnerStream DEF StreamMade, Packs
<1>10. ASSUME MadeFor(i, id)
       PROVE  HoldsWhole(id, whole)
  <2>1. PICK kind : kind = Descriptor[whole].kind /\ kind \in {"STRUCT", "UNION", "ARRAY"}
    BY <1>5, <1>6 DEF Packs, Composites
  <2>2. kind \notin {"REAL", "STRING"}
    BY <2>1
  <2>3. StreamOf(whole) = [kind |-> "LOGIC", width |-> BitWidth[whole]]
    BY <2>1, <2>2, Zenon DEF StreamOf
  <2>4. streams[id] = [kind |-> "LOGIC", width |-> w]
    BY <1>7, <1>9, <1>10, <2>3
  <2>5. streams[id].kind = "LOGIC" /\ streams[id].width = w
    BY <2>4
  <2> QED
    BY <1>7, <2>5 DEF HoldsWhole
<1>11. ASSUME HoldsWhole(id, whole)
       PROVE  BitsOf(node.slice) \subseteq 0 .. streams[id].width - 1
  <2>1. streams[id].width \in Int
    BY <1>9 DEF Typed, Stream
  <2>2. streams[id].width >= w
    BY <1>7, <1>11 DEF HoldsWhole
  <2>3. 0 .. w - 1 \subseteq 0 .. streams[id].width - 1
    BY <2>1, <2>2
  <2> QED
    BY <1>5, <1>6, <1>7, <2>3
<1>12. /\ NodesOf[variables[i].type][k] = node /\ OwnerPath(variables[i], node.path) = p
       /\ StreamAt(variables[i], p) = id /\ TypeAt(variables[i].type, p) = whole
  BY <1>1, <1>3, <1>4, <1>5, <1>6, <1>8
<1> QED
  BY <1>9, <1>10, <1>11, <1>12, Zenon DEF SliceCovered

(* All slices of the variables fit, if the layouts are sound.               *)
LEMMA SlicesFitIfBound ==
  ASSUME LaidOut, Typed, AllBoundRight, MadeRight
  PROVE  SlicesFit
<1>1. DOMAIN variables = 1 .. Len(variables)
  BY LenProperties DEF Typed
<1>2. ASSUME NEW i \in 1 .. Len(variables)
      PROVE  SiblingsApart(variables[i])
  <2>1. PICK v : v = variables[i]
    OBVIOUS
  <2>2. PICK t \in Types : t = v.type
    BY <2>1 DEF AllBoundRight, BoundRight
  <2>3. ASSUME NEW j \in Sliced(v), NEW k \in Sliced(v), Siblings(NodesOf[t][j].path, NodesOf[t][k].path)
        PROVE  BitsOf(NodesOf[t][j].slice) \cap BitsOf(NodesOf[t][k].slice) = {}
    <3>1. PICK x \in AllNodes(t) : x = NodesOf[t][j] /\ x.slice # NoSlice
      BY <2>2, AllNodesAre DEF Sliced
    <3>2. PICK y \in AllNodes(t) : y = NodesOf[t][k] /\ y.slice # NoSlice
      BY <2>2, AllNodesAre DEF Sliced
    <3>3. Siblings(x.path, y.path)
      BY <2>3, <3>1, <3>2
    <3>4. BitsOf(x.slice) \cap BitsOf(y.slice) = {}
      BY <3>1, <3>2, <3>3, SlicesApart
    <3> QED
      BY <3>1, <3>2, <3>4
  <2> QED
    BY <2>1, <2>2, <2>3 DEF SiblingsApart
<1> QED
  BY <1>1, <1>2, SliceCoveredIfMade DEF SlicesFit

(* All nodes that have values are bound or slices of what is.               *)
LEMMA LeavesReadableIfBound ==
  ASSUME AllBoundRight
  PROVE  LeavesReadable
<1>1. ASSUME NEW v \in ToSet(variables)
      PROVE  BoundRight(v)
  BY DEF ToSet, AllBoundRight
<1>2. ASSUME NEW v \in ToSet(variables), NEW k \in DOMAIN v.below,
             SingleStream(NodesOf[v.type][k].type), v.below[k] = Invalid
      PROVE  /\ NodesOf[v.type][k].slice # NoSlice
             /\ SingleStream(TypeAt(v.type, OwnerPath(v, NodesOf[v.type][k].path)))
  <2>1. /\ v.type \in Types /\ DOMAIN v.below = DOMAIN NodesOf[v.type]
        /\ NodesOf[v.type][k].binds = NoBinding
    BY <1>1, <1>2 DEF BoundRight
  <2>2. PICK node \in AllNodes(v.type) : node = NodesOf[v.type][k]
    BY <2>1, AllNodesAre
  <2>3. node.slice # NoSlice
    BY <1>2, <2>1, <2>2, SliceUnlessBound
  <2>4. SingleStream(TypeAt(v.type, OwnerPath(v, node.path)))
    BY <1>1, <2>3, SliceWithinOwner DEF Packs
  <2> QED
    BY <2>2, <2>3, <2>4
<1>3. ASSUME NEW v \in ToSet(variables)
      PROVE  SingleStream(v.type) => v.stream # Invalid
  BY <1>1 DEF BoundRight
<1> QED
  BY <1>2, <1>3 DEF LeavesReadable

(* However types are nested and whatever is given in alias and leaves,      *)
(* every node that has values leads to a stream, its own or that of the     *)
(* nearest node above it that has one.  If besides the layouts are sound,   *)
(* no two siblings share bits, a stream made for the owner of a slice has   *)
(* room for the whole type, and a slice lies within the stream bound to its *)
(* owner unless that one was given and is of another kind or narrower.      *)
(* Sound layouts are the reader's part: the code takes offsets as they come.*)
THEOREM NodesCorrect == Spec => [](LeavesReadable /\ (LaidOut => NodesReadable))
<1>1. Init => Typed /\ AllBoundRight /\ MadeRight
  <2> SUFFICES ASSUME Init PROVE Typed /\ AllBoundRight /\ MadeRight
    OBVIOUS
  <2>1. /\ known = <<>> /\ streams = <<>> /\ variables = <<>> /\ stored = <<>> /\ timeSet = FALSE
        /\ finished = FALSE /\ headerDone = FALSE /\ taken = FALSE
    BY DEF Init
  <2>2. DOMAIN known = {} /\ DOMAIN streams = {} /\ variables \in Seq(Variable) /\ stored \in Seq(Change) /\ Len(variables) = 0
    BY <2>1
  <2>3. Typed
    BY <2>1, <2>2 DEF Typed
  <2>4. AllBoundRight
    BY <2>2 DEF AllBoundRight
  <2>5. MadeRight
    BY <2>2 DEF MadeRight, KnownBound
  <2> QED
    BY <2>3, <2>4, <2>5
<1>2. Typed /\ Numbered /\ KnownAgrees /\ Nested /\ [Next]_vars => Typed'
  BY TypedByDeclare, TypedByValueChange, TypedByOthers
<1>3. Numbered /\ KnownAgrees /\ [Next]_vars => Numbered' /\ KnownAgrees'
  BY KnownByStep
<1>4. Nested /\ [Next]_vars => Nested'
  BY NestedByBegin, NestedByEnd, NestedByOthers
<1>5. Numbered /\ KnownAgrees /\ AllBoundRight /\ [Next]_vars /\ Typed' => AllBoundRight'
  <2> SUFFICES ASSUME Numbered, KnownAgrees, AllBoundRight, [Next]_vars, Typed' PROVE AllBoundRight'
    OBVIOUS
  <2>1. CASE \E t \in Declared, alias \in Ids \cup {NoAlias, Invalid} :
               \E leaves \in Leaves[t] : DeclareVar(t, alias, leaves)
    BY <2>1, BoundRightByDeclare
  <2>2. CASE UNCHANGED variables
    BY <2>2 DEF AllBoundRight, BoundRight
  <2>3. BeginScope \/ EndScope \/ HeaderDone \/ ValueCalls \/ UNCHANGED vars
          => UNCHANGED variables
    BY DEF BeginScope, EndScope, HeaderDone, ValueCalls, SetTime, ValueChange, Finish, TakeDatabase,
           vars, headerVars
  <2> QED
    BY <2>1, <2>2, <2>3 DEF Next, HeaderCalls
<1>6. Typed /\ Numbered /\ KnownAgrees /\ MadeRight /\ [Next]_vars /\ Typed' => MadeRight'
  <2> SUFFICES ASSUME Typed, Numbered, KnownAgrees, MadeRight, [Next]_vars, Typed' PROVE MadeRight'
    OBVIOUS
  <2>1. CASE \E t \in Declared, alias \in Ids \cup {NoAlias, Invalid} :
               \E leaves \in Leaves[t] : DeclareVar(t, alias, leaves)
    BY <2>1, MadeByDeclare
  <2>2. CASE UNCHANGED <<variables, streams, known>>
    BY <2>2 DEF MadeRight, MadeIn, KnownBound, StreamMade, MadeFor, BoundIn
  <2>3. BeginScope \/ EndScope \/ HeaderDone \/ ValueCalls \/ UNCHANGED vars
          => UNCHANGED <<variables, streams, known>>
    BY DEF BeginScope, EndScope, HeaderDone, ValueCalls, SetTime, ValueChange, Finish, TakeDatabase,
           vars, headerVars, checkerVars
  <2> QED
    BY <2>1, <2>2, <2>3 DEF Next, HeaderCalls
<1>7. Typed /\ AllBoundRight /\ MadeRight => LeavesReadable /\ (LaidOut => NodesReadable)
  BY SlicesFitIfBound, LeavesReadableIfBound DEF NodesReadable
<1> QED
  BY KnownInit, NestedInit, <1>1, <1>2, <1>3, <1>4, <1>5, <1>6, <1>7, PTL DEF Spec
=============================================================================
