----------------------------- MODULE MCHierarchy -----------------------------
(* Small trees for TLC.                                                     *)
EXTENDS HierarchyCodec

CONSTANTS bit, word, none, pair, twin, list, state   \* types, none being the null one

D(kind) == [kind |-> kind, left |-> 0, right |-> 0, packed |-> FALSE, element |-> none, members |-> <<>>]
Pair == [D("STRUCT") EXCEPT !.members = <<[type |-> word, offset |-> 1], [type |-> bit, offset |-> 0]>>,
                            !.packed = TRUE]
MCDescriptor ==
  [t \in {bit, word, none, pair, twin, list, state} |->
     CASE t = bit   -> D("SCALAR")
       [] t = word  -> [D("VECTOR") EXCEPT !.left = 1]
       [] t = none  -> D("VOID")
       [] t \in {pair, twin} -> Pair
       [] t = list  -> [D("ARRAY") EXCEPT !.element = twin, !.left = 1]
       [] t = state -> [D("ENUM") EXCEPT !.element = word]]

X == Plain("x")
X0 == Name("x", <<0>>)
MCNames == {X, X0, Empty}
MCGiven ==
  [name \in MCNames \cup {Element(i) : i \in Indices} |->
     CASE name = X  -> [type |-> list, stream |-> NoId, slice |-> NoSlice]
       [] name = X0 -> [type |-> pair, stream |-> 0, slice |-> NoSlice]
       [] name = Empty -> [type |-> none, stream |-> NoId, slice |-> NoSlice]
       [] OTHER -> [type |-> state, stream |-> 1, slice |-> [offset |-> 1, width |-> 2]]]

MCPaths ==
  UNION {[1 .. n -> {X, X0}] : n \in 1 .. 3}
    \cup {EmptyPath, <<Element(0)>>, <<X, Element(0)>>, <<X, Empty>>, <<Empty, X>>}
=============================================================================
