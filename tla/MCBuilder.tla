------------------------------ MODULE MCBuilder ------------------------------
(* Small types and calls for TLC.                                           *)
EXTENDS Builder

CONSTANTS
  bit, vec, real, event,      \* SCALAR, VECTOR [1:0], REAL, EVENT
  pair, flags, odd,           \* packed: {vec; bit}, flags[0:1] of pair, {bit; ints}
  ints, mixed                 \* unpacked: ints[1:0] of bit, {real; flags; ints; event}

D(kind) == [kind |-> kind, left |-> 0, right |-> 0, packed |-> FALSE, element |-> event, members |-> <<>>]
Array(element, left, right, packed) ==
  [D("ARRAY") EXCEPT !.element = element, !.left = left, !.right = right, !.packed = packed]
Struct(members, packed) == [D("STRUCT") EXCEPT !.members = members, !.packed = packed]
Member(type, offset) == [type |-> type, offset |-> offset]

MCTypes == {bit, vec, real, event, pair, flags, odd, ints, mixed}
MCDescriptor ==
  [t \in MCTypes |->
     CASE t = bit   -> D("SCALAR")
       [] t = vec   -> [D("VECTOR") EXCEPT !.left = 1]
       [] t = real  -> D("REAL")
       [] t = event -> D("EVENT")
       [] t = pair  -> Struct(<<Member(vec, 1), Member(bit, 0)>>, TRUE)
       [] t = flags -> Array(pair, 0, 1, TRUE)
       [] t = odd   -> Struct(<<Member(bit, 0), Member(ints, 1)>>, TRUE)
       [] t = ints  -> Array(bit, 1, 0, FALSE)
       [] t = mixed -> Struct(<<Member(real, 0), Member(flags, 0), Member(ints, 0), Member(event, 0)>>, FALSE)]

ASSUME InstanceLaidOut == LaidOut

(* No leaves, too few or too many of them, or as many as there are, of      *)
(* which any one may be bound to a stream.                                  *)
MCLeaves ==
  [t \in Declared |->
     LET n == ExpansionStreamCount[t]
     IN {<<>>, <<Invalid>>, [i \in 1 .. n |-> Invalid]}
          \cup {[i \in 1 .. n |-> IF i = j THEN id ELSE Invalid] : j \in 1 .. n, id \in Ids}]

Logic(n) == [kind |-> "LOGIC", width |-> n]
MCValues == {Logic(1), Logic(6), [kind |-> "REAL", width |-> 0]}
=============================================================================
