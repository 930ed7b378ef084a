---------------------------- MODULE HierarchyCodec ----------------------------
(***************************************************************************)
(* How a hierarchy is kept in the metadata of a store                      *)
(* (io/hierarchy_codec.cpp): a table of the types, then one of the scopes  *)
(* and one of the nodes, each after the number of its rows.  A type is     *)
(* written as the number of its row, 0 being none.                         *)
(*                                                                         *)
(* A row stands for its bytes: reading one that is not there whole throws. *)
(* Names and entries of types, sign and number of states are left out.     *)
(***************************************************************************)
EXTENDS Hierarchy

CONSTANT Thrown   \* the decoder throws

Null(t) == Descriptor[t].kind = "VOID"
NoType == [kind |-> "VOID"]
Serializable == Kinds \ NoStreamKinds
----------------------------------------------------------------------------
(* TypeTable.  The types a type consists of, in the order they are added.   *)
PartsInOrder(t) ==
  CASE Descriptor[t].kind \in {"ARRAY", "ENUM"}   -> <<Descriptor[t].element>>
    [] Descriptor[t].kind \in {"STRUCT", "UNION"} ->
         [k \in DOMAIN Descriptor[t].members |-> Descriptor[t].members[k].type]
    [] OTHER -> <<>>

(* Seeded faults: each replaces the definition it is named after, and the   *)
(* property named beside it finds it.                                       *)
Completed_ParentFirst(t, parts) == <<t>> \o parts              \* RoundTrip
Whole_CountOnly(items, at) == at <= Len(items)                \* PrefixThrows
Resolves_Forward(ref, i) == ref \in Nat                       \* AcceptedIsTree

(* A type and its parts, parts first. *)
Completed(t, parts) == parts \o <<t>>
Subtree[t \in Types] ==
  IF Null(t) THEN <<>>
  ELSE Completed(t, FlattenSeq([k \in DOMAIN PartsInOrder(t) |-> Subtree[PartsInOrder(t)[k]]]))

(* A type is known by its address, not by what it says, and is added once.  *)
Order(t) ==
  LET all == FlattenSeq([k \in 1 .. Cardinality(DOMAIN t.nodes) |-> Subtree[t.nodes[k - 1].type]])
  IN FoldLeft(LAMBDA order, type : IF Contains(order, type) THEN order ELSE Append(order, type),
              <<>>, all)

RefTo(order, t) == SelectInSeq(order, LAMBDA x : x = t)       \* indexOf()

TypeRow(order, t) ==
  LET d == Descriptor[t]
  IN [d EXCEPT !.element = RefTo(order, @),
               !.members = [k \in DOMAIN @ |-> [@[k] EXCEPT !.type = RefTo(order, @)]]]

ScopeRow(s) == [name |-> s.name, kind |-> s.kind, parent |-> s.parent]
NodeRow(order, n) ==
  [name |-> n.name, type |-> RefTo(order, n.type), scope |-> n.scope, parent |-> n.parent,
   stream |-> n.stream, slice |-> n.slice]

Table(rows) == <<Len(rows)>> \o rows
ById(f, Row(_)) == [k \in 1 .. Cardinality(DOMAIN f) |-> Row(f[k - 1])]

Encoded(t) ==
  LET order == Order(t)
  IN Table([k \in DOMAIN order |-> TypeRow(order, order[k])])
       \o Table(ById(t.scopes, ScopeRow))
       \o Table(ById(t.nodes, LAMBDA n : NodeRow(order, n)))
----------------------------------------------------------------------------
(* The three tables of a file, or Thrown if it ends before them. *)
Whole(items, at) == at <= Len(items) /\ at + items[at] <= Len(items)

After(items, at) == at + items[at] + 1
Rows(items, at) == SubSeq(items, at + 1, Min({at + items[at], Len(items)}))

(* readTypes(): a type refers to types that are there already. *)
Refs(row) == {row.element} \cup {m.type : m \in ToSet(row.members)}
Resolves(ref, i) == ref < i

TypesThrow(rows) ==
  \E i \in DOMAIN rows :
    \/ rows[i].kind \notin Serializable
    \/ \E ref \in Refs(rows[i]) : ~Resolves(ref, i)

(* The row of the root is read over: the hierarchy has its own. *)
ReadScope(t, row) ==
  IF t = Thrown \/ row.kind \notin ScopeKinds \/ ~Required(row.parent, t.scopes) THEN Thrown
  ELSE WithScope(t, row.parent, row.name, row.kind)

ReadScopes(rows) ==
  IF rows = <<>> \/ rows[1].kind \notin ScopeKinds THEN Thrown
  ELSE FoldLeft(ReadScope, NewTree, Tail(rows))

(* The parent tells a member from a signal of a scope. *)
ReadNode(t, row, types) ==
  LET given == [type |-> row.type, stream |-> row.stream, slice |-> row.slice]
  IN CASE t = Thrown \/ row.type > types                            -> Thrown
       [] row.parent # NoId /\ Required(row.parent, t.nodes)        -> WithMember(t, row.parent, row.name, given)
       [] row.parent = NoId /\ Required(row.scope, t.scopes)        -> WithSignal(t, row.scope, row.name, given)
       [] OTHER                                                     -> Thrown

Decoded(items) ==
  LET scopesAt == After(items, 1)
      nodesAt  == After(items, scopesAt)
      types    == Rows(items, 1)
      tree0    == ReadScopes(Rows(items, scopesAt))
      decoded  == FoldLeft(LAMBDA t, row : ReadNode(t, row, Len(types)), tree0, Rows(items, nodesAt))
  IN IF \/ ~Whole(items, 1) \/ ~Whole(items, scopesAt) \/ ~Whole(items, nodesAt)
        \/ TypesThrow(types) \/ decoded = Thrown
     THEN Thrown
     ELSE [types |-> types, tree |-> decoded]
----------------------------------------------------------------------------
(* What a type says, however its parts are shared, and what a row says.     *)
Meaning[t \in Types] ==
  IF Null(t) THEN NoType
  ELSE [Descriptor[t] EXCEPT !.element = Meaning[@],
                             !.members = [k \in DOMAIN @ |-> [@[k] EXCEPT !.type = Meaning[@]]]]

RowMeaning(rows) ==
  LET meaning[i \in 0 .. Len(rows)] ==
        IF i = 0 THEN NoType
        ELSE [rows[i] EXCEPT !.element = meaning[@],
                             !.members = [k \in DOMAIN @ |-> [@[k] EXCEPT !.type = meaning[@]]]]
  IN meaning

(* A hierarchy survives the way into a file and back: nodes and scopes keep *)
(* their ids, their order and what their names find, types say the same and *)
(* two nodes share a type exactly if they did (TypeSharingSurvives).        *)
RoundTrip ==
  LET order   == Order(tree)
      decoded == Decoded(Encoded(tree))
      again   == decoded.tree.nodes
  IN /\ decoded # Thrown
     /\ decoded.tree = [tree EXCEPT !.nodes = [n \in DOMAIN @ |->
                                               [@[n] EXCEPT !.type = RefTo(order, @)]]]
     /\ \A n \in DOMAIN again :
          /\ RowMeaning(decoded.types)[again[n].type] = Meaning[tree.nodes[n].type]
          /\ \A m \in DOMAIN again : again[m].type = again[n].type <=> tree.nodes[m].type = tree.nodes[n].type

(* A file that ends too early is refused, wherever it ends.                 *)
PrefixThrows ==
  LET items == Encoded(tree)
  IN \A n \in 0 .. Len(items) - 1 : Decoded(SubSeq(items, 1, n)) = Thrown

(* Files of another writer: one reference of a last row is another one.     *)
ForeignRefs == (0 .. MaxNodes) \cup {NoId}

Foreign(items) ==
  LET scopesAt == After(items, 1)
      nodesAt  == After(items, scopesAt)
  IN {[items EXCEPT ![nodesAt - 1].parent = ref] : ref \in ForeignRefs}
       \cup (IF items[nodesAt] = 0 THEN {}
             ELSE {[items EXCEPT ![Len(items)].parent = ref] : ref \in ForeignRefs}
                    \cup {[items EXCEPT ![Len(items)].scope = ref] : ref \in ForeignRefs}
                    \cup {[items EXCEPT ![Len(items)].type = ref] : ref \in ForeignRefs \ {NoId}})
       \cup (IF items[1] = 0 \/ items[items[1] + 1].kind \notin {"ARRAY", "ENUM"} THEN {}
             ELSE {[items EXCEPT ![items[1] + 1].element = ref] : ref \in ForeignRefs \ {NoId}})

(* What the decoder accepts is a tree whose nodes come after their parents  *)
(* and whose types consist of earlier ones, so no walk over it is endless.  *)
AcceptedIsTree ==
  \A items \in Foreign(Encoded(tree)) :
    LET decoded == Decoded(items)
    IN decoded # Thrown =>
         /\ IsTree(decoded.tree)
         /\ \A n \in DOMAIN decoded.tree.nodes : decoded.tree.nodes[n].type <= Len(decoded.types)
         /\ \A i \in DOMAIN decoded.types : \A ref \in Refs(decoded.types[i]) : ref < i

(* A hierarchy that was not written whole is refused, or still a tree.      *)
DamageRefused == PrefixThrows /\ AcceptedIsTree
=============================================================================
