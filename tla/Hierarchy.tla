------------------------------ MODULE Hierarchy ------------------------------
(***************************************************************************)
(* The tree of scopes and signals (model/hierarchy.cpp): how it grows, how *)
(* a path is found in it and what path a node has.                         *)
(*                                                                         *)
(* A name is what stands between two dots: a base and the keys in brackets *)
(* after it, "gen[0]" being [base |-> "gen", keys |-> <<0>>].  A path is   *)
(* the sequence of its segments, as splitDots() cuts it; the empty path is *)
(* one empty segment.                                                      *)
(***************************************************************************)
EXTENDS Types

CONSTANTS
  Bases,          \* bases of names
  Names,          \* names a reader gives to scopes, signals and members
  Indices,        \* indices of elements
  Given,          \* [names -> [type, stream, slice] a node of the name gets]
  ScopeKinds,     \* values of ScopeKind
  MaxScopes, MaxNodes,  \* bounds of a run
  Paths,          \* paths a user looks up
  NoId,           \* an invalid ScopeId, NodeId or SignalId
  NoSlice         \* no projection

NoBase == ""   \* what an element has before its brackets, and nothing has at all

ASSUME HierarchyAssumption ==
  /\ NoId \notin Nat /\ "ROOT" \in ScopeKinds
  /\ NoBase \in Bases /\ Indices \subseteq Int
  /\ Names \subseteq [base : Bases, keys : Seq(Int)]
  /\ \A path \in Paths : path # <<>> /\ path \in Seq([base : Bases, keys : Seq(Int)])

VARIABLE tree     \* Hierarchy: scopes_ and nodes_, by id

Root == 0
Name(base, keys) == [base |-> base, keys |-> keys]
Plain(base) == Name(base, <<>>)
Empty == Plain(NoBase)
Element(index) == Name(NoBase, <<index>>)      \* "[i]", the name of an element
IsElement(name) == name.base = NoBase /\ name.keys # <<>>
EmptyPath == <<Empty>>

With(f, x, y) == [z \in DOMAIN f \cup {x} |-> IF z = x THEN y ELSE f[z]]   \* one argument more
----------------------------------------------------------------------------
(* Seeded faults: each replaces the definition it is named after, and the   *)
(* property named beside it finds it.                                       *)
Emplaced_Last(index, name, id) == With(index, name, id)                \* PathsReversible
Glued_Never(local, part) ==                                            \* FoundHasPath
  IF local = EmptyPath THEN <<part>> ELSE Append(local, part)
Greedy_OneScope(path) == 0 .. Min({1, Len(path) - 1})                  \* RelativeAgrees
Required_Itself(id, nodes) == id \in 0 .. Cardinality(DOMAIN nodes)    \* TypeOK

(* Growth.  A name that is there already keeps what it stands for           *)
(* (emplace()), so the first of several nodes of one name is found.         *)
Emplaced(index, name, id) == IF name \in DOMAIN index THEN index ELSE With(index, name, id)

Required(id, nodes) == id \in DOMAIN nodes     \* requireScope(), requireNode()

WithScope(t, parent, name, kind) ==
  LET id == Cardinality(DOMAIN t.scopes)
      s  == [name |-> name, kind |-> kind, parent |-> parent, childScopes |-> <<>>,
             signals |-> <<>>, scopeIndex |-> <<>>, signalIndex |-> <<>>]
  IN [t EXCEPT !.scopes = With([t.scopes EXCEPT ![parent].childScopes = Append(@, id),
                                                ![parent].scopeIndex = Emplaced(@, name, id)],
                               id, s)]

Node(name, given, scope, parent) ==
  [name |-> name, type |-> given.type, stream |-> given.stream, slice |-> given.slice,
   scope |-> scope, parent |-> parent, children |-> <<>>, memberIndex |-> <<>>]

WithSignal(t, scope, name, given) ==
  LET id    == Cardinality(DOMAIN t.nodes)
      whole == [type |-> given.type, stream |-> given.stream, slice |-> NoSlice]
  IN [t EXCEPT !.nodes = With(t.nodes, id, Node(name, whole, scope, NoId)),
               !.scopes[scope].signals = Append(@, id),
               !.scopes[scope].signalIndex = Emplaced(@, name, id)]

WithMember(t, parent, name, given) ==
  LET id == Cardinality(DOMAIN t.nodes)
  IN [t EXCEPT !.nodes = With([t.nodes EXCEPT ![parent].children = Append(@, id),
                                              ![parent].memberIndex = Emplaced(@, name, id)],
                              id, Node(name, given, NoId, parent))]

NewTree ==
  [scopes |-> With(<<>>, Root,
                   [name |-> Empty, kind |-> "ROOT", parent |-> NoId, childScopes |-> <<>>,
                    signals |-> <<>>, scopeIndex |-> <<>>, signalIndex |-> <<>>]),
   nodes  |-> <<>>]
----------------------------------------------------------------------------
(* Search. *)
Lookup(index, name) == IF name \in DOMAIN index THEN index[name] ELSE NoId

(* parseSegment(): the name, if there is one, and each key are names in the *)
(* index of the node above.                                                 *)
Keys(segment) ==
  (IF segment.base = NoBase THEN <<>> ELSE <<Plain(segment.base)>>)
    \o [k \in DOMAIN segment.keys |-> Element(segment.keys[k])]

KeysOf(path) == FlattenSeq([k \in DOMAIN path |-> Keys(path[k])])

Descend(t, node, path) ==
  FoldLeft(LAMBDA n, key : IF n = NoId THEN NoId ELSE Lookup(t.nodes[n].memberIndex, key),
           node, KeysOf(path))

(* Scopes are found by the whole text of a segment, brackets included. *)
ScopeAlong(t, from, path) ==
  FoldLeft(LAMBDA s, name : IF s = NoId THEN NoId ELSE Lookup(t.scopes[s].scopeIndex, name),
           from, path)

FindScope(t, from, path) == IF path = EmptyPath THEN from ELSE ScopeAlong(t, from, path)

(* A signal is looked for in the deepest scope that all but the last of the *)
(* segments lead to, and nowhere else.                                      *)
Greedy(path) == 0 .. Len(path) - 1

FindSignal(t, from, path) ==
  LET depth == Max({k \in Greedy(path) : ScopeAlong(t, from, SubSeq(path, 1, k)) # NoId})
      scope == ScopeAlong(t, from, SubSeq(path, 1, depth))
      first == path[depth + 1]
      top   == Lookup(t.scopes[scope].signalIndex, Plain(first.base))
  IN IF path = EmptyPath \/ depth = Len(path) \/ top = NoId THEN NoId
     ELSE Descend(t, top, <<Name(NoBase, first.keys)>> \o SubSeq(path, depth + 2, Len(path)))

FindBelow(t, node, path) == IF path = EmptyPath THEN node ELSE Descend(t, node, path)
----------------------------------------------------------------------------
(* The way back: pathOf().                                                  *)
LocalNames(t, node) ==
  LET names[n \in DOMAIN t.nodes] ==
        IF t.nodes[n].parent = NoId THEN <<t.nodes[n].name>>
        ELSE Append(names[t.nodes[n].parent], t.nodes[n].name)
  IN names[node]

TopScope(t, node) ==
  LET scope[n \in DOMAIN t.nodes] ==
        IF t.nodes[n].parent = NoId THEN t.nodes[n].scope ELSE scope[t.nodes[n].parent]
  IN scope[node]

ScopeNames(t, scope) ==
  LET names[s \in DOMAIN t.scopes] ==
        IF s = Root THEN <<>> ELSE Append(names[t.scopes[s].parent], t.scopes[s].name)
  IN names[scope]

(* A part is set after a dot, unless it is an element or nothing is before. *)
Glued(local, part) ==
  IF local = EmptyPath THEN <<part>>
  ELSE IF IsElement(part) THEN [local EXCEPT ![Len(local)].keys = @ \o part.keys]
  ELSE Append(local, part)

LocalPath(t, node) == FoldLeft(Glued, EmptyPath, LocalNames(t, node))
PathOfScope(t, scope) == IF scope = Root THEN EmptyPath ELSE ScopeNames(t, scope)

Joined(above, path) == IF above = EmptyPath THEN path ELSE above \o path
PathOfNode(t, node) == Joined(PathOfScope(t, TopScope(t, node)), LocalPath(t, node))
----------------------------------------------------------------------------
Init == tree = NewTree

AddScope(parent, name, kind) ==
  /\ Required(parent, tree.scopes) /\ Cardinality(DOMAIN tree.scopes) <= MaxScopes
  /\ tree' = WithScope(tree, parent, name, kind)

RoomForNode == Cardinality(DOMAIN tree.nodes) < MaxNodes

AddSignal(scope, name) ==
  /\ Required(scope, tree.scopes) /\ RoomForNode
  /\ tree' = WithSignal(tree, scope, name, Given[name])

AddMember(parent, name) ==
  /\ Required(parent, tree.nodes) /\ RoomForNode
  /\ tree' = WithMember(tree, parent, name, Given[name])

AddElement(parent, index) == AddMember(parent, Element(index))

Next ==
  \/ \E parent \in 0 .. MaxScopes, name \in Names, kind \in ScopeKinds \ {"ROOT"} :
       AddScope(parent, name, kind)
  \/ \E scope \in 0 .. MaxScopes, name \in Names : AddSignal(scope, name)
  \/ \E parent \in 0 .. MaxNodes : \/ \E name \in Names : AddMember(parent, name)
                                   \/ \E index \in Indices : AddElement(parent, index)

Spec == Init /\ [][Next]_tree
----------------------------------------------------------------------------
(* A tree: parents come before their children, every node is in one list,   *)
(* that of its parent or of its scope, and lists are in the order of ids.   *)
Ordered(list) == \A j, k \in DOMAIN list : j < k => list[j] < list[k]
Lists(nodes, list, parent) ==
  /\ Ordered(list)
  /\ ToSet(list) = {n \in DOMAIN nodes : nodes[n].parent = parent}
IsTree(t) ==
  /\ \A s \in DOMAIN t.scopes :
       LET scope == t.scopes[s]
       IN /\ IF s = Root THEN scope.parent = NoId ELSE scope.parent \in 0 .. s - 1
          /\ scope.kind \in ScopeKinds
          /\ Lists(t.scopes, scope.childScopes, s)
          /\ Ordered(scope.signals)
          /\ ToSet(scope.signals) = {n \in DOMAIN t.nodes : t.nodes[n].scope = s}
  /\ \A n \in DOMAIN t.nodes :
       LET node == t.nodes[n]
       IN /\ \/ node.parent = NoId /\ node.scope \in DOMAIN t.scopes
             \/ node.parent \in 0 .. n - 1 /\ node.scope = NoId
          /\ Lists(t.nodes, node.children, n)

(* The tree is one, ids are handed out without gaps, and a lookup of any    *)
(* path from any scope gives a node of the tree or none.                    *)
TypeOK ==
  /\ IsTree(tree)
  /\ DOMAIN tree.scopes = 0 .. Cardinality(DOMAIN tree.scopes) - 1
  /\ DOMAIN tree.nodes = 0 .. Cardinality(DOMAIN tree.nodes) - 1
  /\ \A s \in DOMAIN tree.scopes, path \in Paths :
       FindSignal(tree, s, path) \in DOMAIN tree.nodes \cup {NoId}

(* When a path names what it is the path of: a scope, and a node.           *)
FirstScope(t, s) ==
  \A r \in 0 .. s - 1 :
    t.scopes[r].parent = t.scopes[s].parent => t.scopes[r].name # t.scopes[s].name
FirstNode(t, n) ==
  \A m \in 0 .. n - 1 :
    t.nodes[m].parent = t.nodes[n].parent /\ t.nodes[m].scope = t.nodes[n].scope
      => t.nodes[m].name # t.nodes[n].name

LineOf(parents, x) ==      \* x and all above it
  LET line[y \in DOMAIN parents] ==
        {y} \cup (IF parents[y].parent = NoId THEN {} ELSE line[parents[y].parent])
  IN line[x]

(* A scope without a name has the empty path if it is right below the root. *)
ScopeNamed(t, s) ==
  /\ \A r \in LineOf(t.scopes, s) : FirstScope(t, r)
  /\ s # Root => PathOfScope(t, s) # EmptyPath

(* The scope has a child scope that looks like the beginning of the path.   *)
Shadowed(t, n) == LocalPath(t, n)[1] \in DOMAIN t.scopes[TopScope(t, n)].scopeIndex

(* A member is named by one key, a base or an index; a signal has none.  A  *)
(* signal without a name leaves no trace before a member, but does before   *)
(* an element.                                                              *)
NodeNamed(t, n) ==
  LET scope == TopScope(t, n)
      names == LocalNames(t, n)
  IN /\ ScopeNamed(t, scope)
     /\ \A m \in LineOf(t.nodes, n) : FirstNode(t, m)
     /\ names[1].keys = <<>>
     /\ \A k \in 2 .. Len(names) : Keys(names[k]) = <<names[k]>>
     /\ names[1] = Empty => IF Len(names) = 1 THEN scope # Root ELSE IsElement(names[2])
     /\ Len(LocalPath(t, n)) > 1 => ~Shadowed(t, n)

(* pathOf() and findSignal() are inverse (test_hierarchy.cpp:174) for a     *)
(* node that a path can name, and for no other; and so for scopes.          *)
PathsReversible ==
  /\ \A n \in DOMAIN tree.nodes :
       FindSignal(tree, Root, PathOfNode(tree, n)) = n <=> NodeNamed(tree, n)
  /\ \A s \in DOMAIN tree.scopes :
       FindScope(tree, Root, PathOfScope(tree, s)) = s <=> ScopeNamed(tree, s)

(* The tree is a tree, and its nodes are found by their paths.              *)
PathsExact == TypeOK /\ PathsReversible

Based(path) == \A k \in DOMAIN path : path[k].base # NoBase

(* What a path finds has that path, whatever has the same name elsewhere:   *)
(* a user never gets another signal than the one that was written.  An      *)
(* index of its own, "x.[1]", is another way to write what pathOf() gives.  *)
FoundHasPath ==
  \A path \in Paths :
    LET n == FindSignal(tree, Root, path)
        s == FindScope(tree, Root, path)
    IN /\ Based(path) /\ n # NoId => PathOfNode(tree, n) = path
       /\ s # NoId => PathOfScope(tree, s) = path

(* A search from a scope or from a node finds what the search of the joined *)
(* path finds from the root (hierarchy.hpp:103, Signal::find, Scope::find). *)
(* The empty path is the scope or the node itself.                          *)
RelativeAgrees ==
  /\ \A s \in {r \in DOMAIN tree.scopes : ScopeNamed(tree, r)}, path \in Paths \ {EmptyPath} :
       LET whole == Joined(PathOfScope(tree, s), path)
       IN /\ FindSignal(tree, s, path) = FindSignal(tree, Root, whole)
          /\ FindScope(tree, s, path) = FindScope(tree, Root, whole)
  /\ \A n \in {m \in DOMAIN tree.nodes : NodeNamed(tree, m) /\ ~Shadowed(tree, m)}, path \in Paths :
       FindBelow(tree, n, path) = FindSignal(tree, Root, Joined(PathOfNode(tree, n), path))

(* Searches, from wherever they start, find what its path names.            *)
SearchesExact == FoundHasPath /\ RelativeAgrees
=============================================================================
