-------------------------- MODULE Hierarchy_proofs --------------------------
(***************************************************************************)
(* Theorems about Hierarchy, for any names, indices, kinds, paths and      *)
(* sizes of the tree.                                                      *)
(***************************************************************************)
EXTENDS Hierarchy, DataInduction, TLAPS

(* Names as they are written, and what stands for no node.                  *)
NameSet == [base : Bases, keys : Seq(Int)]
Ids == Nat \cup {NoId}

LEMMA Constants ==
  /\ NoId \notin Nat /\ NoId # Root /\ "ROOT" \in ScopeKinds /\ NoBase \in Bases
  /\ \A n \in Nat : n # NoId
<1>1. NoId \notin Nat /\ "ROOT" \in ScopeKinds /\ NoBase \in Bases
  BY HierarchyAssumption
<1>2. Root \in Nat
  BY DEF Root
<1> QED
  BY <1>1, <1>2, Zenon

(* An index of a list finds the first of its members with a name, a list    *)
(* has the members in the order of their ids.                               *)
Finds(index, names, kids) ==
  /\ DOMAIN index = {names[k] : k \in kids}
  /\ \A k \in kids : /\ index[names[k]] \in kids
                     /\ names[index[names[k]]] = names[k]
                     /\ index[names[k]] <= k
Line(list, kids) == list \in Seq(Nat) /\ Ordered(list) /\ ToSet(list) = kids

LEMMA LineGrows ==
  ASSUME NEW list, NEW kids \in SUBSET Nat, Line(list, kids), NEW id \in Nat, \A k \in kids : k < id
  PROVE  Line(Append(list, id), kids \cup {id})
<1>1. list \in Seq(Nat) /\ Append(list, id) \in Seq(Nat)
  BY DEF Line
<1>2. PICK m \in Nat : m = Len(list) /\ DOMAIN list = 1 .. m
  BY <1>1
<1>3. /\ DOMAIN Append(list, id) = 1 .. m + 1 /\ Append(list, id)[m + 1] = id
      /\ \A k \in 1 .. m : Append(list, id)[k] = list[k] /\ list[k] \in kids
  <2>1. \A k \in 1 .. m : list[k] \in kids
    BY <1>2 DEF Line, ToSet
  <2> QED
    BY <1>1, <1>2, <2>1
<1>4. Ordered(Append(list, id))
  <2>1. SUFFICES ASSUME NEW j \in 1 .. m + 1, NEW k \in 1 .. m + 1, j < k
                 PROVE  Append(list, id)[j] < Append(list, id)[k]
    BY <1>3 DEF Ordered
  <2>2. j \in 1 .. m
    BY <2>1
  <2>3. CASE k = m + 1
    BY <1>3, <2>2, <2>3
  <2>4. CASE k \in 1 .. m
    <3>1. list[j] < list[k]
      BY <1>2, <2>1, <2>2, <2>4 DEF Line, Ordered
    <3> QED
      BY <1>3, <2>2, <2>4, <3>1
  <2>5. k = m + 1 \/ k \in 1 .. m
    BY <1>2
  <2> QED
    BY <2>3, <2>4, <2>5
<1>5. ToSet(Append(list, id)) = kids \cup {id}
  <2>1. ASSUME NEW x \in kids
        PROVE  \E k \in 1 .. m + 1 : Append(list, id)[k] = x
    <3>1. PICK k \in 1 .. m : list[k] = x
      BY <1>2 DEF Line, ToSet
    <3> QED
      BY <1>3, <3>1
  <2>2. ToSet(Append(list, id)) = {Append(list, id)[k] : k \in 1 .. m + 1}
    BY <1>3 DEF ToSet
  <2>3. m + 1 \in 1 .. m + 1
    BY <1>2
  <2>4. ASSUME NEW k \in 1 .. m + 1
        PROVE  Append(list, id)[k] \in kids \cup {id}
    <3>1. k = m + 1 \/ k \in 1 .. m
      BY <1>2
    <3> QED
      BY <1>3, <3>1
  <2>5. ASSUME NEW x \in kids
        PROVE  x \in ToSet(Append(list, id))
    BY <2>1, <2>2, <2>5
  <2>6. id \in ToSet(Append(list, id))
    BY <1>3, <2>2, <2>3
  <2> HIDE DEF ToSet
  <2> QED
    BY <2>2, <2>4, <2>5, <2>6
<1> QED
  BY <1>1, <1>4, <1>5 DEF Line

LEMMA FindsGrows ==
  ASSUME NEW index, NEW names, NEW kids \in SUBSET Nat, Finds(index, names, kids),
         NEW id \in Nat, \A k \in kids : k < id, NEW new,
         \A k \in kids : new[k] = names[k]
  PROVE  Finds(Emplaced(index, new[id], id), new, kids \cup {id})
<1>1. PICK name : name = new[id]
  OBVIOUS
<1>2. DOMAIN index = {names[k] : k \in kids}
  BY DEF Finds
<1>3. id \notin kids
  OBVIOUS
<1>4. CASE name \in DOMAIN index
  <2>1. Emplaced(index, name, id) = index
    BY <1>4 DEF Emplaced
  <2>2. PICK j \in kids : names[j] = name
    BY <1>2, <1>4
  <2>3. index[name] \in kids /\ names[index[name]] = name /\ index[name] <= id
    <3>1. index[name] \in kids /\ names[index[name]] = name /\ index[name] <= j
      BY <2>2 DEF Finds
    <3>2. \A a, b \in Nat : a <= b /\ b < id => a <= id
      OBVIOUS
    <3>3. index[name] \in Nat /\ j \in Nat /\ j < id
      BY <3>1
    <3> QED
      BY <3>1, <3>2, <3>3
  <2>4. DOMAIN index = {new[k] : k \in kids \cup {id}}
    BY <1>1, <1>2, <2>2
  <2>5. ASSUME NEW k \in kids \cup {id}
        PROVE  index[new[k]] \in kids /\ new[index[new[k]]] = new[k] /\ index[new[k]] <= k
    <3>1. CASE k \in kids
      <4>1. new[k] = names[k] /\ index[names[k]] \in kids
        BY <3>1 DEF Finds
      <4> QED
        BY <3>1, <4>1 DEF Finds
    <3>2. CASE k = id
      BY <1>1, <2>3, <3>2
    <3> QED
      BY <3>1, <3>2
  <2>6. Finds(index, new, kids \cup {id})
    <3>1. \A k \in kids \cup {id} : index[new[k]] \in kids \cup {id}
      BY <2>5
    <3> QED
      BY <2>4, <2>5, <3>1 DEF Finds
  <2> QED
    BY <1>1, <2>1, <2>6
<1>5. CASE name \notin DOMAIN index
  <2> DEFINE larger == Emplaced(index, name, id)
  <2>1. larger = With(index, name, id)
    BY <1>5 DEF Emplaced
  <2>2. /\ DOMAIN larger = DOMAIN index \cup {name} /\ larger[name] = id
        /\ \A x \in DOMAIN index : larger[x] = index[x]
    BY <1>5, <2>1 DEF With
  <2>3. DOMAIN larger = {new[k] : k \in kids \cup {id}}
    BY <1>1, <1>2, <2>2
  <2>4. ASSUME NEW k \in kids
        PROVE  larger[new[k]] \in kids /\ new[larger[new[k]]] = new[k] /\ larger[new[k]] <= k
    <3>1. new[k] \in DOMAIN index /\ larger[new[k]] = index[names[k]]
      BY <1>2, <2>2
    <3> QED
      BY <3>1 DEF Finds
  <2>5. larger[new[id]] = id
    BY <1>1, <2>2
  <2> HIDE DEF larger
  <2>6. Finds(larger, new, kids \cup {id})
    <3>1. ASSUME NEW k \in kids \cup {id}
          PROVE  /\ larger[new[k]] \in kids \cup {id}
                 /\ new[larger[new[k]]] = new[k] /\ larger[new[k]] <= k
      <4>1. CASE k \in kids
        BY <2>4, <4>1
      <4>2. CASE k = id
        BY <2>5, <4>2
      <4> QED
        BY <4>1, <4>2
    <3> QED
      BY <2>3, <3>1 DEF Finds
  <2> QED
    BY <1>1, <2>6 DEF larger
<1> QED
  BY <1>4, <1>5

LEMMA FindsSame ==
  ASSUME NEW index, NEW names, NEW kids, Finds(index, names, kids),
         NEW new, \A k \in kids : new[k] = names[k]
  PROVE  Finds(index, new, kids)
<1>1. DOMAIN index = {new[k] : k \in kids}
  BY DEF Finds
<1>2. ASSUME NEW k \in kids
      PROVE  index[new[k]] \in kids /\ new[index[new[k]]] = new[k] /\ index[new[k]] <= k
  <2>1. new[k] = names[k] /\ index[names[k]] \in kids
    BY DEF Finds
  <2> QED
    BY <2>1 DEF Finds
<1> QED
  BY <1>1, <1>2 DEF Finds

(* A tree of S scopes and N nodes, with the indices of names kept right.    *)
Indexes == UNION {[names -> Nat] : names \in SUBSET NameSet}
ScopeRec ==
  [name : NameSet, kind : ScopeKinds, parent : Ids, childScopes : Seq(Nat), signals : Seq(Nat),
   scopeIndex : Indexes, signalIndex : Indexes]
Gifts == {Given[name] : name \in Names \cup {Element(index) : index \in Indices}}
NodeRec ==
  [name : NameSet, type : {g.type : g \in Gifts}, stream : {g.stream : g \in Gifts},
   slice : {g.slice : g \in Gifts} \cup {NoSlice}, scope : Ids, parent : Ids,
   children : Seq(Nat), memberIndex : Indexes]

NamesOf(items) == [n \in DOMAIN items |-> items[n].name]
Kids(items, above) == {n \in DOMAIN items : items[n].parent = above}
SignalsOf(t, s) == {n \in DOMAIN t.nodes : t.nodes[n].scope = s}

ScopeRight(t, s) ==
  LET scope == t.scopes[s]
  IN /\ IF s = Root THEN scope.parent = NoId ELSE scope.parent \in 0 .. s - 1
     /\ Line(scope.childScopes, Kids(t.scopes, s))
     /\ Finds(scope.scopeIndex, NamesOf(t.scopes), Kids(t.scopes, s))
     /\ Line(scope.signals, SignalsOf(t, s))
     /\ Finds(scope.signalIndex, NamesOf(t.nodes), SignalsOf(t, s))
NodeRight(t, n) ==
  LET node == t.nodes[n]
  IN /\ \/ node.parent = NoId /\ node.scope \in DOMAIN t.scopes
        \/ node.parent \in 0 .. n - 1 /\ node.scope = NoId
     /\ Line(node.children, Kids(t.nodes, n))
     /\ Finds(node.memberIndex, NamesOf(t.nodes), Kids(t.nodes, n))

WellFormed(t, S, N) ==
  /\ S \in Nat \ {0} /\ N \in Nat
  /\ t \in [scopes : [0 .. S - 1 -> ScopeRec], nodes : [0 .. N - 1 -> NodeRec]]
  /\ \A s \in 0 .. S - 1 : ScopeRight(t, s)
  /\ \A n \in 0 .. N - 1 : NodeRight(t, n)

IndexesRight == \E S, N \in Nat : WellFormed(tree, S, N)

LEMMA EmplacedType ==
  ASSUME NEW index \in Indexes, NEW name \in NameSet, NEW id \in Nat
  PROVE  Emplaced(index, name, id) \in Indexes
<1>1. PICK names \in SUBSET NameSet : index \in [names -> Nat]
  BY DEF Indexes
<1>2. With(index, name, id) \in [names \cup {name} -> Nat] /\ names \cup {name} \in SUBSET NameSet
  BY <1>1 DEF With
<1>3. With(index, name, id) \in Indexes
  BY <1>2 DEF Indexes
<1> QED
  BY <1>3 DEF Emplaced

(* Nothing has been added to a list yet.                                    *)
LEMMA NothingYet ==
  ASSUME NEW names
  PROVE  <<>> \in Seq(Nat) /\ Line(<<>>, {}) /\ Finds(<<>>, names, {}) /\ <<>> \in Indexes
<1>1. <<>> \in Seq(Nat) /\ DOMAIN <<>> = {}
  OBVIOUS
<1>2. Line(<<>>, {})
  BY <1>1 DEF Line, Ordered, ToSet
<1>3. <<>> \in [{} -> Nat] /\ {} \in SUBSET NameSet
  OBVIOUS
<1> QED
  BY <1>1, <1>2, <1>3 DEF Finds, Indexes

(* The tree of a new hierarchy, a root without children.                    *)
LEMMA NewRight == WellFormed(NewTree, 1, 0)
<1> DEFINE root == [name |-> Empty, kind |-> "ROOT", parent |-> NoId, childScopes |-> <<>>,
                    signals |-> <<>>, scopeIndex |-> <<>>, signalIndex |-> <<>>]
<1>1. root \in ScopeRec
  <2>1. Empty \in NameSet
    <3>1. <<>> \in Seq(Int)
      OBVIOUS
    <3>2. NoBase \in Bases
      BY Constants
    <3> QED
      BY <3>1, <3>2 DEF Empty, Plain, Name, NameSet
  <2> QED
    BY <2>1, NothingYet, Constants DEF ScopeRec, Ids
<1>2. 0 .. 1 - 1 = {0} /\ 0 .. 0 - 1 = {}
  OBVIOUS
<1>3. With(<<>>, Root, root) = [s \in {0} |-> root]
  BY DEF With, Root
<1>4. /\ NewTree.scopes = [s \in {0} |-> root] /\ NewTree.nodes = <<>>
      /\ NewTree = [scopes |-> NewTree.scopes, nodes |-> NewTree.nodes]
  <2> HIDE DEF root
  <2> QED
    BY <1>3 DEF NewTree, root
<1>5. <<>> \in [{} -> NodeRec]
  OBVIOUS
<1>6. NewTree \in [scopes : [0 .. 1 - 1 -> ScopeRec], nodes : [0 .. 0 - 1 -> NodeRec]]
  <2> HIDE DEF root, NewTree
  <2>1. NewTree.scopes \in [0 .. 1 - 1 -> ScopeRec]
    <3>1. [s \in {0} |-> root] \in [{0} -> ScopeRec]
      BY <1>1
    <3> QED
      BY <1>2, <1>4, <3>1
  <2>2. NewTree.nodes \in [0 .. 0 - 1 -> NodeRec]
    BY <1>2, <1>4, <1>5
  <2> QED
    BY <1>4, <2>1, <2>2
<1>7. Kids(NewTree.scopes, 0) = {} /\ SignalsOf(NewTree, 0) = {}
  <2>1. NoId # 0
    BY Constants DEF Root
  <2>2. DOMAIN NewTree.nodes = {} /\ DOMAIN NewTree.scopes = {0} /\ NewTree.scopes[0].parent = NoId
    BY <1>4
  <2> QED
    BY <2>1, <2>2 DEF Kids, SignalsOf
<1>8. ScopeRight(NewTree, 0)
  <2>1. /\ NewTree.scopes[0].parent = NoId
        /\ NewTree.scopes[0].childScopes = <<>> /\ NewTree.scopes[0].scopeIndex = <<>>
        /\ NewTree.scopes[0].signals = <<>> /\ NewTree.scopes[0].signalIndex = <<>>
    BY <1>4
  <2>2. Root = 0
    BY DEF Root
  <2> HIDE DEF root, NewTree
  <2> QED
    BY <1>7, <2>1, <2>2, NothingYet DEF ScopeRight
<1> QED
  BY <1>2, <1>6, <1>8 DEF WellFormed

(* A tree keeps right when a scope is added to it.                          *)
Fresh(parent, name, kind) ==
  [name |-> name, kind |-> kind, parent |-> parent, childScopes |-> <<>>,
   signals |-> <<>>, scopeIndex |-> <<>>, signalIndex |-> <<>>]
Grown(t, id, parent, name) ==
  [t.scopes EXCEPT ![parent].childScopes = Append(@, id),
                   ![parent].scopeIndex = Emplaced(@, name, id)]
ScopeAt(t, id, parent, name, kind) ==
  [t EXCEPT !.scopes = With(Grown(t, id, parent, name), id, Fresh(parent, name, kind))]

LEMMA UpperSize ==
  ASSUME NEW n \in Nat
  PROVE  Cardinality(0 .. n - 1) = n
<1>1. n - 1 \in Int /\ 0 \in Int
  OBVIOUS
<1>2. Cardinality(0 .. n - 1) = IF 0 > n - 1 THEN 0 ELSE n - 1 - 0 + 1
  BY <1>1, FS_Interval
<1> QED
  BY <1>2

LEMMA ScopeAdded ==
  ASSUME NEW S \in Nat, NEW N \in Nat, NEW t, WellFormed(t, S, N),
         NEW parent \in 0 .. S - 1, NEW name \in NameSet, NEW kind \in ScopeKinds
  PROVE  WellFormed(WithScope(t, parent, name, kind), S + 1, N)
<1> DEFINE fresh == Fresh(parent, name, kind)
           grown == Grown(t, S, parent, name)
           u == WithScope(t, parent, name, kind)
<1>1. /\ t.scopes \in [0 .. S - 1 -> ScopeRec] /\ t.nodes \in [0 .. N - 1 -> NodeRec]
      /\ t = [scopes |-> t.scopes, nodes |-> t.nodes]
      /\ DOMAIN t.scopes = 0 .. S - 1 /\ S \in Nat \ {0}
  BY DEF WellFormed
<1>2. Cardinality(DOMAIN t.scopes) = S
  BY <1>1, UpperSize
<1>3. /\ u.scopes = With(grown, S, fresh) /\ u.nodes = t.nodes
      /\ u = [scopes |-> u.scopes, nodes |-> u.nodes]
  <2>1. WithScope(t, parent, name, kind) = ScopeAt(t, Cardinality(DOMAIN t.scopes), parent, name, kind)
    BY DEF WithScope, ScopeAt, Grown, Fresh
  <2>2. u = ScopeAt(t, S, parent, name, kind)
    BY <1>2, <2>1
  <2>3. ScopeAt(t, S, parent, name, kind) = [t EXCEPT !.scopes = With(grown, S, fresh)]
    BY DEF ScopeAt
  <2> HIDE DEF fresh, grown, u
  <2>4. u = [t EXCEPT !.scopes = With(grown, S, fresh)]
    BY <2>2, <2>3
  <2> QED
    BY <1>1, <2>4
<1>4. fresh \in ScopeRec
  BY NothingYet DEF ScopeRec, Ids, Fresh
<1>5. /\ grown \in [0 .. S - 1 -> ScopeRec]
      /\ \A s \in 0 .. S - 1 :
           /\ grown[s].name = t.scopes[s].name /\ grown[s].parent = t.scopes[s].parent
           /\ grown[s].signals = t.scopes[s].signals /\ grown[s].signalIndex = t.scopes[s].signalIndex
           /\ s # parent => /\ grown[s].childScopes = t.scopes[s].childScopes
                            /\ grown[s].scopeIndex = t.scopes[s].scopeIndex
      /\ grown[parent].childScopes = Append(t.scopes[parent].childScopes, S)
      /\ grown[parent].scopeIndex = Emplaced(t.scopes[parent].scopeIndex, name, S)
  <2>1. t.scopes[parent] \in ScopeRec
    BY <1>1
  <2>2. /\ Append(t.scopes[parent].childScopes, S) \in Seq(Nat)
        /\ Emplaced(t.scopes[parent].scopeIndex, name, S) \in Indexes
    BY <2>1, EmplacedType DEF ScopeRec
  <2>3. PICK p : p = [t.scopes[parent] EXCEPT !.childScopes = Append(@, S),
                                              !.scopeIndex = Emplaced(@, name, S)]
    OBVIOUS
  <2>4. /\ p \in ScopeRec /\ p.name = t.scopes[parent].name /\ p.parent = t.scopes[parent].parent
        /\ p.signals = t.scopes[parent].signals /\ p.signalIndex = t.scopes[parent].signalIndex
        /\ p.childScopes = Append(t.scopes[parent].childScopes, S)
        /\ p.scopeIndex = Emplaced(t.scopes[parent].scopeIndex, name, S)
    BY <2>1, <2>2, <2>3 DEF ScopeRec
  <2>5. grown = [t.scopes EXCEPT ![parent] = p]
    BY <1>1, <2>3 DEF Grown
  <2> HIDE DEF grown
  <2> QED
    BY <1>1, <2>4, <2>5
<1> HIDE DEF fresh, grown, u
<1>6. /\ u.scopes \in [0 .. S -> ScopeRec] /\ u.scopes[S] = fresh
      /\ \A s \in 0 .. S - 1 : u.scopes[s] = grown[s]
  <2>1. DOMAIN grown \cup {S} = 0 .. S /\ \A s \in 0 .. S - 1 : s # S
    BY <1>1, <1>5
  <2> QED
    BY <1>3, <1>4, <1>5, <2>1 DEF With
<1>7. /\ \A s \in 0 .. S - 1 : Kids(u.scopes, s) = Kids(t.scopes, s) \cup (IF s = parent THEN {S} ELSE {})
      /\ Kids(u.scopes, S) = {}
      /\ \A s \in 0 .. S : SignalsOf(u, s) = SignalsOf(t, s)
      /\ SignalsOf(t, S) = {}
  <2>1. /\ DOMAIN u.scopes = 0 .. S /\ DOMAIN t.scopes = 0 .. S - 1
        /\ \A s \in 0 .. S - 1 : u.scopes[s].parent = t.scopes[s].parent
        /\ u.scopes[S].parent = parent
    BY <1>1, <1>5, <1>6 DEF fresh, Fresh
  <2>2. \A s \in 0 .. S - 1 : t.scopes[s].parent # S
    <3>1. ASSUME NEW s \in 0 .. S - 1
          PROVE  t.scopes[s].parent # S
      <4>1. ScopeRight(t, s)
        BY DEF WellFormed
      <4>2. t.scopes[s].parent = NoId \/ t.scopes[s].parent \in 0 .. s - 1
        BY <4>1 DEF ScopeRight
      <4>3. ASSUME t.scopes[s].parent \in 0 .. s - 1
            PROVE  t.scopes[s].parent # S
        BY <4>3
      <4> QED
        BY <4>2, <4>3, Constants
    <3> QED
      BY <3>1
  <2>3. 0 .. S = 0 .. S - 1 \cup {S} /\ S \notin 0 .. S - 1
    OBVIOUS
  <2>4. \A n \in 0 .. N - 1 : t.nodes[n].scope # S
    <3>1. ASSUME NEW n \in 0 .. N - 1
          PROVE  t.nodes[n].scope # S
      <4>1. NodeRight(t, n)
        BY DEF WellFormed
      <4>2. t.nodes[n].scope = NoId \/ t.nodes[n].scope \in 0 .. S - 1
        BY <1>1, <4>1 DEF NodeRight
      <4>3. ASSUME t.nodes[n].scope \in 0 .. S - 1
            PROVE  t.nodes[n].scope # S
        BY <4>3
      <4> QED
        BY <4>2, <4>3, Constants
    <3> QED
      BY <3>1
  <2> QED
    BY <1>1, <1>3, <2>1, <2>2, <2>3, <2>4 DEF Kids, SignalsOf
<1>8. /\ \A s \in 0 .. S - 1 : NamesOf(u.scopes)[s] = NamesOf(t.scopes)[s]
      /\ NamesOf(u.scopes)[S] = name
      /\ NamesOf(u.nodes) = NamesOf(t.nodes)
  <2>1. DOMAIN u.scopes = 0 .. S /\ S \in 0 .. S /\ \A s \in 0 .. S - 1 : s \in 0 .. S
    BY <1>6
  <2>2. u.scopes[S].name = name
    BY <1>6 DEF fresh, Fresh
  <2> QED
    BY <1>1, <1>3, <1>5, <1>6, <2>1, <2>2 DEF NamesOf
<1>9. ScopeRight(u, S)
  <2>1. /\ u.scopes[S].parent = parent /\ S # Root /\ parent \in 0 .. S - 1
        /\ u.scopes[S].childScopes = <<>> /\ u.scopes[S].scopeIndex = <<>>
        /\ u.scopes[S].signals = <<>> /\ u.scopes[S].signalIndex = <<>>
    BY <1>1, <1>6 DEF fresh, Fresh, Root
  <2>2. Kids(u.scopes, S) = {} /\ SignalsOf(u, S) = {}
    <3>1. S \in 0 .. S
      OBVIOUS
    <3> QED
      BY <1>7, <3>1
  <2> QED
    BY <2>1, <2>2, NothingYet DEF ScopeRight
<1>10. ASSUME NEW s \in 0 .. S - 1
       PROVE  ScopeRight(u, s)
  <2>1. ScopeRight(t, s) /\ u.scopes[s] = grown[s]
    BY <1>6 DEF WellFormed
  <2>2. /\ IF s = Root THEN u.scopes[s].parent = NoId ELSE u.scopes[s].parent \in 0 .. s - 1
        /\ Line(u.scopes[s].signals, SignalsOf(u, s))
        /\ Finds(u.scopes[s].signalIndex, NamesOf(u.nodes), SignalsOf(u, s))
    BY <1>5, <1>7, <1>8, <2>1 DEF ScopeRight
  <2>3. Kids(t.scopes, s) \in SUBSET Nat /\ \A k \in Kids(t.scopes, s) : k < S /\ k \in 0 .. S - 1
    BY <1>1 DEF Kids
  <2>4. Line(u.scopes[s].childScopes, Kids(u.scopes, s))
    <3>1. CASE s = parent
      <4>1. /\ Kids(u.scopes, s) = Kids(t.scopes, s) \cup {S}
            /\ u.scopes[s].childScopes = Append(t.scopes[s].childScopes, S)
        BY <1>5, <1>7, <2>1, <3>1
      <4> QED
        BY <2>1, <2>3, <4>1, LineGrows DEF ScopeRight
    <3>2. CASE s # parent
      BY <1>5, <1>7, <2>1, <3>2 DEF ScopeRight
    <3> QED
      BY <3>1, <3>2
  <2>5. Finds(u.scopes[s].scopeIndex, NamesOf(u.scopes), Kids(u.scopes, s))
    <3>1. CASE s = parent
      <4>1. /\ Kids(u.scopes, s) = Kids(t.scopes, s) \cup {S}
            /\ u.scopes[s].scopeIndex = Emplaced(t.scopes[s].scopeIndex, NamesOf(u.scopes)[S], S)
        BY <1>5, <1>7, <1>8, <2>1, <3>1
      <4>2. /\ Finds(t.scopes[s].scopeIndex, NamesOf(t.scopes), Kids(t.scopes, s))
            /\ \A k \in Kids(t.scopes, s) : NamesOf(u.scopes)[k] = NamesOf(t.scopes)[k]
        BY <1>8, <2>1, <2>3 DEF ScopeRight
      <4>3. Finds(Emplaced(t.scopes[s].scopeIndex, NamesOf(u.scopes)[S], S), NamesOf(u.scopes),
                  Kids(t.scopes, s) \cup {S})
        BY <2>3, <4>2, FindsGrows
      <4> QED
        BY <4>1, <4>3
    <3>2. CASE s # parent
      <4>1. Finds(t.scopes[s].scopeIndex, NamesOf(t.scopes), Kids(t.scopes, s))
        BY <2>1 DEF ScopeRight
      <4>2. /\ Kids(u.scopes, s) = Kids(t.scopes, s)
            /\ u.scopes[s].scopeIndex = t.scopes[s].scopeIndex
        BY <1>5, <1>7, <2>1, <3>2
      <4> QED
        BY <1>8, <2>3, <4>1, <4>2, FindsSame
    <3> QED
      BY <3>1, <3>2
  <2> QED
    BY <2>2, <2>4, <2>5 DEF ScopeRight
<1>11. ASSUME NEW n \in 0 .. N - 1
       PROVE  NodeRight(u, n)
  <2>1. NodeRight(t, n)
    BY DEF WellFormed
  <2>2. DOMAIN t.scopes \subseteq DOMAIN u.scopes
    BY <1>1, <1>6
  <2> QED
    BY <1>3, <2>1, <2>2 DEF NodeRight
<1>12. u \in [scopes : [0 .. (S + 1) - 1 -> ScopeRec], nodes : [0 .. N - 1 -> NodeRec]]
  BY <1>1, <1>3, <1>6
<1>13. /\ \A s \in 0 .. (S + 1) - 1 : s = S \/ s \in 0 .. S - 1
       /\ S + 1 \in Nat \ {0}
  OBVIOUS
<1>14. WellFormed(u, S + 1, N)
  BY <1>9, <1>10, <1>11, <1>12, <1>13 DEF WellFormed
<1> QED
  BY <1>14 DEF u

(* The same when a member is added to a node.                               *)
NodesGrown(t, id, parent, name) ==
  [t.nodes EXCEPT ![parent].children = Append(@, id),
                  ![parent].memberIndex = Emplaced(@, name, id)]
MemberAt(t, id, parent, name, given) ==
  [t EXCEPT !.nodes = With(NodesGrown(t, id, parent, name), id, Node(name, given, NoId, parent))]

LEMMA MemberAdded ==
  ASSUME NEW S \in Nat, NEW N \in Nat, NEW t, WellFormed(t, S, N),
         NEW parent \in 0 .. N - 1, NEW name \in NameSet, NEW given \in Gifts
  PROVE  WellFormed(WithMember(t, parent, name, given), S, N + 1)
<1> DEFINE fresh == Node(name, given, NoId, parent)
           grown == NodesGrown(t, N, parent, name)
           u == WithMember(t, parent, name, given)
<1>1. /\ t.scopes \in [0 .. S - 1 -> ScopeRec] /\ t.nodes \in [0 .. N - 1 -> NodeRec]
      /\ t = [scopes |-> t.scopes, nodes |-> t.nodes]
      /\ DOMAIN t.scopes = 0 .. S - 1 /\ DOMAIN t.nodes = 0 .. N - 1 /\ S \in Nat \ {0}
  BY DEF WellFormed
<1>2. Cardinality(DOMAIN t.nodes) = N
  BY <1>1, UpperSize
<1>3. /\ u.nodes = With(grown, N, fresh) /\ u.scopes = t.scopes
      /\ u = [scopes |-> u.scopes, nodes |-> u.nodes]
  <2>1. WithMember(t, parent, name, given) = MemberAt(t, Cardinality(DOMAIN t.nodes), parent, name, given)
    BY DEF WithMember, MemberAt, NodesGrown
  <2>2. u = MemberAt(t, N, parent, name, given)
    BY <1>2, <2>1
  <2>3. MemberAt(t, N, parent, name, given) = [t EXCEPT !.nodes = With(grown, N, fresh)]
    BY DEF MemberAt
  <2> HIDE DEF fresh, grown, u
  <2>4. u = [t EXCEPT !.nodes = With(grown, N, fresh)]
    BY <2>2, <2>3
  <2> QED
    BY <1>1, <2>4
<1>4. /\ fresh \in NodeRec /\ fresh.name = name /\ fresh.parent = parent /\ fresh.scope = NoId
      /\ fresh.children = <<>> /\ fresh.memberIndex = <<>>
  BY NothingYet DEF NodeRec, Ids, Node
<1>5. /\ grown \in [0 .. N - 1 -> NodeRec]
      /\ \A n \in 0 .. N - 1 :
           /\ grown[n].name = t.nodes[n].name /\ grown[n].parent = t.nodes[n].parent
           /\ grown[n].scope = t.nodes[n].scope
           /\ n # parent => /\ grown[n].children = t.nodes[n].children
                            /\ grown[n].memberIndex = t.nodes[n].memberIndex
      /\ grown[parent].children = Append(t.nodes[parent].children, N)
      /\ grown[parent].memberIndex = Emplaced(t.nodes[parent].memberIndex, name, N)
  <2>1. t.nodes[parent] \in NodeRec
    BY <1>1
  <2>2. /\ Append(t.nodes[parent].children, N) \in Seq(Nat)
        /\ Emplaced(t.nodes[parent].memberIndex, name, N) \in Indexes
    BY <2>1, EmplacedType DEF NodeRec
  <2>3. PICK p : p = [t.nodes[parent] EXCEPT !.children = Append(@, N),
                                             !.memberIndex = Emplaced(@, name, N)]
    OBVIOUS
  <2>4. /\ p \in NodeRec /\ p.name = t.nodes[parent].name /\ p.parent = t.nodes[parent].parent
        /\ p.scope = t.nodes[parent].scope
        /\ p.children = Append(t.nodes[parent].children, N)
        /\ p.memberIndex = Emplaced(t.nodes[parent].memberIndex, name, N)
    BY <2>1, <2>2, <2>3 DEF NodeRec
  <2>5. grown = [t.nodes EXCEPT ![parent] = p]
    BY <1>1, <2>3 DEF NodesGrown
  <2> HIDE DEF grown
  <2> QED
    BY <1>1, <2>4, <2>5
<1> HIDE DEF fresh, grown, u
<1>6. /\ u.nodes \in [0 .. N -> NodeRec] /\ u.nodes[N] = fresh /\ DOMAIN u.nodes = 0 .. N
      /\ \A n \in 0 .. N - 1 : u.nodes[n] = grown[n]
  <2>1. DOMAIN grown \cup {N} = 0 .. N /\ \A n \in 0 .. N - 1 : n # N
    BY <1>1, <1>5
  <2> QED
    BY <1>3, <1>4, <1>5, <2>1 DEF With
<1>7. /\ \A n \in 0 .. N - 1 : Kids(u.nodes, n) = Kids(t.nodes, n) \cup (IF n = parent THEN {N} ELSE {})
      /\ Kids(u.nodes, N) = {}
      /\ \A s \in 0 .. S - 1 : SignalsOf(u, s) = SignalsOf(t, s)
  <2>1. /\ \A n \in 0 .. N - 1 : /\ u.nodes[n].parent = t.nodes[n].parent
                                 /\ u.nodes[n].scope = t.nodes[n].scope
        /\ u.nodes[N].parent = parent /\ u.nodes[N].scope = NoId
    BY <1>4, <1>5, <1>6
  <2>2. \A n \in 0 .. N - 1 : t.nodes[n].parent # N
    <3>1. ASSUME NEW n \in 0 .. N - 1
          PROVE  t.nodes[n].parent # N
      <4>1. NodeRight(t, n)
        BY DEF WellFormed
      <4>2. t.nodes[n].parent = NoId \/ t.nodes[n].parent \in 0 .. n - 1
        BY <4>1 DEF NodeRight
      <4>3. ASSUME t.nodes[n].parent \in 0 .. n - 1
            PROVE  t.nodes[n].parent # N
        BY <4>3
      <4> QED
        BY <4>2, <4>3, Constants
    <3> QED
      BY <3>1
  <2>3. 0 .. N = 0 .. N - 1 \cup {N} /\ N \notin 0 .. N - 1
    OBVIOUS
  <2>4. \A s \in 0 .. S - 1 : s # NoId
    <3>1. \A s \in 0 .. S - 1 : s \in Nat
      OBVIOUS
    <3> QED
      BY <3>1, Constants, Zenon
  <2> QED
    BY <1>1, <1>6, <2>1, <2>2, <2>3, <2>4, SMTT(30) DEF Kids, SignalsOf
<1>8. /\ \A n \in 0 .. N - 1 : NamesOf(u.nodes)[n] = NamesOf(t.nodes)[n]
      /\ NamesOf(u.nodes)[N] = name
      /\ NamesOf(u.scopes) = NamesOf(t.scopes)
  <2>1. N \in 0 .. N /\ \A n \in 0 .. N - 1 : n \in 0 .. N
    OBVIOUS
  <2> QED
    BY <1>1, <1>3, <1>4, <1>5, <1>6, <2>1 DEF NamesOf
<1>9. NodeRight(u, N)
  <2>1. /\ u.nodes[N].parent = parent /\ u.nodes[N].scope = NoId
        /\ u.nodes[N].children = <<>> /\ u.nodes[N].memberIndex = <<>>
    BY <1>4, <1>6
  <2> QED
    BY <1>7, <2>1, NothingYet DEF NodeRight
<1>10. ASSUME NEW n \in 0 .. N - 1
       PROVE  NodeRight(u, n)
  <2>1. NodeRight(t, n) /\ u.nodes[n] = grown[n]
    BY <1>6 DEF WellFormed
  <2>2. \/ u.nodes[n].parent = NoId /\ u.nodes[n].scope \in DOMAIN u.scopes
        \/ u.nodes[n].parent \in 0 .. n - 1 /\ u.nodes[n].scope = NoId
    BY <1>3, <1>5, <2>1 DEF NodeRight
  <2>3. Kids(t.nodes, n) \in SUBSET Nat /\ \A k \in Kids(t.nodes, n) : k < N /\ k \in 0 .. N - 1
    BY <1>1 DEF Kids
  <2>4. Line(u.nodes[n].children, Kids(u.nodes, n))
    <3>1. CASE n = parent
      <4>1. /\ Kids(u.nodes, n) = Kids(t.nodes, n) \cup {N}
            /\ u.nodes[n].children = Append(t.nodes[n].children, N)
        BY <1>5, <1>7, <2>1, <3>1
      <4> QED
        BY <2>1, <2>3, <4>1, LineGrows DEF NodeRight
    <3>2. CASE n # parent
      BY <1>5, <1>7, <2>1, <3>2 DEF NodeRight
    <3> QED
      BY <3>1, <3>2
  <2>5. Finds(u.nodes[n].memberIndex, NamesOf(u.nodes), Kids(u.nodes, n))
    <3>0. Finds(t.nodes[n].memberIndex, NamesOf(t.nodes), Kids(t.nodes, n))
      BY <2>1 DEF NodeRight
    <3>1. CASE n = parent
      <4>1. /\ Kids(u.nodes, n) = Kids(t.nodes, n) \cup {N}
            /\ u.nodes[n].memberIndex = Emplaced(t.nodes[n].memberIndex, NamesOf(u.nodes)[N], N)
        BY <1>5, <1>7, <1>8, <2>1, <3>1
      <4>2. \A k \in Kids(t.nodes, n) : NamesOf(u.nodes)[k] = NamesOf(t.nodes)[k]
        BY <1>8, <2>3
      <4>3. Finds(Emplaced(t.nodes[n].memberIndex, NamesOf(u.nodes)[N], N), NamesOf(u.nodes),
                  Kids(t.nodes, n) \cup {N})
        BY <2>3, <3>0, <4>2, FindsGrows
      <4> QED
        BY <4>1, <4>3
    <3>2. CASE n # parent
      <4>1. /\ Kids(u.nodes, n) = Kids(t.nodes, n)
            /\ u.nodes[n].memberIndex = t.nodes[n].memberIndex
        BY <1>5, <1>7, <2>1, <3>2
      <4> QED
        BY <1>8, <2>3, <3>0, <4>1, FindsSame
    <3> QED
      BY <3>1, <3>2
  <2> QED
    BY <2>2, <2>4, <2>5 DEF NodeRight
<1>11. ASSUME NEW s \in 0 .. S - 1
       PROVE  ScopeRight(u, s)
  <2>1. ScopeRight(t, s)
    BY DEF WellFormed
  <2>2. SignalsOf(u, s) = SignalsOf(t, s) /\ \A k \in SignalsOf(t, s) : k \in 0 .. N - 1
    BY <1>1, <1>7 DEF SignalsOf
  <2>3. Finds(t.scopes[s].signalIndex, NamesOf(u.nodes), SignalsOf(t, s))
    <3>1. Finds(t.scopes[s].signalIndex, NamesOf(t.nodes), SignalsOf(t, s))
      BY <2>1 DEF ScopeRight
    <3>2. \A k \in SignalsOf(t, s) : NamesOf(u.nodes)[k] = NamesOf(t.nodes)[k]
      BY <1>8, <2>2
    <3> QED
      BY <3>1, <3>2, FindsSame
  <2> QED
    BY <1>3, <2>1, <2>2, <2>3 DEF ScopeRight
<1>12. u \in [scopes : [0 .. S - 1 -> ScopeRec], nodes : [0 .. (N + 1) - 1 -> NodeRec]]
  BY <1>1, <1>3, <1>6
<1>13. \A n \in 0 .. (N + 1) - 1 : n = N \/ n \in 0 .. N - 1
  OBVIOUS
<1>14. WellFormed(u, S, N + 1)
  BY <1>1, <1>9, <1>10, <1>11, <1>12, <1>13 DEF WellFormed
<1> QED
  BY <1>14 DEF u

(* The same when a signal is added to a scope.                              *)
SignalsGrown(t, id, scope, name) ==
  [t.scopes EXCEPT ![scope].signals = Append(@, id),
                   ![scope].signalIndex = Emplaced(@, name, id)]
Whole(given) == [type |-> given.type, stream |-> given.stream, slice |-> NoSlice]
SignalAt(t, id, scope, name, given) ==
  [t EXCEPT !.nodes = With(t.nodes, id, Node(name, Whole(given), scope, NoId)),
            !.scopes = SignalsGrown(t, id, scope, name)]

LEMMA SignalAdded ==
  ASSUME NEW S \in Nat, NEW N \in Nat, NEW t, WellFormed(t, S, N),
         NEW scope \in 0 .. S - 1, NEW name \in NameSet, NEW given \in Gifts
  PROVE  WellFormed(WithSignal(t, scope, name, given), S, N + 1)
<1> DEFINE fresh == Node(name, Whole(given), scope, NoId)
           grown == SignalsGrown(t, N, scope, name)
           u == WithSignal(t, scope, name, given)
<1>1. /\ t.scopes \in [0 .. S - 1 -> ScopeRec] /\ t.nodes \in [0 .. N - 1 -> NodeRec]
      /\ t = [scopes |-> t.scopes, nodes |-> t.nodes]
      /\ DOMAIN t.scopes = 0 .. S - 1 /\ DOMAIN t.nodes = 0 .. N - 1 /\ S \in Nat \ {0}
  BY DEF WellFormed
<1>2. Cardinality(DOMAIN t.nodes) = N
  BY <1>1, UpperSize
<1>3. /\ u.nodes = With(t.nodes, N, fresh) /\ u.scopes = grown
      /\ u = [scopes |-> u.scopes, nodes |-> u.nodes]
  <2>1. WithSignal(t, scope, name, given) = SignalAt(t, Cardinality(DOMAIN t.nodes), scope, name, given)
    BY DEF WithSignal, SignalAt, SignalsGrown, Whole
  <2>2. u = SignalAt(t, N, scope, name, given)
    BY <1>2, <2>1
  <2>3. SignalAt(t, N, scope, name, given)
          = [t EXCEPT !.nodes = With(t.nodes, N, fresh), !.scopes = grown]
    BY DEF SignalAt
  <2> HIDE DEF fresh, grown, u
  <2>4. u = [t EXCEPT !.nodes = With(t.nodes, N, fresh), !.scopes = grown]
    BY <2>2, <2>3
  <2> QED
    BY <1>1, <2>4
<1>4. /\ fresh \in NodeRec /\ fresh.name = name /\ fresh.parent = NoId /\ fresh.scope = scope
      /\ fresh.children = <<>> /\ fresh.memberIndex = <<>>
  BY NothingYet DEF NodeRec, Ids, Node, Whole
<1>5. /\ grown \in [0 .. S - 1 -> ScopeRec]
      /\ \A s \in 0 .. S - 1 :
           /\ grown[s].name = t.scopes[s].name /\ grown[s].parent = t.scopes[s].parent
           /\ grown[s].childScopes = t.scopes[s].childScopes
           /\ grown[s].scopeIndex = t.scopes[s].scopeIndex
           /\ s # scope => /\ grown[s].signals = t.scopes[s].signals
                           /\ grown[s].signalIndex = t.scopes[s].signalIndex
      /\ grown[scope].signals = Append(t.scopes[scope].signals, N)
      /\ grown[scope].signalIndex = Emplaced(t.scopes[scope].signalIndex, name, N)
  <2>1. t.scopes[scope] \in ScopeRec
    BY <1>1
  <2>2. /\ Append(t.scopes[scope].signals, N) \in Seq(Nat)
        /\ Emplaced(t.scopes[scope].signalIndex, name, N) \in Indexes
    BY <2>1, EmplacedType DEF ScopeRec
  <2>3. PICK p : p = [t.scopes[scope] EXCEPT !.signals = Append(@, N),
                                             !.signalIndex = Emplaced(@, name, N)]
    OBVIOUS
  <2>4. /\ p \in ScopeRec /\ p.name = t.scopes[scope].name /\ p.parent = t.scopes[scope].parent
        /\ p.childScopes = t.scopes[scope].childScopes /\ p.scopeIndex = t.scopes[scope].scopeIndex
        /\ p.signals = Append(t.scopes[scope].signals, N)
        /\ p.signalIndex = Emplaced(t.scopes[scope].signalIndex, name, N)
    BY <2>1, <2>2, <2>3 DEF ScopeRec
  <2>5. grown = [t.scopes EXCEPT ![scope] = p]
    BY <1>1, <2>3 DEF SignalsGrown
  <2> HIDE DEF grown
  <2> QED
    BY <1>1, <2>4, <2>5
<1> HIDE DEF fresh, grown, u
<1>6. /\ u.nodes \in [0 .. N -> NodeRec] /\ u.nodes[N] = fresh /\ DOMAIN u.nodes = 0 .. N
      /\ \A n \in 0 .. N - 1 : u.nodes[n] = t.nodes[n]
      /\ u.scopes \in [0 .. S - 1 -> ScopeRec]
  <2>1. DOMAIN t.nodes \cup {N} = 0 .. N /\ \A n \in 0 .. N - 1 : n # N
    BY <1>1
  <2> QED
    BY <1>1, <1>3, <1>4, <1>5, <2>1 DEF With
<1>7. /\ \A n \in 0 .. N - 1 : Kids(u.nodes, n) = Kids(t.nodes, n)
      /\ Kids(u.nodes, N) = {}
      /\ \A s \in 0 .. S - 1 :
           /\ SignalsOf(u, s) = SignalsOf(t, s) \cup (IF s = scope THEN {N} ELSE {})
           /\ Kids(u.scopes, s) = Kids(t.scopes, s)
  <2>1. /\ \A n \in 0 .. N - 1 : /\ u.nodes[n].parent = t.nodes[n].parent
                                 /\ u.nodes[n].scope = t.nodes[n].scope
        /\ u.nodes[N].parent = NoId /\ u.nodes[N].scope = scope
        /\ \A s \in 0 .. S - 1 : u.scopes[s].parent = t.scopes[s].parent
    BY <1>3, <1>4, <1>5, <1>6
  <2>2. \A n \in 0 .. N - 1 : t.nodes[n].parent # N
    <3>1. ASSUME NEW n \in 0 .. N - 1
          PROVE  t.nodes[n].parent # N
      <4>1. NodeRight(t, n)
        BY DEF WellFormed
      <4>2. t.nodes[n].parent = NoId \/ t.nodes[n].parent \in 0 .. n - 1
        BY <4>1 DEF NodeRight
      <4>3. ASSUME t.nodes[n].parent \in 0 .. n - 1
            PROVE  t.nodes[n].parent # N
        BY <4>3
      <4> QED
        BY <4>2, <4>3, Constants
    <3> QED
      BY <3>1
  <2>3. 0 .. N = 0 .. N - 1 \cup {N} /\ N \notin 0 .. N - 1
    OBVIOUS
  <2>4. \A n \in 0 .. N : n # NoId
    <3>1. \A n \in 0 .. N : n \in Nat
      OBVIOUS
    <3> QED
      BY <3>1, Constants, Zenon
  <2>5. DOMAIN u.scopes = 0 .. S - 1
    BY <1>6
  <2> QED
    BY <1>1, <1>6, <2>1, <2>2, <2>3, <2>4, <2>5, SMTT(30) DEF Kids, SignalsOf
<1>8. /\ \A n \in 0 .. N - 1 : NamesOf(u.nodes)[n] = NamesOf(t.nodes)[n]
      /\ NamesOf(u.nodes)[N] = name
      /\ \A s \in 0 .. S - 1 : NamesOf(u.scopes)[s] = NamesOf(t.scopes)[s]
  <2>1. N \in 0 .. N /\ \A n \in 0 .. N - 1 : n \in 0 .. N
    OBVIOUS
  <2> QED
    BY <1>1, <1>3, <1>4, <1>5, <1>6, <2>1 DEF NamesOf
<1>9. NodeRight(u, N)
  <2>1. /\ u.nodes[N].parent = NoId /\ u.nodes[N].scope = scope /\ scope \in DOMAIN u.scopes
        /\ u.nodes[N].children = <<>> /\ u.nodes[N].memberIndex = <<>>
    BY <1>4, <1>6
  <2> QED
    BY <1>7, <2>1, NothingYet DEF NodeRight
<1>10. ASSUME NEW n \in 0 .. N - 1
       PROVE  NodeRight(u, n)
  <2>1. NodeRight(t, n) /\ u.nodes[n] = t.nodes[n] /\ DOMAIN u.scopes = DOMAIN t.scopes
    BY <1>1, <1>6 DEF WellFormed
  <2>2. Kids(u.nodes, n) = Kids(t.nodes, n) /\ \A k \in Kids(t.nodes, n) : k \in 0 .. N - 1
    BY <1>1, <1>7 DEF Kids
  <2>3. Finds(t.nodes[n].memberIndex, NamesOf(u.nodes), Kids(t.nodes, n))
    <3>1. Finds(t.nodes[n].memberIndex, NamesOf(t.nodes), Kids(t.nodes, n))
      BY <2>1 DEF NodeRight
    <3>2. \A k \in Kids(t.nodes, n) : NamesOf(u.nodes)[k] = NamesOf(t.nodes)[k]
      BY <1>8, <2>2
    <3> QED
      BY <3>1, <3>2, FindsSame
  <2> QED
    BY <2>1, <2>2, <2>3 DEF NodeRight
<1>11. ASSUME NEW s \in 0 .. S - 1
       PROVE  ScopeRight(u, s)
  <2>1. ScopeRight(t, s) /\ u.scopes[s] = grown[s]
    BY <1>3 DEF WellFormed
  <2>2. /\ Kids(u.scopes, s) = Kids(t.scopes, s) /\ \A k \in Kids(t.scopes, s) : k \in 0 .. S - 1
        /\ SignalsOf(t, s) \in SUBSET Nat /\ \A k \in SignalsOf(t, s) : k < N /\ k \in 0 .. N - 1
    BY <1>1, <1>7 DEF Kids, SignalsOf
  <2>3. /\ IF s = Root THEN u.scopes[s].parent = NoId ELSE u.scopes[s].parent \in 0 .. s - 1
        /\ Line(u.scopes[s].childScopes, Kids(u.scopes, s))
    BY <1>5, <2>1, <2>2 DEF ScopeRight
  <2>4. Finds(u.scopes[s].scopeIndex, NamesOf(u.scopes), Kids(u.scopes, s))
    <3>1. Finds(t.scopes[s].scopeIndex, NamesOf(t.scopes), Kids(t.scopes, s))
      BY <2>1 DEF ScopeRight
    <3>2. \A k \in Kids(t.scopes, s) : NamesOf(u.scopes)[k] = NamesOf(t.scopes)[k]
      BY <1>8, <2>2
    <3>3. Finds(t.scopes[s].scopeIndex, NamesOf(u.scopes), Kids(t.scopes, s))
      BY <3>1, <3>2, FindsSame
    <3> QED
      BY <1>5, <2>1, <2>2, <3>3
  <2>5. /\ Line(t.scopes[s].signals, SignalsOf(t, s))
        /\ Finds(t.scopes[s].signalIndex, NamesOf(t.nodes), SignalsOf(t, s))
        /\ \A k \in SignalsOf(t, s) : NamesOf(u.nodes)[k] = NamesOf(t.nodes)[k]
    BY <1>8, <2>1, <2>2 DEF ScopeRight
  <2>6. /\ Line(u.scopes[s].signals, SignalsOf(u, s))
        /\ Finds(u.scopes[s].signalIndex, NamesOf(u.nodes), SignalsOf(u, s))
    <3>1. CASE s = scope
      <4>1. /\ SignalsOf(u, s) = SignalsOf(t, s) \cup {N}
            /\ u.scopes[s].signals = Append(t.scopes[s].signals, N)
            /\ u.scopes[s].signalIndex = Emplaced(t.scopes[s].signalIndex, NamesOf(u.nodes)[N], N)
        BY <1>5, <1>7, <1>8, <2>1, <3>1
      <4>2. Finds(Emplaced(t.scopes[s].signalIndex, NamesOf(u.nodes)[N], N), NamesOf(u.nodes),
                  SignalsOf(t, s) \cup {N})
        BY <2>2, <2>5, FindsGrows
      <4>3. Line(Append(t.scopes[s].signals, N), SignalsOf(t, s) \cup {N})
        BY <2>2, <2>5, LineGrows
      <4> QED
        BY <4>1, <4>2, <4>3
    <3>2. CASE s # scope
      <4>1. /\ SignalsOf(u, s) = SignalsOf(t, s)
            /\ u.scopes[s].signals = t.scopes[s].signals
            /\ u.scopes[s].signalIndex = t.scopes[s].signalIndex
        BY <1>5, <1>7, <2>1, <3>2
      <4> QED
        BY <2>5, <4>1, FindsSame
    <3> QED
      BY <3>1, <3>2
  <2> QED
    BY <2>3, <2>4, <2>6 DEF ScopeRight
<1>12. u \in [scopes : [0 .. S - 1 -> ScopeRec], nodes : [0 .. (N + 1) - 1 -> NodeRec]]
  BY <1>1, <1>3, <1>6
<1>13. \A n \in 0 .. (N + 1) - 1 : n = N \/ n \in 0 .. N - 1
  OBVIOUS
<1>14. WellFormed(u, S, N + 1)
  BY <1>1, <1>9, <1>10, <1>11, <1>12, <1>13 DEF WellFormed
<1> QED
  BY <1>14 DEF u

(* Every step of a hierarchy keeps its tree right.                          *)
LEMMA StepRight ==
  ASSUME IndexesRight, [Next]_tree
  PROVE  IndexesRight'
<1>1. PICK S \in Nat, N \in Nat : WellFormed(tree, S, N)
  BY DEF IndexesRight
<1>2. DOMAIN tree.scopes = 0 .. S - 1 /\ DOMAIN tree.nodes = 0 .. N - 1
  BY <1>1 DEF WellFormed
<1>3. /\ \A name \in Names : name \in NameSet /\ Given[name] \in Gifts
      /\ \A index \in Indices : Element(index) \in NameSet /\ Given[Element(index)] \in Gifts
  <2>1. Names \subseteq NameSet /\ Indices \subseteq Int /\ NoBase \in Bases
    BY HierarchyAssumption DEF NameSet
  <2>2. \A index \in Int : Element(index) \in NameSet
    <3>1. \A index \in Int : <<index>> \in Seq(Int)
      OBVIOUS
    <3> QED
      BY <2>1, <3>1 DEF Element, Name, NameSet
  <2> QED
    BY <2>1, <2>2 DEF Gifts
<1>4. CASE UNCHANGED tree
  BY <1>1, <1>4 DEF IndexesRight
<1>5. ASSUME NEW parent, NEW name \in Names, NEW kind \in ScopeKinds, AddScope(parent, name, kind)
      PROVE  IndexesRight'
  <2>1. parent \in 0 .. S - 1 /\ tree' = WithScope(tree, parent, name, kind)
    BY <1>2, <1>5 DEF AddScope, Required
  <2>2. WellFormed(tree', S + 1, N)
    BY <1>1, <1>3, <2>1, ScopeAdded
  <2> QED
    BY <2>2 DEF IndexesRight
<1>6. ASSUME NEW scope, NEW name \in Names, AddSignal(scope, name)
      PROVE  IndexesRight'
  <2>1. scope \in 0 .. S - 1 /\ tree' = WithSignal(tree, scope, name, Given[name])
    BY <1>2, <1>6 DEF AddSignal, Required
  <2>2. WellFormed(tree', S, N + 1)
    BY <1>1, <1>3, <2>1, SignalAdded
  <2> QED
    BY <2>2 DEF IndexesRight
<1>7. ASSUME NEW parent, NEW name \in NameSet, Given[name] \in Gifts, AddMember(parent, name)
      PROVE  IndexesRight'
  <2>1. parent \in 0 .. N - 1 /\ tree' = WithMember(tree, parent, name, Given[name])
    BY <1>2, <1>7 DEF AddMember, Required
  <2>2. WellFormed(tree', S, N + 1)
    BY <1>1, <1>7, <2>1, MemberAdded
  <2> QED
    BY <2>2 DEF IndexesRight
<1>8. ASSUME NEW parent, NEW index \in Indices, AddElement(parent, index)
      PROVE  IndexesRight'
  BY <1>3, <1>7, <1>8 DEF AddElement
<1>9. CASE Next
  BY <1>3, <1>5, <1>6, <1>7, <1>8, <1>9 DEF Next
<1> QED
  BY <1>4, <1>9

----------------------------------------------------------------------------

(* A walk goes from a node by one name after another, each looked up in the *)
(* index of the node it has come to.                                        *)
Onward(index, x, name) == IF x = NoId THEN NoId ELSE Lookup(index[x], name)
Closed(index, X) ==
  /\ X \subseteq Nat
  /\ \A x \in X : \A name \in DOMAIN index[x] : index[x][name] \in X
Walk(index, X, from, names, g) ==
  /\ g \in [0 .. Len(names) -> X \cup {NoId}] /\ g[0] = from
  /\ \A k \in 1 .. Len(names) : g[k] = Onward(index, g[k - 1], names[k])

ScopeIndexes(t) == [s \in DOMAIN t.scopes |-> t.scopes[s].scopeIndex]
MemberIndexes(t) == [n \in DOMAIN t.nodes |-> t.nodes[n].memberIndex]

LEMMA OnwardType ==
  ASSUME NEW index, NEW X, Closed(index, X), NEW x \in X \cup {NoId}, NEW name
  PROVE  Onward(index, x, name) \in X \cup {NoId}
BY DEF Closed, Onward, Lookup

(* A fold by steps of a walk has a value, and its values are those of one.  *)
WalkValues(it, index, from, names, m) ==
  \A T \in SUBSET (1 .. m) :
    it[T] = IF T = {} THEN from ELSE Onward(index, it[T \ {Max(T)}], names[Max(T)])

LEMMA WalkFold ==
  ASSUME NEW index, NEW X, Closed(index, X), NEW from \in X,
         NEW names, NEW m \in Nat, m = Len(names)
  PROVE  \E it \in [SUBSET (1 .. m) -> X \cup {NoId}] : WalkValues(it, index, from, names, m)
<1> DEFINE V == X \cup {NoId}
           F == [p \in V \X (1 .. m) |-> Onward(index, p[1], names[p[2]])]
<1>1. F \in [V \X (1 .. m) -> V]
  BY OnwardType
<1>2. PICK it \in [SUBSET (1 .. m) -> V] : IsFold(it, F, from, m)
  <2> HIDE DEF F
  <2>1. from \in V
    OBVIOUS
  <2> HIDE DEF V
  <2> QED
    BY <1>1, <2>1, FoldExists
<1>3. ASSUME NEW T \in SUBSET (1 .. m)
      PROVE  it[T] = IF T = {} THEN from ELSE Onward(index, it[T \ {Max(T)}], names[Max(T)])
  <2>1. it[T] = IF T = {} THEN from ELSE F[<<it[T \ {Max(T)}], Max(T)>>]
    <3> HIDE DEF F
    <3> QED
      BY <1>2 DEF IsFold
  <2>2. CASE T # {}
    <3>1. Max(T) \in 1 .. m /\ T \ {Max(T)} \in SUBSET (1 .. m)
      BY <2>2, LastPlace
    <3>2. it[T \ {Max(T)}] \in V
      BY <3>1
    <3>3. F[<<it[T \ {Max(T)}], Max(T)>>] = Onward(index, it[T \ {Max(T)}], names[Max(T)])
      BY <3>1, <3>2
    <3> HIDE DEF F
    <3> QED
      BY <2>1, <2>2, <3>3
  <2>3. CASE T = {}
    BY <2>1, <2>3
  <2> QED
    BY <2>2, <2>3
<1> QED
  BY <1>3 DEF WalkValues

LEMMA FoldWalks ==
  ASSUME NEW index, NEW X, Closed(index, X), NEW from \in X,
         NEW names, NEW m \in Nat, m = Len(names), NEW fold, fold[{}] = from,
         \A k \in 1 .. m : fold[1 .. k - 1] \in X \cup {NoId} =>
                              fold[1 .. k] = Onward(index, fold[1 .. k - 1], names[k])
  PROVE  Walk(index, X, from, names, [k \in 0 .. m |-> fold[1 .. k]])
<1> DEFINE g == [k \in 0 .. m |-> fold[1 .. k]]
           T == {k \in 0 .. m : fold[1 .. k] \in X \cup {NoId}}
<1>1. 0 \in T /\ g[0] = from
  <2>1. 1 .. 0 = {}
    OBVIOUS
  <2> QED
    BY <2>1
<1>2. ASSUME NEW k \in T, k < m
      PROVE  k + 1 \in T
  <2>1. PICK j \in 1 .. m : j = k + 1 /\ j - 1 = k /\ j \in 0 .. m
    BY <1>2
  <2>2. fold[1 .. j - 1] \in X \cup {NoId}
    BY <2>1
  <2>3. fold[1 .. j] = Onward(index, fold[1 .. j - 1], names[j])
    BY <2>2
  <2>4. PICK y \in X \cup {NoId} : y = fold[1 .. j - 1]
    BY <2>2
  <2>5. Onward(index, y, names[j]) \in X \cup {NoId}
    BY OnwardType
  <2> QED
    BY <2>1, <2>3, <2>4, <2>5
<1>3. T = 0 .. m
  <2>1. T \in SUBSET (0 .. m)
    OBVIOUS
  <2> HIDE DEF T
  <2> QED
    BY <1>1, <1>2, <2>1, UptoInduction
<1>4. g \in [0 .. m -> X \cup {NoId}]
  BY <1>3
<1>5. ASSUME NEW k \in 1 .. m
      PROVE  g[k] = Onward(index, g[k - 1], names[k])
  <2>1. k \in 0 .. m /\ k - 1 \in 0 .. m
    OBVIOUS
  <2>2. fold[1 .. k - 1] \in X \cup {NoId}
    BY <1>3, <2>1
  <2> QED
    BY <2>1, <2>2
<1> HIDE DEF g
<1>6. Walk(index, X, from, names, g)
  BY <1>1, <1>4, <1>5 DEF Walk
<1> QED
  BY <1>6 DEF g

(* Two walks by the same names are the same as far as both go.              *)
Alike(p, q, m) ==
  /\ m \in Nat /\ Len(p) \in Nat /\ Len(q) \in Nat /\ m <= Len(p) /\ m <= Len(q)
  /\ \A k \in 1 .. m : p[k] = q[k]

LEMMA WalksAgree ==
  ASSUME NEW index, NEW X, NEW from, NEW p, NEW q, NEW g, NEW h,
         Walk(index, X, from, p, g), Walk(index, X, from, q, h), NEW m, Alike(p, q, m)
  PROVE  \A k \in 0 .. m : g[k] = h[k]
<1>0. m \in Nat
  BY DEF Alike
<1> DEFINE T == {k \in 0 .. m : g[k] = h[k]}
<1>1. 0 \in T
  BY <1>0 DEF Walk
<1>2. ASSUME NEW k \in T, k < m
      PROVE  k + 1 \in T
  <2>1. PICK j \in 1 .. m : j = k + 1 /\ j - 1 = k /\ j \in 0 .. m /\ j \in 1 .. Len(p) /\ j \in 1 .. Len(q)
    BY <1>0, <1>2 DEF Alike
  <2>2. g[j - 1] = h[j - 1] /\ p[j] = q[j]
    BY <1>2, <2>1 DEF Alike
  <2>3. g[j] = Onward(index, g[j - 1], p[j])
    BY <2>1 DEF Walk
  <2>4. h[j] = Onward(index, h[j - 1], q[j])
    BY <2>1 DEF Walk
  <2> QED
    BY <2>1, <2>2, <2>3, <2>4
<1>3. T = 0 .. m
  <2>1. T \in SUBSET (0 .. m)
    OBVIOUS
  <2> HIDE DEF T
  <2> QED
    BY <1>0, <1>1, <1>2, <2>1, UptoInduction
<1> QED
  BY <1>3

(* What an index finds is a child of the node.                              *)
LEMMA TreeClosed ==
  ASSUME NEW S \in Nat, NEW N \in Nat, NEW t, WellFormed(t, S, N)
  PROVE  Closed(ScopeIndexes(t), 0 .. S - 1) /\ Closed(MemberIndexes(t), 0 .. N - 1)
<1>1. DOMAIN t.scopes = 0 .. S - 1 /\ DOMAIN t.nodes = 0 .. N - 1
  BY DEF WellFormed
<1>2. ASSUME NEW s \in 0 .. S - 1, NEW name \in DOMAIN ScopeIndexes(t)[s]
      PROVE  ScopeIndexes(t)[s][name] \in 0 .. S - 1
  <2>1. ScopeIndexes(t)[s] = t.scopes[s].scopeIndex
    BY <1>1 DEF ScopeIndexes
  <2>2. Finds(t.scopes[s].scopeIndex, NamesOf(t.scopes), Kids(t.scopes, s))
    BY DEF WellFormed, ScopeRight
  <2>3. PICK k \in Kids(t.scopes, s) : name = NamesOf(t.scopes)[k]
    BY <1>2, <2>1, <2>2 DEF Finds
  <2>4. t.scopes[s].scopeIndex[name] \in Kids(t.scopes, s)
    BY <2>2, <2>3 DEF Finds
  <2> QED
    BY <1>1, <2>1, <2>4 DEF Kids
<1>3. ASSUME NEW n \in 0 .. N - 1, NEW name \in DOMAIN MemberIndexes(t)[n]
      PROVE  MemberIndexes(t)[n][name] \in 0 .. N - 1
  <2>1. MemberIndexes(t)[n] = t.nodes[n].memberIndex
    BY <1>1 DEF MemberIndexes
  <2>2. Finds(t.nodes[n].memberIndex, NamesOf(t.nodes), Kids(t.nodes, n))
    BY DEF WellFormed, NodeRight
  <2>3. PICK k \in Kids(t.nodes, n) : name = NamesOf(t.nodes)[k]
    BY <1>3, <2>1, <2>2 DEF Finds
  <2>4. t.nodes[n].memberIndex[name] \in Kids(t.nodes, n)
    BY <2>2, <2>3 DEF Finds
  <2> QED
    BY <1>1, <2>1, <2>4 DEF Kids
<1>4. 0 .. S - 1 \subseteq Nat /\ 0 .. N - 1 \subseteq Nat
  OBVIOUS
<1> QED
  BY <1>2, <1>3, <1>4 DEF Closed

(* findScope() and descend() are walks, the first down the scopes, the      *)
(* second down the members of a signal.                                     *)
LEMMA ScopeWalk ==
  ASSUME NEW S \in Nat, NEW N \in Nat, NEW t, WellFormed(t, S, N),
         NEW from \in 0 .. S - 1, NEW path, Len(path) \in Nat, DOMAIN path = 1 .. Len(path)
  PROVE  \E g : Walk(ScopeIndexes(t), 0 .. S - 1, from, path, g) /\ ScopeAlong(t, from, path) = g[Len(path)]
<1> DEFINE X == 0 .. S - 1
           index == ScopeIndexes(t)
           Folds(it) == it = [T \in SUBSET (1 .. Len(path)) |->
                                IF T = {} THEN from
                                ELSE IF it[T \ {Max(T)}] = NoId THEN NoId
                                     ELSE Lookup(t.scopes[it[T \ {Max(T)}]].scopeIndex, path[Max(T)])]
<1>0. PICK m \in Nat : m = Len(path)
  OBVIOUS
<1>1. Closed(index, X) /\ DOMAIN t.scopes = X
  BY TreeClosed DEF WellFormed
<1>2. \A x \in X \cup {NoId} : \A name :
        Onward(index, x, name) = IF x = NoId THEN NoId ELSE Lookup(t.scopes[x].scopeIndex, name)
  BY <1>1 DEF Onward, ScopeIndexes
<1> HIDE DEF X, index
<1>3. PICK it \in [SUBSET (1 .. m) -> X \cup {NoId}] : WalkValues(it, index, from, path, m)
  <2>1. from \in X
    BY DEF X
  <2> QED
    BY <1>0, <1>1, <2>1, WalkFold
<1>4. Folds(it)
  <2>1. ASSUME NEW T \in SUBSET (1 .. m), T # {}
        PROVE  it[T] = IF it[T \ {Max(T)}] = NoId THEN NoId
                       ELSE Lookup(t.scopes[it[T \ {Max(T)}]].scopeIndex, path[Max(T)])
    <3>1. it[T \ {Max(T)}] \in X \cup {NoId}
      OBVIOUS
    <3>2. it[T] = Onward(index, it[T \ {Max(T)}], path[Max(T)])
      BY <1>3, <2>1 DEF WalkValues
    <3> QED
      BY <1>2, <3>1, <3>2
  <2>2. it[{}] = from
    <3>1. {} \in SUBSET (1 .. m)
      OBVIOUS
    <3> QED
      BY <1>3, <3>1 DEF WalkValues
  <2> QED
    BY <1>0, <2>1, <2>2
<1>5. PICK fold : Folds(fold) /\ ScopeAlong(t, from, path) = fold[1 .. m]
  <2> DEFINE fold == CHOOSE f : Folds(f)
  <2>1. Folds(fold)
    BY <1>4
  <2>2. ScopeAlong(t, from, path) = fold[1 .. m]
    BY <1>0 DEF ScopeAlong, FoldLeft, MapThenFoldSet
  <2> QED
    BY <2>1, <2>2
<1>6. fold[{}] = from
  <2>1. {} \in SUBSET (1 .. Len(path))
    OBVIOUS
  <2> QED
    BY <1>5, <2>1
<1>7. ASSUME NEW k \in 1 .. m, fold[1 .. k - 1] \in X \cup {NoId}
      PROVE  fold[1 .. k] = Onward(index, fold[1 .. k - 1], path[k])
  <2>1. /\ 1 .. k \in SUBSET (1 .. Len(path)) /\ 1 .. k # {}
        /\ Max(1 .. k) = k /\ (1 .. k) \ {k} = 1 .. k - 1
    BY <1>0, LastPlace
  <2>2. fold[1 .. k] = IF fold[1 .. k - 1] = NoId THEN NoId
                       ELSE Lookup(t.scopes[fold[1 .. k - 1]].scopeIndex, path[k])
    BY <1>5, <2>1
  <2> QED
    BY <1>2, <1>7, <2>2
<1> DEFINE g == [k \in 0 .. m |-> fold[1 .. k]]
<1>8. Walk(index, X, from, path, g)
  <2>1. from \in X
    BY DEF X
  <2> HIDE DEF Folds
  <2> QED
    BY <1>0, <1>1, <1>6, <1>7, <2>1, FoldWalks
<1>9. g[m] = fold[1 .. m]
  OBVIOUS
<1> HIDE DEF g
<1> QED
  BY <1>0, <1>5, <1>8, <1>9 DEF X, index

LEMMA MemberWalk ==
  ASSUME NEW S \in Nat, NEW N \in Nat, NEW t, WellFormed(t, S, N),
         NEW from \in 0 .. N - 1, NEW path,
         Len(KeysOf(path)) \in Nat, DOMAIN KeysOf(path) = 1 .. Len(KeysOf(path))
  PROVE  \E g : /\ Walk(MemberIndexes(t), 0 .. N - 1, from, KeysOf(path), g)
               /\ Descend(t, from, path) = g[Len(KeysOf(path))]
<1> DEFINE X == 0 .. N - 1
           index == MemberIndexes(t)
           Folds(it) == it = [T \in SUBSET (1 .. Len(KeysOf(path))) |->
                                IF T = {} THEN from
                                ELSE IF it[T \ {Max(T)}] = NoId THEN NoId
                                     ELSE Lookup(t.nodes[it[T \ {Max(T)}]].memberIndex,
                                                 KeysOf(path)[Max(T)])]
<1>0. PICK m \in Nat : m = Len(KeysOf(path))
  OBVIOUS
<1>1. Closed(index, X) /\ DOMAIN t.nodes = X
  BY TreeClosed DEF WellFormed
<1>2. \A x \in X \cup {NoId} : \A name :
        Onward(index, x, name) = IF x = NoId THEN NoId ELSE Lookup(t.nodes[x].memberIndex, name)
  BY <1>1 DEF Onward, MemberIndexes
<1> HIDE DEF X, index
<1>3. PICK it \in [SUBSET (1 .. m) -> X \cup {NoId}] : WalkValues(it, index, from, KeysOf(path), m)
  <2>1. from \in X
    BY DEF X
  <2> QED
    BY <1>0, <1>1, <2>1, WalkFold
<1>4. Folds(it)
  <2>1. ASSUME NEW T \in SUBSET (1 .. m), T # {}
        PROVE  it[T] = IF it[T \ {Max(T)}] = NoId THEN NoId
                       ELSE Lookup(t.nodes[it[T \ {Max(T)}]].memberIndex, KeysOf(path)[Max(T)])
    <3>1. it[T \ {Max(T)}] \in X \cup {NoId}
      OBVIOUS
    <3>2. it[T] = Onward(index, it[T \ {Max(T)}], KeysOf(path)[Max(T)])
      BY <1>3, <2>1 DEF WalkValues
    <3> QED
      BY <1>2, <3>1, <3>2
  <2>2. it[{}] = from
    <3>1. {} \in SUBSET (1 .. m)
      OBVIOUS
    <3> QED
      BY <1>3, <3>1 DEF WalkValues
  <2> QED
    BY <1>0, <2>1, <2>2
<1>5. PICK fold : Folds(fold) /\ Descend(t, from, path) = fold[1 .. m]
  <2> DEFINE fold == CHOOSE f : Folds(f)
  <2>1. Folds(fold)
    BY <1>4
  <2>2. Descend(t, from, path) = fold[1 .. m]
    BY <1>0 DEF Descend, FoldLeft, MapThenFoldSet
  <2> QED
    BY <2>1, <2>2
<1>6. fold[{}] = from
  <2>1. {} \in SUBSET (1 .. Len(KeysOf(path)))
    OBVIOUS
  <2> QED
    BY <1>5, <2>1
<1>7. ASSUME NEW k \in 1 .. m, fold[1 .. k - 1] \in X \cup {NoId}
      PROVE  fold[1 .. k] = Onward(index, fold[1 .. k - 1], KeysOf(path)[k])
  <2>1. /\ 1 .. k \in SUBSET (1 .. Len(KeysOf(path))) /\ 1 .. k # {}
        /\ Max(1 .. k) = k /\ (1 .. k) \ {k} = 1 .. k - 1
    BY <1>0, LastPlace
  <2>2. fold[1 .. k] = IF fold[1 .. k - 1] = NoId THEN NoId
                       ELSE Lookup(t.nodes[fold[1 .. k - 1]].memberIndex, KeysOf(path)[k])
    BY <1>5, <2>1
  <2> QED
    BY <1>2, <1>7, <2>2
<1> DEFINE g == [k \in 0 .. m |-> fold[1 .. k]]
<1>8. Walk(index, X, from, KeysOf(path), g)
  <2>1. from \in X
    BY DEF X
  <2> HIDE DEF Folds
  <2> QED
    BY <1>0, <1>1, <1>6, <1>7, <2>1, FoldWalks
<1>9. g[m] = fold[1 .. m]
  OBVIOUS
<1> HIDE DEF g
<1> QED
  BY <1>0, <1>5, <1>8, <1>9 DEF X, index

----------------------------------------------------------------------------

(* A walk that comes to a node has gone down to it from child to child,     *)
(* each the first of its name, and no other way leads to the node.          *)
Family(index, X, up, names) ==
  /\ X \subseteq Nat /\ Closed(index, X)
  /\ \A x \in X : Finds(index[x], names, {n \in X : up[n] = x})
FirstOf(X, up, names, x) ==
  \A r \in X : up[r] = up[x] /\ names[r] = names[x] => x <= r

LEMMA WalkDown ==
  ASSUME NEW index, NEW X, NEW up, NEW names, Family(index, X, up, names), NEW from \in X,
         NEW path, NEW m \in Nat, m = Len(path), NEW g, Walk(index, X, from, path, g), g[m] # NoId
  PROVE  /\ \A k \in 0 .. m : g[k] \in X
         /\ \A k \in 1 .. m : /\ up[g[k]] = g[k - 1] /\ names[g[k]] = path[k]
                              /\ FirstOf(X, up, names, g[k])
<1>1. /\ g \in [0 .. m -> X \cup {NoId}]
      /\ \A k \in 1 .. m : g[k] = Onward(index, g[k - 1], path[k])
  BY DEF Walk
<1> DEFINE T == {k \in 0 .. m : g[m - k] # NoId}
<1>2. 0 \in T
  OBVIOUS
<1>3. ASSUME NEW k \in T, k < m
      PROVE  k + 1 \in T
  <2>1. PICK j \in 1 .. m : j = m - k /\ j - 1 = m - (k + 1) /\ k + 1 \in 0 .. m
    BY <1>3
  <2>2. g[j] # NoId /\ g[j] = Onward(index, g[j - 1], path[j])
    BY <1>1, <1>3, <2>1
  <2>3. g[j - 1] # NoId
    BY <2>2 DEF Onward
  <2> QED
    BY <2>1, <2>3
<1>4. T = 0 .. m
  <2>1. T \in SUBSET (0 .. m)
    OBVIOUS
  <2> HIDE DEF T
  <2> QED
    BY <1>2, <1>3, <2>1, UptoInduction
<1>5. ASSUME NEW k \in 0 .. m
      PROVE  g[k] \in X /\ g[k] # NoId
  <2>1. m - k \in 0 .. m /\ m - (m - k) = k
    OBVIOUS
  <2>2. m - k \in T
    BY <1>4, <2>1
  <2>3. g[k] # NoId
    BY <2>1, <2>2
  <2> QED
    BY <1>1, <2>3
<1>6. ASSUME NEW k \in 1 .. m
      PROVE  up[g[k]] = g[k - 1] /\ names[g[k]] = path[k] /\ FirstOf(X, up, names, g[k])
  <2>1. PICK x \in X : x = g[k - 1] /\ x # NoId
    <3>1. k - 1 \in 0 .. m
      OBVIOUS
    <3> QED
      BY <1>5, <3>1
  <2>2. PICK y \in X : y = g[k] /\ y # NoId
    BY <1>5
  <2>3. y = Lookup(index[x], path[k])
    BY <1>1, <2>1, <2>2 DEF Onward
  <2>4. path[k] \in DOMAIN index[x] /\ y = index[x][path[k]]
    BY <2>2, <2>3 DEF Lookup
  <2> DEFINE kids == {n \in X : up[n] = x}
  <2>5. Finds(index[x], names, kids)
    BY DEF Family
  <2>6. PICK j \in kids : path[k] = names[j]
    BY <2>4, <2>5 DEF Finds
  <2>7. y \in kids /\ names[y] = path[k]
    BY <2>4, <2>5, <2>6 DEF Finds
  <2>8. \A r \in kids : names[r] = path[k] => y <= r
    BY <2>4, <2>5 DEF Finds
  <2>9. FirstOf(X, up, names, y)
    BY <2>7, <2>8 DEF FirstOf
  <2> QED
    BY <2>1, <2>2, <2>7, <2>9
<1> QED
  BY <1>5, <1>6

FirstChain(X, up, names, path, c, m) ==
  /\ m \in Nat /\ m = Len(path)
  /\ c \in [0 .. m -> X]
  /\ \A k \in 1 .. m : /\ up[c[k]] = c[k - 1] /\ names[c[k]] = path[k]
                        /\ FirstOf(X, up, names, c[k])

LEMMA ChainWalks ==
  ASSUME NEW index, NEW X, NEW up, NEW names, Family(index, X, up, names), NEW from \in X,
         NEW path, NEW g, Walk(index, X, from, path, g),
         NEW m, NEW c, FirstChain(X, up, names, path, c, m), c[0] = from
  PROVE  \A k \in 0 .. m : g[k] = c[k]
<1>0. /\ m \in Nat /\ m = Len(path) /\ c \in [0 .. m -> X]
      /\ \A k \in 1 .. m : /\ up[c[k]] = c[k - 1] /\ names[c[k]] = path[k]
                            /\ FirstOf(X, up, names, c[k])
  BY DEF FirstChain
<1> DEFINE T == {k \in 0 .. m : g[k] = c[k]}
<1>1. /\ g[0] = from
      /\ \A k \in 1 .. m : g[k] = Onward(index, g[k - 1], path[k])
  BY <1>0 DEF Walk
<1>2. 0 \in T
  BY <1>0, <1>1
<1>3. ASSUME NEW i \in T, i < m
      PROVE  i + 1 \in T
  <2>1. PICK k \in 1 .. m : k = i + 1 /\ k - 1 = i /\ k \in 0 .. m /\ k - 1 \in 0 .. m
    BY <1>0, <1>3
  <2>2. PICK x \in X : x = c[k - 1] /\ x = g[k - 1]
    BY <1>0, <1>3, <2>1
  <2>3. PICK y \in X : y = c[k]
    BY <1>0, <2>1
  <2>4. up[y] = x /\ names[y] = path[k] /\ FirstOf(X, up, names, y) /\ x # NoId /\ y \in Nat
    <3>1. x \in Nat /\ y \in Nat
      BY DEF Family
    <3>2. x # NoId
      BY <3>1, Constants, Zenon
    <3> QED
      BY <1>0, <2>1, <2>2, <2>3, <3>1, <3>2
  <2> DEFINE kids == {n \in X : up[n] = x}
  <2>5. Finds(index[x], names, kids) /\ y \in kids
    BY <2>4 DEF Family
  <2>6. PICK z : z = index[x][path[k]]
    OBVIOUS
  <2>7. /\ path[k] \in DOMAIN index[x] /\ z \in kids /\ names[z] = path[k] /\ z <= y
    BY <2>4, <2>5, <2>6 DEF Finds
  <2>8. y <= z /\ z \in Nat
    BY <2>4, <2>7 DEF FirstOf, Family
  <2>9. z = y
    BY <2>4, <2>7, <2>8
  <2>10. g[k] = z
    BY <1>1, <2>1, <2>2, <2>4, <2>6, <2>7 DEF Onward, Lookup
  <2> QED
    BY <2>1, <2>3, <2>9, <2>10
<1>4. T = 0 .. m
  <2>1. T \in SUBSET (0 .. m)
    OBVIOUS
  <2> HIDE DEF T
  <2> QED
    BY <1>0, <1>2, <1>3, <2>1, UptoInduction
<1> QED
  BY <1>4

(* Scopes are such a family, and so are members.                            *)
ParentsOf(items) == [n \in DOMAIN items |-> items[n].parent]

LEMMA TreeFamilies ==
  ASSUME NEW S \in Nat, NEW N \in Nat, NEW t, WellFormed(t, S, N)
  PROVE  /\ Family(ScopeIndexes(t), 0 .. S - 1, ParentsOf(t.scopes), NamesOf(t.scopes))
         /\ Family(MemberIndexes(t), 0 .. N - 1, ParentsOf(t.nodes), NamesOf(t.nodes))
<1>1. DOMAIN t.scopes = 0 .. S - 1 /\ DOMAIN t.nodes = 0 .. N - 1
  BY DEF WellFormed
<1>2. 0 .. S - 1 \subseteq Nat /\ 0 .. N - 1 \subseteq Nat
  OBVIOUS
<1>3. ASSUME NEW s \in 0 .. S - 1
      PROVE  Finds(ScopeIndexes(t)[s], NamesOf(t.scopes), {r \in 0 .. S - 1 : ParentsOf(t.scopes)[r] = s})
  <2>1. {r \in 0 .. S - 1 : ParentsOf(t.scopes)[r] = s} = Kids(t.scopes, s)
    BY <1>1 DEF ParentsOf, Kids
  <2>2. ScopeIndexes(t)[s] = t.scopes[s].scopeIndex
    BY <1>1 DEF ScopeIndexes
  <2>3. Finds(t.scopes[s].scopeIndex, NamesOf(t.scopes), Kids(t.scopes, s))
    BY DEF WellFormed, ScopeRight
  <2> QED
    BY <2>1, <2>2, <2>3
<1>4. ASSUME NEW n \in 0 .. N - 1
      PROVE  Finds(MemberIndexes(t)[n], NamesOf(t.nodes), {r \in 0 .. N - 1 : ParentsOf(t.nodes)[r] = n})
  <2>1. {r \in 0 .. N - 1 : ParentsOf(t.nodes)[r] = n} = Kids(t.nodes, n)
    BY <1>1 DEF ParentsOf, Kids
  <2>2. MemberIndexes(t)[n] = t.nodes[n].memberIndex
    BY <1>1 DEF MemberIndexes
  <2>3. Finds(t.nodes[n].memberIndex, NamesOf(t.nodes), Kids(t.nodes, n))
    BY DEF WellFormed, NodeRight
  <2> QED
    BY <2>1, <2>2, <2>3
<1> QED
  BY <1>2, <1>3, <1>4, TreeClosed DEF Family

----------------------------------------------------------------------------

(* What is defined along the parents of a node is defined.                  *)
Rising(up, M) == \A n \in 0 .. M - 1 : up[n] = NoId \/ up[n] \in 0 .. n - 1
Climbs(f, up, b, F, M) ==
  \A n \in 0 .. M - 1 : f[n] = IF up[n] = NoId THEN b[n] ELSE F[<<f[up[n]], n>>]

LEMMA ClimbExists ==
  ASSUME NEW M \in Nat, NEW up, Rising(up, M), NEW V, V # {},
         NEW b \in [0 .. M - 1 -> V], NEW F \in [V \X (0 .. M - 1) -> V]
  PROVE  \E f \in [0 .. M - 1 -> V] : Climbs(f, up, b, F, M)
<1> DEFINE T == 0 .. M - 1
           D == [n \in T |-> IF up[n] = NoId THEN {} ELSE {up[n]}]
           H == [p \in T \X [T -> V] |-> IF up[p[1]] = NoId THEN b[p[1]] ELSE F[<<p[2][up[p[1]]], p[1]>>]]
<1>1. IsFiniteSet(T)
  <2>1. 0 \in Int /\ M - 1 \in Int
    OBVIOUS
  <2> QED
    BY <2>1, FS_Interval
<1>2. \A n \in T : up[n] = NoId \/ (up[n] \in T /\ up[n] < n)
  <2>1. SUFFICES ASSUME NEW n \in T
                 PROVE  up[n] = NoId \/ (up[n] \in T /\ up[n] < n)
    OBVIOUS
  <2>2. up[n] = NoId \/ up[n] \in 0 .. n - 1
    BY DEF Rising
  <2>3. ASSUME NEW x \in 0 .. n - 1
        PROVE  x \in 0 .. M - 1 /\ x < n
    OBVIOUS
  <2> QED
    BY <2>2, <2>3, Zenon
<1>3. D \in [T -> SUBSET T]
  <2> HIDE DEF T
  <2> QED
    BY <1>2
<1>4. Grounded(T, D)
  <2>1. SUFFICES ASSUME NEW U \in SUBSET T, U # {}
                 PROVE  \E n \in U : D[n] \cap U = {}
    BY DEF Grounded
  <2>2. PICK n \in U : \A k \in U : n <= k
    <3> DEFINE W == {k + 1 : k \in U}
    <3>1. W \in SUBSET (1 .. M) /\ W # {}
      <4>1. \A k \in U : k + 1 \in 1 .. M
        OBVIOUS
      <4> QED
        BY <2>1, <4>1
    <3>2. PICK w \in W : \A y \in W : w <= y
      <4> HIDE DEF W
      <4> QED
        BY <3>1, FirstAndLast
    <3>3. PICK n \in U : w = n + 1
      BY <3>2
    <3>4. ASSUME NEW k \in U
          PROVE  n <= k
      <4>1. k + 1 \in W /\ k \in Nat /\ n \in Nat
        OBVIOUS
      <4>2. n + 1 <= k + 1
        BY <3>2, <3>3, <4>1
      <4> QED
        BY <4>1, <4>2
    <3> QED
      BY <3>4
  <2>3. n \in T /\ n \in Nat /\ D[n] = IF up[n] = NoId THEN {} ELSE {up[n]}
    OBVIOUS
  <2>4. \A k \in D[n] : k \notin U
    BY <1>2, <2>2, <2>3
  <2> QED
    BY <2>4
<1>5. \A n \in T : \A f \in [T -> V] :
        H[<<n, f>>] = IF up[n] = NoId THEN b[n] ELSE F[<<f[up[n]], n>>]
  OBVIOUS
<1>6. H \in [T \X [T -> V] -> V]
  <2>1. ASSUME NEW n \in T, NEW f \in [T -> V]
        PROVE  (IF up[n] = NoId THEN b[n] ELSE F[<<f[up[n]], n>>]) \in V
    <3> HIDE DEF T
    <3>1. CASE up[n] = NoId
      BY <3>1 DEF T
    <3>2. CASE up[n] # NoId
      <4>1. up[n] \in T /\ f[up[n]] \in V
        BY <1>2, <3>2
      <4>2. F[<<f[up[n]], n>>] \in V
        BY <4>1 DEF T
      <4> QED
        BY <3>2, <4>2
    <3> QED
      BY <3>1, <3>2
  <2> HIDE DEF T
  <2> QED
    BY <2>1
<1>7. ASSUME NEW n \in T, NEW f \in [T -> V], NEW g \in [T -> V], \A p \in D[n] : f[p] = g[p]
      PROVE  H[<<n, f>>] = H[<<n, g>>]
  <2>1. up[n] # NoId => f[up[n]] = g[up[n]]
    BY <1>7
  <2> HIDE DEF H, T
  <2>2. H[<<n, f>>] = IF up[n] = NoId THEN b[n] ELSE F[<<f[up[n]], n>>]
    BY <1>5
  <2>3. H[<<n, g>>] = IF up[n] = NoId THEN b[n] ELSE F[<<g[up[n]], n>>]
    BY <1>5
  <2> QED
    BY <2>1, <2>2, <2>3
<1> HIDE DEF T, D, H
<1>8. AsksParts(H, T, V, D)
  BY <1>6, <1>7 DEF AsksParts
<1>9. PICK f \in [T -> V] : Solution(f, T, H)
  BY <1>1, <1>3, <1>4, <1>8, RecursionExists
<1>10. \A n \in T : f[n] = IF up[n] = NoId THEN b[n] ELSE F[<<f[up[n]], n>>]
  BY <1>5, <1>9 DEF Solution
<1> QED
  BY <1>10 DEF Climbs, T

(* The parents of a tree.                                                   *)
LEMMA ParentsRise ==
  ASSUME NEW S \in Nat, NEW N \in Nat, NEW t, WellFormed(t, S, N)
  PROVE  /\ DOMAIN t.scopes = 0 .. S - 1 /\ DOMAIN t.nodes = 0 .. N - 1
         /\ \A s \in 0 .. S - 1 : /\ t.scopes[s].name \in NameSet
                                  /\ (t.scopes[s].parent = NoId <=> s = Root)
                                  /\ s # Root => t.scopes[s].parent \in 0 .. s - 1
         /\ \A n \in 0 .. N - 1 : /\ t.nodes[n].name \in NameSet /\ t.nodes[n].scope \in Ids
                                  /\ \/ /\ t.nodes[n].parent = NoId
                                        /\ t.nodes[n].scope \in 0 .. S - 1
                                     \/ /\ t.nodes[n].parent \in 0 .. n - 1
                                        /\ t.nodes[n].parent # NoId /\ t.nodes[n].scope = NoId
<1>1. /\ t.scopes \in [0 .. S - 1 -> ScopeRec] /\ t.nodes \in [0 .. N - 1 -> NodeRec]
  BY DEF WellFormed
<1>2. ASSUME NEW s \in 0 .. S - 1
      PROVE  /\ t.scopes[s].name \in NameSet /\ (t.scopes[s].parent = NoId <=> s = Root)
             /\ s # Root => t.scopes[s].parent \in 0 .. s - 1
  <2>1. t.scopes[s] \in ScopeRec
    BY <1>1
  <2>2. IF s = Root THEN t.scopes[s].parent = NoId ELSE t.scopes[s].parent \in 0 .. s - 1
    BY DEF WellFormed, ScopeRight
  <2>3. \A x \in 0 .. s - 1 : x \in Nat
    OBVIOUS
  <2>4. \A x \in 0 .. s - 1 : x # NoId
    BY <2>3, Constants, Zenon
  <2> QED
    BY <2>1, <2>2, <2>4 DEF ScopeRec
<1>3. ASSUME NEW n \in 0 .. N - 1
      PROVE  /\ t.nodes[n].name \in NameSet /\ t.nodes[n].scope \in Ids
             /\ \/ t.nodes[n].parent = NoId /\ t.nodes[n].scope \in 0 .. S - 1
                \/ t.nodes[n].parent \in 0 .. n - 1 /\ t.nodes[n].parent # NoId /\ t.nodes[n].scope = NoId
  <2>1. t.nodes[n] \in NodeRec
    BY <1>1
  <2>2. \/ t.nodes[n].parent = NoId /\ t.nodes[n].scope \in DOMAIN t.scopes
        \/ t.nodes[n].parent \in 0 .. n - 1 /\ t.nodes[n].scope = NoId
    BY DEF WellFormed, NodeRight
  <2>3. \A x \in 0 .. n - 1 : x \in Nat
    OBVIOUS
  <2>4. \A x \in 0 .. n - 1 : x # NoId
    BY <2>3, Constants, Zenon
  <2>5. DOMAIN t.scopes = 0 .. S - 1
    BY <1>1
  <2> QED
    BY <2>1, <2>2, <2>4, <2>5 DEF NodeRec
<1> QED
  BY <1>1, <1>2, <1>3

(* The names up to a node, its scope, the names up to a scope and all above *)
(* a node or a scope, one step at a time.                                   *)
LEMMA LocalNamesStep ==
  ASSUME NEW S \in Nat, NEW N \in Nat, NEW t, WellFormed(t, S, N), NEW n \in 0 .. N - 1
  PROVE  LocalNames(t, n) = IF t.nodes[n].parent = NoId THEN <<t.nodes[n].name>>
                            ELSE Append(LocalNames(t, t.nodes[n].parent), t.nodes[n].name)
<1> DEFINE X == 0 .. N - 1
           V == Seq(NameSet)
           up == [x \in X |-> t.nodes[x].parent]
           b == [x \in X |-> <<t.nodes[x].name>>]
           F == [p \in V \X X |-> Append(p[1], t.nodes[p[2]].name)]
           Right(f) == f = [x \in DOMAIN t.nodes |->
                              IF t.nodes[x].parent = NoId THEN <<t.nodes[x].name>>
                              ELSE Append(f[t.nodes[x].parent], t.nodes[x].name)]
<1>1. DOMAIN t.nodes = X /\ \A x \in X : t.nodes[x].name \in NameSet
  BY ParentsRise
<1>2. \A x \in X : up[x] = NoId \/ up[x] \in 0 .. x - 1
  BY ParentsRise
<1>3. b \in [X -> V] /\ F \in [V \X X -> V] /\ V # {}
  <2>1. \A x \in X : <<t.nodes[x].name>> \in Seq(NameSet)
    BY <1>1
  <2>2. \A q \in Seq(NameSet), x \in X : Append(q, t.nodes[x].name) \in Seq(NameSet)
    BY <1>1
  <2>3. <<>> \in Seq(NameSet)
    OBVIOUS
  <2> QED
    BY <2>1, <2>2, <2>3
<1>4. PICK f \in [X -> V] : \A x \in X : f[x] = IF up[x] = NoId THEN b[x] ELSE F[<<f[up[x]], x>>]
  <2> HIDE DEF b, F, up, V
  <2>1. Rising(up, N)
    BY <1>2 DEF Rising
  <2>2. PICK f \in [X -> V] : Climbs(f, up, b, F, N)
    BY <1>3, <2>1, ClimbExists
  <2> QED
    BY <2>2 DEF Climbs
<1>5. Right(f)
  <2>1. ASSUME NEW x \in X
        PROVE  f[x] = IF t.nodes[x].parent = NoId THEN <<t.nodes[x].name>>
                      ELSE Append(f[t.nodes[x].parent], t.nodes[x].name)
    <3>1. up[x] = t.nodes[x].parent /\ b[x] = <<t.nodes[x].name>>
      OBVIOUS
    <3>2. CASE up[x] # NoId
      <4>1. up[x] \in X
        BY <1>2, <3>2
      <4>2. f[up[x]] \in V
        BY <4>1
      <4>3. F[<<f[up[x]], x>>] = Append(f[up[x]], t.nodes[x].name)
        BY <4>2
      <4> HIDE DEF F, V, up, b
      <4> QED
        BY <1>4, <3>1, <3>2, <4>3
    <3>3. CASE up[x] = NoId
      <4> HIDE DEF F, V, up, b
      <4> QED
        BY <1>4, <3>1, <3>3
    <3> QED
      BY <3>2, <3>3
  <2> HIDE DEF up, b, F, V, X
  <2>2. f = [x \in X |-> f[x]]
    OBVIOUS
  <2>3. f = [x \in X |-> IF t.nodes[x].parent = NoId THEN <<t.nodes[x].name>>
                         ELSE Append(f[t.nodes[x].parent], t.nodes[x].name)]
    BY <2>1, <2>2, Zenon
  <2> QED
    BY <1>1, <2>3
<1> DEFINE names == CHOOSE g : Right(g)
<1>6. Right(names)
  BY <1>5
<1>7. \A x : LocalNames(t, x) = names[x]
  BY DEF LocalNames
<1>8. names[n] = IF t.nodes[n].parent = NoId THEN <<t.nodes[n].name>>
                 ELSE Append(names[t.nodes[n].parent], t.nodes[n].name)
  <2> HIDE DEF names
  <2> QED
    BY <1>1, <1>6
<1> HIDE DEF names
<1> QED
  BY <1>7, <1>8

LEMMA TopScopeStep ==
  ASSUME NEW S \in Nat, NEW N \in Nat, NEW t, WellFormed(t, S, N), NEW n \in 0 .. N - 1
  PROVE  TopScope(t, n) = IF t.nodes[n].parent = NoId THEN t.nodes[n].scope ELSE TopScope(t, t.nodes[n].parent)
<1> DEFINE X == 0 .. N - 1
           V == Ids
           up == [x \in X |-> t.nodes[x].parent]
           b == [x \in X |-> t.nodes[x].scope]
           F == [p \in V \X X |-> p[1]]
           Right(f) == f = [x \in DOMAIN t.nodes |->
                              IF t.nodes[x].parent = NoId THEN t.nodes[x].scope ELSE f[t.nodes[x].parent]]
<1>1. DOMAIN t.nodes = X /\ \A x \in X : t.nodes[x].scope \in Ids
  BY ParentsRise
<1>2. \A x \in X : up[x] = NoId \/ up[x] \in 0 .. x - 1
  BY ParentsRise
<1>9. \A x \in X : up[x] = NoId <=> t.nodes[x].parent = NoId
  BY ParentsRise
<1>3. b \in [X -> V] /\ F \in [V \X X -> V] /\ V # {}
  <2>1. \A x \in X : t.nodes[x].scope \in Ids
    BY <1>1
  <2>2. \A q \in Ids, x \in X : q \in Ids
    BY <1>1
  <2>3. NoId \in Ids
    BY DEF Ids
  <2> QED
    BY <2>1, <2>2, <2>3
<1>4. PICK f \in [X -> V] : \A x \in X : f[x] = IF up[x] = NoId THEN b[x] ELSE F[<<f[up[x]], x>>]
  <2> HIDE DEF b, F, up, V
  <2>1. Rising(up, N)
    BY <1>2 DEF Rising
  <2>2. PICK f \in [X -> V] : Climbs(f, up, b, F, N)
    BY <1>3, <2>1, ClimbExists
  <2> QED
    BY <2>2 DEF Climbs
<1>5. Right(f)
  <2>1. ASSUME NEW x \in X
        PROVE  f[x] = IF t.nodes[x].parent = NoId THEN t.nodes[x].scope ELSE f[t.nodes[x].parent]
    <3>1. up[x] = t.nodes[x].parent /\ b[x] = t.nodes[x].scope
      OBVIOUS
    <3>2. CASE up[x] # NoId
      <4>1. up[x] \in X
        BY <1>2, <3>2
      <4>2. f[up[x]] \in V
        BY <4>1
      <4>3. F[<<f[up[x]], x>>] = f[up[x]]
        BY <4>2
      <4> HIDE DEF F, V, up, b
      <4> QED
        BY <1>4, <1>9, <3>1, <3>2, <4>3
    <3>3. CASE up[x] = NoId
      <4> HIDE DEF F, V, up, b
      <4> QED
        BY <1>4, <1>9, <3>1, <3>3
    <3> QED
      BY <3>2, <3>3
  <2> HIDE DEF up, b, F, V, X
  <2>2. f = [x \in X |-> f[x]]
    OBVIOUS
  <2>3. f = [x \in X |-> IF t.nodes[x].parent = NoId THEN t.nodes[x].scope ELSE f[t.nodes[x].parent]]
    BY <2>1, <2>2, Zenon
  <2> QED
    BY <1>1, <2>3
<1> DEFINE all == CHOOSE g : Right(g)
<1>6. Right(all)
  BY <1>5
<1>7. \A x : TopScope(t, x) = all[x]
  BY DEF TopScope
<1>8. all[n] = IF t.nodes[n].parent = NoId THEN t.nodes[n].scope ELSE all[t.nodes[n].parent]
  <2> HIDE DEF all
  <2> QED
    BY <1>1, <1>6
<1> HIDE DEF all
<1> QED
  BY <1>7, <1>8

LEMMA ScopeNamesStep ==
  ASSUME NEW S \in Nat, NEW N \in Nat, NEW t, WellFormed(t, S, N), NEW s \in 0 .. S - 1
  PROVE  ScopeNames(t, s) = IF s = Root THEN <<>> ELSE Append(ScopeNames(t, t.scopes[s].parent), t.scopes[s].name)
<1> DEFINE X == 0 .. S - 1
           V == Seq(NameSet)
           up == [x \in X |-> t.scopes[x].parent]
           b == [x \in X |-> <<>>]
           F == [p \in V \X X |-> Append(p[1], t.scopes[p[2]].name)]
           Right(f) == f = [x \in DOMAIN t.scopes |->
                              IF x = Root THEN <<>> ELSE Append(f[t.scopes[x].parent], t.scopes[x].name)]
<1>1. DOMAIN t.scopes = X /\ \A x \in X : t.scopes[x].name \in NameSet
  BY ParentsRise
<1>2. \A x \in X : up[x] = NoId \/ up[x] \in 0 .. x - 1
  BY ParentsRise
<1>9. \A x \in X : up[x] = NoId <=> x = Root
  BY ParentsRise
<1>3. b \in [X -> V] /\ F \in [V \X X -> V] /\ V # {}
  <2>1. \A x \in X : <<>> \in Seq(NameSet)
    BY <1>1
  <2>2. \A q \in Seq(NameSet), x \in X : Append(q, t.scopes[x].name) \in Seq(NameSet)
    BY <1>1
  <2>3. <<>> \in Seq(NameSet)
    OBVIOUS
  <2> QED
    BY <2>1, <2>2, <2>3
<1>4. PICK f \in [X -> V] : \A x \in X : f[x] = IF up[x] = NoId THEN b[x] ELSE F[<<f[up[x]], x>>]
  <2> HIDE DEF b, F, up, V
  <2>1. Rising(up, S)
    BY <1>2 DEF Rising
  <2>2. PICK f \in [X -> V] : Climbs(f, up, b, F, S)
    BY <1>3, <2>1, ClimbExists
  <2> QED
    BY <2>2 DEF Climbs
<1>5. Right(f)
  <2>1. ASSUME NEW x \in X
        PROVE  f[x] = IF x = Root THEN <<>> ELSE Append(f[t.scopes[x].parent], t.scopes[x].name)
    <3>1. up[x] = t.scopes[x].parent /\ b[x] = <<>>
      OBVIOUS
    <3>2. CASE up[x] # NoId
      <4>1. up[x] \in X
        BY <1>2, <3>2
      <4>2. f[up[x]] \in V
        BY <4>1
      <4>3. F[<<f[up[x]], x>>] = Append(f[up[x]], t.scopes[x].name)
        BY <4>2
      <4> HIDE DEF F, V, up, b
      <4> QED
        BY <1>4, <1>9, <3>1, <3>2, <4>3
    <3>3. CASE up[x] = NoId
      <4> HIDE DEF F, V, up, b
      <4> QED
        BY <1>4, <1>9, <3>1, <3>3
    <3> QED
      BY <3>2, <3>3
  <2> HIDE DEF up, b, F, V, X
  <2>2. f = [x \in X |-> f[x]]
    OBVIOUS
  <2>3. f = [x \in X |-> IF x = Root THEN <<>> ELSE Append(f[t.scopes[x].parent], t.scopes[x].name)]
    BY <2>1, <2>2, Zenon
  <2> QED
    BY <1>1, <2>3
<1> DEFINE all == CHOOSE g : Right(g)
<1>6. Right(all)
  BY <1>5
<1>7. \A x : ScopeNames(t, x) = all[x]
  BY DEF ScopeNames
<1>8. all[s] = IF s = Root THEN <<>> ELSE Append(all[t.scopes[s].parent], t.scopes[s].name)
  <2> HIDE DEF all
  <2> QED
    BY <1>1, <1>6
<1> HIDE DEF all
<1> QED
  BY <1>7, <1>8

Parented(items, M) ==
  /\ DOMAIN items = 0 .. M - 1
  /\ \A x \in 0 .. M - 1 : items[x].parent = NoId \/ items[x].parent \in 0 .. x - 1

LEMMA LineOfStep ==
  ASSUME NEW M \in Nat, NEW items, Parented(items, M), NEW n \in 0 .. M - 1
  PROVE  LineOf(items, n) = {n} \cup (IF items[n].parent = NoId THEN {} ELSE LineOf(items, items[n].parent))
<1> DEFINE X == 0 .. M - 1
           V == SUBSET Nat
           up == [x \in X |-> items[x].parent]
           b == [x \in X |-> {x}]
           F == [p \in V \X X |-> {p[2]} \cup p[1]]
           Right(f) == f = [x \in DOMAIN items |->
                              {x} \cup (IF items[x].parent = NoId THEN {} ELSE f[items[x].parent])]
<1>1. DOMAIN items = X /\ \A x \in X : x \in Nat
  BY DEF Parented
<1>2. \A x \in X : up[x] = NoId \/ up[x] \in 0 .. x - 1
  BY DEF Parented
<1>9. \A x \in X : up[x] = NoId <=> items[x].parent = NoId
  OBVIOUS
<1>3. b \in [X -> V] /\ F \in [V \X X -> V] /\ V # {}
  <2>1. \A x \in X : {x} \in SUBSET Nat
    BY <1>1
  <2>2. \A q \in SUBSET Nat, x \in X : {x} \cup q \in SUBSET Nat
    BY <1>1
  <2>3. {} \in SUBSET Nat
    OBVIOUS
  <2> QED
    BY <2>1, <2>2, <2>3
<1>4. PICK f \in [X -> V] : \A x \in X : f[x] = IF up[x] = NoId THEN b[x] ELSE F[<<f[up[x]], x>>]
  <2> HIDE DEF b, F, up, V
  <2>1. Rising(up, M)
    BY <1>2 DEF Rising
  <2>2. PICK f \in [X -> V] : Climbs(f, up, b, F, M)
    BY <1>3, <2>1, ClimbExists
  <2> QED
    BY <2>2 DEF Climbs
<1>5. Right(f)
  <2>1. ASSUME NEW x \in X
        PROVE  f[x] = {x} \cup (IF items[x].parent = NoId THEN {} ELSE f[items[x].parent])
    <3>1. up[x] = items[x].parent /\ b[x] = {x}
      OBVIOUS
    <3>2. CASE up[x] # NoId
      <4>1. up[x] \in X
        BY <1>2, <3>2
      <4>2. f[up[x]] \in V
        BY <4>1
      <4>3. F[<<f[up[x]], x>>] = {x} \cup f[up[x]]
        BY <4>2
      <4> HIDE DEF F, V, up, b
      <4> QED
        BY <1>4, <1>9, <3>1, <3>2, <4>3
    <3>3. CASE up[x] = NoId
      <4> HIDE DEF F, V, up, b
      <4> QED
        BY <1>4, <1>9, <3>1, <3>3
    <3> QED
      BY <3>2, <3>3
  <2> HIDE DEF up, b, F, V, X
  <2>2. f = [x \in X |-> f[x]]
    OBVIOUS
  <2>3. f = [x \in X |-> {x} \cup (IF items[x].parent = NoId THEN {} ELSE f[items[x].parent])]
    BY <2>1, <2>2, Zenon
  <2> QED
    BY <1>1, <2>3
<1> DEFINE all == CHOOSE g : Right(g)
<1>6. Right(all)
  BY <1>5
<1>7. \A x : LineOf(items, x) = all[x]
  BY DEF LineOf
<1>8. all[n] = {n} \cup (IF items[n].parent = NoId THEN {} ELSE all[items[n].parent])
  <2> HIDE DEF all
  <2> QED
    BY <1>1, <1>6
<1> HIDE DEF all
<1> QED
  BY <1>7, <1>8

(* A chain leads from a node without a parent down to any node.             *)
Chain(up, X, c, m) ==
  /\ m \in Nat /\ c \in [0 .. m -> X] /\ up[c[0]] = NoId
  /\ \A k \in 1 .. m : up[c[k]] = c[k - 1]

LEMMA ChainExists ==
  ASSUME NEW M \in Nat, NEW up, Rising(up, M), NEW n \in 0 .. M - 1
  PROVE  \E m \in Nat : \E c : Chain(up, 0 .. M - 1, c, m) /\ c[m] = n
<1> DEFINE X == 0 .. M - 1
           Reached(x) == \E m \in Nat : \E c : Chain(up, X, c, m) /\ c[m] = x
           T == {i \in 0 .. M : \A x \in 0 .. i - 1 : Reached(x)}
<1>1. 0 \in T
  OBVIOUS
<1>2. ASSUME NEW i \in T, i < M
      PROVE  i + 1 \in T
  <2>1. i \in X /\ i + 1 \in 0 .. M /\ \A x \in 0 .. i - 1 : Reached(x)
    BY <1>2
  <2>2. up[i] = NoId \/ up[i] \in 0 .. i - 1
    BY <2>1 DEF Rising
  <2> HIDE DEF X
  <2>3. ASSUME up[i] = NoId
        PROVE  Reached(i)
    <3> DEFINE c == [k \in 0 .. 0 |-> i]
    <3>1. c \in [0 .. 0 -> X] /\ c[0] = i
      BY <2>1
    <3> HIDE DEF c
    <3>2. Chain(up, X, c, 0)
      BY <2>3, <3>1 DEF Chain
    <3> QED
      BY <3>1, <3>2
  <2>4. ASSUME up[i] \in 0 .. i - 1
        PROVE  Reached(i)
    <3>0. PICK m \in Nat : \E d : Chain(up, X, d, m) /\ d[m] = up[i]
      BY <2>1, <2>4
    <3>1. PICK d : Chain(up, X, d, m) /\ d[m] = up[i]
      BY <3>0
    <3> DEFINE c == [k \in 0 .. m + 1 |-> IF k = m + 1 THEN i ELSE d[k]]
    <3>2. /\ \A k \in 0 .. m : c[k] = d[k] /\ d[k] \in X
          /\ c[m + 1] = i /\ c \in [0 .. m + 1 -> X]
      <4>1. \A k \in 0 .. m : d[k] \in X
        BY <3>1 DEF Chain
      <4>2. ASSUME NEW k \in 0 .. m
            PROVE  k \in 0 .. m + 1 /\ k # m + 1
        OBVIOUS
      <4>3. m + 1 \in 0 .. m + 1 /\ \A k \in 0 .. m + 1 : k = m + 1 \/ k \in 0 .. m
        OBVIOUS
      <4> QED
        BY <2>1, <4>1, <4>2, <4>3
    <3> HIDE DEF c
    <3>3. ASSUME NEW k \in 1 .. m + 1
          PROVE  up[c[k]] = c[k - 1]
      <4>1. CASE k = m + 1
        <5>1. k - 1 = m /\ m \in 0 .. m
          BY <4>1
        <5> QED
          BY <3>1, <3>2, <4>1, <5>1
      <4>2. CASE k # m + 1
        <5>1. k \in 1 .. m /\ k \in 0 .. m /\ k - 1 \in 0 .. m
          BY <4>2
        <5>2. up[d[k]] = d[k - 1]
          BY <3>1, <5>1 DEF Chain
        <5> QED
          BY <3>2, <5>1, <5>2
      <4> QED
        BY <4>1, <4>2
    <3>4. up[c[0]] = NoId
      <4>1. 0 \in 0 .. m
        OBVIOUS
      <4> QED
        BY <3>1, <3>2, <4>1 DEF Chain
    <3>5. Chain(up, X, c, m + 1) /\ m + 1 \in Nat
      BY <3>2, <3>3, <3>4 DEF Chain
    <3> QED
      BY <3>2, <3>5
  <2>5. Reached(i)
    BY <2>2, <2>3, <2>4
  <2>6. \A x \in 0 .. (i + 1) - 1 : x = i \/ x \in 0 .. i - 1
    OBVIOUS
  <2> HIDE DEF Reached
  <2> QED
    BY <2>1, <2>5, <2>6
<1>3. T = 0 .. M
  <2>1. T \in SUBSET (0 .. M)
    OBVIOUS
  <2> HIDE DEF T
  <2> QED
    BY <1>1, <1>2, <2>1, UptoInduction
<1>4. Reached(n)
  <2>1. M \in T
    <3> HIDE DEF T
    <3> QED
      BY <1>3
  <2> HIDE DEF Reached
  <2> QED
    BY <2>1
<1> QED
  BY <1>4

(* What is above the end of a chain, and the names on the way.              *)
Links(c, m) == {c[k] : k \in 0 .. m}

LEMMA LineOfChain ==
  ASSUME NEW M \in Nat, NEW items, Parented(items, M),
         NEW c, NEW m \in Nat, Chain(ParentsOf(items), 0 .. M - 1, c, m)
  PROVE  LineOf(items, c[m]) = Links(c, m)
<1>0. /\ DOMAIN items = 0 .. M - 1
      /\ \A x \in 0 .. M - 1 : items[x].parent = NoId \/ items[x].parent \in 0 .. x - 1
  BY DEF Parented
<1> DEFINE T == {i \in 0 .. m : LineOf(items, c[i]) = {c[k] : k \in 0 .. i}}
<1>1. /\ \A k \in 0 .. m : c[k] \in 0 .. M - 1 /\ ParentsOf(items)[c[k]] = items[c[k]].parent
      /\ items[c[0]].parent = NoId
      /\ \A k \in 1 .. m : items[c[k]].parent = c[k - 1] /\ items[c[k]].parent # NoId
  <2>1. \A k \in 0 .. m : c[k] \in 0 .. M - 1
    BY DEF Chain
  <2>2. \A k \in 0 .. m : ParentsOf(items)[c[k]] = items[c[k]].parent
    BY <1>0, <2>1 DEF ParentsOf
  <2>3. ASSUME NEW k \in 1 .. m
        PROVE  items[c[k]].parent = c[k - 1] /\ items[c[k]].parent # NoId
    <3>1. k \in 0 .. m /\ k - 1 \in 0 .. m
      OBVIOUS
    <3>2. items[c[k]].parent = c[k - 1]
      BY <2>2, <3>1 DEF Chain
    <3>3. c[k - 1] \in Nat
      BY <2>1, <3>1
    <3>4. c[k - 1] # NoId
      BY <3>3, Constants, Zenon
    <3> QED
      BY <3>2, <3>4
  <2>4. 0 \in 0 .. m
    OBVIOUS
  <2> QED
    BY <2>1, <2>2, <2>3, <2>4 DEF Chain
<1>2. 0 \in T
  <2>1. 0 \in 0 .. m /\ 0 .. 0 = {0}
    OBVIOUS
  <2>2. LineOf(items, c[0]) = {c[0]}
    BY <1>1, <2>1, LineOfStep
  <2> QED
    BY <2>1, <2>2
<1>3. ASSUME NEW i \in T, i < m
      PROVE  i + 1 \in T
  <2>1. PICK j \in 1 .. m : j = i + 1 /\ j - 1 = i /\ j \in 0 .. m
    BY <1>3
  <2>2. LineOf(items, c[j]) = {c[j]} \cup LineOf(items, c[i])
    <3>1. c[j] \in 0 .. M - 1 /\ items[c[j]].parent = c[i] /\ items[c[j]].parent # NoId
      BY <1>1, <2>1
    <3> QED
      BY <3>1, LineOfStep
  <2>3. {c[k] : k \in 0 .. j} = {c[j]} \cup {c[k] : k \in 0 .. i}
    <3>1. 0 .. j = {j} \cup 0 .. i
      BY <2>1
    <3> QED
      BY <3>1
  <2>4. LineOf(items, c[j]) = {c[k] : k \in 0 .. j}
    BY <1>3, <2>2, <2>3
  <2> QED
    BY <2>1, <2>4
<1>4. T = 0 .. m
  <2>1. T \in SUBSET (0 .. m)
    OBVIOUS
  <2> HIDE DEF T
  <2> QED
    BY <1>2, <1>3, <2>1, UptoInduction
<1>5. m \in T
  <2> HIDE DEF T
  <2> QED
    BY <1>4
<1> QED
  BY <1>5 DEF Links

LEMMA AppendIs ==
  ASSUME NEW V, NEW a \in Seq(V), NEW x \in V, NEW m \in Nat, m = Len(a)
  PROVE  Append(a, x) = [k \in 1 .. m + 1 |-> IF k = m + 1 THEN x ELSE a[k]]
<1> DEFINE b == [k \in 1 .. m + 1 |-> IF k = m + 1 THEN x ELSE a[k]]
<1>1. /\ Append(a, x) \in Seq(V) /\ Len(Append(a, x)) = m + 1
      /\ \A k \in 1 .. m : Append(a, x)[k] = a[k]
      /\ Append(a, x)[m + 1] = x
  BY AppendProperties
<1>2. b \in Seq(V) /\ Len(b) = m + 1
  <2>1. \A k \in 1 .. m + 1 : k = m + 1 \/ a[k] \in V
    OBVIOUS
  <2>2. b \in [1 .. m + 1 -> V] /\ m + 1 \in Nat
    BY <2>1
  <2> HIDE DEF b
  <2> QED
    BY <2>2, FunctionIsSeq
<1>3. \A k \in 1 .. m + 1 : Append(a, x)[k] = b[k]
  BY <1>1
<1> HIDE DEF b
<1>4. Append(a, x) = b
  BY <1>1, <1>2, <1>3, SeqEqual
<1> QED
  BY <1>4 DEF b

ChainNames(t, c, m) == [k \in 1 .. m + 1 |-> t.nodes[c[k - 1]].name]

LEMMA NodeChain ==
  ASSUME NEW S \in Nat, NEW N \in Nat, NEW t, WellFormed(t, S, N),
         NEW c, NEW m \in Nat, Chain(ParentsOf(t.nodes), 0 .. N - 1, c, m)
  PROVE  /\ LocalNames(t, c[m]) = ChainNames(t, c, m)
         /\ TopScope(t, c[m]) = t.nodes[c[0]].scope
<1> DEFINE Names0(i) == [k \in 1 .. i + 1 |-> t.nodes[c[k - 1]].name]
           T == {i \in 0 .. m : LocalNames(t, c[i]) = Names0(i) /\ TopScope(t, c[i]) = t.nodes[c[0]].scope}
<1>1. /\ \A k \in 0 .. m : c[k] \in 0 .. N - 1 /\ t.nodes[c[k]].name \in NameSet
      /\ t.nodes[c[0]].parent = NoId
      /\ \A k \in 1 .. m : t.nodes[c[k]].parent = c[k - 1] /\ t.nodes[c[k]].parent # NoId
  <2>1. \A k \in 0 .. m : c[k] \in 0 .. N - 1
    BY DEF Chain
  <2>2. \A k \in 0 .. m : ParentsOf(t.nodes)[c[k]] = t.nodes[c[k]].parent /\ t.nodes[c[k]].name \in NameSet
    BY <2>1, ParentsRise DEF ParentsOf
  <2>3. ASSUME NEW k \in 1 .. m
        PROVE  t.nodes[c[k]].parent = c[k - 1] /\ t.nodes[c[k]].parent # NoId
    <3>1. k \in 0 .. m /\ k - 1 \in 0 .. m
      OBVIOUS
    <3>2. t.nodes[c[k]].parent = c[k - 1]
      BY <2>2, <3>1 DEF Chain
    <3>3. c[k - 1] \in Nat
      BY <2>1, <3>1
    <3>4. c[k - 1] # NoId
      BY <3>3, Constants, Zenon
    <3> QED
      BY <3>2, <3>4
  <2>4. 0 \in 0 .. m
    OBVIOUS
  <2> QED
    BY <2>1, <2>2, <2>3, <2>4 DEF Chain
<1>2. 0 \in T
  <2>1. 0 \in 0 .. m /\ c[0] \in 0 .. N - 1
    BY <1>1
  <2>2. LocalNames(t, c[0]) = <<t.nodes[c[0]].name>> /\ TopScope(t, c[0]) = t.nodes[c[0]].scope
    BY <1>1, <2>1, LocalNamesStep, TopScopeStep
  <2>3. Names0(0) = <<t.nodes[c[0]].name>>
    OBVIOUS
  <2> QED
    BY <2>1, <2>2, <2>3
<1>3. ASSUME NEW i \in T, i < m
      PROVE  i + 1 \in T
  <2>1. PICK j \in 1 .. m : j = i + 1 /\ j - 1 = i /\ j \in 0 .. m /\ i \in 0 .. m
    BY <1>3
  <2>2. c[j] \in 0 .. N - 1 /\ t.nodes[c[j]].parent = c[i] /\ t.nodes[c[j]].parent # NoId
    BY <1>1, <2>1
  <2>3. LocalNames(t, c[j]) = Append(Names0(i), t.nodes[c[j]].name)
    <3>1. LocalNames(t, c[i]) = Names0(i)
      BY <1>3
    <3> HIDE DEF Names0, T
    <3>2. PICK y \in 0 .. N - 1 : y = c[j]
      BY <2>2
    <3>3. LocalNames(t, y) = Append(LocalNames(t, t.nodes[y].parent), t.nodes[y].name)
      BY <2>2, <3>2, LocalNamesStep
    <3> QED
      BY <2>2, <3>1, <3>2, <3>3
  <2>4. TopScope(t, c[j]) = t.nodes[c[0]].scope
    <3>1. TopScope(t, c[j]) = TopScope(t, c[i])
      BY <2>2, TopScopeStep
    <3> HIDE DEF Names0
    <3> QED
      BY <1>3, <3>1
  <2>5. Append(Names0(i), t.nodes[c[j]].name) = Names0(j)
    <3>1. Names0(i) \in Seq(NameSet) /\ Len(Names0(i)) = i + 1
      <4>1. \A k \in 1 .. i + 1 : t.nodes[c[k - 1]].name \in NameSet
        BY <1>1, <2>1
      <4> QED
        BY <2>1, <4>1
    <3>2. PICK a \in Seq(NameSet) : a = Names0(i)
      BY <3>1
    <3>3. PICK x \in NameSet : x = t.nodes[c[j]].name
      BY <1>1, <2>1
    <3>4. /\ Len(a) = j /\ \A k \in 1 .. j : a[k] = t.nodes[c[k - 1]].name
      BY <2>1, <3>1, <3>2
    <3> HIDE DEF Names0
    <3>5. Append(a, x) = [k \in 1 .. j + 1 |-> IF k = j + 1 THEN x ELSE a[k]]
      BY <2>1, <3>4, AppendIs
    <3>6. ASSUME NEW k \in 1 .. j + 1
          PROVE  (IF k = j + 1 THEN x ELSE a[k]) = t.nodes[c[k - 1]].name
      <4>1. CASE k = j + 1
        <5>1. k - 1 = j
          BY <4>1
        <5> QED
          BY <3>3, <4>1, <5>1
      <4>2. CASE k # j + 1
        <5>1. k \in 1 .. j
          BY <4>2
        <5> QED
          BY <3>4, <4>2, <5>1
      <4> QED
        BY <4>1, <4>2
    <3>7. Append(a, x) = [k \in 1 .. j + 1 |-> t.nodes[c[k - 1]].name]
      BY <3>5, <3>6
    <3> QED
      BY <3>2, <3>3, <3>7 DEF Names0
  <2> HIDE DEF Names0
  <2> QED
    BY <2>1, <2>3, <2>4, <2>5
<1>4. T = 0 .. m
  <2>1. T \in SUBSET (0 .. m)
    OBVIOUS
  <2> HIDE DEF T
  <2> QED
    BY <1>2, <1>3, <2>1, UptoInduction
<1>5. m \in T
  <2> HIDE DEF T
  <2> QED
    BY <1>4
<1> QED
  BY <1>5 DEF ChainNames

ChainScopes(t, c, m) == [k \in 1 .. m |-> t.scopes[c[k]].name]

LEMMA ScopeChain ==
  ASSUME NEW S \in Nat, NEW N \in Nat, NEW t, WellFormed(t, S, N),
         NEW c, NEW m \in Nat, Chain(ParentsOf(t.scopes), 0 .. S - 1, c, m)
  PROVE  c[0] = Root /\ ScopeNames(t, c[m]) = ChainScopes(t, c, m)
<1> DEFINE Names0(i) == [k \in 1 .. i |-> t.scopes[c[k]].name]
           T == {i \in 0 .. m : ScopeNames(t, c[i]) = Names0(i)}
<1>1. /\ \A k \in 0 .. m : c[k] \in 0 .. S - 1 /\ t.scopes[c[k]].name \in NameSet
      /\ c[0] = Root
      /\ \A k \in 1 .. m : t.scopes[c[k]].parent = c[k - 1] /\ c[k] # Root
  <2>1. \A k \in 0 .. m : c[k] \in 0 .. S - 1
    BY DEF Chain
  <2>2. ASSUME NEW k \in 0 .. m
        PROVE  /\ ParentsOf(t.scopes)[c[k]] = t.scopes[c[k]].parent
               /\ t.scopes[c[k]].name \in NameSet
               /\ t.scopes[c[k]].parent = NoId <=> c[k] = Root
    <3>1. PICK s \in 0 .. S - 1 : s = c[k]
      BY <2>1
    <3>2. /\ DOMAIN t.scopes = 0 .. S - 1 /\ t.scopes[s].name \in NameSet
          /\ t.scopes[s].parent = NoId <=> s = Root
      BY ParentsRise
    <3> QED
      BY <3>1, <3>2 DEF ParentsOf
  <2>3. ASSUME NEW k \in 1 .. m
        PROVE  t.scopes[c[k]].parent = c[k - 1] /\ c[k] # Root
    <3>1. k \in 0 .. m /\ k - 1 \in 0 .. m
      OBVIOUS
    <3>2. ParentsOf(t.scopes)[c[k]] = c[k - 1]
      BY DEF Chain
    <3>3. c[k - 1] \in Nat
      BY <2>1, <3>1
    <3>4. c[k - 1] # NoId
      BY <3>3, Constants, Zenon
    <3> QED
      BY <2>2, <3>1, <3>2, <3>4
  <2>4. 0 \in 0 .. m /\ ParentsOf(t.scopes)[c[0]] = NoId
    BY DEF Chain
  <2> QED
    BY <2>1, <2>2, <2>3, <2>4
<1>2. 0 \in T
  <2>1. 0 \in 0 .. m /\ c[0] \in 0 .. S - 1
    BY <1>1
  <2>2. ScopeNames(t, c[0]) = <<>>
    BY <1>1, <2>1, ScopeNamesStep
  <2>3. Names0(0) = <<>>
    OBVIOUS
  <2> QED
    BY <2>1, <2>2, <2>3
<1>3. ASSUME NEW i \in T, i < m
      PROVE  i + 1 \in T
  <2>1. PICK j \in 1 .. m : j = i + 1 /\ j - 1 = i /\ j \in 0 .. m /\ i \in 0 .. m
    BY <1>3
  <2>2. c[j] \in 0 .. S - 1 /\ t.scopes[c[j]].parent = c[i] /\ c[j] # Root
    BY <1>1, <2>1
  <2>3. ScopeNames(t, c[j]) = Append(Names0(i), t.scopes[c[j]].name)
    <3>1. ScopeNames(t, c[j]) = Append(ScopeNames(t, c[i]), t.scopes[c[j]].name)
      BY <2>2, ScopeNamesStep
    <3> HIDE DEF Names0
    <3> QED
      BY <1>3, <3>1
  <2>4. Append(Names0(i), t.scopes[c[j]].name) = Names0(j)
    <3>1. Names0(i) \in Seq(NameSet) /\ Len(Names0(i)) = i
      <4>1. \A k \in 1 .. i : t.scopes[c[k]].name \in NameSet
        BY <1>1, <2>1
      <4> QED
        BY <2>1, <4>1
    <3>2. PICK a \in Seq(NameSet) : a = Names0(i)
      BY <3>1
    <3>3. PICK x \in NameSet : x = t.scopes[c[j]].name
      BY <1>1, <2>1
    <3>4. /\ Len(a) = i /\ \A k \in 1 .. i : a[k] = t.scopes[c[k]].name
      BY <2>1, <3>1, <3>2
    <3> HIDE DEF Names0
    <3>5. Append(a, x) = [k \in 1 .. j |-> IF k = j THEN x ELSE a[k]]
      BY <2>1, <3>4, AppendIs
    <3>6. ASSUME NEW k \in 1 .. j
          PROVE  (IF k = j THEN x ELSE a[k]) = t.scopes[c[k]].name
      <4>1. k # j => k \in 1 .. i
        BY <2>1
      <4> QED
        BY <3>3, <3>4, <4>1
    <3>7. Append(a, x) = [k \in 1 .. j |-> t.scopes[c[k]].name]
      BY <3>5, <3>6
    <3> QED
      BY <3>2, <3>3, <3>7 DEF Names0
  <2> HIDE DEF Names0
  <2> QED
    BY <2>1, <2>3, <2>4
<1>4. T = 0 .. m
  <2>1. T \in SUBSET (0 .. m)
    OBVIOUS
  <2> HIDE DEF T
  <2> QED
    BY <1>2, <1>3, <2>1, UptoInduction
<1>5. m \in T
  <2> HIDE DEF T
  <2> QED
    BY <1>4
<1> QED
  BY <1>1, <1>5 DEF ChainScopes

(* The keys a path goes down by, each a name of its own.                    *)
KeyNames == {Plain(base) : base \in Bases \ {NoBase}} \cup {Element(index) : index \in Int}
ElementsOf(segment) == [k \in DOMAIN segment.keys |-> Element(segment.keys[k])]

LEMMA NameIs ==
  ASSUME NEW name \in NameSet
  PROVE  /\ name = Name(name.base, name.keys) /\ name.base \in Bases /\ name.keys \in Seq(Int)
         /\ name.base # NoBase => Plain(name.base) \in KeyNames
BY DEF NameSet, Name, KeyNames

LEMMA ElementIsKey ==
  ASSUME NEW index \in Int
  PROVE  Element(index) \in KeyNames /\ <<Element(index)>> \in Seq(KeyNames)
<1>1. Element(index) \in KeyNames
  BY DEF KeyNames
<1>2. PICK key \in KeyNames : key = Element(index)
  BY <1>1
<1>3. <<key>> \in Seq(KeyNames)
  OBVIOUS
<1> QED
  BY <1>2, <1>3

LEMMA ElementsType ==
  ASSUME NEW name \in NameSet
  PROVE  ElementsOf(name) \in Seq(KeyNames) /\ Len(ElementsOf(name)) = Len(name.keys)
<1>1. PICK keys \in Seq(Int) : keys = name.keys
  BY NameIs
<1>2. PICK m \in Nat : m = Len(keys) /\ DOMAIN keys = 1 .. m /\ \A k \in 1 .. m : keys[k] \in Int
  BY LenProperties, ElementOfSeq
<1>3. ElementsOf(name) = [k \in 1 .. m |-> Element(keys[k])]
  BY <1>1, <1>2 DEF ElementsOf
<1>4. \A k \in 1 .. m : Element(keys[k]) \in KeyNames
  BY <1>2, ElementIsKey
<1>5. ElementsOf(name) \in [1 .. m -> KeyNames]
  BY <1>3, <1>4
<1> QED
  BY <1>1, <1>2, <1>5, FunctionIsSeq

LEMMA NoElements ==
  ASSUME NEW name \in NameSet, name.keys = <<>>
  PROVE  ElementsOf(name) = <<>>
<1>1. Len(ElementsOf(name)) = 0 /\ ElementsOf(name) \in Seq(KeyNames)
  BY ElementsType
<1> QED
  BY <1>1, EmptySeq

HeadOf(name) == IF name.base = NoBase THEN <<>> ELSE <<Plain(name.base)>>

LEMMA KeysType ==
  ASSUME NEW name \in NameSet
  PROVE  /\ Keys(name) = HeadOf(name) \o ElementsOf(name)
         /\ Keys(name) \in Seq(KeyNames) /\ HeadOf(name) \in Seq(KeyNames)
<1>1. ElementsOf(name) \in Seq(KeyNames)
  BY ElementsType
<1>2. HeadOf(name) \in Seq(KeyNames)
  <2>1. CASE name.base = NoBase
    BY <2>1, EmptySeq DEF HeadOf
  <2>2. CASE name.base # NoBase
    <3>1. PICK key \in KeyNames : key = Plain(name.base)
      BY <2>2, NameIs
    <3>2. HeadOf(name) = <<key>>
      BY <2>2, <3>1 DEF HeadOf
    <3> QED
      BY <3>2
  <2> QED
    BY <2>1, <2>2
<1>3. Keys(name) = HeadOf(name) \o ElementsOf(name)
  BY DEF Keys, HeadOf, ElementsOf
<1>4. HeadOf(name) \o ElementsOf(name) \in Seq(KeyNames)
  BY <1>1, <1>2, ConcatProperties
<1> QED
  BY <1>2, <1>3, <1>4

LEMMA KeyIsItsKeys ==
  ASSUME NEW key \in KeyNames
  PROVE  key \in NameSet /\ Keys(key) = <<key>>
<1>1. ASSUME NEW base \in Bases \ {NoBase}, key = Plain(base)
      PROVE  key \in NameSet /\ Keys(key) = <<key>>
  <2>1. key \in NameSet /\ key.base = base /\ key.keys = <<>>
    <3>1. <<>> \in Seq(Int)
      BY EmptySeq
    <3> QED
      BY <1>1, <3>1 DEF Plain, Name, NameSet
  <2>2. ElementsOf(key) = <<>>
    BY <2>1, NoElements
  <2>3. HeadOf(key) = <<key>>
    BY <1>1, <2>1 DEF HeadOf
  <2>4. Keys(key) = HeadOf(key) \o <<>> /\ HeadOf(key) \in Seq(KeyNames)
    BY <2>1, <2>2, KeysType
  <2>5. Keys(key) = <<key>>
    BY <2>3, <2>4, ConcatEmptySeq
  <2> QED
    BY <2>1, <2>5
<1>2. ASSUME NEW index \in Int, key = Element(index)
      PROVE  key \in NameSet /\ Keys(key) = <<key>>
  <2>1. key \in NameSet /\ key.base = NoBase /\ key.keys = <<index>>
    <3>1. <<index>> \in Seq(Int)
      OBVIOUS
    <3> QED
      BY <1>2, <3>1, Constants DEF Element, Name, NameSet
  <2>2. ElementsOf(key) \in Seq(KeyNames) /\ Len(ElementsOf(key)) = 1
    <3>1. Len(<<index>>) = 1
      OBVIOUS
    <3> QED
      BY <2>1, <3>1, ElementsType
  <2>3. ElementsOf(key)[1] = key
    <3>1. 1 \in DOMAIN <<index>> /\ <<index>>[1] = index
      OBVIOUS
    <3> QED
      BY <1>2, <2>1, <3>1 DEF ElementsOf
  <2>4. ElementsOf(key) = <<key>>
    BY <2>2, <2>3
  <2>5. HeadOf(key) = <<>>
    BY <2>1 DEF HeadOf
  <2>6. Keys(key) = <<>> \o ElementsOf(key)
    BY <2>1, <2>5, KeysType
  <2>7. Keys(key) = <<key>>
    BY <2>2, <2>4, <2>6, ConcatEmptySeq
  <2> QED
    BY <2>1, <2>7
<1> QED
  BY <1>1, <1>2 DEF KeyNames

(* A name with one more element has one more key.                           *)
LEMMA KeysGrow ==
  ASSUME NEW name \in NameSet, NEW index \in Int
  PROVE  /\ Name(name.base, name.keys \o <<index>>) \in NameSet
         /\ Keys(Name(name.base, name.keys \o <<index>>)) = Keys(name) \o <<Element(index)>>
<1> DEFINE more == Name(name.base, name.keys \o <<index>>)
<1>1. PICK keys \in Seq(Int) : keys = name.keys
  BY NameIs
<1>2. PICK m \in Nat : m = Len(keys)
  OBVIOUS
<1>3. PICK longer \in Seq(Int) : longer = Append(keys, index) /\ longer = keys \o <<index>>
  BY AppendProperties, AppendIsConcat
<1>4. Len(longer) = m + 1 /\ longer[m + 1] = index /\ \A k \in 1 .. m : longer[k] = keys[k]
  BY <1>2, <1>3, AppendProperties
<1>5. more \in NameSet /\ more.base = name.base /\ more.keys = longer
  BY <1>1, <1>3, NameIs DEF NameSet, Name
<1> HIDE DEF more
<1>6. Element(index) \in KeyNames /\ <<Element(index)>> \in Seq(KeyNames)
  BY ElementIsKey
<1>7. PICK a \in Seq(KeyNames), b \in Seq(KeyNames) :
        a = ElementsOf(name) /\ b = ElementsOf(more) /\ Len(a) = m /\ Len(b) = m + 1
  BY <1>1, <1>2, <1>4, <1>5, ElementsType
<1>8. /\ \A k \in 1 .. m : a[k] = Element(keys[k])
      /\ \A k \in 1 .. m + 1 : b[k] = Element(longer[k])
  BY <1>1, <1>2, <1>4, <1>5, <1>7 DEF ElementsOf
<1>9. b = a \o <<Element(index)>>
  <2>0. PICK key \in KeyNames : key = Element(index)
    BY <1>6
  <2>1. PICK c \in Seq(KeyNames) : c = Append(a, key) /\ c = a \o <<key>>
    BY AppendProperties, AppendIsConcat
  <2>2. c = [k \in 1 .. m + 1 |-> IF k = m + 1 THEN key ELSE a[k]]
    BY <1>7, <2>1, AppendIs
  <2>3. \A k \in 1 .. m + 1 : b[k] = c[k]
    BY <1>4, <1>8, <2>0, <2>2
  <2>4. b = c
    BY <1>7, <2>1, <2>2, <2>3, LenProperties
  <2> QED
    BY <2>0, <2>1, <2>4
<1>10. PICK h \in Seq(KeyNames) : h = HeadOf(name) /\ h = HeadOf(more)
  BY <1>5, KeysType DEF HeadOf
<1>11. Keys(name) = h \o a /\ Keys(more) = h \o b
  BY <1>5, <1>7, <1>10, KeysType
<1>12. PICK one \in Seq(KeyNames) : one = <<Element(index)>>
  BY <1>6
<1>13. Keys(more) = Keys(name) \o one
  BY <1>9, <1>11, <1>12, ConcatAssociative
<1> QED
  BY <1>5, <1>12, <1>13 DEF more

(* The keys of a path are those of its segments, one after another.         *)
LEMMA PathPieces ==
  ASSUME NEW path \in Seq(NameSet), NEW m \in Nat, m = Len(path)
  PROVE  /\ DOMAIN path = 1 .. m /\ \A k \in 1 .. m : path[k] \in NameSet
         /\ [k \in DOMAIN path |-> Keys(path[k])] \in [1 .. m -> Seq(KeyNames)]
<1>1. DOMAIN path = 1 .. m /\ \A k \in 1 .. m : path[k] \in NameSet
  BY LenProperties, ElementOfSeq
<1>2. \A k \in 1 .. m : Keys(path[k]) \in Seq(KeyNames)
  BY <1>1, KeysType
<1> QED
  BY <1>1, <1>2

LEMMA KeysOfType ==
  ASSUME NEW path \in Seq(NameSet)
  PROVE  KeysOf(path) \in Seq(KeyNames)
<1>1. PICK m \in Nat : m = Len(path)
  BY LenProperties
<1> DEFINE pieces == [k \in DOMAIN path |-> Keys(path[k])]
<1>2. pieces \in [1 .. m -> Seq(KeyNames)]
  BY <1>1, PathPieces
<1>3. KeysOf(path) = FlattenSeq(pieces)
  BY DEF KeysOf
<1> HIDE DEF pieces
<1>4. PICK g \in [0 .. m -> Seq(KeyNames)] :
        /\ g[0] = <<>>
        /\ \A i \in 1 .. m : g[i] = g[i - 1] \o pieces[i]
        /\ FlattenSeq(pieces) = g[m]
  BY <1>2, FlattenSteps
<1>5. g[m] \in Seq(KeyNames)
  OBVIOUS
<1> QED
  BY <1>3, <1>4, <1>5

LEMMA KeysOfNone ==
  ASSUME NEW path \in Seq(NameSet), Len(path) = 0
  PROVE  KeysOf(path) = <<>>
<1>0. PICK m \in Nat : m = 0
  OBVIOUS
<1> DEFINE pieces == [k \in DOMAIN path |-> Keys(path[k])]
<1>1. pieces \in [1 .. m -> Seq(KeyNames)]
  BY <1>0, PathPieces
<1>2. KeysOf(path) = FlattenSeq(pieces)
  BY DEF KeysOf
<1> HIDE DEF pieces
<1>3. pieces \in Seq(Seq(KeyNames)) /\ Len(pieces) = 0
  BY <1>0, <1>1, FunctionIsSeq
<1>4. pieces = <<>>
  BY <1>3, EmptySeq
<1>5. FlattenSeq(pieces) = pieces
  BY <1>3 DEF FlattenSeq
<1> QED
  BY <1>2, <1>4, <1>5

LEMMA Before ==
  ASSUME NEW m \in Nat, m # 0
  PROVE  \E l \in Nat : l = m - 1 /\ l + 1 = m
OBVIOUS

LEMMA KeysOfMore ==
  ASSUME NEW path \in Seq(NameSet), NEW m \in Nat, m = Len(path),
         NEW longer \in Seq(NameSet), Len(longer) = m + 1, \A k \in 1 .. m : longer[k] = path[k]
  PROVE  KeysOf(longer) = KeysOf(path) \o Keys(longer[m + 1])
<1> DEFINE pieces == [k \in DOMAIN path |-> Keys(path[k])]
           more == [k \in DOMAIN longer |-> Keys(longer[k])]
<1>1. PICK n \in Nat : n = m + 1
  OBVIOUS
<1>2. pieces \in [1 .. m -> Seq(KeyNames)] /\ more \in [1 .. n -> Seq(KeyNames)]
  BY <1>1, PathPieces
<1>3. DOMAIN path = 1 .. m /\ DOMAIN longer = 1 .. n
  BY <1>1, PathPieces
<1>4. \A k \in 1 .. m : more[k] = pieces[k]
  BY <1>1, <1>3
<1>5. more[n] = Keys(longer[n])
  BY <1>1, <1>3
<1>6. KeysOf(path) = FlattenSeq(pieces) /\ KeysOf(longer) = FlattenSeq(more)
  BY DEF KeysOf
<1> HIDE DEF pieces, more
<1>7. FlattenSeq(more) = FlattenSeq(pieces) \o more[m + 1]
  <2>1. PICK p, q : p = pieces /\ q = more
    OBVIOUS
  <2>2. p \in [1 .. m -> Seq(KeyNames)] /\ q \in [1 .. m + 1 -> Seq(KeyNames)]
    BY <1>1, <1>2, <2>1
  <2>3. \A k \in 1 .. m : q[k] = p[k]
    BY <1>4, <2>1
  <2>4. FlattenSeq(q) = FlattenSeq(p) \o q[m + 1]
    BY <2>2, <2>3, FlattenOneMore, Zenon
  <2> QED
    BY <2>1, <2>4
<1> QED
  BY <1>1, <1>5, <1>6, <1>7

LEMMA Prefix ==
  ASSUME NEW V, NEW path \in Seq(V), NEW k \in 0 .. Len(path)
  PROVE  /\ SubSeq(path, 1, k) \in Seq(V) /\ Len(SubSeq(path, 1, k)) = k
         /\ \A i \in 1 .. k : SubSeq(path, 1, k)[i] = path[i]
<1>1. PICK m \in Nat : m = Len(path) /\ \A i \in 1 .. m : path[i] \in V
  BY LenProperties, ElementOfSeq
<1>2. k \in Int /\ \A i \in 1 .. k : path[i] \in V
  BY <1>1
<1>3. /\ SubSeq(path, 1, k) \in Seq(V)
      /\ Len(SubSeq(path, 1, k)) = IF 1 <= k THEN k - 1 + 1 ELSE 0
      /\ \A i \in 1 .. k - 1 + 1 : SubSeq(path, 1, k)[i] = path[1 + i - 1]
  BY <1>2, SubSeqProperties
<1>4. \A i \in 1 .. k : i \in 1 .. k - 1 + 1 /\ 1 + i - 1 = i
  OBVIOUS
<1> QED
  BY <1>1, <1>3, <1>4

(* A path whose last segment has more elements has as many more keys.       *)
Lengthened(longer, path, m, c) ==
  (\A k \in 1 .. m - 1 : longer[k] = path[k]) /\ Keys(longer[m]) = Keys(path[m]) \o c

LEMMA KeysOfLonger ==
  ASSUME NEW path \in Seq(NameSet), NEW m \in Nat, m = Len(path), m # 0,
         NEW longer \in Seq(NameSet), Len(longer) = m,
         NEW c \in Seq(KeyNames), Lengthened(longer, path, m, c)
  PROVE  KeysOf(longer) = KeysOf(path) \o c
<1>1. PICK l \in Nat : l = m - 1 /\ l + 1 = m
  BY Before
<1>2. PICK front \in Seq(NameSet) : Len(front) = l /\ \A k \in 1 .. l : front[k] = path[k]
  <2>1. l \in 0 .. Len(path)
    BY <1>1
  <2>2. PICK front : front = SubSeq(path, 1, l)
    OBVIOUS
  <2>3. front \in Seq(NameSet) /\ Len(front) = l /\ \A k \in 1 .. l : front[k] = path[k]
    BY <2>1, <2>2, Prefix
  <2> QED
    BY <2>3
<1>3. KeysOf(path) = KeysOf(front) \o Keys(path[m])
  BY <1>1, <1>2, KeysOfMore
<1>4. KeysOf(longer) = KeysOf(front) \o Keys(longer[m])
  <2>1. \A k \in 1 .. l : longer[k] = front[k]
    BY <1>1, <1>2 DEF Lengthened
  <2> QED
    BY <1>1, <1>2, <2>1, KeysOfMore
<1>5. PICK a \in Seq(KeyNames), b \in Seq(KeyNames) : a = KeysOf(front) /\ b = Keys(path[m])
  <2>1. path[m] \in NameSet
    BY <1>1, ElementOfSeq
  <2> QED
    BY <2>1, KeysOfType, KeysType
<1>6. (a \o b) \o c = a \o (b \o c)
  BY ConcatAssociative
<1>7. KeysOf(path) = a \o b /\ KeysOf(longer) = a \o (b \o c)
  BY <1>3, <1>4, <1>5 DEF Lengthened
<1> QED
  BY <1>6, <1>7

(* The keys of a path that starts with an element start with it.            *)
LEMMA KeysOfStart ==
  ASSUME NEW path \in Seq(NameSet), Len(path) # 0, IsElement(path[1])
  PROVE  Len(KeysOf(path)) # 0 /\ IsElement(KeysOf(path)[1])
<1>1. PICK m \in Nat : m = Len(path) /\ m # 0
  BY LenProperties
<1> DEFINE pieces == [k \in DOMAIN path |-> Keys(path[k])]
<1>2. /\ pieces \in [1 .. m -> Seq(KeyNames)] /\ DOMAIN path = 1 .. m /\ path[1] \in NameSet
      /\ pieces[1] = Keys(path[1])
  <2>1. /\ pieces \in [1 .. m -> Seq(KeyNames)] /\ DOMAIN path = 1 .. m
        /\ \A k \in 1 .. m : path[k] \in NameSet
    BY <1>1, PathPieces
  <2>2. 1 \in 1 .. m
    BY <1>1
  <2>3. pieces[1] = Keys(path[1])
    BY <2>1, <2>2
  <2> QED
    BY <2>1, <2>2, <2>3
<1>3. KeysOf(path) = FlattenSeq(pieces)
  BY DEF KeysOf
<1>4. PICK a \in Seq(KeyNames) : a = pieces[1] /\ Len(a) # 0 /\ IsElement(a[1])
  <2>1. PICK name \in NameSet : name = path[1]
    BY <1>2
  <2>2. PICK keys \in Seq(Int) : keys = name.keys /\ Len(keys) \in Nat /\ Len(keys) # 0
    <3>1. name.keys \in Seq(Int) /\ name.keys # <<>>
      BY <2>1, NameIs DEF IsElement
    <3> QED
      BY <3>1, EmptySeq
  <2>3. PICK e \in Seq(KeyNames) : e = ElementsOf(name) /\ Len(e) = Len(keys)
    BY <2>2, ElementsType
  <2>4. Keys(name) = <<>> \o e
    BY <2>1, <2>3, KeysType DEF HeadOf, IsElement
  <2>5. Keys(name) = e
    BY <2>4, ConcatEmptySeq
  <2>6. 1 \in DOMAIN keys /\ keys[1] \in Int
    BY <2>2
  <2>7. e[1] = Element(keys[1])
    BY <2>2, <2>3, <2>6 DEF ElementsOf
  <2>8. IsElement(e[1])
    <3>1. PICK x \in Int : x = keys[1] /\ e[1] = Element(x)
      BY <2>6, <2>7
    <3>2. IsElement(Element(x))
      <4>1. Element(x).base = NoBase /\ Element(x).keys = <<x>>
        BY DEF Element, Name
      <4>2. Len(<<x>>) = 1 /\ Len(<<>>) = 0
        OBVIOUS
      <4>3. <<x>> # <<>>
        BY <4>2
      <4> QED
        BY <4>1, <4>3 DEF IsElement
    <3> QED
      BY <3>1, <3>2
  <2> QED
    BY <1>2, <2>1, <2>2, <2>3, <2>5, <2>8
<1> HIDE DEF pieces
<1>5. PICK g \in [0 .. m -> Seq(KeyNames)] :
        /\ g[0] = <<>>
        /\ \A i \in 1 .. m : g[i] = g[i - 1] \o pieces[i]
        /\ FlattenSeq(pieces) = g[m]
  <2>1. PICK p \in [1 .. m -> Seq(KeyNames)] : p = pieces
    BY <1>2
  <2>2. \E g \in [0 .. m -> Seq(KeyNames)] :
          /\ g[0] = <<>>
          /\ \A i \in 1 .. m : g[i] = g[i - 1] \o p[i]
          /\ FlattenSeq(p) = g[m]
    BY FlattenSteps, Zenon
  <2> QED
    BY <2>1, <2>2
<1>6. PICK l \in Nat : l = m - 1 /\ l + 1 = m
  BY <1>1, Before
<1> DEFINE T == {i \in 0 .. l : Len(g[i + 1]) # 0 /\ g[i + 1][1] = a[1]}
<1>7. 0 \in T
  <2>1. 1 \in 1 .. m /\ 1 - 1 = 0 /\ 0 \in 0 .. l
    BY <1>1
  <2>2. g[1] = <<>> \o a
    BY <1>4, <1>5, <2>1
  <2>3. g[1] = a
    BY <2>2, ConcatEmptySeq
  <2> QED
    BY <1>4, <2>3
<1>8. ASSUME NEW i \in T, i < l
      PROVE  i + 1 \in T
  <2>1. PICK j \in 1 .. m : j = (i + 1) + 1 /\ j - 1 = i + 1 /\ j - 1 \in 0 .. m /\ j \in 0 .. m
    BY <1>6, <1>8
  <2>2. PICK b \in Seq(KeyNames), c \in Seq(KeyNames) : b = g[j - 1] /\ c = pieces[j]
    BY <1>2, <2>1
  <2>3. Len(b) # 0 /\ b[1] = a[1] /\ Len(b) \in Nat /\ Len(c) \in Nat
    BY <1>8, <2>1, <2>2
  <2>4. g[j] = b \o c
    BY <1>5, <2>2
  <2>5. Len(b \o c) # 0 /\ (b \o c)[1] = b[1]
    BY <2>3, ConcatProperties
  <2> QED
    BY <1>8, <2>1, <2>3, <2>4, <2>5
<1>9. T = 0 .. l
  <2>1. T \in SUBSET (0 .. l)
    OBVIOUS
  <2> HIDE DEF T
  <2> QED
    BY <1>7, <1>8, <2>1, UptoInduction
<1>10. l \in T
  <2> HIDE DEF T
  <2> QED
    BY <1>9
<1> QED
  BY <1>3, <1>4, <1>5, <1>6, <1>10

(* What gluing a part to a local path gives.                                *)
LocalPaths == {p \in Seq(NameSet) : Len(p) # 0 /\ (p = EmptyPath \/ p[1] # Empty)}

LEMMA EmptyIs ==
  /\ Empty \in NameSet /\ Empty.base = NoBase /\ Empty.keys = <<>> /\ ~IsElement(Empty)
  /\ EmptyPath \in Seq(NameSet) /\ Len(EmptyPath) = 1 /\ EmptyPath[1] = Empty
  /\ EmptyPath \in LocalPaths
<1>1. <<>> \in Seq(Int) /\ NoBase \in Bases
  BY EmptySeq, Constants
<1>2. Empty \in NameSet /\ Empty.base = NoBase /\ Empty.keys = <<>>
  BY <1>1 DEF Empty, Plain, Name, NameSet
<1>3. PICK e \in NameSet : e = Empty
  BY <1>2
<1>4. <<e>> \in Seq(NameSet) /\ Len(<<e>>) = 1 /\ <<e>>[1] = e
  OBVIOUS
<1>5. EmptyPath \in Seq(NameSet) /\ Len(EmptyPath) = 1 /\ EmptyPath[1] = Empty
  BY <1>3, <1>4 DEF EmptyPath
<1>6. EmptyPath \in LocalPaths
  BY <1>5 DEF LocalPaths
<1>7. ~IsElement(Empty)
  BY <1>2 DEF IsElement
<1> QED
  BY <1>2, <1>5, <1>6, <1>7

LEMMA OneName ==
  ASSUME NEW name \in NameSet
  PROVE  /\ <<name>> \in Seq(NameSet) /\ Len(<<name>>) = 1 /\ <<name>>[1] = name
         /\ <<name>> = EmptyPath <=> name = Empty
         /\ <<name>> \in LocalPaths
<1>1. <<name>> \in Seq(NameSet) /\ Len(<<name>>) = 1 /\ <<name>>[1] = name
  OBVIOUS
<1>2. <<name>> = EmptyPath <=> name = Empty
  BY <1>1, EmptyIs DEF EmptyPath
<1> QED
  BY <1>1, <1>2 DEF LocalPaths

LEMMA GluedSeparate ==
  ASSUME NEW p \in Seq(NameSet), NEW m \in Nat, m = Len(p), p # EmptyPath,
         NEW part \in NameSet, ~IsElement(part)
  PROVE  /\ Glued(p, part) \in Seq(NameSet) /\ Len(Glued(p, part)) = m + 1
         /\ Glued(p, part)[m + 1] = part /\ \A k \in 1 .. m : Glued(p, part)[k] = p[k]
<1>1. Glued(p, part) = Append(p, part)
  BY DEF Glued
<1>2. /\ Append(p, part) \in Seq(NameSet) /\ Len(Append(p, part)) = m + 1
      /\ Append(p, part)[m + 1] = part /\ \A k \in 1 .. m : Append(p, part)[k] = p[k]
  BY AppendProperties
<1> QED
  BY <1>1, <1>2

LEMMA GluedElement ==
  ASSUME NEW p \in Seq(NameSet), NEW m \in Nat, m = Len(p), m # 0, p # EmptyPath,
         NEW part \in NameSet, IsElement(part)
  PROVE  /\ Glued(p, part) \in Seq(NameSet) /\ Len(Glued(p, part)) = m
         /\ Glued(p, part)[m] = Name(p[m].base, p[m].keys \o part.keys)
         /\ Glued(p, part)[m] # Empty
         /\ \A k \in 1 .. m - 1 : Glued(p, part)[k] = p[k]
<1>1. PICK last \in NameSet : last = p[m] /\ m \in 1 .. m
  <2>1. m \in 1 .. m
    BY Before
  <2> QED
    BY <2>1, ElementOfSeq
<1>2. PICK keys \in Seq(Int) : keys = last.keys \o part.keys /\ keys # <<>>
  <2>1. last.keys \in Seq(Int) /\ part.keys \in Seq(Int) /\ part.keys # <<>>
    BY NameIs DEF IsElement
  <2>2. PICK a \in Seq(Int), b \in Seq(Int) : a = last.keys /\ b = part.keys /\ b # <<>>
    BY <2>1
  <2>3. a \o b \in Seq(Int) /\ a \o b # <<>>
    BY <2>2, ConcatProperties, ConcatEqualIffEmpty
  <2> QED
    BY <2>2, <2>3
<1>3. PICK e \in NameSet : e = Name(last.base, keys) /\ e # Empty /\ e = [last EXCEPT !.keys = @ \o part.keys]
  <2>1. Name(last.base, keys) \in NameSet /\ Name(last.base, keys).keys = keys
    BY NameIs DEF Name, NameSet
  <2>2. Name(last.base, keys) # Empty
    BY <1>2, <2>1, EmptyIs
  <2>3. Name(last.base, keys) = [last EXCEPT !.keys = @ \o part.keys]
    <3>1. last \in [base : Bases, keys : Seq(Int)]
      BY DEF NameSet
    <3>2. \A x : [last EXCEPT !.keys = x] = [base |-> last.base, keys |-> x]
      BY <3>1
    <3> QED
      BY <1>2, <3>2 DEF Name
  <2> QED
    BY <2>1, <2>2, <2>3
<1>4. Glued(p, part) = [p EXCEPT ![m] = e]
  BY <1>1, <1>3 DEF Glued
<1>5. /\ [p EXCEPT ![m] = e] \in Seq(NameSet) /\ Len([p EXCEPT ![m] = e]) = m
      /\ \A k \in 1 .. m : [p EXCEPT ![m] = e][k] = IF k = m THEN e ELSE p[k]
  BY <1>1, ExceptSeq
<1>6. \A k \in 1 .. m - 1 : k \in 1 .. m /\ k # m
  OBVIOUS
<1> QED
  BY <1>1, <1>2, <1>3, <1>4, <1>5, <1>6

LEMMA GluedType ==
  ASSUME NEW p \in LocalPaths, NEW part \in NameSet
  PROVE  Glued(p, part) \in LocalPaths
<1>1. PICK m \in Nat : m = Len(p) /\ m # 0 /\ p \in Seq(NameSet)
  BY LenProperties DEF LocalPaths
<1>2. CASE p = EmptyPath
  BY <1>2, OneName DEF Glued
<1>3. CASE p # EmptyPath /\ ~IsElement(part)
  <2>1. p[1] # Empty
    BY <1>3 DEF LocalPaths
  <2>2. PICK q \in Seq(NameSet) : q = Glued(p, part) /\ Len(q) = m + 1 /\ \A k \in 1 .. m : q[k] = p[k]
    BY <1>1, <1>3, GluedSeparate
  <2>3. 1 \in 1 .. m /\ m + 1 # 0
    BY <1>1
  <2>4. q \in LocalPaths
    BY <2>1, <2>2, <2>3 DEF LocalPaths
  <2> QED
    BY <2>2, <2>4
<1>4. CASE p # EmptyPath /\ IsElement(part)
  <2>1. p[1] # Empty
    BY <1>4 DEF LocalPaths
  <2>2. PICK q \in Seq(NameSet) :
          q = Glued(p, part) /\ Len(q) = m /\ q[m] # Empty /\ \A k \in 1 .. m - 1 : q[k] = p[k]
    BY <1>1, <1>4, GluedElement
  <2>3. m = 1 \/ 1 \in 1 .. m - 1
    BY <1>1
  <2>4. q \in LocalPaths
    BY <1>1, <2>1, <2>2, <2>3 DEF LocalPaths
  <2> QED
    BY <2>2, <2>4
<1> QED
  BY <1>2, <1>3, <1>4

(* localPath() glues the names one after another.                           *)
LEMMA LocalSteps ==
  ASSUME NEW t, NEW n, NEW names \in Seq(NameSet), names = LocalNames(t, n), NEW m \in Nat, m = Len(names)
  PROVE  \E g \in [0 .. m -> LocalPaths] :
           /\ g[0] = EmptyPath
           /\ \A k \in 1 .. m : g[k] = Glued(g[k - 1], names[k])
           /\ LocalPath(t, n) = g[m]
<1> DEFINE F == [p \in LocalPaths \X (1 .. m) |-> Glued(p[1], names[p[2]])]
           Folds(it) == it = [s \in SUBSET (1 .. m) |->
                                IF s = {} THEN EmptyPath ELSE Glued(it[s \ {Max(s)}], names[Max(s)])]
<1>0. PICK nothing \in LocalPaths : nothing = EmptyPath
  BY EmptyIs
<1>1. DOMAIN names = 1 .. m /\ \A k \in 1 .. m : names[k] \in NameSet
  BY LenProperties, ElementOfSeq
<1>2. F \in [LocalPaths \X (1 .. m) -> LocalPaths]
  BY <1>1, GluedType
<1>3. PICK it \in [SUBSET (1 .. m) -> LocalPaths] :
        \A T \in SUBSET (1 .. m) :
          it[T] = IF T = {} THEN EmptyPath ELSE F[<<it[T \ {Max(T)}], Max(T)>>]
  <2>1. PICK base : base = EmptyPath
    OBVIOUS
  <2>2. base \in LocalPaths
    BY <2>1, EmptyIs
  <2> HIDE DEF F
  <2>3. PICK it \in [SUBSET (1 .. m) -> LocalPaths] : IsFold(it, F, base, m)
    BY <1>2, <2>2, FoldExists
  <2> QED
    BY <2>1, <2>3 DEF IsFold
<1>4. ASSUME NEW T \in SUBSET (1 .. m), T # {}
      PROVE  it[T] = Glued(it[T \ {Max(T)}], names[Max(T)])
  <2>1. Max(T) \in 1 .. m /\ T \ {Max(T)} \in SUBSET (1 .. m)
    BY <1>4, LastPlace
  <2>2. it[T \ {Max(T)}] \in LocalPaths
    BY <2>1
  <2> QED
    BY <1>3, <1>4, <2>1, <2>2
<1>5. Folds(it)
  BY <1>3, <1>4
<1>6. PICK fold : Folds(fold) /\ LocalPath(t, n) = fold[1 .. m]
  <2> DEFINE fold == CHOOSE f : Folds(f)
  <2>1. Folds(fold)
    BY <1>5
  <2>2. LocalPath(t, n) = fold[1 .. m]
    BY <1>1 DEF LocalPath, FoldLeft, MapThenFoldSet
  <2> QED
    BY <2>1, <2>2
<1> DEFINE g == [k \in 0 .. m |-> fold[1 .. k]]
<1>7. g[0] = EmptyPath
  <2>1. 1 .. 0 = {} /\ {} \in SUBSET (1 .. m) /\ 0 \in 0 .. m
    OBVIOUS
  <2>2. fold[{}] = EmptyPath
    BY <1>6, <2>1
  <2> QED
    BY <2>1, <2>2
<1>8. ASSUME NEW k \in 1 .. m
      PROVE  g[k] = Glued(g[k - 1], names[k])
  <2>1. /\ 1 .. k \in SUBSET (1 .. m) /\ 1 .. k # {} /\ k \in 0 .. m /\ k - 1 \in 0 .. m
        /\ Max(1 .. k) = k /\ (1 .. k) \ {k} = 1 .. k - 1
    BY LastPlace
  <2>2. fold[1 .. k] = Glued(fold[1 .. k - 1], names[k])
    BY <1>6, <2>1
  <2> QED
    BY <2>1, <2>2
<1>9. ASSUME NEW k \in 0 .. m
       PROVE  g[k] \in LocalPaths
  <2> DEFINE T == {i \in 0 .. m : g[i] \in LocalPaths}
  <2>1. 0 \in T
    <3> HIDE DEF g
    <3> QED
      BY <1>0, <1>7
  <2>2. ASSUME NEW i \in T, i < m
        PROVE  i + 1 \in T
    <3>1. i + 1 \in 1 .. m /\ i + 1 \in 0 .. m /\ i + 1 - 1 = i /\ g[i] \in LocalPaths
      BY <2>2
    <3> HIDE DEF g
    <3>2. PICK j \in 1 .. m : j = i + 1 /\ j - 1 = i
      BY <3>1
    <3>3. g[j] = Glued(g[i], names[j])
      BY <1>8, <3>2
    <3>4. g[j] \in LocalPaths
      BY <1>1, <3>1, <3>3, GluedType
    <3> QED
      BY <3>1, <3>2, <3>4
  <2>3. T = 0 .. m
    <3>1. T \in SUBSET (0 .. m)
      OBVIOUS
    <3> HIDE DEF T
    <3> QED
      BY <2>1, <2>2, <3>1, UptoInduction
  <2> QED
    BY <2>3
<1>10. g \in [0 .. m -> LocalPaths] /\ LocalPath(t, n) = g[m]
  <2>1. m \in 0 .. m
    OBVIOUS
  <2>2. g = [k \in 0 .. m |-> g[k]] /\ g[m] = fold[1 .. m]
    BY <2>1
  <2> HIDE DEF g
  <2> QED
    BY <1>6, <1>9, <2>2
<1> HIDE DEF g
<1> QED
  BY <1>7, <1>8, <1>10

(* The members a path goes down to: without the base of its first segment.  *)
Unbased(p) == <<Name(NoBase, p[1].keys)>> \o SubSeq(p, 2, Len(p))

LEMMA UnbasedIs ==
  ASSUME NEW p \in Seq(NameSet), NEW m \in Nat, m = Len(p), m # 0
  PROVE  /\ Unbased(p) \in Seq(NameSet) /\ Len(Unbased(p)) = m
         /\ Unbased(p)[1] = Name(NoBase, p[1].keys)
         /\ \A k \in 2 .. m : Unbased(p)[k] = p[k]
<1>1. 1 \in 1 .. m /\ \A k \in 1 .. m : p[k] \in NameSet
  BY ElementOfSeq
<1>2. PICK e \in NameSet : e = Name(NoBase, p[1].keys)
  <2>1. PICK name \in NameSet : name = p[1]
    BY <1>1
  <2>2. name.keys \in Seq(Int) /\ NoBase \in Bases
    BY NameIs, Constants
  <2>3. Name(NoBase, name.keys) \in NameSet
    BY <2>2 DEF Name, NameSet
  <2> QED
    BY <2>1, <2>3
<1>3. PICK one \in Seq(NameSet) : one = <<e>> /\ Len(one) = 1 /\ one[1] = e
  BY OneName
<1>4. PICK rest \in Seq(NameSet) : /\ rest = SubSeq(p, 2, m) /\ Len(rest) = m - 1
                                   /\ \A k \in 1 .. m - 1 : rest[k] = p[k + 1]
  <2>1. \A k \in 2 .. m : p[k] \in NameSet
    BY <1>1
  <2>2. PICK l \in Nat : l = m - 1 /\ l + 1 = m
    BY Before
  <2>3. 2 \in Int /\ m \in Int
    OBVIOUS
  <2>4. /\ SubSeq(p, 2, m) \in Seq(NameSet)
        /\ Len(SubSeq(p, 2, m)) = IF 2 <= m THEN m - 2 + 1 ELSE 0
        /\ \A k \in 1 .. m - 2 + 1 : SubSeq(p, 2, m)[k] = p[2 + k - 1]
    BY <2>1, <2>3, SubSeqProperties
  <2>5. /\ (IF 2 <= m THEN m - 2 + 1 ELSE 0) = m - 1
        /\ \A k \in 1 .. m - 1 : k \in 1 .. m - 2 + 1 /\ 2 + k - 1 = k + 1
    BY <2>2
  <2>6. \A k \in 1 .. m - 1 : SubSeq(p, 2, m)[k] = p[k + 1]
    BY <2>4, <2>5
  <2> QED
    BY <2>4, <2>5, <2>6
<1>5. Unbased(p) = one \o rest
  BY <1>2, <1>3, <1>4 DEF Unbased
<1>6. /\ one \o rest \in Seq(NameSet) /\ Len(one \o rest) = 1 + (m - 1)
      /\ \A k \in 1 .. 1 + (m - 1) : (one \o rest)[k] = IF k <= 1 THEN one[k] ELSE rest[k - 1]
  BY <1>3, <1>4, ConcatProperties
<1>7. 1 + (m - 1) = m /\ \A k \in 2 .. m : ~(k <= 1) /\ k - 1 \in 1 .. m - 1 /\ (k - 1) + 1 = k
  OBVIOUS
<1>8. \A k \in 2 .. m : (one \o rest)[k] = p[k]
  BY <1>4, <1>6, <1>7
<1>9. (one \o rest)[1] = e
  BY <1>1, <1>3, <1>6, <1>7
<1> QED
  BY <1>2, <1>5, <1>6, <1>7, <1>8, <1>9

LEMMA NameParts ==
  ASSUME NEW base, NEW keys, NEW name, name = Name(base, keys)
  PROVE  name.base = base /\ name.keys = keys
BY DEF Name

LEMMA KeysOfOne ==
  ASSUME NEW p \in Seq(NameSet), Len(p) = 1
  PROVE  KeysOf(p) = Keys(p[1])
<1>1. PICK none \in Seq(NameSet) : none = <<>> /\ Len(none) = 0
  BY EmptySeq
<1>2. PICK m \in Nat : m = 0 /\ m + 1 = 1
  OBVIOUS
<1>3. KeysOf(p) = KeysOf(none) \o Keys(p[m + 1])
  <2>1. Len(none) = m /\ Len(p) = m + 1 /\ \A k \in 1 .. m : p[k] = none[k]
    BY <1>1, <1>2
  <2> QED
    BY <2>1, KeysOfMore
<1>4. KeysOf(none) = <<>>
  BY <1>1, KeysOfNone
<1>5. Keys(p[1]) \in Seq(KeyNames)
  <2>1. 1 \in 1 .. Len(p)
    OBVIOUS
  <2>2. p[1] \in NameSet
    BY <2>1, ElementOfSeq
  <2> QED
    BY <2>2, KeysType
<1> QED
  BY <1>2, <1>3, <1>4, <1>5, ConcatEmptySeq

LEMMA KeysOfEmpty == Keys(Empty) = <<>> /\ Name(NoBase, <<>>) = Empty /\ KeysOf(Unbased(EmptyPath)) = <<>>
<1>1. Name(NoBase, <<>>) = Empty
  BY DEF Empty, Plain
<1>2. PICK e \in NameSet : e = Empty
  BY EmptyIs
<1>3. HeadOf(e) = <<>> /\ ElementsOf(e) = <<>>
  BY <1>2, EmptyIs, NoElements DEF HeadOf
<1>4. Keys(e) = <<>> \o <<>> /\ <<>> \in Seq(KeyNames)
  BY <1>3, KeysType, EmptySeq
<1>5. Keys(e) = <<>>
  BY <1>4, ConcatEmptySeq
<1>6. PICK p \in Seq(NameSet) : p = EmptyPath /\ Len(p) = 1 /\ p[1] = Empty
  BY EmptyIs
<1>7. Unbased(p) \in Seq(NameSet) /\ Len(Unbased(p)) = 1 /\ Unbased(p)[1] = Name(NoBase, p[1].keys)
  <2>1. PICK m \in Nat : m = 1 /\ m # 0
    OBVIOUS
  <2>2. m = Len(p)
    BY <1>6, <2>1
  <2> QED
    BY <2>1, <2>2, UnbasedIs
<1>8. KeysOf(Unbased(p)) = Keys(Unbased(p)[1])
  BY <1>7, KeysOfOne
<1>9. p[1].keys = <<>>
  BY <1>6, EmptyIs
<1> QED
  BY <1>1, <1>2, <1>5, <1>6, <1>7, <1>8, <1>9

(* A part that is one key is glued to the path as one more key.             *)
IsKey(name) == Keys(name) = <<name>>

LEMMA KeyGlued ==
  ASSUME NEW p \in LocalPaths, p # EmptyPath, NEW part \in NameSet, IsKey(part)
  PROVE  /\ Glued(p, part)[1].base = p[1].base
         /\ KeysOf(Unbased(Glued(p, part))) = KeysOf(Unbased(p)) \o <<part>>
<1>0. PICK m \in Nat : m = Len(p) /\ m # 0 /\ p \in Seq(NameSet)
  BY LenProperties DEF LocalPaths
<1>1. Keys(part) = <<part>> /\ <<part>> \in Seq(KeyNames)
  BY KeysType DEF IsKey
<1>2. PICK u : u = Unbased(p)
  OBVIOUS
<1>3. /\ u \in Seq(NameSet) /\ Len(u) = m /\ u[1] = Name(NoBase, p[1].keys)
      /\ \A k \in 2 .. m : u[k] = p[k]
  BY <1>0, <1>2, UnbasedIs
<1>4. 1 \in 1 .. m /\ \A k \in 1 .. m : k = 1 \/ k \in 2 .. m
  BY <1>0
<1>5. CASE ~IsElement(part)
  <2>1. PICK q \in Seq(NameSet) : /\ q = Glued(p, part) /\ Len(q) = m + 1
                                  /\ q[m + 1] = part /\ \A k \in 1 .. m : q[k] = p[k]
    BY <1>0, <1>5, GluedSeparate
  <2>2. PICK n \in Nat : n = m + 1 /\ n = Len(q) /\ n # 0
    BY <1>0, <2>1
  <2>3. PICK v : v = Unbased(q)
    OBVIOUS
  <2>4. /\ v \in Seq(NameSet) /\ Len(v) = n /\ v[1] = Name(NoBase, q[1].keys)
        /\ \A k \in 2 .. n : v[k] = q[k]
    BY <2>2, <2>3, UnbasedIs
  <2>5. q[1] = p[1] /\ v[1] = u[1]
    BY <1>3, <1>4, <2>1, <2>4
  <2>6. \A k \in 1 .. m : v[k] = u[k]
    <3>1. \A k \in 2 .. m : k \in 2 .. n /\ k \in 1 .. m
      BY <2>2
    <3> QED
      BY <1>3, <1>4, <2>1, <2>4, <2>5, <3>1
  <2>7. v[m + 1] = part
    <3>1. m + 1 \in 2 .. n
      BY <1>0, <2>2
    <3> QED
      BY <2>1, <2>4, <3>1
  <2>8. KeysOf(v) = KeysOf(u) \o Keys(v[m + 1])
    BY <1>3, <2>2, <2>4, <2>6, KeysOfMore
  <2> QED
    BY <1>1, <1>2, <2>1, <2>3, <2>5, <2>7, <2>8
<1>6. CASE IsElement(part)
  <2>1. PICK index \in Int : part = Element(index) /\ part.keys = <<index>>
    <3>1. ASSUME NEW base \in Bases, part = Plain(base)
          PROVE  FALSE
      <4>1. part.keys = <<>>
        BY <3>1 DEF Plain, Name
      <4> QED
        BY <1>6, <4>1 DEF IsElement
    <3>2. part \in KeyNames
      <4>1. PICK keys \in Seq(KeyNames) : keys = <<part>>
        BY <1>1
      <4>2. Len(<<part>>) = 1 /\ <<part>>[1] = part
        OBVIOUS
      <4> QED
        BY <4>1, <4>2, ElementOfSeq
    <3>3. PICK index \in Int : part = Element(index)
      BY <3>1, <3>2 DEF KeyNames
    <3> QED
      BY <3>3 DEF Element, Name
  <2>2. PICK q \in Seq(NameSet) : /\ q = Glued(p, part) /\ Len(q) = m
                                  /\ q[m] = Name(p[m].base, p[m].keys \o part.keys)
                                  /\ \A k \in 1 .. m - 1 : q[k] = p[k]
    BY <1>0, <1>6, GluedElement
  <2>3. PICK v : v = Unbased(q)
    OBVIOUS
  <2>4. /\ v \in Seq(NameSet) /\ Len(v) = m /\ v[1] = Name(NoBase, q[1].keys)
        /\ \A k \in 2 .. m : v[k] = q[k]
    BY <1>0, <2>2, <2>3, UnbasedIs
  <2>5. \A k \in 1 .. m - 1 : v[k] = u[k]
    <3>1. \A k \in 1 .. m - 1 : k \in 1 .. m
      OBVIOUS
    <3>2. 1 \in 1 .. m - 1 => v[1] = u[1]
      BY <1>3, <2>2, <2>4
    <3> QED
      BY <1>3, <1>4, <2>2, <2>4, <3>1, <3>2
  <2>6. v[m] = Name(u[m].base, u[m].keys \o <<index>>)
    <3>1. CASE m = 1
      <4>0. q[m] = Name(p[m].base, p[m].keys \o part.keys) /\ u[1] = Name(NoBase, p[1].keys)
        BY <1>3, <2>2
      <4>1. q[m].keys = p[m].keys \o part.keys
        <5>1. PICK k : k = p[m].keys \o part.keys
          OBVIOUS
        <5>2. q[m] = Name(p[m].base, k)
          BY <4>0, <5>1
        <5>3. q[m].keys = k
          BY <5>2, NameParts
        <5> QED
          BY <5>1, <5>3
      <4>2. u[1].base = NoBase /\ u[1].keys = p[1].keys
        BY <4>0, NameParts
      <4>3. v[1] = Name(NoBase, p[1].keys \o <<index>>)
        BY <2>1, <2>4, <3>1, <4>1
      <4> QED
        BY <3>1, <4>2, <4>3
    <3>2. CASE m # 1
      <4>1. m \in 2 .. m
        BY <1>0, <3>2
      <4> QED
        BY <1>3, <2>1, <2>2, <2>4, <4>1
    <3> QED
      BY <3>1, <3>2
  <2>7. Keys(v[m]) = Keys(u[m]) \o <<part>>
    <3>1. m \in 1 .. m
      BY <1>0
    <3>2. PICK name \in NameSet : name = u[m]
      BY <1>3, <3>1, ElementOfSeq
    <3>3. Keys(Name(name.base, name.keys \o <<index>>)) = Keys(name) \o <<Element(index)>>
      BY KeysGrow
    <3> QED
      BY <2>1, <2>6, <3>2, <3>3
  <2>8. KeysOf(v) = KeysOf(u) \o <<part>>
    <3>1. PICK c \in Seq(KeyNames) : c = <<part>>
      BY <1>1
    <3>2. Lengthened(v, u, m, c)
      BY <2>5, <2>7, <3>1 DEF Lengthened
    <3>3. KeysOf(v) = KeysOf(u) \o c
      BY <1>0, <1>3, <2>4, <3>2, KeysOfLonger
    <3> QED
      BY <3>1, <3>3
  <2>9. q[1].base = p[1].base
    <3>1. m = 1 \/ 1 \in 1 .. m - 1
      BY <1>0
    <3>2. m = 1 => q[1].base = p[1].base
      BY <2>2 DEF Name
    <3> QED
      BY <2>2, <3>1, <3>2
  <2> QED
    BY <1>2, <2>2, <2>3, <2>8, <2>9
<1> QED
  BY <1>5, <1>6

(* Names which the path of their nodes keeps apart, and what it keeps.      *)
NamesApart(names) ==
  /\ names[1].keys = <<>>
  /\ \A k \in 2 .. Len(names) : IsKey(names[k])
  /\ names[1] = Empty /\ Len(names) # 1 => IsElement(names[2])
Kept(p, names, i) ==
  /\ p[1].base = names[1].base
  /\ Len(KeysOf(Unbased(p))) = i - 1
  /\ \A k \in 2 .. i : KeysOf(Unbased(p))[k - 1] = names[k]

LEMMA LocalKept ==
  ASSUME NEW t, NEW n, NEW names \in Seq(NameSet), names = LocalNames(t, n),
         NEW m \in Nat, m = Len(names), m # 0, NamesApart(names)
  PROVE  LocalPath(t, n) \in LocalPaths /\ Kept(LocalPath(t, n), names, m)
<1>0. PICK nothing \in LocalPaths : nothing = EmptyPath
  BY EmptyIs
<1>1. PICK g \in [0 .. m -> LocalPaths] :
        /\ g[0] = nothing
        /\ \A k \in 1 .. m : g[k] = Glued(g[k - 1], names[k])
        /\ LocalPath(t, n) = g[m]
  BY <1>0, LocalSteps
<1>2. PICK l \in Nat : l = m - 1 /\ l + 1 = m
  BY Before
<1>3. \A k \in 1 .. m : names[k] \in NameSet
  BY ElementOfSeq
<1> DEFINE T == {i \in 0 .. l : Kept(g[i + 1], names, i + 1)}
<1>4. 0 \in T
  <2>1. 1 \in 1 .. m /\ 1 - 1 = 0 /\ 0 \in 0 .. l
    BY Before
  <2>2. PICK name \in NameSet : name = names[1] /\ name.keys = <<>>
    BY <1>3, <2>1 DEF NamesApart
  <2>3. g[1] = <<name>>
    <3>1. g[1] = Glued(EmptyPath, name)
      BY <1>0, <1>1, <2>1, <2>2
    <3> QED
      BY <3>1 DEF Glued
  <2>4. PICK p \in Seq(NameSet) : p = g[1] /\ Len(p) = 1 /\ p[1] = name
    BY <2>3, OneName
  <2>5. PICK one \in Nat : one = 1 /\ one # 0 /\ one = Len(p)
    BY <2>4
  <2>6. PICK u : u = Unbased(p)
    OBVIOUS
  <2>7. u \in Seq(NameSet) /\ Len(u) = 1 /\ u[1] = Name(NoBase, name.keys)
    BY <2>4, <2>5, <2>6, UnbasedIs
  <2>8. KeysOf(u) = Keys(u[1])
    BY <2>7, KeysOfOne
  <2>9. KeysOf(u) = <<>>
    BY <2>2, <2>7, <2>8, KeysOfEmpty
  <2>10. Kept(p, names, 1)
    <3>1. Len(<<>>) = 1 - 1 /\ 2 .. 1 = {}
      OBVIOUS
    <3> QED
      BY <2>2, <2>4, <2>6, <2>9, <3>1 DEF Kept
  <2> QED
    BY <2>1, <2>4, <2>10
<1>5. ASSUME NEW i \in T, i < l
      PROVE  i + 1 \in T
  <2>1. PICK j \in 2 .. m : j = (i + 1) + 1 /\ j - 1 = i + 1 /\ j - 1 \in 0 .. m /\ j \in 1 .. m
                            /\ i + 1 \in 0 .. l /\ i \in Nat /\ (j - 1) - 1 = i
    BY <1>2, <1>5
  <2>2. PICK p \in LocalPaths : p = g[j - 1] /\ Kept(p, names, j - 1)
    BY <2>1
  <2> HIDE DEF T
  <2>3. PICK part \in NameSet : part = names[j] /\ IsKey(part) /\ g[j] = Glued(p, part)
    <3>1. names[j] \in NameSet /\ IsKey(names[j]) /\ g[j] = Glued(g[j - 1], names[j])
      BY <1>1, <1>3, <2>1 DEF NamesApart
    <3> QED
      BY <2>2, <3>1
  <2>4. PICK K \in Seq(KeyNames) : /\ K = KeysOf(Unbased(p)) /\ Len(K) = i
                                   /\ \A k \in 2 .. j - 1 : K[k - 1] = names[k]
    <3>1. PICK w \in Nat : w = Len(p) /\ w # 0 /\ p \in Seq(NameSet)
      BY LenProperties DEF LocalPaths
    <3>2. Unbased(p) \in Seq(NameSet)
      BY <3>1, UnbasedIs
    <3>3. KeysOf(Unbased(p)) \in Seq(KeyNames)
      BY <3>2, KeysOfType
    <3>4. (j - 1) - 1 = i
      BY <2>1
    <3> QED
      BY <2>2, <3>3, <3>4 DEF Kept
  <2>5. PICK q, J : q = g[j] /\ J = KeysOf(Unbased(q))
    OBVIOUS
  <2>6. q[1].base = names[1].base /\ J = K \o <<part>>
    <3>1. CASE p # EmptyPath
      <4>1. Glued(p, part)[1].base = p[1].base /\ KeysOf(Unbased(Glued(p, part))) = KeysOf(Unbased(p)) \o <<part>>
        BY <2>3, <3>1, KeyGlued
      <4> QED
        BY <2>2, <2>3, <2>4, <2>5, <4>1 DEF Kept
    <3>2. CASE p = EmptyPath
      <4>1. K = <<>> /\ i = 0
        BY <2>4, <3>2, KeysOfEmpty, EmptySeq
      <4>2. names[1] = Empty
        <5>1. PICK name \in NameSet : name = names[1]
          <6>1. 1 \in 1 .. m
            BY Before
          <6> QED
            BY <1>3, <6>1
        <5>2. name.base = NoBase /\ name.keys = <<>>
          BY <2>2, <3>2, <5>1, EmptyIs DEF Kept, NamesApart
        <5>3. name = Name(NoBase, <<>>)
          BY <5>2, NameIs
        <5> QED
          BY <5>1, <5>3, KeysOfEmpty
      <4>3. j = 2 /\ m # 1
        BY <2>1, <4>1
      <4>4. IsElement(part)
        BY <2>3, <4>2, <4>3 DEF NamesApart
      <4>5. q = <<part>>
        BY <2>3, <2>5, <3>2 DEF Glued
      <4>6. PICK r \in Seq(NameSet), one \in Nat : r = q /\ one = Len(r) /\ one = 1 /\ one # 0 /\ r[1] = part
        <5>1. <<part>> \in Seq(NameSet) /\ Len(<<part>>) = 1 /\ <<part>>[1] = part
          BY OneName
        <5>2. 1 \in Nat /\ 1 # 0
          OBVIOUS
        <5> QED
          BY <4>5, <5>1, <5>2
      <4>7. PICK u : u = Unbased(r)
        OBVIOUS
      <4>8. u \in Seq(NameSet) /\ Len(u) = 1 /\ u[1] = Name(NoBase, part.keys)
        BY <4>6, <4>7, UnbasedIs
      <4>9. u[1] = part
        <5>1. part = Name(part.base, part.keys) /\ part.base = NoBase
          BY <4>4, NameIs DEF IsElement
        <5> QED
          BY <4>8, <5>1
      <4>10. J = <<part>>
        BY <2>3, <2>5, <4>6, <4>7, <4>8, <4>9, KeysOfOne DEF IsKey
      <4>11. <<part>> \in Seq(NameSet)
        BY OneName
      <4>12. J = K \o <<part>>
        BY <4>1, <4>10, <4>11, ConcatEmptySeq
      <4>13. q[1].base = names[1].base
        BY <4>2, <4>4, <4>6, EmptyIs DEF IsElement
      <4> QED
        BY <4>12, <4>13
    <3> QED
      BY <3>1, <3>2
  <2>7. Kept(q, names, j)
    <3>1. PICK one \in Seq(KeyNames) : one = <<part>> /\ Len(one) = 1 /\ one[1] = part
      <4>1. Keys(part) \in Seq(KeyNames)
        BY KeysType
      <4>2. Len(<<part>>) = 1 /\ <<part>>[1] = part
        OBVIOUS
      <4> QED
        BY <2>3, <4>1, <4>2 DEF IsKey
    <3>2. /\ Len(K \o one) = i + 1
          /\ \A k \in 1 .. i + 1 : (K \o one)[k] = IF k <= i THEN K[k] ELSE one[k - i]
      BY <2>4, <3>1, ConcatProperties
    <3>3. i + 1 = j - 1 /\ i \in Nat
      BY <2>1
    <3>4. J = K \o one
      BY <2>6, <3>1
    <3>5. ASSUME NEW k \in 2 .. j
          PROVE  J[k - 1] = names[k]
      <4>1. k - 1 \in 1 .. i + 1
        BY <3>3
      <4>2. CASE k = j
        <5>1. ~(k - 1 <= i) /\ (k - 1) - i = 1
          BY <3>3, <4>2
        <5> QED
          BY <2>3, <3>1, <3>2, <3>4, <4>1, <4>2, <5>1
      <4>3. CASE k # j
        <5>1. k \in 2 .. j - 1 /\ k - 1 <= i
          BY <3>3, <4>3
        <5> QED
          BY <2>4, <3>2, <3>4, <4>1, <5>1
      <4> QED
        BY <4>2, <4>3
    <3> QED
      BY <2>5, <2>6, <3>2, <3>3, <3>4, <3>5 DEF Kept
  <2>8. i + 1 \in {x \in 0 .. l : Kept(g[x + 1], names, x + 1)}
    BY <2>1, <2>5, <2>7
  <2> QED
    BY <2>8 DEF T
<1>6. T = 0 .. l
  <2>1. T \in SUBSET (0 .. l)
    OBVIOUS
  <2> HIDE DEF T
  <2> QED
    BY <1>4, <1>5, <2>1, UptoInduction
<1>7. l \in T
  <2> HIDE DEF T
  <2> QED
    BY <1>6
<1>8. m \in 0 .. m
  OBVIOUS
<1> QED
  BY <1>1, <1>2, <1>7, <1>8

(* The scopes that the beginnings of a path lead to are those of one walk.  *)
LEMMA ScopesAlong ==
  ASSUME NEW S \in Nat, NEW N \in Nat, NEW t, WellFormed(t, S, N), NEW from \in 0 .. S - 1,
         NEW path \in Seq(NameSet), NEW m \in Nat, m = Len(path)
  PROVE  \E g : /\ Walk(ScopeIndexes(t), 0 .. S - 1, from, path, g)
               /\ \A k \in 0 .. m : ScopeAlong(t, from, SubSeq(path, 1, k)) = g[k]
<1>1. DOMAIN path = 1 .. m
  BY LenProperties
<1>2. PICK g : Walk(ScopeIndexes(t), 0 .. S - 1, from, path, g)
  BY <1>1, ScopeWalk
<1>3. ASSUME NEW k \in 0 .. m
      PROVE  ScopeAlong(t, from, SubSeq(path, 1, k)) = g[k]
  <2>1. PICK start \in Seq(NameSet) : /\ start = SubSeq(path, 1, k) /\ Len(start) = k
                                      /\ \A i \in 1 .. k : start[i] = path[i]
    <3>1. PICK start : start = SubSeq(path, 1, k)
      OBVIOUS
    <3>2. start \in Seq(NameSet) /\ Len(start) = k /\ \A i \in 1 .. k : start[i] = path[i]
      BY <3>1, Prefix
    <3> QED
      BY <3>1, <3>2
  <2>2. Len(start) \in Nat /\ DOMAIN start = 1 .. Len(start) /\ k \in Nat
    BY <2>1, LenProperties
  <2>3. PICK h : Walk(ScopeIndexes(t), 0 .. S - 1, from, start, h) /\ ScopeAlong(t, from, start) = h[Len(start)]
    BY <2>2, ScopeWalk
  <2>4. k \in 0 .. k /\ k <= Len(path) /\ k <= Len(start) /\ Len(path) \in Nat
    BY <2>1, <2>2
  <2>5. \A i \in 0 .. k : h[i] = g[i]
    <3>1. PICK I, Y : I = ScopeIndexes(t) /\ Y = 0 .. S - 1
      OBVIOUS
    <3>2. Walk(I, Y, from, path, g) /\ Walk(I, Y, from, start, h)
      BY <1>2, <2>3, <3>1
    <3>3. Alike(start, path, k)
      BY <2>1, <2>2, <2>4 DEF Alike
    <3> QED
      BY <3>2, <3>3, WalksAgree
  <2> QED
    BY <2>1, <2>3, <2>4, <2>5
<1> QED
  BY <1>2, <1>3

(* What above() of a scope, and of a node, is.                              *)
LEMMA ScopesRise ==
  ASSUME NEW S \in Nat, NEW N \in Nat, NEW t, WellFormed(t, S, N)
  PROVE  /\ DOMAIN t.scopes = 0 .. S - 1 /\ Root \in 0 .. S - 1 /\ t.scopes[Root].parent = NoId
         /\ Parented(t.scopes, S)
         /\ \A x \in 0 .. S - 1 : t.scopes[x].parent = NoId \/ t.scopes[x].parent \in 0 .. x - 1
         /\ \A x \in 0 .. S - 1 : t.scopes[x].name \in NameSet
<1>1. Root \in 0 .. S - 1
  BY DEF WellFormed, Root
<1>2. /\ DOMAIN t.scopes = 0 .. S - 1
      /\ \A s \in 0 .. S - 1 : t.scopes[s].parent = NoId <=> s = Root
  BY ParentsRise
<1>3. \A s \in 0 .. S - 1 : s # Root => t.scopes[s].parent \in 0 .. s - 1
  BY ParentsRise
<1>4. \A s \in 0 .. S - 1 : t.scopes[s].name \in NameSet
  BY ParentsRise
<1> QED
  BY <1>1, <1>2, <1>3, <1>4 DEF Parented

LEMMA NodesRise ==
  ASSUME NEW S \in Nat, NEW N \in Nat, NEW t, WellFormed(t, S, N)
  PROVE  /\ DOMAIN t.nodes = 0 .. N - 1 /\ Parented(t.nodes, N)
         /\ \A x \in 0 .. N - 1 : t.nodes[x].parent = NoId \/ t.nodes[x].parent \in 0 .. x - 1
         /\ \A x \in 0 .. N - 1 : t.nodes[x].name \in NameSet
<1>1. /\ DOMAIN t.nodes = 0 .. N - 1
      /\ \A x \in 0 .. N - 1 : t.nodes[x].parent = NoId \/ t.nodes[x].parent \in 0 .. x - 1
      /\ \A x \in 0 .. N - 1 : t.nodes[x].name \in NameSet
  BY ParentsRise
<1> QED
  BY <1>1 DEF Parented

LEMMA FirstScopeIs ==
  ASSUME NEW S \in Nat, NEW N \in Nat, NEW t, WellFormed(t, S, N), NEW s \in 0 .. S - 1
  PROVE  FirstScope(t, s) <=> FirstOf(0 .. S - 1, ParentsOf(t.scopes), NamesOf(t.scopes), s)
<1>1. DOMAIN t.scopes = 0 .. S - 1
  BY ParentsRise
<1>2. \A r \in 0 .. S - 1 : ParentsOf(t.scopes)[r] = t.scopes[r].parent /\ NamesOf(t.scopes)[r] = t.scopes[r].name
  BY <1>1 DEF ParentsOf, NamesOf
<1>3. \A r \in 0 .. S - 1 : (r \in 0 .. s - 1 <=> ~(s <= r))
  OBVIOUS
<1>4. 0 .. s - 1 \subseteq 0 .. S - 1
  OBVIOUS
<1> QED
  BY <1>2, <1>3, <1>4 DEF FirstScope, FirstOf

(* A scope that a path of names leads to has these names.                   *)
LEMMA ScopeBack ==
  ASSUME NEW S \in Nat, NEW N \in Nat, NEW t, WellFormed(t, S, N),
         NEW path \in Seq(NameSet), ScopeAlong(t, Root, path) # NoId
  PROVE  /\ ScopeAlong(t, Root, path) \in 0 .. S - 1
         /\ ScopeNames(t, ScopeAlong(t, Root, path)) = path
         /\ \A r \in LineOf(t.scopes, ScopeAlong(t, Root, path)) : FirstScope(t, r)
<1>0. PICK m \in Nat : m = Len(path) /\ DOMAIN path = 1 .. m
  BY LenProperties
<1>1. Root \in 0 .. S - 1
  BY DEF WellFormed, Root
<1>2. PICK g : Walk(ScopeIndexes(t), 0 .. S - 1, Root, path, g) /\ ScopeAlong(t, Root, path) = g[m]
  BY <1>0, <1>1, ScopeWalk
<1>3. Family(ScopeIndexes(t), 0 .. S - 1, ParentsOf(t.scopes), NamesOf(t.scopes))
  BY TreeFamilies
<1>4. g[m] # NoId
  BY <1>2
<1>5. /\ \A k \in 0 .. m : g[k] \in 0 .. S - 1
      /\ \A k \in 1 .. m : /\ ParentsOf(t.scopes)[g[k]] = g[k - 1] /\ NamesOf(t.scopes)[g[k]] = path[k]
                           /\ FirstOf(0 .. S - 1, ParentsOf(t.scopes), NamesOf(t.scopes), g[k])
  BY <1>0, <1>1, <1>2, <1>3, <1>4, WalkDown
<1>6. /\ DOMAIN t.scopes = 0 .. S - 1 /\ t.scopes[Root].parent = NoId
      /\ Parented(t.scopes, S)
  BY ScopesRise
<1>7. g[0] = Root /\ g \in [0 .. m -> 0 .. S - 1]
  <2>1. g[0] = Root /\ DOMAIN g = 0 .. m /\ g = [k \in 0 .. m |-> g[k]]
    BY <1>0, <1>2 DEF Walk
  <2> QED
    BY <1>5, <2>1
<1>8. Chain(ParentsOf(t.scopes), 0 .. S - 1, g, m)
  <2>1. ParentsOf(t.scopes)[g[0]] = NoId
    BY <1>1, <1>6, <1>7 DEF ParentsOf
  <2> QED
    BY <1>5, <1>7, <2>1 DEF Chain
<1>9. ScopeNames(t, g[m]) = ChainScopes(t, g, m)
  BY <1>8, ScopeChain
<1>10. ScopeNames(t, g[m]) = path
  <2>1. ASSUME NEW k \in 1 .. m
        PROVE  t.scopes[g[k]].name = path[k]
    <3>1. k \in 0 .. m
      OBVIOUS
    <3>2. g[k] \in DOMAIN t.scopes /\ NamesOf(t.scopes)[g[k]] = path[k]
      BY <1>5, <1>6, <3>1
    <3> QED
      BY <3>2 DEF NamesOf
  <2>2. path = [k \in 1 .. m |-> path[k]]
    BY <1>0, LenProperties
  <2> QED
    BY <1>9, <2>1, <2>2 DEF ChainScopes
<1>11. LineOf(t.scopes, g[m]) = Links(g, m)
  BY <1>6, <1>8, LineOfChain
<1>12. ASSUME NEW k \in 0 .. m
       PROVE  FirstScope(t, g[k])
  <2>1. CASE k = 0
    <3>1. 0 .. 0 - 1 = {}
      OBVIOUS
    <3> QED
      BY <1>7, <2>1, <3>1 DEF FirstScope, Root
  <2>2. CASE k # 0
    <3>1. k \in 1 .. m
      BY <2>2
    <3>2. PICK s \in 0 .. S - 1 : s = g[k]
      BY <1>5
    <3>3. FirstOf(0 .. S - 1, ParentsOf(t.scopes), NamesOf(t.scopes), s)
      BY <1>5, <3>1, <3>2
    <3> QED
      BY <3>2, <3>3, FirstScopeIs
  <2> QED
    BY <2>1, <2>2
<1>13. m \in 0 .. m
  OBVIOUS
<1> QED
  BY <1>2, <1>5, <1>10, <1>11, <1>12, <1>13 DEF Links

(* And a scope that is the first of its names is led to by them.            *)
LEMMA ScopeThere ==
  ASSUME NEW S \in Nat, NEW N \in Nat, NEW t, WellFormed(t, S, N), NEW s \in 0 .. S - 1
  PROVE  /\ ScopeNames(t, s) \in Seq(NameSet)
         /\ s = Root <=> ScopeNames(t, s) = <<>>
         /\ (\A r \in LineOf(t.scopes, s) : FirstScope(t, r)) => ScopeAlong(t, Root, ScopeNames(t, s)) = s
<1>1. Root \in 0 .. S - 1
  BY DEF WellFormed, Root
<1>2. /\ DOMAIN t.scopes = 0 .. S - 1
      /\ \A r \in 0 .. S - 1 : t.scopes[r].name \in NameSet
      /\ \A x \in 0 .. S - 1 : t.scopes[x].parent = NoId \/ t.scopes[x].parent \in 0 .. x - 1
      /\ Parented(t.scopes, S)
  BY ScopesRise
<1>3. Rising(ParentsOf(t.scopes), S)
  BY <1>2 DEF Rising, ParentsOf
<1>4. PICK m \in Nat : \E c : Chain(ParentsOf(t.scopes), 0 .. S - 1, c, m) /\ c[m] = s
  <2>1. PICK up : up = ParentsOf(t.scopes)
    OBVIOUS
  <2>2. \E m \in Nat : \E c : Chain(up, 0 .. S - 1, c, m) /\ c[m] = s
    BY <1>3, <2>1, ChainExists
  <2> QED
    BY <2>1, <2>2
<1>4a. PICK c : Chain(ParentsOf(t.scopes), 0 .. S - 1, c, m) /\ c[m] = s
  BY <1>4
<1>4b. Chain(ParentsOf(t.scopes), 0 .. S - 1, c, m)
  BY <1>4a
<1>5. c[0] = Root /\ ScopeNames(t, c[m]) = ChainScopes(t, c, m)
  BY <1>4b, ScopeChain
<1>6. c \in [0 .. m -> 0 .. S - 1] /\ \A k \in 1 .. m : ParentsOf(t.scopes)[c[k]] = c[k - 1]
  BY <1>4a DEF Chain
<1>7. PICK path \in Seq(NameSet) : /\ path = ScopeNames(t, s) /\ Len(path) = m
                                   /\ \A k \in 1 .. m : path[k] = t.scopes[c[k]].name
  <2>1. PICK path : path = [k \in 1 .. m |-> t.scopes[c[k]].name]
    OBVIOUS
  <2>2. \A k \in 1 .. m : k \in 0 .. m
    OBVIOUS
  <2>3. path \in [1 .. m -> NameSet]
    BY <1>2, <1>6, <2>1, <2>2
  <2>4. path \in Seq(NameSet) /\ Len(path) = m
    BY <2>3, FunctionIsSeq
  <2> QED
    BY <1>4a, <1>5, <2>1, <2>4 DEF ChainScopes
<1>8. s = Root <=> path = <<>>
  <2>1. ASSUME s = Root
        PROVE  path = <<>>
    BY <1>7, <2>1, ScopeNamesStep
  <2>2. ASSUME path = <<>>
        PROVE  s = Root
    <3>1. m = 0
      BY <1>7, <2>2, EmptySeq
    <3> QED
      BY <1>4a, <1>5, <3>1
  <2> QED
    BY <2>1, <2>2
<1>9. ASSUME \A r \in LineOf(t.scopes, s) : FirstScope(t, r)
      PROVE  ScopeAlong(t, Root, path) = s
  <2>1. PICK g : Walk(ScopeIndexes(t), 0 .. S - 1, Root, path, g) /\ ScopeAlong(t, Root, path) = g[m]
    <3>1. Len(path) \in Nat /\ DOMAIN path = 1 .. Len(path)
      BY LenProperties
    <3>2. PICK g : /\ Walk(ScopeIndexes(t), 0 .. S - 1, Root, path, g)
                   /\ ScopeAlong(t, Root, path) = g[Len(path)]
      BY <1>1, <3>1, ScopeWalk
    <3>3. Len(path) = m
      BY <1>7
    <3> QED
      BY <3>2, <3>3
  <2>2. Family(ScopeIndexes(t), 0 .. S - 1, ParentsOf(t.scopes), NamesOf(t.scopes))
    BY TreeFamilies
  <2>3. LineOf(t.scopes, s) = Links(c, m)
    <3>1. LineOf(t.scopes, c[m]) = Links(c, m)
      BY <1>2, <1>4a, LineOfChain
    <3> QED
      BY <1>4a, <3>1
  <2>4. ASSUME NEW k \in 1 .. m
        PROVE  /\ ParentsOf(t.scopes)[c[k]] = c[k - 1] /\ NamesOf(t.scopes)[c[k]] = path[k]
               /\ FirstOf(0 .. S - 1, ParentsOf(t.scopes), NamesOf(t.scopes), c[k])
    <3>1. k \in 0 .. m
      OBVIOUS
    <3>2. PICK r \in 0 .. S - 1 : r = c[k]
      BY <1>6, <3>1
    <3>3. FirstScope(t, r)
      BY <1>9, <2>3, <3>1, <3>2 DEF Links
    <3>4. FirstOf(0 .. S - 1, ParentsOf(t.scopes), NamesOf(t.scopes), r)
      BY <3>3, FirstScopeIs
    <3>5. NamesOf(t.scopes)[r] = path[k]
      BY <1>2, <1>7, <3>2 DEF NamesOf
    <3> QED
      BY <1>6, <3>2, <3>4, <3>5
  <2>5. \A k \in 0 .. m : g[k] = c[k]
    <3>1. PICK up, names, I, Y : /\ up = ParentsOf(t.scopes) /\ names = NamesOf(t.scopes)
                                 /\ I = ScopeIndexes(t) /\ Y = 0 .. S - 1
      OBVIOUS
    <3>2. Family(I, Y, up, names) /\ Walk(I, Y, Root, path, g) /\ Root \in Y
      BY <1>1, <2>1, <2>2, <3>1
    <3>3. FirstChain(Y, up, names, path, c, m)
      BY <1>6, <1>7, <2>4, <3>1 DEF FirstChain
    <3>4. c[0] = Root
      BY <1>5
    <3> QED
      BY <3>2, <3>3, <3>4, ChainWalks
  <2>6. m \in 0 .. m
    OBVIOUS
  <2> QED
    BY <1>4a, <2>1, <2>5, <2>6
<1> QED
  BY <1>7, <1>8, <1>9

(* The path of a scope leads to it, or to another of the same name.         *)
LEMMA ScopePaths ==
  ASSUME NEW S \in Nat, NEW N \in Nat, NEW t, WellFormed(t, S, N), NEW s \in 0 .. S - 1
  PROVE  FindScope(t, Root, PathOfScope(t, s)) = s <=> ScopeNamed(t, s)
<1>1. PICK path \in Seq(NameSet) :
        /\ path = ScopeNames(t, s)
        /\ s = Root <=> path = <<>>
        /\ (\A r \in LineOf(t.scopes, s) : FirstScope(t, r)) => ScopeAlong(t, Root, path) = s
  BY ScopeThere
<1>2. s \in Nat /\ s # NoId
  <2>1. s \in Nat
    OBVIOUS
  <2> QED
    BY <2>1, Constants, Zenon
<1>3. CASE s = Root
  <2>1. FindScope(t, Root, PathOfScope(t, s)) = Root
    BY <1>3 DEF FindScope, PathOfScope
  <2>2. LineOf(t.scopes, s) = {s}
    <3>1. Parented(t.scopes, S) /\ t.scopes[s].parent = NoId
      BY <1>3, ScopesRise
    <3> QED
      BY <3>1, LineOfStep
  <2>3. FirstScope(t, s)
    <3>1. 0 .. 0 - 1 = {}
      OBVIOUS
    <3> QED
      BY <1>3, <3>1 DEF FirstScope, Root
  <2> QED
    BY <1>3, <2>1, <2>2, <2>3 DEF ScopeNamed
<1>4. CASE s # Root /\ path = EmptyPath
  <2>1. PathOfScope(t, s) = EmptyPath
    BY <1>1, <1>4 DEF PathOfScope
  <2>2. FindScope(t, Root, PathOfScope(t, s)) = Root
    BY <2>1 DEF FindScope
  <2> QED
    BY <1>4, <2>1, <2>2 DEF ScopeNamed
<1>5. CASE s # Root /\ path # EmptyPath
  <2>1. PathOfScope(t, s) = path
    BY <1>1, <1>5 DEF PathOfScope
  <2>2. FindScope(t, Root, PathOfScope(t, s)) = ScopeAlong(t, Root, path)
    BY <1>5, <2>1 DEF FindScope
  <2>3. ASSUME ScopeAlong(t, Root, path) = s
        PROVE  \A r \in LineOf(t.scopes, s) : FirstScope(t, r)
    BY <1>2, <2>3, ScopeBack
  <2>4. ScopeNamed(t, s) <=> \A r \in LineOf(t.scopes, s) : FirstScope(t, r)
    BY <1>5, <2>1 DEF ScopeNamed
  <2> QED
    BY <1>1, <2>2, <2>3, <2>4
<1> QED
  BY <1>3, <1>4, <1>5

LEMMA LastOf ==
  ASSUME NEW m \in Nat, NEW T \in SUBSET (0 .. m), T # {}
  PROVE  Max(T) \in T /\ \A y \in T : y <= Max(T)
<1> DEFINE U == {k \in 1 .. m + 1 : k - 1 \in T}
<1>1. U # {}
  <2>1. PICK x \in T : TRUE
    OBVIOUS
  <2>2. x + 1 \in 1 .. m + 1 /\ (x + 1) - 1 = x
    OBVIOUS
  <2>3. x + 1 \in U
    BY <2>1, <2>2
  <2> QED
    BY <2>3
<1>2. U \in SUBSET (1 .. m + 1) /\ m + 1 \in Nat
  OBVIOUS
<1>3. PICK z \in U : \A y \in U : y <= z
  <2> HIDE DEF U
  <2> QED
    BY <1>1, <1>2, FirstAndLast
<1>4. PICK x \in T : x = z - 1 /\ x \in Nat
  BY <1>3
<1>5. ASSUME NEW y \in T
      PROVE  x >= y
  <2>1. y + 1 \in U /\ y \in Nat
    OBVIOUS
  <2> QED
    BY <1>3, <1>4, <2>1
<1>6. Max(T) \in T /\ \A y \in T : Max(T) >= y
  BY <1>4, <1>5 DEF Max
<1> QED
  BY <1>6

(* The end of a path, from where its scopes end.                            *)
Rest(path, d) == SubSeq(path, d + 1, Len(path))

LEMMA RestIs ==
  ASSUME NEW V, NEW path \in Seq(V), NEW m \in Nat, m = Len(path), NEW d \in Nat, d < m
  PROVE  /\ Rest(path, d) \in Seq(V) /\ Len(Rest(path, d)) = m - d
         /\ \A k \in 1 .. m - d : Rest(path, d)[k] = path[d + k]
<1>1. \A i \in d + 1 .. m : path[i] \in V
  <2>1. \A i \in 1 .. m : path[i] \in V
    BY ElementOfSeq
  <2>2. \A i \in d + 1 .. m : i \in 1 .. m
    OBVIOUS
  <2> QED
    BY <2>1, <2>2
<1>2. d + 1 \in Int /\ m \in Int
  OBVIOUS
<1>3. /\ SubSeq(path, d + 1, m) \in Seq(V)
      /\ Len(SubSeq(path, d + 1, m)) = IF d + 1 <= m THEN m - (d + 1) + 1 ELSE 0
      /\ \A k \in 1 .. m - (d + 1) + 1 : SubSeq(path, d + 1, m)[k] = path[d + 1 + k - 1]
  BY <1>1, <1>2, SubSeqProperties
<1>4. /\ d + 1 <= m /\ m - (d + 1) + 1 = m - d
      /\ \A k \in 1 .. m - d : d + 1 + k - 1 = d + k
  OBVIOUS
<1> QED
  BY <1>3, <1>4 DEF Rest

(* findSignal() goes down to the deepest scope, and on from it.             *)
Below(t, f, rest) ==
  LET top == Lookup(t.scopes[f].signalIndex, Plain(rest[1].base))
  IN IF top = NoId THEN NoId ELSE Descend(t, top, Unbased(rest))

Deepest(t, from, path, d, f) ==
  /\ d \in Nat /\ d < Len(path) /\ f = ScopeAlong(t, from, SubSeq(path, 1, d)) /\ f # NoId
  /\ \A k \in 0 .. Len(path) - 1 : d < k => ScopeAlong(t, from, SubSeq(path, 1, k)) = NoId

LEMMA UnbasedRest ==
  ASSUME NEW path \in Seq(NameSet), NEW m \in Nat, m = Len(path), NEW d \in Nat, d < m
  PROVE  /\ Unbased(Rest(path, d)) = <<Name(NoBase, path[d + 1].keys)>> \o SubSeq(path, d + 2, m)
         /\ Rest(path, d)[1] = path[d + 1]
<1>1. PICK r : r = Rest(path, d)
  OBVIOUS
<1>2. r \in Seq(NameSet) /\ Len(r) = m - d /\ \A k \in 1 .. m - d : r[k] = path[d + k]
  <2>1. /\ Rest(path, d) \in Seq(NameSet) /\ Len(Rest(path, d)) = m - d
        /\ \A k \in 1 .. m - d : Rest(path, d)[k] = path[d + k]
    BY RestIs
  <2> QED
    BY <1>1, <2>1
<1>3. PICK w \in Nat : w = m - d /\ w # 0 /\ 1 \in 1 .. w /\ d + w = m
  <2>1. m - d \in Nat /\ m - d # 0 /\ 1 \in 1 .. m - d /\ d + (m - d) = m
    OBVIOUS
  <2> QED
    BY <2>1
<1>4. r[1] = path[d + 1]
  BY <1>2, <1>3
<1>5. PICK names, tail : /\ names = [k \in 1 .. m |-> path[k]] /\ tail = SubSeq(path, d + 2, m)
  OBVIOUS
<1>6. \A k \in 1 .. m : path[k] \in NameSet
  BY ElementOfSeq
<1>7. SubSeq(r, 2, w) = tail
  <2>1. /\ SubSeq(r, 2, w) \in Seq(NameSet)
        /\ Len(SubSeq(r, 2, w)) = IF 2 <= w THEN w - 2 + 1 ELSE 0
        /\ \A k \in 1 .. w - 2 + 1 : SubSeq(r, 2, w)[k] = r[2 + k - 1]
    <3>1. \A i \in 2 .. w : r[i] \in NameSet
      <4>1. \A i \in 2 .. w : i \in 1 .. m - d /\ d + i \in 1 .. m
        BY <1>3
      <4> QED
        BY <1>2, <1>6, <4>1
    <3>2. 2 \in Int /\ w \in Int
      OBVIOUS
    <3> QED
      BY <3>1, <3>2, SubSeqProperties
  <2>2. /\ tail \in Seq(NameSet)
        /\ Len(tail) = IF d + 2 <= m THEN m - (d + 2) + 1 ELSE 0
        /\ \A k \in 1 .. m - (d + 2) + 1 : tail[k] = path[d + 2 + k - 1]
    <3>1. \A i \in d + 2 .. m : path[i] \in NameSet
      <4>1. \A i \in d + 2 .. m : i \in 1 .. m
        OBVIOUS
      <4> QED
        BY <1>6, <4>1
    <3>2. d + 2 \in Int /\ m \in Int
      OBVIOUS
    <3> QED
      BY <1>5, <3>1, <3>2, SubSeqProperties
  <2>3. PICK a \in Seq(NameSet), l \in Nat : /\ a = SubSeq(r, 2, w) /\ l = w - 1
                                             /\ Len(a) = l /\ \A k \in 1 .. l : a[k] = r[k + 1]
    <3>1. (IF 2 <= w THEN w - 2 + 1 ELSE 0) = w - 1 /\ w - 1 \in Nat
      BY <1>3
    <3>2. \A k \in 1 .. w - 1 : k \in 1 .. w - 2 + 1 /\ 2 + k - 1 = k + 1
      OBVIOUS
    <3>3. \A k \in 1 .. w - 1 : SubSeq(r, 2, w)[k] = r[k + 1]
      BY <2>1, <3>2
    <3> QED
      BY <2>1, <3>1, <3>3
  <2>4. Len(tail) = l /\ \A k \in 1 .. l : tail[k] = path[d + (k + 1)]
    <3>1. (IF d + 2 <= m THEN m - (d + 2) + 1 ELSE 0) = l
      BY <1>3, <2>3
    <3>2. \A k \in 1 .. l : k \in 1 .. m - (d + 2) + 1 /\ d + 2 + k - 1 = d + (k + 1)
      BY <1>3, <2>3
    <3>3. \A k \in 1 .. l : tail[k] = path[d + (k + 1)]
      BY <2>2, <3>2
    <3> QED
      BY <2>2, <3>1, <3>3
  <2>5. \A k \in 1 .. l : k + 1 \in 1 .. m - d
    BY <1>3, <2>3
  <2>6. \A k \in 1 .. l : a[k] = tail[k]
    BY <1>2, <2>3, <2>4, <2>5
  <2> QED
    BY <2>2, <2>3, <2>4, <2>6, SeqEqual
<1>8. Unbased(r) = <<Name(NoBase, r[1].keys)>> \o SubSeq(r, 2, w)
  BY <1>2, <1>3 DEF Unbased
<1> QED
  BY <1>1, <1>4, <1>5, <1>7, <1>8

LEMMA FindSignalIs ==
  ASSUME NEW S \in Nat, NEW N \in Nat, NEW t, WellFormed(t, S, N), NEW from \in 0 .. S - 1,
         NEW path \in Seq(NameSet), NEW m \in Nat, m = Len(path), m # 0
  PROVE  \E d \in Nat : \E f \in 0 .. S - 1 :
           /\ Deepest(t, from, path, d, f)
           /\ FindSignal(t, from, path) = IF path = EmptyPath THEN NoId ELSE Below(t, f, Rest(path, d))
<1>1. PICK g : /\ Walk(ScopeIndexes(t), 0 .. S - 1, from, path, g)
               /\ \A k \in 0 .. m : ScopeAlong(t, from, SubSeq(path, 1, k)) = g[k]
  BY ScopesAlong
<1>2. g[0] = from /\ \A k \in 0 .. m : g[k] \in 0 .. S - 1 \cup {NoId}
  BY <1>1 DEF Walk
<1> DEFINE D == {k \in Greedy(path) : ScopeAlong(t, from, SubSeq(path, 1, k)) # NoId}
<1>3. Greedy(path) = 0 .. m - 1
  BY DEF Greedy
<1>4. PICK l \in Nat : l = m - 1 /\ l + 1 = m
  BY Before
<1>5. D \in SUBSET (0 .. l) /\ 0 \in D
  <2>1. 0 \in 0 .. m /\ 0 \in 0 .. m - 1
    BY <1>4
  <2>2. from \in Nat
    OBVIOUS
  <2>3. from # NoId
    BY <2>2, Constants, Zenon
  <2> QED
    BY <1>1, <1>2, <1>3, <1>4, <2>1, <2>3
<1>6. PICK d : d = Max(D)
  OBVIOUS
<1>7. d \in D /\ \A y \in D : y <= d
  <2> HIDE DEF D
  <2> QED
    BY <1>5, <1>6, LastOf
<1>8. d \in Nat /\ d < m /\ d \in 0 .. m
  BY <1>4, <1>5, <1>7
<1>9. PICK f : f = ScopeAlong(t, from, SubSeq(path, 1, d)) /\ f # NoId /\ f \in 0 .. S - 1
  BY <1>1, <1>2, <1>7, <1>8
<1>10. Deepest(t, from, path, d, f)
  <2>1. ASSUME NEW k \in 0 .. m - 1, d < k
        PROVE  ScopeAlong(t, from, SubSeq(path, 1, k)) = NoId
    <3>1. k \notin D
      <4> HIDE DEF D
      <4> QED
        BY <1>7, <1>8, <2>1
    <3> QED
      BY <1>3, <3>1
  <2> QED
    BY <1>8, <1>9, <2>1 DEF Deepest
<1>11. FindSignal(t, from, path) = IF path = EmptyPath THEN NoId ELSE Below(t, f, Rest(path, d))
  <2>1. PICK r : r = Rest(path, d)
    OBVIOUS
  <2>2. r[1] = path[d + 1] /\ Unbased(r) = <<Name(NoBase, path[d + 1].keys)>> \o SubSeq(path, d + 2, m)
    BY <1>8, <2>1, UnbasedRest
  <2>3. PICK top : top = Lookup(t.scopes[f].signalIndex, Plain(path[d + 1].base))
    OBVIOUS
  <2>4. PICK below : below = <<Name(NoBase, path[d + 1].keys)>> \o SubSeq(path, d + 2, m)
    OBVIOUS
  <2>5. FindSignal(t, from, path) =
          IF path = EmptyPath \/ d = m \/ top = NoId THEN NoId ELSE Descend(t, top, below)
    BY <1>6, <1>9, <2>3, <2>4 DEF FindSignal
  <2>6. Below(t, f, r) = IF top = NoId THEN NoId ELSE Descend(t, top, below)
    BY <2>2, <2>3, <2>4 DEF Below
  <2>7. d # m
    BY <1>8
  <2> QED
    BY <2>1, <2>5, <2>6, <2>7
<1> QED
  BY <1>8, <1>9, <1>10, <1>11

(* The signals of a scope, of which the first of a name is found.           *)
LEMMA SignalIndexIs ==
  ASSUME NEW S \in Nat, NEW N \in Nat, NEW t, WellFormed(t, S, N), NEW f \in 0 .. S - 1
  PROVE  /\ Finds(t.scopes[f].signalIndex, NamesOf(t.nodes), SignalsOf(t, f))
         /\ SignalsOf(t, f) = {n \in 0 .. N - 1 : t.nodes[n].scope = f}
         /\ \A n \in 0 .. N - 1 : NamesOf(t.nodes)[n] = t.nodes[n].name
<1>1. DOMAIN t.nodes = 0 .. N - 1
  BY NodesRise
<1>2. ScopeRight(t, f)
  BY DEF WellFormed
<1>3. Finds(t.scopes[f].signalIndex, NamesOf(t.nodes), SignalsOf(t, f))
  BY <1>2 DEF ScopeRight
<1> QED
  BY <1>1, <1>3 DEF SignalsOf, NamesOf

LEMMA SignalHas ==
  ASSUME NEW S \in Nat, NEW N \in Nat, NEW t, WellFormed(t, S, N), NEW n \in 0 .. N - 1
  PROVE  /\ t.nodes[n].scope # NoId => t.nodes[n].scope \in 0 .. S - 1 /\ t.nodes[n].parent = NoId
         /\ t.nodes[n].parent = NoId => t.nodes[n].scope \in 0 .. S - 1 /\ t.nodes[n].scope # NoId
         /\ t.nodes[n].parent # NoId => t.nodes[n].scope = NoId /\ t.nodes[n].parent \in 0 .. n - 1
<1>1. \/ t.nodes[n].parent = NoId /\ t.nodes[n].scope \in 0 .. S - 1
      \/ t.nodes[n].parent \in 0 .. n - 1 /\ t.nodes[n].parent # NoId /\ t.nodes[n].scope = NoId
  BY ParentsRise
<1>2. \A s \in 0 .. S - 1 : s # NoId
  <2>1. \A s \in 0 .. S - 1 : s \in Nat
    OBVIOUS
  <2> QED
    BY <2>1, Constants, Zenon
<1> QED
  BY <1>1, <1>2

HasSignal(t, f, name, top) == top = Lookup(t.scopes[f].signalIndex, name) /\ top # NoId

LEMMA SignalFound ==
  ASSUME NEW S \in Nat, NEW N \in Nat, NEW t, WellFormed(t, S, N), NEW f \in 0 .. S - 1,
         NEW name, NEW top, HasSignal(t, f, name, top)
  PROVE  /\ top \in 0 .. N - 1 /\ t.nodes[top].parent = NoId /\ t.nodes[top].scope = f
         /\ t.nodes[top].name = name /\ FirstNode(t, top)
<1>1. PICK index, names, kids : /\ index = t.scopes[f].signalIndex /\ names = NamesOf(t.nodes)
                                /\ kids = SignalsOf(t, f)
  OBVIOUS
<1>2. /\ Finds(index, names, kids) /\ kids = {n \in 0 .. N - 1 : t.nodes[n].scope = f}
      /\ \A n \in 0 .. N - 1 : names[n] = t.nodes[n].name
  <2>1. /\ Finds(t.scopes[f].signalIndex, NamesOf(t.nodes), SignalsOf(t, f))
        /\ SignalsOf(t, f) = {n \in 0 .. N - 1 : t.nodes[n].scope = f}
        /\ \A n \in 0 .. N - 1 : NamesOf(t.nodes)[n] = t.nodes[n].name
    BY SignalIndexIs
  <2> QED
    BY <1>1, <2>1
<1>3. name \in DOMAIN index /\ top = index[name]
  BY <1>1 DEF Lookup, HasSignal
<1>4. PICK k \in kids : names[k] = name
  BY <1>2, <1>3 DEF Finds
<1>5. top \in kids /\ names[top] = name
  BY <1>2, <1>3, <1>4 DEF Finds
<1>6. top \in 0 .. N - 1 /\ t.nodes[top].scope = f /\ t.nodes[top].name = name
  BY <1>2, <1>5
<1>7. f # NoId
  <2>1. f \in Nat
    OBVIOUS
  <2> QED
    BY <2>1, Constants, Zenon
<1>8. t.nodes[top].parent = NoId
  BY <1>6, <1>7, SignalHas
<1>9. ASSUME NEW m \in 0 .. top - 1, t.nodes[m].scope = f, t.nodes[m].name = name
      PROVE  FALSE
  <2>1. m \in 0 .. N - 1 /\ m \in Nat /\ top \in Nat
    BY <1>6
  <2>2. m \in kids /\ names[m] = name
    BY <1>2, <1>9, <2>1
  <2>3. index[name] <= m
    BY <1>2, <2>2 DEF Finds
  <2> QED
    BY <1>3, <2>1, <2>3
<1>10. FirstNode(t, top)
  BY <1>6, <1>9 DEF FirstNode
<1> QED
  BY <1>6, <1>8, <1>10

LEMMA SignalFirst ==
  ASSUME NEW S \in Nat, NEW N \in Nat, NEW t, WellFormed(t, S, N), NEW n \in 0 .. N - 1,
         t.nodes[n].parent = NoId, FirstNode(t, n)
  PROVE  Lookup(t.scopes[t.nodes[n].scope].signalIndex, t.nodes[n].name) = n
<1>0. PICK f \in 0 .. S - 1 : f = t.nodes[n].scope
  BY SignalHas
<1>1. PICK index, names, kids, name : /\ index = t.scopes[f].signalIndex /\ names = NamesOf(t.nodes)
                                      /\ kids = SignalsOf(t, f) /\ name = t.nodes[n].name
  OBVIOUS
<1>2. /\ Finds(index, names, kids) /\ kids = {k \in 0 .. N - 1 : t.nodes[k].scope = f}
      /\ \A k \in 0 .. N - 1 : names[k] = t.nodes[k].name
  <2>1. /\ Finds(t.scopes[f].signalIndex, NamesOf(t.nodes), SignalsOf(t, f))
        /\ SignalsOf(t, f) = {k \in 0 .. N - 1 : t.nodes[k].scope = f}
        /\ \A k \in 0 .. N - 1 : NamesOf(t.nodes)[k] = t.nodes[k].name
    BY SignalIndexIs
  <2> QED
    BY <1>1, <2>1
<1>3. n \in kids /\ names[n] = name
  BY <1>0, <1>1, <1>2
<1>4. name \in DOMAIN index
  BY <1>2, <1>3 DEF Finds
<1>5. PICK top : top = index[name]
  OBVIOUS
<1>6. top \in kids /\ names[top] = name /\ top <= n
  BY <1>2, <1>3, <1>5 DEF Finds
<1>7. top \in 0 .. N - 1 /\ t.nodes[top].scope = f /\ t.nodes[top].name = name
  BY <1>2, <1>6
<1>8. t.nodes[top].parent = NoId
  <2>1. f # NoId
    <3>1. f \in Nat
      OBVIOUS
    <3> QED
      BY <3>1, Constants, Zenon
  <2> QED
    BY <1>7, <2>1, SignalHas
<1>9. top \notin 0 .. n - 1
  BY <1>0, <1>1, <1>7, <1>8 DEF FirstNode
<1>10. top = n
  BY <1>6, <1>7, <1>9
<1> QED
  BY <1>0, <1>1, <1>4, <1>5, <1>10 DEF Lookup

LEMMA MemberFirst ==
  ASSUME NEW S \in Nat, NEW N \in Nat, NEW t, WellFormed(t, S, N), NEW n \in 0 .. N - 1,
         t.nodes[n].parent # NoId
  PROVE  FirstNode(t, n) <=> FirstOf(0 .. N - 1, ParentsOf(t.nodes), NamesOf(t.nodes), n)
<1>1. DOMAIN t.nodes = 0 .. N - 1
  BY NodesRise
<1>2. \A k \in 0 .. N - 1 : ParentsOf(t.nodes)[k] = t.nodes[k].parent /\ NamesOf(t.nodes)[k] = t.nodes[k].name
  BY <1>1 DEF ParentsOf, NamesOf
<1>3. \A k \in 0 .. N - 1 : t.nodes[k].parent = t.nodes[n].parent => t.nodes[k].scope = t.nodes[n].scope
  BY SignalHas
<1>4. \A k \in 0 .. N - 1 : (k \in 0 .. n - 1 <=> ~(n <= k))
  OBVIOUS
<1>5. 0 .. n - 1 \subseteq 0 .. N - 1
  OBVIOUS
<1> QED
  BY <1>2, <1>3, <1>4, <1>5 DEF FirstNode, FirstOf

(* What is below a scope is below one of its signals, down to which and on  *)
(* from which the names are those that the path has.                        *)
Tailed(names, K) ==
  Len(names) = Len(K) + 1 /\ \A k \in 1 .. Len(K) : names[k + 1] = K[k]

LEMMA BelowBack ==
  ASSUME NEW S \in Nat, NEW N \in Nat, NEW t, WellFormed(t, S, N), NEW f \in 0 .. S - 1,
         NEW rest \in Seq(NameSet), Len(rest) # 0, NEW n, n = Below(t, f, rest), n # NoId
  PROVE  /\ n \in 0 .. N - 1 /\ TopScope(t, n) = f /\ LocalNames(t, n) \in Seq(NameSet)
         /\ LocalNames(t, n)[1] = Plain(rest[1].base)
         /\ Tailed(LocalNames(t, n), KeysOf(Unbased(rest)))
         /\ \A x \in LineOf(t.nodes, n) : FirstNode(t, x)
<1>1. PICK m \in Nat : m = Len(rest) /\ m # 0
  BY LenProperties
<1>2. PICK u \in Seq(NameSet) : u = Unbased(rest)
  BY <1>1, UnbasedIs
<1>3. PICK K \in Seq(KeyNames) : K = KeysOf(u)
  BY KeysOfType
<1>4. PICK w \in Nat : w = Len(K) /\ DOMAIN K = 1 .. w
  BY LenProperties
<1>5. PICK top : top = Lookup(t.scopes[f].signalIndex, Plain(rest[1].base))
  OBVIOUS
<1>6. top # NoId /\ n = Descend(t, top, u)
  BY <1>2, <1>5 DEF Below
<1>7. /\ top \in 0 .. N - 1 /\ t.nodes[top].parent = NoId /\ t.nodes[top].scope = f
      /\ t.nodes[top].name = Plain(rest[1].base) /\ FirstNode(t, top)
  <2>1. PICK name : name = Plain(rest[1].base)
    OBVIOUS
  <2>2. HasSignal(t, f, name, top)
    BY <1>5, <1>6, <2>1 DEF HasSignal
  <2> QED
    BY <2>1, <2>2, SignalFound
<1>8. PICK g : Walk(MemberIndexes(t), 0 .. N - 1, top, K, g) /\ Descend(t, top, u) = g[w]
  <2>1. Len(KeysOf(u)) \in Nat /\ DOMAIN KeysOf(u) = 1 .. Len(KeysOf(u))
    BY <1>3, <1>4
  <2>2. \E g : /\ Walk(MemberIndexes(t), 0 .. N - 1, top, KeysOf(u), g)
               /\ Descend(t, top, u) = g[Len(KeysOf(u))]
    BY <1>7, <2>1, MemberWalk
  <2> QED
    BY <1>3, <1>4, <2>2
<1>9. Family(MemberIndexes(t), 0 .. N - 1, ParentsOf(t.nodes), NamesOf(t.nodes))
  BY TreeFamilies
<1>10. g[w] # NoId
  BY <1>6, <1>8
<1>11. /\ \A k \in 0 .. w : g[k] \in 0 .. N - 1
       /\ \A k \in 1 .. w : /\ ParentsOf(t.nodes)[g[k]] = g[k - 1] /\ NamesOf(t.nodes)[g[k]] = K[k]
                            /\ FirstOf(0 .. N - 1, ParentsOf(t.nodes), NamesOf(t.nodes), g[k])
  BY <1>4, <1>7, <1>8, <1>9, <1>10, WalkDown
<1>12. DOMAIN t.nodes = 0 .. N - 1 /\ Parented(t.nodes, N) /\ \A x \in 0 .. N - 1 : t.nodes[x].name \in NameSet
  BY NodesRise
<1>13. g[0] = top /\ g \in [0 .. w -> 0 .. N - 1]
  <2>1. g[0] = top /\ g = [k \in 0 .. w |-> g[k]]
    BY <1>4, <1>8 DEF Walk
  <2> QED
    BY <1>11, <2>1
<1>14. Chain(ParentsOf(t.nodes), 0 .. N - 1, g, w)
  <2>1. ParentsOf(t.nodes)[g[0]] = NoId
    BY <1>7, <1>12, <1>13 DEF ParentsOf
  <2> QED
    BY <1>11, <1>13, <2>1 DEF Chain
<1>15. /\ LocalNames(t, g[w]) = ChainNames(t, g, w)
       /\ TopScope(t, g[w]) = t.nodes[g[0]].scope
  BY <1>14, NodeChain
<1>16. PICK names : names = LocalNames(t, n)
  OBVIOUS
<1>17. names \in Seq(NameSet) /\ Len(names) = w + 1
  <2>1. names = [k \in 1 .. w + 1 |-> t.nodes[g[k - 1]].name]
    BY <1>6, <1>8, <1>15, <1>16 DEF ChainNames
  <2>2. \A k \in 1 .. w + 1 : k - 1 \in 0 .. w
    OBVIOUS
  <2>3. \A k \in 1 .. w + 1 : t.nodes[g[k - 1]].name \in NameSet
    BY <1>11, <1>12, <2>2
  <2>4. names \in [1 .. w + 1 -> NameSet] /\ w + 1 \in Nat
    BY <2>1, <2>3
  <2> QED
    BY <2>4, FunctionIsSeq
<1>18. names[1] = Plain(rest[1].base)
  <2>1. 1 \in 1 .. w + 1 /\ 1 - 1 = 0
    OBVIOUS
  <2> QED
    BY <1>6, <1>7, <1>8, <1>13, <1>15, <1>16, <2>1 DEF ChainNames
<1>19. ASSUME NEW k \in 1 .. w
       PROVE  names[k + 1] = K[k]
  <2>1. k + 1 \in 1 .. w + 1 /\ (k + 1) - 1 = k /\ k \in 0 .. w
    OBVIOUS
  <2>2. names[k + 1] = t.nodes[g[k]].name
    BY <1>6, <1>8, <1>15, <1>16, <2>1 DEF ChainNames
  <2>3. g[k] \in 0 .. N - 1 /\ NamesOf(t.nodes)[g[k]] = K[k]
    BY <1>11, <2>1
  <2> QED
    BY <1>12, <2>2, <2>3 DEF NamesOf
<1>20. Tailed(names, K)
  BY <1>4, <1>17, <1>19 DEF Tailed
<1>21. LineOf(t.nodes, g[w]) = Links(g, w)
  BY <1>12, <1>14, LineOfChain
<1>22. ASSUME NEW k \in 0 .. w
       PROVE  FirstNode(t, g[k])
  <2>1. CASE k = 0
    BY <1>7, <1>13, <2>1
  <2>2. CASE k # 0
    <3>1. k \in 1 .. w /\ k - 1 \in 0 .. w
      BY <2>2
    <3>2. PICK x \in 0 .. N - 1 : x = g[k]
      BY <1>11
    <3>3. FirstOf(0 .. N - 1, ParentsOf(t.nodes), NamesOf(t.nodes), x) /\ ParentsOf(t.nodes)[x] = g[k - 1]
      BY <1>11, <3>1, <3>2
    <3>4. g[k - 1] \in Nat
      BY <1>11, <3>1
    <3>5. g[k - 1] # NoId
      BY <3>4, Constants, Zenon
    <3>6. t.nodes[x].parent # NoId
      BY <1>12, <3>3, <3>5 DEF ParentsOf
    <3> QED
      BY <3>2, <3>3, <3>6, MemberFirst
  <2> QED
    BY <2>1, <2>2
<1>23. w \in 0 .. w
  OBVIOUS
<1>24. n = g[w]
  BY <1>6, <1>8
<1>25. n \in 0 .. N - 1 /\ TopScope(t, n) = f /\ \A x \in LineOf(t.nodes, n) : FirstNode(t, x)
  BY <1>7, <1>11, <1>13, <1>15, <1>21, <1>22, <1>23, <1>24 DEF Links
<1> QED
  BY <1>2, <1>3, <1>16, <1>17, <1>18, <1>20, <1>25

Leads(t, N, n, c, m) ==
  /\ Chain(ParentsOf(t.nodes), 0 .. N - 1, c, m) /\ c[m] = n
  /\ LocalNames(t, n) = ChainNames(t, c, m) /\ TopScope(t, n) = t.nodes[c[0]].scope
  /\ LineOf(t.nodes, n) = Links(c, m)
  /\ LocalNames(t, n) \in Seq(NameSet) /\ Len(LocalNames(t, n)) = m + 1

LEMMA NodeHas ==
  ASSUME NEW S \in Nat, NEW N \in Nat, NEW t, WellFormed(t, S, N), NEW n \in 0 .. N - 1
  PROVE  \E m \in Nat : \E c : Leads(t, N, n, c, m)
<1>1. /\ DOMAIN t.nodes = 0 .. N - 1 /\ Parented(t.nodes, N)
      /\ \A x \in 0 .. N - 1 : t.nodes[x].name \in NameSet
  BY NodesRise
<1>2. Rising(ParentsOf(t.nodes), N)
  BY <1>1 DEF Rising, ParentsOf, Parented
<1>3. PICK m \in Nat : \E c : Chain(ParentsOf(t.nodes), 0 .. N - 1, c, m) /\ c[m] = n
  <2>1. PICK up : up = ParentsOf(t.nodes)
    OBVIOUS
  <2>2. \E m \in Nat : \E c : Chain(up, 0 .. N - 1, c, m) /\ c[m] = n
    BY <1>2, <2>1, ChainExists
  <2> QED
    BY <2>1, <2>2
<1>4. PICK c : Chain(ParentsOf(t.nodes), 0 .. N - 1, c, m) /\ c[m] = n
  BY <1>3
<1>5. Chain(ParentsOf(t.nodes), 0 .. N - 1, c, m)
  BY <1>4
<1>6. LocalNames(t, c[m]) = ChainNames(t, c, m) /\ TopScope(t, c[m]) = t.nodes[c[0]].scope
  BY <1>5, NodeChain
<1>7. LineOf(t.nodes, c[m]) = Links(c, m)
  BY <1>1, <1>5, LineOfChain
<1>8. ChainNames(t, c, m) \in Seq(NameSet) /\ Len(ChainNames(t, c, m)) = m + 1
  <2>1. \A k \in 1 .. m + 1 : k - 1 \in 0 .. m
    OBVIOUS
  <2>2. \A k \in 1 .. m + 1 : t.nodes[c[k - 1]].name \in NameSet
    BY <1>1, <1>5, <2>1 DEF Chain
  <2>3. ChainNames(t, c, m) \in [1 .. m + 1 -> NameSet] /\ m + 1 \in Nat
    BY <2>2 DEF ChainNames
  <2> QED
    BY <2>3, FunctionIsSeq
<1> QED
  BY <1>4, <1>6, <1>7, <1>8 DEF Leads

LEMMA NodeIs ==
  ASSUME NEW S \in Nat, NEW N \in Nat, NEW t, WellFormed(t, S, N), NEW n \in 0 .. N - 1
  PROVE  /\ LocalNames(t, n) \in Seq(NameSet) /\ Len(LocalNames(t, n)) # 0
         /\ TopScope(t, n) \in 0 .. S - 1 /\ LocalPath(t, n) \in LocalPaths
<1>1. PICK m \in Nat : \E c : Leads(t, N, n, c, m)
  BY NodeHas
<1>1a. PICK c : Leads(t, N, n, c, m)
  BY <1>1
<1>2. /\ Chain(ParentsOf(t.nodes), 0 .. N - 1, c, m) /\ TopScope(t, n) = t.nodes[c[0]].scope
      /\ LocalNames(t, n) \in Seq(NameSet) /\ Len(LocalNames(t, n)) = m + 1
  BY <1>1a DEF Leads
<1>3. DOMAIN t.nodes = 0 .. N - 1
  BY NodesRise
<1>4. c[0] \in 0 .. N - 1 /\ t.nodes[c[0]].parent = NoId
  <2>1. 0 \in 0 .. m
    OBVIOUS
  <2> QED
    BY <1>2, <1>3, <2>1 DEF Chain, ParentsOf
<1>5. TopScope(t, n) \in 0 .. S - 1
  <2>1. PICK x \in 0 .. N - 1 : x = c[0] /\ t.nodes[x].parent = NoId
    BY <1>4
  <2>2. t.nodes[x].scope \in 0 .. S - 1
    BY <2>1, SignalHas
  <2> QED
    BY <1>2, <2>1, <2>2
<1>6. LocalPath(t, n) \in LocalPaths
  <2>1. PICK names \in Seq(NameSet) : names = LocalNames(t, n)
    BY <1>2
  <2>2. PICK l \in Nat : l = Len(names)
    BY LenProperties
  <2>3. PICK g \in [0 .. l -> LocalPaths] : LocalPath(t, n) = g[l]
    BY <2>1, <2>2, LocalSteps
  <2>4. l \in 0 .. l
    OBVIOUS
  <2> QED
    BY <2>3, <2>4
<1> QED
  BY <1>2, <1>5, <1>6

(* And below its scope a node that is the first of its names is found by    *)
(* them.                                                                    *)
LEMMA BelowThere ==
  ASSUME NEW S \in Nat, NEW N \in Nat, NEW t, WellFormed(t, S, N), NEW n \in 0 .. N - 1,
         \A x \in LineOf(t.nodes, n) : FirstNode(t, x),
         NEW rest \in Seq(NameSet), Len(rest) # 0, LocalNames(t, n)[1] = Plain(rest[1].base),
         Tailed(LocalNames(t, n), KeysOf(Unbased(rest)))
  PROVE  Below(t, TopScope(t, n), rest) = n
<1>1. PICK m \in Nat : \E c : Leads(t, N, n, c, m)
  BY NodeHas
<1>1a. PICK c : Leads(t, N, n, c, m)
  BY <1>1
<1>2. /\ Chain(ParentsOf(t.nodes), 0 .. N - 1, c, m) /\ c[m] = n
       /\ LocalNames(t, n) = ChainNames(t, c, m) /\ TopScope(t, n) = t.nodes[c[0]].scope
       /\ LineOf(t.nodes, n) = Links(c, m)
       /\ LocalNames(t, n) \in Seq(NameSet) /\ Len(LocalNames(t, n)) = m + 1
  BY <1>1a DEF Leads
<1>3. DOMAIN t.nodes = 0 .. N - 1 /\ \A x \in 0 .. N - 1 : t.nodes[x].name \in NameSet
  BY NodesRise
<1>4. /\ c \in [0 .. m -> 0 .. N - 1] /\ ParentsOf(t.nodes)[c[0]] = NoId
      /\ \A k \in 1 .. m : ParentsOf(t.nodes)[c[k]] = c[k - 1]
  BY <1>2 DEF Chain
<1>5. \A k \in 0 .. m : FirstNode(t, c[k])
  BY <1>2 DEF Links
<1>6. PICK top \in 0 .. N - 1 : top = c[0] /\ t.nodes[top].parent = NoId /\ FirstNode(t, top)
  <2>1. 0 \in 0 .. m
    OBVIOUS
  <2> QED
    BY <1>3, <1>4, <1>5, <2>1 DEF ParentsOf
<1>7. LocalNames(t, n)[1] = t.nodes[top].name
  <2>1. 1 \in 1 .. m + 1 /\ 1 - 1 = 0
    OBVIOUS
  <2> QED
    BY <1>2, <1>6, <2>1 DEF ChainNames
<1>8. Lookup(t.scopes[TopScope(t, n)].signalIndex, Plain(rest[1].base)) = top
  <2>1. Lookup(t.scopes[t.nodes[top].scope].signalIndex, t.nodes[top].name) = top
    BY <1>6, SignalFirst
  <2> QED
    BY <1>2, <1>6, <1>7, <2>1
<1>9. top # NoId
  <2>1. top \in Nat
    OBVIOUS
  <2> QED
    BY <2>1, Constants, Zenon
<1>10. PICK u \in Seq(NameSet) : u = Unbased(rest)
  <2>1. PICK l \in Nat : l = Len(rest) /\ l # 0
    BY LenProperties
  <2> QED
    BY <2>1, UnbasedIs
<1>11. Below(t, TopScope(t, n), rest) = Descend(t, top, u)
  BY <1>8, <1>9, <1>10 DEF Below
<1>12. PICK K \in Seq(KeyNames) : K = KeysOf(u)
  BY KeysOfType
<1>13. Len(K) = m /\ DOMAIN K = 1 .. m /\ \A k \in 1 .. m : LocalNames(t, n)[k + 1] = K[k]
  <2>1. Len(K) \in Nat /\ DOMAIN K = 1 .. Len(K)
    BY LenProperties
  <2>2. m + 1 = Len(K) + 1 /\ \A k \in 1 .. Len(K) : LocalNames(t, n)[k + 1] = K[k]
    BY <1>2, <1>10, <1>12 DEF Tailed
  <2>3. Len(K) = m
    <3>1. PICK l \in Nat : l = Len(K)
      BY <2>1
    <3> QED
      BY <2>2, <3>1
  <2> QED
    BY <2>1, <2>2, <2>3
<1>14. PICK g : Walk(MemberIndexes(t), 0 .. N - 1, top, K, g) /\ Descend(t, top, u) = g[m]
  <2>1. Len(KeysOf(u)) \in Nat /\ DOMAIN KeysOf(u) = 1 .. Len(KeysOf(u))
    BY <1>12, <1>13
  <2>2. \E g : /\ Walk(MemberIndexes(t), 0 .. N - 1, top, KeysOf(u), g)
               /\ Descend(t, top, u) = g[Len(KeysOf(u))]
    BY <2>1, MemberWalk
  <2> QED
    BY <1>12, <1>13, <2>2
<1>15. ASSUME NEW k \in 1 .. m
       PROVE  /\ ParentsOf(t.nodes)[c[k]] = c[k - 1] /\ NamesOf(t.nodes)[c[k]] = K[k]
              /\ FirstOf(0 .. N - 1, ParentsOf(t.nodes), NamesOf(t.nodes), c[k])
  <2>1. k \in 0 .. m /\ k - 1 \in 0 .. m /\ k + 1 \in 1 .. m + 1 /\ (k + 1) - 1 = k
    OBVIOUS
  <2>2. PICK x \in 0 .. N - 1 : x = c[k]
    BY <1>4, <2>1
  <2>3. FirstNode(t, x)
    BY <1>5, <2>1, <2>2
  <2>4. t.nodes[x].parent # NoId
    <3>1. c[k - 1] \in Nat
      BY <1>4, <2>1
    <3>2. c[k - 1] # NoId
      BY <3>1, Constants, Zenon
    <3>3. ParentsOf(t.nodes)[x] = c[k - 1]
      BY <1>4, <2>2
    <3> QED
      BY <1>3, <3>2, <3>3 DEF ParentsOf
  <2>5. FirstOf(0 .. N - 1, ParentsOf(t.nodes), NamesOf(t.nodes), x)
    BY <2>3, <2>4, MemberFirst
  <2>6. NamesOf(t.nodes)[x] = K[k]
    <3>1. LocalNames(t, n)[k + 1] = t.nodes[c[k]].name
      BY <1>2, <2>1 DEF ChainNames
    <3> QED
      BY <1>3, <1>13, <2>2, <3>1 DEF NamesOf
  <2> QED
    BY <1>4, <2>2, <2>5, <2>6
<1>16. FirstChain(0 .. N - 1, ParentsOf(t.nodes), NamesOf(t.nodes), K, c, m)
  BY <1>4, <1>13, <1>15 DEF FirstChain
<1>17. Family(MemberIndexes(t), 0 .. N - 1, ParentsOf(t.nodes), NamesOf(t.nodes))
  BY TreeFamilies
<1>18. \A k \in 0 .. m : g[k] = c[k]
  <2>1. PICK up, names, I, Y : /\ up = ParentsOf(t.nodes) /\ names = NamesOf(t.nodes)
                               /\ I = MemberIndexes(t) /\ Y = 0 .. N - 1
    OBVIOUS
  <2>2. /\ Family(I, Y, up, names) /\ Walk(I, Y, top, K, g) /\ top \in Y
        /\ FirstChain(Y, up, names, K, c, m) /\ c[0] = top
    BY <1>6, <1>14, <1>16, <1>17, <2>1
  <2> QED
    BY <2>2, ChainWalks
<1>19. m \in 0 .. m
  OBVIOUS
<1> QED
  BY <1>2, <1>11, <1>14, <1>18, <1>19

(* A path that is joined of two comes apart again.                          *)
LEMMA JoinRest ==
  ASSUME NEW V, NEW a \in Seq(V), NEW b \in Seq(V), NEW d \in Nat, Len(a) = d,
         NEW w \in Nat, Len(b) = w, w # 0
  PROVE  /\ a \o b \in Seq(V) /\ Len(a \o b) = d + w
         /\ SubSeq(a \o b, 1, d) = a /\ Rest(a \o b, d) = b /\ (a \o b)[d + 1] = b[1]
<1>1. PICK path : path = a \o b
  OBVIOUS
<1>2. /\ path \in Seq(V) /\ Len(path) = d + w
      /\ \A i \in 1 .. d + w : path[i] = IF i <= d THEN a[i] ELSE b[i - d]
  BY <1>1, ConcatProperties
<1>3. SubSeq(path, 1, d) = a
  <2>1. PICK p : p = SubSeq(path, 1, d)
    OBVIOUS
  <2>2. d \in 0 .. Len(path)
    BY <1>2
  <2>3. p \in Seq(V) /\ Len(p) = d /\ \A i \in 1 .. d : p[i] = path[i]
    BY <1>2, <2>1, <2>2, Prefix
  <2>4. \A i \in 1 .. d : i \in 1 .. d + w /\ i <= d
    OBVIOUS
  <2>5. \A i \in 1 .. d : p[i] = a[i]
    BY <1>2, <2>3, <2>4
  <2>6. p = a
    BY <2>3, <2>5, SeqEqual
  <2> QED
    BY <2>1, <2>6
<1>4. Rest(path, d) = b
  <2>1. PICK p : p = Rest(path, d)
    OBVIOUS
  <2>2. PICK m \in Nat : m = d + w /\ d < m /\ m - d = w
    <3>1. d + w \in Nat /\ d < d + w /\ (d + w) - d = w
      OBVIOUS
    <3> QED
      BY <3>1
  <2>3. p \in Seq(V) /\ Len(p) = m - d /\ \A k \in 1 .. m - d : p[k] = path[d + k]
    <3>1. path \in Seq(V) /\ m = Len(path) /\ d < m
      BY <1>2, <2>2
    <3>2. /\ Rest(path, d) \in Seq(V) /\ Len(Rest(path, d)) = m - d
          /\ \A k \in 1 .. m - d : Rest(path, d)[k] = path[d + k]
      BY <3>1, RestIs
    <3> QED
      BY <2>1, <3>2
  <2>4. \A k \in 1 .. w : d + k \in 1 .. d + w /\ ~(d + k <= d) /\ (d + k) - d = k
    OBVIOUS
  <2>5. \A k \in 1 .. w : p[k] = b[k]
    BY <1>2, <2>2, <2>3, <2>4
  <2>6. p = b
    BY <2>2, <2>3, <2>5, SeqEqual
  <2> QED
    BY <2>1, <2>6
<1>5. path[d + 1] = b[1]
  <2>1. d + 1 \in 1 .. d + w /\ ~(d + 1 <= d) /\ (d + 1) - d = 1
    OBVIOUS
  <2> QED
    BY <1>2, <2>1
<1> QED
  BY <1>1, <1>2, <1>3, <1>4, <1>5

(* A walk that gets somewhere has been somewhere before.                    *)
LEMMA WalkedBefore ==
  ASSUME NEW index, NEW X, NEW from, NEW names, NEW m \in Nat, m = Len(names),
         NEW g, Walk(index, X, from, names, g), NEW k \in 0 .. m, NEW d \in k .. m, g[d] # NoId
  PROVE  g[k] # NoId
<1>1. /\ \A i \in 0 .. m : g[i] \in X \cup {NoId}
      /\ \A i \in 1 .. m : g[i] = Onward(index, g[i - 1], names[i])
  BY DEF Walk
<1>2. ASSUME g[k] = NoId
      PROVE  FALSE
  <2>1. PICK l \in Nat : l = d - k /\ k + l = d
    <3>1. d - k \in Nat /\ k + (d - k) = d
      OBVIOUS
    <3> QED
      BY <3>1
  <2> DEFINE T == {i \in 0 .. l : g[k + i] = NoId}
  <2>2. 0 \in T
    <3>1. k + 0 = k /\ 0 \in 0 .. l
      BY <2>1
    <3> QED
      BY <1>2, <3>1
  <2>3. ASSUME NEW i \in T, i < l
        PROVE  i + 1 \in T
    <3>1. PICK j \in 1 .. m : j = k + (i + 1) /\ j - 1 = k + i /\ i + 1 \in 0 .. l
      <4>1. i \in Nat /\ k + (i + 1) \in 1 .. m /\ (k + (i + 1)) - 1 = k + i /\ i + 1 \in 0 .. l
        BY <2>1, <2>3
      <4> QED
        BY <4>1
    <3>2. g[j - 1] = NoId
      BY <2>3, <3>1
    <3>3. g[j] = NoId
      BY <1>1, <3>2 DEF Onward
    <3> QED
      BY <3>1, <3>3
  <2>4. T = 0 .. l
    <3>1. T \in SUBSET (0 .. l)
      OBVIOUS
    <3> HIDE DEF T
    <3> QED
      BY <2>1, <2>2, <2>3, <3>1, UptoInduction
  <2>5. l \in T
    <3> HIDE DEF T
    <3> QED
      BY <2>1, <2>4
  <2> QED
    BY <2>1, <2>5
<1> QED
  BY <1>2

(* A path leads on to a scope if there is one of the name.                  *)
LEMMA ScopeOnward ==
  ASSUME NEW S \in Nat, NEW N \in Nat, NEW t, WellFormed(t, S, N),
         NEW path \in Seq(NameSet), NEW m \in Nat, m = Len(path),
         NEW e \in Nat, e < m, NEW s \in 0 .. S - 1, ScopeAlong(t, Root, SubSeq(path, 1, e)) = s
  PROVE  /\ path[e + 1] \in DOMAIN t.scopes[s].scopeIndex <=>
              ScopeAlong(t, Root, SubSeq(path, 1, e + 1)) # NoId
         /\ \A d \in e + 1 .. m : ScopeAlong(t, Root, SubSeq(path, 1, d)) # NoId =>
              ScopeAlong(t, Root, SubSeq(path, 1, e + 1)) # NoId
<1>1. DOMAIN t.scopes = 0 .. S - 1 /\ Root \in 0 .. S - 1
  BY ScopesRise
<1>2. PICK g : /\ Walk(ScopeIndexes(t), 0 .. S - 1, Root, path, g)
               /\ \A k \in 0 .. m : ScopeAlong(t, Root, SubSeq(path, 1, k)) = g[k]
  BY <1>1, ScopesAlong
<1>3. PICK j \in 1 .. m : j = e + 1 /\ j - 1 = e /\ j \in 0 .. m /\ e \in 0 .. m
  <2>1. e + 1 \in 1 .. m /\ (e + 1) - 1 = e /\ e + 1 \in 0 .. m /\ e \in 0 .. m
    OBVIOUS
  <2> QED
    BY <2>1
<1>4. g[e] = s /\ s # NoId
  <2>1. s \in Nat
    OBVIOUS
  <2>2. s # NoId
    BY <2>1, Constants, Zenon
  <2> QED
    BY <1>2, <1>3, <2>2
<1>5. ScopeIndexes(t)[s] = t.scopes[s].scopeIndex
  BY <1>1 DEF ScopeIndexes
<1>6. g[j] = Lookup(t.scopes[s].scopeIndex, path[j])
  <2>1. g[j] = Onward(ScopeIndexes(t), g[j - 1], path[j])
    BY <1>2 DEF Walk
  <2> QED
    BY <1>3, <1>4, <1>5, <2>1 DEF Onward
<1>7. path[j] \in DOMAIN t.scopes[s].scopeIndex => g[j] # NoId
  <2>1. ASSUME path[j] \in DOMAIN t.scopes[s].scopeIndex
        PROVE  g[j] \in Nat
    <3>1. Closed(ScopeIndexes(t), 0 .. S - 1)
      BY TreeClosed
    <3>2. g[j] \in 0 .. S - 1
      BY <1>5, <1>6, <2>1, <3>1 DEF Closed, Lookup
    <3> QED
      BY <3>2
  <2>2. ASSUME g[j] \in Nat
        PROVE  g[j] # NoId
    BY <2>2, Constants, Zenon
  <2> QED
    BY <2>1, <2>2
<1>8. path[j] \in DOMAIN t.scopes[s].scopeIndex <=> g[j] # NoId
  BY <1>6, <1>7 DEF Lookup
<1>9. ASSUME NEW d \in j .. m, g[d] # NoId
      PROVE  g[j] # NoId
  <2>1. PICK I, Y : I = ScopeIndexes(t) /\ Y = 0 .. S - 1
    OBVIOUS
  <2>2. Walk(I, Y, Root, path, g)
    BY <1>2, <2>1
  <2>3. j \in 0 .. m /\ d \in j .. m
    BY <1>3
  <2> QED
    BY <1>9, <2>2, <2>3, WalkedBefore
<1>10. \A d \in j .. m : d \in 0 .. m
  BY <1>3
<1> QED
  BY <1>2, <1>3, <1>8, <1>9, <1>10

(* A scope without a name leaves nothing in the path of its nodes.          *)
Unnamed(t, s) == s # Root /\ ScopeNames(t, s) = EmptyPath

LEMMA PathForms ==
  ASSUME NEW S \in Nat, NEW N \in Nat, NEW t, WellFormed(t, S, N), NEW n \in 0 .. N - 1
  PROVE  /\ ScopeNames(t, TopScope(t, n)) \in Seq(NameSet)
         /\ Unnamed(t, TopScope(t, n)) => PathOfNode(t, n) = LocalPath(t, n)
         /\ ~Unnamed(t, TopScope(t, n)) =>
              PathOfNode(t, n) = ScopeNames(t, TopScope(t, n)) \o LocalPath(t, n)
         /\ PathOfNode(t, n) \in Seq(NameSet) /\ Len(PathOfNode(t, n)) # 0
<1>1. PICK s \in 0 .. S - 1, p \in LocalPaths : s = TopScope(t, n) /\ p = LocalPath(t, n)
  BY NodeIs
<1>2. PICK above \in Seq(NameSet) : above = ScopeNames(t, s) /\ (s = Root <=> above = <<>>)
  BY ScopeThere
<1>3. p \in Seq(NameSet) /\ Len(p) # 0
  BY DEF LocalPaths
<1>4. PathOfNode(t, n) = Joined(PathOfScope(t, s), p)
  BY <1>1 DEF PathOfNode
<1>5. CASE s = Root
  <2>1. PathOfNode(t, n) = p
    BY <1>4, <1>5 DEF PathOfScope, Joined
  <2>2. above \o p = p
    BY <1>2, <1>3, <1>5, ConcatEmptySeq
  <2> QED
    BY <1>1, <1>2, <1>3, <1>5, <2>1, <2>2 DEF Unnamed
<1>6. CASE s # Root /\ above = EmptyPath
  <2>1. PathOfNode(t, n) = p
    BY <1>2, <1>4, <1>6 DEF PathOfScope, Joined
  <2> QED
    BY <1>1, <1>2, <1>3, <1>6, <2>1 DEF Unnamed
<1>7. CASE s # Root /\ above # EmptyPath
  <2>1. PathOfNode(t, n) = above \o p
    BY <1>2, <1>4, <1>7 DEF PathOfScope, Joined
  <2>2. above \o p \in Seq(NameSet) /\ Len(above \o p) # 0
    <3>1. /\ above \o p \in Seq(NameSet) /\ Len(above \o p) = Len(above) + Len(p)
          /\ Len(above) \in Nat /\ Len(p) \in Nat
      BY <1>3, ConcatProperties, LenProperties
    <3> QED
      BY <1>3, <3>1
  <2> QED
    BY <1>1, <1>2, <1>7, <2>1, <2>2 DEF Unnamed
<1> QED
  BY <1>5, <1>6, <1>7

(* A node that its path finds can be named.                                 *)
LEMMA NodeBack ==
  ASSUME NEW S \in Nat, NEW N \in Nat, NEW t, WellFormed(t, S, N), NEW n \in 0 .. N - 1,
         FindSignal(t, Root, PathOfNode(t, n)) = n
  PROVE  NodeNamed(t, n)
<1>1. PICK s \in 0 .. S - 1, p \in LocalPaths, names \in Seq(NameSet) :
        s = TopScope(t, n) /\ p = LocalPath(t, n) /\ names = LocalNames(t, n)
  BY NodeIs
<1>2. PICK above \in Seq(NameSet) : above = ScopeNames(t, s) /\ (s = Root <=> above = <<>>)
  BY ScopeThere
<1>3. PICK path \in Seq(NameSet) : /\ path = PathOfNode(t, n) /\ Len(path) # 0
                                   /\ Unnamed(t, s) => path = p
                                   /\ ~Unnamed(t, s) => path = above \o p
  <2>1. PathOfNode(t, n) \in Seq(NameSet) /\ Len(PathOfNode(t, n)) # 0
    BY PathForms
  <2>2. Unnamed(t, TopScope(t, n)) => PathOfNode(t, n) = LocalPath(t, n)
    BY PathForms
  <2>3. ~Unnamed(t, TopScope(t, n)) =>
          PathOfNode(t, n) = ScopeNames(t, TopScope(t, n)) \o LocalPath(t, n)
    BY PathForms
  <2> QED
    BY <1>1, <1>2, <2>1, <2>2, <2>3
<1>4. PICK m \in Nat : m = Len(path) /\ m # 0
  BY <1>3, LenProperties
<1>5. n # NoId
  <2>1. n \in Nat
    OBVIOUS
  <2> QED
    BY <2>1, Constants, Zenon
<1>6. Root \in 0 .. S - 1
  BY ScopesRise
<1>7. PICK d \in Nat : \E f \in 0 .. S - 1 :
        /\ Deepest(t, Root, path, d, f)
        /\ FindSignal(t, Root, path) = IF path = EmptyPath THEN NoId ELSE Below(t, f, Rest(path, d))
  BY <1>4, <1>6, FindSignalIs
<1>8. PICK f \in 0 .. S - 1 : /\ Deepest(t, Root, path, d, f)
                              /\ path # EmptyPath /\ n = Below(t, f, Rest(path, d))
  BY <1>3, <1>5, <1>7
<1>9. /\ d < m /\ f = ScopeAlong(t, Root, SubSeq(path, 1, d)) /\ f # NoId
      /\ \A k \in 0 .. m - 1 : d < k => ScopeAlong(t, Root, SubSeq(path, 1, k)) = NoId
  BY <1>4, <1>8 DEF Deepest
<1>10. PICK rest \in Seq(NameSet) : rest = Rest(path, d) /\ Len(rest) # 0
  <2>1. Rest(path, d) \in Seq(NameSet) /\ Len(Rest(path, d)) = m - d
    BY <1>4, <1>9, RestIs
  <2> QED
    BY <1>9, <2>1
<1>11. /\ TopScope(t, n) = f /\ LocalNames(t, n)[1] = Plain(rest[1].base)
       /\ Tailed(LocalNames(t, n), KeysOf(Unbased(rest)))
       /\ \A x \in LineOf(t.nodes, n) : FirstNode(t, x)
  BY <1>5, <1>8, <1>10, BelowBack
<1>12. PICK front \in Seq(NameSet) : front = SubSeq(path, 1, d) /\ Len(front) = d
  <2>1. d \in 0 .. Len(path)
    BY <1>4, <1>9
  <2>2. SubSeq(path, 1, d) \in Seq(NameSet) /\ Len(SubSeq(path, 1, d)) = d
    BY <2>1, Prefix
  <2> QED
    BY <2>2
<1>13. s = f /\ above = front /\ \A r \in LineOf(t.scopes, s) : FirstScope(t, r)
  <2>1. ScopeAlong(t, Root, front) # NoId
    BY <1>9, <1>12
  <2>2. /\ ScopeNames(t, ScopeAlong(t, Root, front)) = front
        /\ \A r \in LineOf(t.scopes, ScopeAlong(t, Root, front)) : FirstScope(t, r)
    BY <2>1, ScopeBack
  <2> QED
    BY <1>1, <1>2, <1>9, <1>11, <1>12, <2>2
<1>14. ~Unnamed(t, s)
  <2>1. SUFFICES ASSUME Unnamed(t, s)
                 PROVE  FALSE
    OBVIOUS
  <2>2. path = p /\ above = EmptyPath
    BY <1>2, <1>3, <2>1 DEF Unnamed
  <2>3. Len(front) = 1 /\ front[1] = Empty
    BY <1>13, <2>2, EmptyIs
  <2>4. d = 1 /\ 1 \in 1 .. d
    BY <1>12, <2>3
  <2>5. front[1] = path[1]
    <3>1. d \in 0 .. Len(path)
      BY <1>4, <1>9
    <3>2. \A i \in 1 .. d : SubSeq(path, 1, d)[i] = path[i]
      BY <3>1, Prefix
    <3> QED
      BY <1>12, <2>4, <3>2
  <2> QED
    BY <1>8, <2>2, <2>3, <2>5 DEF LocalPaths
<1>15. ScopeNamed(t, s)
  <2>1. s # Root => PathOfScope(t, s) # EmptyPath
    BY <1>2, <1>14 DEF Unnamed, PathOfScope
  <2> QED
    BY <1>13, <2>1 DEF ScopeNamed
<1>16. PICK w \in Nat : w = Len(p) /\ w # 0 /\ p \in Seq(NameSet)
  BY LenProperties DEF LocalPaths
<1>17. rest = p /\ m = d + w /\ path[d + 1] = p[1]
  <2>1. path = above \o p /\ Len(above) = d
    BY <1>3, <1>12, <1>13, <1>14
  <2>2. Len(p) = w /\ w # 0 /\ p \in Seq(NameSet)
    BY <1>16
  <2>3. Len(above \o p) = d + w /\ Rest(above \o p, d) = p /\ (above \o p)[d + 1] = p[1]
    BY <2>1, <2>2, JoinRest, SMTT(30)
  <2> QED
    BY <1>4, <1>10, <2>1, <2>3
<1>18. PICK u \in Seq(NameSet) : u = Unbased(p) /\ Len(u) = w /\ u[1] = Name(NoBase, p[1].keys)
  BY <1>16, UnbasedIs
<1>19. PICK K \in Seq(KeyNames) : K = KeysOf(u)
  BY KeysOfType
<1>20. names[1] = Plain(p[1].base) /\ Tailed(names, K)
  BY <1>1, <1>11, <1>17, <1>18, <1>19
<1>21. PICK l \in Nat : l = Len(K) /\ Len(names) = l + 1 /\ \A k \in 1 .. l : names[k + 1] = K[k]
  BY <1>20, LenProperties DEF Tailed
<1>22. names[1].keys = <<>> /\ names[1].base = p[1].base
  BY <1>20 DEF Plain, Name
<1>23. ASSUME NEW k \in 2 .. Len(names)
       PROVE  Keys(names[k]) = <<names[k]>>
  <2>1. PICK j \in 1 .. l : j = k - 1 /\ j + 1 = k
    <3>1. k - 1 \in 1 .. l /\ (k - 1) + 1 = k
      BY <1>21
    <3> QED
      BY <3>1
  <2>2. PICK key \in KeyNames : key = K[j]
    BY <1>21, <2>1, ElementOfSeq
  <2>3. names[k] = key
    BY <1>21, <2>1, <2>2
  <2> QED
    BY <2>3, KeyIsItsKeys
<1>24. ASSUME names[1] = Empty
       PROVE  IF Len(names) = 1 THEN s # Root ELSE IsElement(names[2])
  <2>1. CASE p = EmptyPath
    <3>1. K = <<>>
      BY <1>18, <1>19, <2>1, KeysOfEmpty
    <3>2. Len(K) = 0
      BY <3>1, EmptySeq
    <3>3. Len(names) = 1
      BY <1>21, <3>2
    <3>4. s # Root
      <4>1. ASSUME s = Root
            PROVE  FALSE
        <5>1. above \o p = p
          BY <1>2, <1>16, <4>1, ConcatEmptySeq
        <5> QED
          BY <1>3, <1>8, <1>14, <2>1, <5>1
      <4> QED
        BY <4>1
    <3> QED
      BY <3>3, <3>4
  <2>2. CASE p # EmptyPath
    <3>1. PICK e \in NameSet : e = p[1] /\ e # Empty
      <4>1. 1 \in 1 .. w
        BY <1>16
      <4>2. p[1] \in NameSet
        BY <1>16, <4>1, ElementOfSeq
      <4> QED
        BY <2>2, <4>2 DEF LocalPaths
    <3>2. e.base = NoBase
      BY <1>22, <1>24, <3>1, EmptyIs
    <3>3. e = Name(NoBase, e.keys)
      BY <3>2, NameIs
    <3>4. e.keys # <<>>
      BY <3>1, <3>3, KeysOfEmpty
    <3>5. u[1] = e /\ IsElement(u[1]) /\ Len(u) # 0
      BY <1>16, <1>18, <3>1, <3>2, <3>3, <3>4 DEF IsElement
    <3>6. Len(K) # 0 /\ IsElement(K[1])
      BY <1>19, <3>5, KeysOfStart
    <3>7. 1 \in 1 .. l /\ 1 + 1 = 2 /\ l + 1 # 1
      BY <1>21, <3>6
    <3>8. names[2] = K[1] /\ Len(names) # 1
      BY <1>21, <3>7
    <3> QED
      BY <3>6, <3>8
  <2> QED
    BY <2>1, <2>2
<1>25. ASSUME Len(p) > 1, Shadowed(t, n)
       PROVE  FALSE
  <2>1. p[1] \in DOMAIN t.scopes[s].scopeIndex
    BY <1>1, <1>25 DEF Shadowed
  <2>2. path[d + 1] \in DOMAIN t.scopes[s].scopeIndex
    BY <1>17, <2>1
  <2>3. ScopeAlong(t, Root, SubSeq(path, 1, d)) = s
    BY <1>9, <1>13
  <2>4. ScopeAlong(t, Root, SubSeq(path, 1, d + 1)) # NoId
    BY <1>4, <1>9, <2>2, <2>3, ScopeOnward
  <2>5. d + 1 \in 0 .. m - 1 /\ d < d + 1
    BY <1>16, <1>17, <1>25
  <2> QED
    BY <1>9, <2>4, <2>5
<1> QED
  BY <1>1, <1>11, <1>15, <1>22, <1>23, <1>24, <1>25 DEF NodeNamed

(* And a node that can be named is found by its path.                       *)
LEMMA NodeThere ==
  ASSUME NEW S \in Nat, NEW N \in Nat, NEW t, WellFormed(t, S, N), NEW n \in 0 .. N - 1,
         NodeNamed(t, n)
  PROVE  FindSignal(t, Root, PathOfNode(t, n)) = n
<1>1. PICK s \in 0 .. S - 1, p \in LocalPaths, names \in Seq(NameSet) :
        s = TopScope(t, n) /\ p = LocalPath(t, n) /\ names = LocalNames(t, n) /\ Len(names) # 0
  BY NodeIs
<1>2. /\ ScopeNamed(t, s) /\ \A x \in LineOf(t.nodes, n) : FirstNode(t, x)
      /\ names[1].keys = <<>> /\ \A k \in 2 .. Len(names) : Keys(names[k]) = <<names[k]>>
      /\ names[1] = Empty => IF Len(names) = 1 THEN s # Root ELSE IsElement(names[2])
      /\ Len(p) > 1 => ~Shadowed(t, n)
  BY <1>1 DEF NodeNamed
<1>3. PICK above \in Seq(NameSet) :
        /\ above = ScopeNames(t, s) /\ (s = Root <=> above = <<>>)
        /\ (\A r \in LineOf(t.scopes, s) : FirstScope(t, r)) => ScopeAlong(t, Root, above) = s
  BY ScopeThere
<1>4. ScopeAlong(t, Root, above) = s
  BY <1>2, <1>3 DEF ScopeNamed
<1>5. ~Unnamed(t, s)
  BY <1>2 DEF ScopeNamed, Unnamed, PathOfScope
<1>6. PathOfNode(t, n) = above \o p
  BY <1>1, <1>3, <1>5, PathForms
<1>7. PICK w \in Nat : Len(p) = w /\ w # 0 /\ p \in Seq(NameSet)
  BY LenProperties DEF LocalPaths
<1>8. PICK e \in Nat : Len(above) = e
  BY LenProperties
<1>9. PICK path \in Seq(NameSet) : /\ path = above \o p /\ Len(path) = e + w
                                   /\ SubSeq(path, 1, e) = above /\ Rest(path, e) = p /\ path[e + 1] = p[1]
  <2>1. Len(p) = w /\ w # 0 /\ p \in Seq(NameSet) /\ Len(above) = e
    BY <1>7, <1>8
  <2>2. Rest(above \o p, e) = p /\ (above \o p)[e + 1] = p[1]
    BY <2>1, JoinRest, SMTT(30)
  <2>3. SubSeq(above \o p, 1, e) = above
    BY <2>1, JoinRest
  <2>4. above \o p \in Seq(NameSet) /\ Len(above \o p) = e + w
    BY <2>1, JoinRest
  <2> QED
    BY <2>2, <2>3, <2>4
<1>10. PICK m \in Nat : m = e + w /\ Len(path) = m /\ m # 0 /\ e < m
  <2>1. e + w \in Nat /\ e + w # 0 /\ e < e + w
    BY <1>7
  <2> QED
    BY <1>9, <2>1
<1>11. PICK l \in Nat : Len(names) = l /\ l # 0
  BY <1>1, LenProperties
<1>12. Kept(p, names, l)
  <2>1. NamesApart(names)
    BY <1>2 DEF NamesApart, IsKey
  <2>2. l = Len(names)
    BY <1>11
  <2> QED
    BY <1>1, <1>11, <2>1, <2>2, LocalKept
<1>13. PICK K \in Seq(KeyNames) :
         /\ K = KeysOf(Unbased(p)) /\ p[1].base = names[1].base
         /\ Len(K) = l - 1 /\ \A k \in 2 .. l : K[k - 1] = names[k]
  <2>1. PICK u : u = Unbased(p)
    OBVIOUS
  <2>2. u \in Seq(NameSet)
    <3>1. w = Len(p)
      BY <1>7
    <3> QED
      BY <1>7, <2>1, <3>1, UnbasedIs
  <2>3. KeysOf(u) \in Seq(KeyNames)
    BY <2>2, KeysOfType
  <2> QED
    BY <1>12, <2>1, <2>3 DEF Kept
<1>14. PICK name \in NameSet : name = names[1] /\ name.keys = <<>> /\ name = Plain(p[1].base)
  <2>1. 1 \in 1 .. Len(names)
    BY <1>11
  <2>2. names[1] \in NameSet
    BY <2>1, ElementOfSeq
  <2>3. PICK name \in NameSet : name = names[1]
    BY <2>2
  <2>4. name.keys = <<>> /\ name.base = p[1].base
    BY <1>2, <1>13, <2>3
  <2>5. name = Name(name.base, name.keys)
    BY NameIs
  <2>6. name = Plain(p[1].base)
    BY <2>4, <2>5 DEF Plain
  <2> QED
    BY <2>3, <2>4, <2>6
<1>15. path # EmptyPath
  <2>1. SUFFICES ASSUME path = EmptyPath
                 PROVE  FALSE
    OBVIOUS
  <2>2. Len(path) = 1 /\ path[1] = Empty
    BY <2>1, EmptyIs
  <2>3. e = 0
    BY <1>7, <1>9, <2>2
  <2>4. s = Root /\ p = EmptyPath
    <3>1. above = <<>>
      BY <1>8, <2>3, EmptySeq
    <3>2. above \o p = p
      BY <1>7, <3>1, ConcatEmptySeq
    <3> QED
      BY <1>3, <1>9, <2>1, <3>1, <3>2
  <2>5. K = <<>>
    BY <1>13, <2>4, KeysOfEmpty
  <2>6. l = 1
    <3>1. Len(K) = 0
      BY <2>5, EmptySeq
    <3>2. l - 1 = 0
      BY <1>13, <3>1
    <3> QED
      BY <3>2
  <2>7. names[1] = Empty
    <3>1. p[1] = Empty
      BY <2>4, EmptyIs
    <3>2. name = Plain(NoBase)
      BY <1>14, <3>1, EmptyIs
    <3> QED
      BY <1>14, <3>2 DEF Empty
  <2> QED
    BY <1>2, <1>11, <2>4, <2>6, <2>7
<1>16. Root \in 0 .. S - 1
  BY ScopesRise
<1>17. PICK d \in Nat : \E f \in 0 .. S - 1 :
        /\ Deepest(t, Root, path, d, f)
        /\ FindSignal(t, Root, path) = IF path = EmptyPath THEN NoId ELSE Below(t, f, Rest(path, d))
  <2>1. PICK q \in Nat : q = Len(path) /\ q # 0
    BY <1>10
  <2> QED
    BY <1>16, <2>1, FindSignalIs, SMTT(30)
<1>18. PICK f \in 0 .. S - 1 : /\ Deepest(t, Root, path, d, f)
                               /\ FindSignal(t, Root, path) = Below(t, f, Rest(path, d))
  BY <1>15, <1>17
<1>19. /\ d < m /\ f = ScopeAlong(t, Root, SubSeq(path, 1, d)) /\ f # NoId
       /\ \A k \in 0 .. m - 1 : d < k => ScopeAlong(t, Root, SubSeq(path, 1, k)) = NoId
  BY <1>10, <1>18 DEF Deepest
<1>20. ScopeAlong(t, Root, SubSeq(path, 1, e)) = s /\ s # NoId
  <2>1. s \in Nat
    OBVIOUS
  <2>2. s # NoId
    BY <2>1, Constants, Zenon
  <2> QED
    BY <1>4, <1>9, <2>2
<1>21. d = e
  <2>1. ~(d < e)
    <3>1. e \in 0 .. m - 1
      BY <1>10
    <3> QED
      BY <1>19, <1>20, <3>1
  <2>2. ASSUME e < d
        PROVE  FALSE
    <3>1. d \in e + 1 .. m /\ e + 1 < m
      BY <1>10, <1>19, <2>2
    <3>2. m = Len(path)
      BY <1>10
    <3>3. path[e + 1] \in DOMAIN t.scopes[s].scopeIndex
      <4>1. /\ path[e + 1] \in DOMAIN t.scopes[s].scopeIndex <=>
                 ScopeAlong(t, Root, SubSeq(path, 1, e + 1)) # NoId
            /\ \A k \in e + 1 .. m : ScopeAlong(t, Root, SubSeq(path, 1, k)) # NoId =>
                 ScopeAlong(t, Root, SubSeq(path, 1, e + 1)) # NoId
        BY <1>10, <1>20, <3>2, ScopeOnward
      <4> QED
        BY <1>19, <3>1, <4>1
    <3>4. Shadowed(t, n)
      BY <1>1, <1>9, <3>3 DEF Shadowed
    <3>5. Len(p) > 1
      BY <1>7, <1>10, <3>1
    <3> QED
      BY <1>2, <3>4, <3>5
  <2> QED
    BY <2>1, <2>2
<1>22. f = s /\ Rest(path, d) = p
  BY <1>9, <1>19, <1>20, <1>21
<1>23. Tailed(names, K)
  <2>1. Len(names) = Len(K) + 1
    BY <1>11, <1>13
  <2>2. ASSUME NEW k \in 1 .. Len(K)
        PROVE  names[k + 1] = K[k]
    <3>1. k + 1 \in 2 .. l /\ (k + 1) - 1 = k
      BY <1>11, <1>13
    <3>2. K[(k + 1) - 1] = names[k + 1]
      BY <1>13, <3>1
    <3> QED
      BY <3>1, <3>2
  <2> QED
    BY <2>1, <2>2 DEF Tailed
<1>24. Below(t, TopScope(t, n), p) = n
  <2>1. LocalNames(t, n)[1] = Plain(p[1].base) /\ Tailed(LocalNames(t, n), KeysOf(Unbased(p)))
    BY <1>1, <1>13, <1>14, <1>23
  <2>2. Len(p) # 0
    BY <1>7
  <2> QED
    BY <1>2, <1>7, <2>1, <2>2, BelowThere
<1> QED
  BY <1>1, <1>6, <1>9, <1>18, <1>22, <1>24

(* A lookup gives a node of the tree or none.                               *)
LEMMA FoundType ==
  ASSUME NEW S \in Nat, NEW N \in Nat, NEW t, WellFormed(t, S, N), NEW from \in 0 .. S - 1,
         NEW path \in Seq(NameSet), path # <<>>
  PROVE  FindSignal(t, from, path) \in 0 .. N - 1 \cup {NoId}
<1>1. PICK m \in Nat : m = Len(path) /\ m # 0
  BY LenProperties, EmptySeq
<1>2. PICK d \in Nat : \E f \in 0 .. S - 1 :
        /\ Deepest(t, from, path, d, f)
        /\ FindSignal(t, from, path) = IF path = EmptyPath THEN NoId ELSE Below(t, f, Rest(path, d))
  BY <1>1, FindSignalIs
<1>3. PICK f \in 0 .. S - 1 :
        /\ Deepest(t, from, path, d, f)
        /\ FindSignal(t, from, path) = IF path = EmptyPath THEN NoId ELSE Below(t, f, Rest(path, d))
  BY <1>2
<1>4. d < m
  BY <1>1, <1>3 DEF Deepest
<1>5. PICK rest \in Seq(NameSet) : rest = Rest(path, d) /\ Len(rest) # 0
  <2>1. Rest(path, d) \in Seq(NameSet) /\ Len(Rest(path, d)) = m - d
    BY <1>1, <1>4, RestIs
  <2> QED
    BY <1>4, <2>1
<1>6. PICK n : n = Below(t, f, rest)
  OBVIOUS
<1>7. n # NoId => n \in 0 .. N - 1
  BY <1>5, <1>6, BelowBack
<1> QED
  BY <1>3, <1>5, <1>6, <1>7

(* The indices being right, the tree is one.                                *)
LEMMA TreeIs ==
  ASSUME NEW S \in Nat, NEW N \in Nat, NEW t, WellFormed(t, S, N)
  PROVE  /\ IsTree(t)
         /\ DOMAIN t.scopes = 0 .. Cardinality(DOMAIN t.scopes) - 1
         /\ DOMAIN t.nodes = 0 .. Cardinality(DOMAIN t.nodes) - 1
<1>1. DOMAIN t.scopes = 0 .. S - 1 /\ DOMAIN t.nodes = 0 .. N - 1
  BY ScopesRise, NodesRise
<1>2. Cardinality(0 .. S - 1) = S /\ Cardinality(0 .. N - 1) = N
  BY UpperSize
<1>3. ASSUME NEW s \in 0 .. S - 1
      PROVE  LET scope == t.scopes[s]
             IN /\ IF s = Root THEN scope.parent = NoId ELSE scope.parent \in 0 .. s - 1
                /\ scope.kind \in ScopeKinds
                /\ Lists(t.scopes, scope.childScopes, s)
                /\ Ordered(scope.signals)
                /\ ToSet(scope.signals) = {n \in DOMAIN t.nodes : t.nodes[n].scope = s}
  <2>1. ScopeRight(t, s)
    BY DEF WellFormed
  <2>2. t.scopes[s].kind \in ScopeKinds
    <3>1. t.scopes[s] \in ScopeRec
      BY DEF WellFormed
    <3> QED
      BY <3>1 DEF ScopeRec
  <2>3. IF s = Root THEN t.scopes[s].parent = NoId ELSE t.scopes[s].parent \in 0 .. s - 1
    BY <2>1 DEF ScopeRight
  <2>4. Lists(t.scopes, t.scopes[s].childScopes, s)
    BY <2>1 DEF ScopeRight, Line, Lists, Kids
  <2>5. Ordered(t.scopes[s].signals) /\ ToSet(t.scopes[s].signals) = {n \in DOMAIN t.nodes : t.nodes[n].scope = s}
    BY <2>1 DEF ScopeRight, Line, SignalsOf
  <2> QED
    BY <2>2, <2>3, <2>4, <2>5
<1>4. ASSUME NEW n \in 0 .. N - 1
      PROVE  LET node == t.nodes[n]
             IN /\ \/ node.parent = NoId /\ node.scope \in DOMAIN t.scopes
                   \/ node.parent \in 0 .. n - 1 /\ node.scope = NoId
                /\ Lists(t.nodes, node.children, n)
  <2>1. NodeRight(t, n)
    BY DEF WellFormed
  <2>2. Lists(t.nodes, t.nodes[n].children, n)
    BY <2>1 DEF NodeRight, Line, Lists, Kids
  <2>3. \/ t.nodes[n].parent = NoId /\ t.nodes[n].scope \in DOMAIN t.scopes
        \/ t.nodes[n].parent \in 0 .. n - 1 /\ t.nodes[n].scope = NoId
    BY <2>1 DEF NodeRight
  <2> QED
    BY <2>2, <2>3
<1>5. IsTree(t)
  BY <1>1, <1>3, <1>4 DEF IsTree
<1> QED
  BY <1>1, <1>2, <1>5

LEMMA PathsFollow ==
  ASSUME IndexesRight
  PROVE  PathsExact
<1>1. PICK S \in Nat : \E N \in Nat : WellFormed(tree, S, N)
  BY DEF IndexesRight
<1>2. PICK N \in Nat : WellFormed(tree, S, N)
  BY <1>1
<1>3. DOMAIN tree.scopes = 0 .. S - 1 /\ DOMAIN tree.nodes = 0 .. N - 1 /\ Root \in 0 .. S - 1
  BY <1>2, ScopesRise, NodesRise
<1>4. ASSUME NEW s \in 0 .. S - 1, NEW path \in Paths
      PROVE  FindSignal(tree, s, path) \in 0 .. N - 1 \cup {NoId}
  <2>1. path \in Seq(NameSet) /\ path # <<>>
    BY HierarchyAssumption DEF NameSet
  <2> QED
    BY <1>2, <2>1, FoundType
<1>5. TypeOK
  BY <1>2, <1>3, <1>4, TreeIs DEF TypeOK
<1>6. ASSUME NEW n \in 0 .. N - 1
      PROVE  FindSignal(tree, Root, PathOfNode(tree, n)) = n <=> NodeNamed(tree, n)
  BY <1>2, NodeBack, NodeThere
<1>7. ASSUME NEW s \in 0 .. S - 1
      PROVE  FindScope(tree, Root, PathOfScope(tree, s)) = s <=> ScopeNamed(tree, s)
  BY <1>2, ScopePaths
<1>8. PathsReversible
  BY <1>3, <1>6, <1>7 DEF PathsReversible
<1> QED
  BY <1>5, <1>8 DEF PathsExact

(* A node is found by the path that pathOf() gives it exactly when a path   *)
(* can name it, and so is a scope, in any tree that can be built; the tree  *)
(* is one, and a lookup stays in it.                                        *)
THEOREM PathsCorrect == Spec => []PathsExact
<1>1. Init => IndexesRight
  <2>1. WellFormed(NewTree, 1, 0) /\ 1 \in Nat /\ 0 \in Nat
    BY NewRight
  <2> QED
    BY <2>1 DEF Init, IndexesRight
<1>2. IndexesRight /\ [Next]_tree => IndexesRight'
  BY StepRight
<1>3. IndexesRight => PathsExact
  BY PathsFollow
<1> QED
  BY <1>1, <1>2, <1>3, PTL DEF Spec

(* Two sequences joined, and the end and the start of one, element by      *)
(* element.                                                                 *)
JoinOf(c, V, a, e, b, m) ==
  /\ c \in Seq(V) /\ Len(c) = e + m
  /\ \A i \in 1 .. e + m : c[i] = IF i <= e THEN a[i] ELSE b[i - e]

LEMMA JoinIs ==
  ASSUME NEW V, NEW a \in Seq(V), NEW b \in Seq(V),
         NEW e \in Nat, Len(a) = e, NEW m \in Nat, Len(b) = m
  PROVE  JoinOf(a \o b, V, a, e, b, m)
<1>1. /\ a \o b \in Seq(V) /\ Len(a \o b) = Len(a) + Len(b)
      /\ \A i \in 1 .. Len(a) + Len(b) : (a \o b)[i] = IF i <= Len(a) THEN a[i] ELSE b[i - Len(a)]
  BY ConcatProperties
<1> QED
  BY <1>1 DEF JoinOf

RestOf(r, V, path, m, d) ==
  /\ r \in Seq(V) /\ Len(r) = m - d
  /\ \A k \in 1 .. m - d : r[k] = path[d + k]

LEMMA RestForm ==
  ASSUME NEW V, NEW path \in Seq(V), NEW m \in Nat, Len(path) = m, NEW d \in Nat, d < m
  PROVE  RestOf(Rest(path, d), V, path, m, d)
<1>1. m = Len(path)
  OBVIOUS
<1>2. /\ Rest(path, d) \in Seq(V) /\ Len(Rest(path, d)) = m - d
      /\ \A k \in 1 .. m - d : Rest(path, d)[k] = path[d + k]
  BY <1>1, RestIs, Zenon
<1> QED
  BY <1>2 DEF RestOf

StartOf(f, V, path, i) ==
  /\ f \in Seq(V) /\ Len(f) = i
  /\ \A k \in 1 .. i : f[k] = path[k]

LEMMA StartForm ==
  ASSUME NEW V, NEW path \in Seq(V), NEW i \in 0 .. Len(path)
  PROVE  StartOf(SubSeq(path, 1, i), V, path, i)
<1>1. /\ SubSeq(path, 1, i) \in Seq(V) /\ Len(SubSeq(path, 1, i)) = i
      /\ \A k \in 1 .. i : SubSeq(path, 1, i)[k] = path[k]
  BY Prefix, Zenon
<1> QED
  BY <1>1 DEF StartOf

(* A path is known by its keys: the last base in them starts the last       *)
(* segment.                                                                 *)
Opened(u) == u[1].base = NoBase /\ \A k \in 2 .. Len(u) : u[k].base # NoBase
EndsIn(K, A, name) ==
  /\ Len(K) = Len(A) + 1 + Len(name.keys)
  /\ \A i \in 1 .. Len(A) : K[i] = A[i]
  /\ K[Len(A) + 1] = Plain(name.base)
  /\ \A i \in 1 .. Len(name.keys) : K[Len(A) + 1 + i] = Element(name.keys[i])

LEMMA OneKey ==
  ASSUME NEW key \in KeyNames
  PROVE  <<key>> \in Seq(KeyNames) /\ Len(<<key>>) = 1 /\ <<key>>[1] = key
OBVIOUS

LEMMA KeysEnd ==
  ASSUME NEW front \in Seq(NameSet), NEW l \in Nat, l = Len(front),
         NEW u \in Seq(NameSet), Len(u) = l + 1, \A k \in 1 .. l : u[k] = front[k],
         NEW name \in NameSet, name = u[l + 1], name.base # NoBase
  PROVE  EndsIn(KeysOf(u), KeysOf(front), name)
<1>1. KeysOf(u) = KeysOf(front) \o Keys(name)
  BY KeysOfMore
<1>2. PICK A \in Seq(KeyNames) : A = KeysOf(front)
  BY KeysOfType
<1>3. PICK keys \in Seq(Int) : keys = name.keys
  BY NameIs
<1>4. PICK a, b \in Nat : Len(A) = a /\ Len(keys) = b
  BY LenProperties
<1>5. PICK plain \in KeyNames : plain = Plain(name.base)
  BY NameIs
<1>6. PICK one \in Seq(KeyNames) : one = <<plain>> /\ Len(one) = 1 /\ one[1] = plain
  BY OneKey
<1>7. PICK E \in Seq(KeyNames) :
        E = ElementsOf(name) /\ Len(E) = b /\ \A i \in 1 .. b : E[i] = Element(keys[i])
  <2>1. ElementsOf(name) \in Seq(KeyNames)
    BY ElementsType
  <2>2. PICK E \in Seq(KeyNames) : E = ElementsOf(name)
    BY <2>1
  <2>3. DOMAIN keys = 1 .. b
    BY <1>4, LenProperties
  <2>4. DOMAIN E = 1 .. b /\ \A i \in 1 .. b : E[i] = Element(keys[i])
    BY <1>3, <2>2, <2>3 DEF ElementsOf
  <2>5. Len(E) = b
    BY <1>4, <2>4, LenProperties
  <2> QED
    BY <2>2, <2>4, <2>5
<1>8. PICK J \in Seq(KeyNames) :
        /\ J = Keys(name) /\ Len(J) = 1 + b
        /\ \A i \in 1 .. 1 + b : J[i] = IF i <= 1 THEN one[i] ELSE E[i - 1]
  <2>1. Keys(name) = one \o E
    BY <1>5, <1>6, <1>7, KeysType DEF HeadOf
  <2>2. /\ one \o E \in Seq(KeyNames) /\ Len(one \o E) = 1 + b
        /\ \A i \in 1 .. 1 + b : (one \o E)[i] = IF i <= 1 THEN one[i] ELSE E[i - 1]
    <3>1. JoinOf(one \o E, KeyNames, one, 1, E, b)
      BY <1>4, <1>6, <1>7, JoinIs, Zenon
    <3> QED
      BY <3>1 DEF JoinOf
  <2> QED
    BY <2>1, <2>2
<1>9. PICK K \in Seq(KeyNames) :
        /\ K = KeysOf(u) /\ Len(K) = a + (1 + b)
        /\ \A i \in 1 .. a + (1 + b) : K[i] = IF i <= a THEN A[i] ELSE J[i - a]
  <2>1. KeysOf(u) = A \o J
    BY <1>1, <1>2, <1>8
  <2>2. /\ A \o J \in Seq(KeyNames) /\ Len(A \o J) = a + (1 + b)
        /\ \A i \in 1 .. a + (1 + b) : (A \o J)[i] = IF i <= a THEN A[i] ELSE J[i - a]
    <3>1. Len(A) = a /\ Len(J) = 1 + b
      BY <1>4, <1>8
    <3> QED
      <4>1. JoinOf(A \o J, KeyNames, A, a, J, 1 + b)
        <5>1. 1 + b \in Nat
          OBVIOUS
        <5> QED
          BY <3>1, <5>1, JoinIs, Zenon
      <4> QED
        BY <4>1 DEF JoinOf
  <2> QED
    BY <2>1, <2>2
<1>10. Len(K) = a + 1 + b
  BY <1>9
<1>11. \A i \in 1 .. a : K[i] = A[i]
  <2>1. \A i \in 1 .. a : i \in 1 .. a + (1 + b) /\ i <= a
    OBVIOUS
  <2> QED
    BY <1>9, <2>1
<1>12. K[a + 1] = plain
  <2>1. a + 1 \in 1 .. a + (1 + b) /\ ~(a + 1 <= a) /\ (a + 1) - a = 1 /\ 1 \in 1 .. 1 + b
    OBVIOUS
  <2>2. K[a + 1] = J[1]
    BY <1>9, <2>1
  <2> QED
    BY <1>6, <1>8, <2>1, <2>2
<1>13. ASSUME NEW i \in 1 .. b
       PROVE  K[a + 1 + i] = Element(keys[i])
  <2>1. PICK j \in Nat : j = a + 1 + i
    OBVIOUS
  <2>2. j \in 1 .. a + (1 + b) /\ ~(j <= a) /\ j - a = 1 + i
    BY <2>1
  <2>3. PICK k \in 1 .. 1 + b : k = 1 + i /\ ~(k <= 1) /\ k - 1 = i
    OBVIOUS
  <2>4. K[j] = J[k]
    BY <1>9, <2>2, <2>3
  <2>5. J[k] = E[i]
    BY <1>8, <2>3
  <2> QED
    BY <1>7, <2>1, <2>4, <2>5
<1> QED
  BY <1>2, <1>3, <1>4, <1>5, <1>9, <1>10, <1>11, <1>12, <1>13 DEF EndsIn

(* Bases and elements are different keys, and tell what they are made of.   *)
LEMMA KeysDiffer ==
  /\ \A base : Plain(base).base = base
  /\ \A index : Element(index).base = NoBase
  /\ \A i, j : Element(i) = Element(j) => i = j
<1>1. ASSUME NEW i, NEW j, Element(i) = Element(j)
      PROVE  i = j
  <2>1. Element(i).keys = <<i>> /\ Element(j).keys = <<j>>
    BY DEF Element, Name
  <2>2. <<i>> = <<j>>
    BY <1>1, <2>1
  <2> QED
    BY <2>2
<1> QED
  BY <1>1 DEF Plain, Element, Name

LEMMA SameNames ==
  ASSUME NEW x \in NameSet, NEW y \in NameSet, x.base = y.base,
         NEW b \in Nat, Len(x.keys) = b, Len(y.keys) = b,
         \A i \in 1 .. b : Element(x.keys[i]) = Element(y.keys[i])
  PROVE  x = y
<1>1. PICK v, w \in Seq(Int) : v = x.keys /\ w = y.keys
  BY NameIs
<1>2. \A i \in 1 .. b : v[i] = w[i]
  BY <1>1, KeysDiffer
<1>3. Len(v) = b /\ Len(w) = b
  BY <1>1
<1>4. v = w
  BY <1>2, <1>3, SeqEqual
<1>5. x = Name(x.base, v) /\ y = Name(y.base, w)
  BY <1>1, NameIs
<1> QED
  BY <1>4, <1>5

LEMMA EndsBefore ==
  ASSUME NEW K, NEW A \in Seq(KeyNames), NEW B \in Seq(KeyNames),
         NEW x \in NameSet, NEW y \in NameSet, y.base # NoBase,
         EndsIn(K, A, x), EndsIn(K, B, y)
  PROVE  ~(Len(A) < Len(B))
<1>1. PICK a, b, c, d \in Nat : a = Len(A) /\ b = Len(B) /\ c = Len(x.keys) /\ d = Len(y.keys)
  BY LenProperties, NameIs
<1>2. /\ Len(K) = a + 1 + c /\ \A i \in 1 .. c : K[a + 1 + i] = Element(x.keys[i])
      /\ Len(K) = b + 1 + d /\ K[b + 1] = Plain(y.base)
  BY <1>1 DEF EndsIn
<1>3. ASSUME a < b
      PROVE  FALSE
  <2>1. PICK i \in 1 .. c : a + 1 + i = b + 1
    <3>1. b - a \in 1 .. c /\ a + 1 + (b - a) = b + 1
      BY <1>2, <1>3
    <3> QED
      BY <3>1
  <2>2. Element(x.keys[i]) = Plain(y.base)
    BY <1>2, <2>1
  <2> QED
    BY <2>2, KeysDiffer
<1> QED
  BY <1>1, <1>3

LEMMA EndsAlike ==
  ASSUME NEW K, NEW A \in Seq(KeyNames), NEW B \in Seq(KeyNames),
         NEW x \in NameSet, NEW y \in NameSet, x.base # NoBase, y.base # NoBase,
         EndsIn(K, A, x), EndsIn(K, B, y)
  PROVE  A = B /\ x = y
<1>1. PICK a \in Nat : a = Len(A) /\ a = Len(B)
  <2>1. Len(A) \in Nat /\ Len(B) \in Nat
    BY LenProperties
  <2>2. ~(Len(A) < Len(B)) /\ ~(Len(B) < Len(A))
    BY EndsBefore
  <2> QED
    BY <2>1, <2>2
<1>2. PICK c, d \in Nat : c = Len(x.keys) /\ d = Len(y.keys)
  BY LenProperties, NameIs
<1>3. /\ Len(K) = a + 1 + c /\ \A i \in 1 .. a : K[i] = A[i]
      /\ K[a + 1] = Plain(x.base)
      /\ \A i \in 1 .. c : K[a + 1 + i] = Element(x.keys[i])
  BY <1>1, <1>2 DEF EndsIn
<1>4. /\ Len(K) = a + 1 + d /\ \A i \in 1 .. a : K[i] = B[i]
      /\ K[a + 1] = Plain(y.base)
      /\ \A i \in 1 .. d : K[a + 1 + i] = Element(y.keys[i])
  BY <1>1, <1>2 DEF EndsIn
<1>5. A = B
  <2>1. \A i \in 1 .. a : A[i] = B[i]
    BY <1>3, <1>4
  <2> QED
    BY <1>1, <2>1, SeqEqual
<1>6. c = d
  BY <1>3, <1>4
<1>7. x.base = y.base
  <2>1. Plain(x.base) = Plain(y.base)
    BY <1>3, <1>4
  <2>2. Plain(x.base).base = Plain(y.base).base
    BY <2>1
  <2>3. Plain(x.base).base = x.base /\ Plain(y.base).base = y.base
    BY KeysDiffer, Zenon
  <2> QED
    BY <2>2, <2>3
<1>8. \A i \in 1 .. c : Element(x.keys[i]) = Element(y.keys[i])
  BY <1>3, <1>4, <1>6
<1>9. Len(x.keys) = c /\ Len(y.keys) = c
  BY <1>2, <1>6
<1> QED
  BY <1>5, <1>7, <1>8, <1>9, SameNames

LEMMA FrontOf ==
  ASSUME NEW u \in Seq(NameSet), NEW l \in Nat, Len(u) = l + 1, l # 0, Opened(u)
  PROVE  \E front \in Seq(NameSet) :
           /\ Len(front) = l /\ Opened(front) /\ \A k \in 1 .. l : u[k] = front[k]
           /\ u[l + 1] \in NameSet /\ u[l + 1].base # NoBase
           /\ EndsIn(KeysOf(u), KeysOf(front), u[l + 1])
<1>1. PICK front : front = SubSeq(u, 1, l)
  OBVIOUS
<1>2. front \in Seq(NameSet) /\ Len(front) = l /\ \A k \in 1 .. l : u[k] = front[k]
  <2>1. l \in 0 .. Len(u)
    OBVIOUS
  <2>2. /\ SubSeq(u, 1, l) \in Seq(NameSet) /\ Len(SubSeq(u, 1, l)) = l
        /\ \A k \in 1 .. l : SubSeq(u, 1, l)[k] = u[k]
    BY <2>1, Prefix
  <2> QED
    BY <1>1, <2>2
<1>3. PICK name : name = u[l + 1]
  OBVIOUS
<1>4. name \in NameSet /\ name.base # NoBase
  <2>1. l + 1 \in 1 .. Len(u) /\ l + 1 \in 2 .. Len(u)
    OBVIOUS
  <2>2. u[l + 1] \in NameSet
    BY <2>1, ElementOfSeq
  <2> QED
    BY <1>3, <2>1, <2>2 DEF Opened
<1>5. Opened(front)
  <2>1. 1 \in 1 .. l /\ \A k \in 2 .. l : k \in 2 .. Len(u) /\ k \in 1 .. l
    OBVIOUS
  <2> QED
    BY <1>2, <2>1 DEF Opened
<1>6. EndsIn(KeysOf(u), KeysOf(front), name)
  <2>1. l = Len(front)
    BY <1>2
  <2> QED
    BY <1>2, <1>3, <1>4, <2>1, KeysEnd
<1> QED
  BY <1>2, <1>3, <1>4, <1>5, <1>6

LEMMA OnlyElements ==
  ASSUME NEW u \in Seq(NameSet), Len(u) = 1, Opened(u)
  PROVE  /\ u[1] \in NameSet /\ u[1].base = NoBase /\ Len(KeysOf(u)) = Len(u[1].keys)
         /\ \A i \in 1 .. Len(u[1].keys) : KeysOf(u)[i] = Element(u[1].keys[i])
<1>1. 1 \in 1 .. Len(u)
  OBVIOUS
<1>2. PICK name \in NameSet : name = u[1] /\ name.base = NoBase
  <2>1. u[1] \in NameSet
    BY <1>1, ElementOfSeq
  <2> QED
    BY <2>1 DEF Opened
<1>3. KeysOf(u) = <<>> \o ElementsOf(name)
  BY <1>2, KeysOfOne, KeysType DEF HeadOf
<1>4. PICK E \in Seq(KeyNames) : E = ElementsOf(name) /\ Len(E) = Len(name.keys)
  BY ElementsType
<1>5. KeysOf(u) = E
  BY <1>3, <1>4, ConcatEmptySeq
<1>6. DOMAIN name.keys = 1 .. Len(name.keys)
  <2>1. PICK keys \in Seq(Int) : keys = name.keys
    BY NameIs
  <2> QED
    BY <2>1, LenProperties
<1>7. \A i \in 1 .. Len(name.keys) : E[i] = Element(name.keys[i])
  BY <1>4, <1>6 DEF ElementsOf
<1> QED
  BY <1>2, <1>4, <1>5, <1>7

LEMMA OneOrMore ==
  ASSUME NEW u \in Seq(NameSet), Len(u) = 1, Opened(u),
         NEW v \in Seq(NameSet), NEW l \in Nat, Len(v) = l + 1, l # 0, Opened(v)
  PROVE  KeysOf(u) # KeysOf(v)
<1>1. PICK front \in Seq(NameSet) :
        /\ v[l + 1] \in NameSet /\ v[l + 1].base # NoBase
        /\ EndsIn(KeysOf(v), KeysOf(front), v[l + 1])
  BY FrontOf
<1>2. PICK name \in NameSet : name = v[l + 1]
  BY <1>1
<1>3. PICK A \in Seq(KeyNames) : A = KeysOf(front)
  BY KeysOfType
<1>4. PICK a, b \in Nat : a = Len(A) /\ b = Len(name.keys)
  BY LenProperties, NameIs
<1>5. PICK K : K = KeysOf(v)
  OBVIOUS
<1>6. Len(K) = a + 1 + b /\ K[a + 1] = Plain(name.base) /\ name.base # NoBase
  BY <1>1, <1>2, <1>3, <1>4, <1>5 DEF EndsIn
<1>7. PICK first \in NameSet : first = u[1]
  BY OnlyElements
<1>8. PICK c \in Nat : c = Len(first.keys)
  BY LenProperties, NameIs
<1>9. Len(KeysOf(u)) = c /\ \A i \in 1 .. c : KeysOf(u)[i] = Element(first.keys[i])
  BY <1>7, <1>8, OnlyElements
<1>10. ASSUME KeysOf(u) = K
       PROVE  FALSE
  <2>1. a + 1 \in 1 .. c
    BY <1>6, <1>9, <1>10
  <2>2. Plain(name.base) = Element(first.keys[a + 1])
    BY <1>6, <1>9, <1>10, <2>1
  <2> QED
    BY <1>6, <2>2, KeysDiffer
<1> QED
  BY <1>5, <1>10

Told(u) ==
  \A v \in Seq(NameSet) : Len(v) # 0 /\ Opened(v) /\ KeysOf(u) = KeysOf(v) => u = v
ToldAt(i) == \A u \in Seq(NameSet) : Len(u) = i + 1 /\ Opened(u) => Told(u)

LEMMA KeysTell ==
  ASSUME NEW u \in Seq(NameSet), Len(u) # 0, Opened(u)
  PROVE  Told(u)
<1>1. ToldAt(0)
  <2>1. SUFFICES ASSUME NEW x \in Seq(NameSet), Len(x) = 0 + 1, Opened(x),
                        NEW y \in Seq(NameSet), Len(y) # 0, Opened(y), KeysOf(x) = KeysOf(y)
                 PROVE  x = y
    BY DEF ToldAt, Told
  <2>2. Len(x) = 1
    BY <2>1
  <2>3. Len(y) = 1
    <3>1. PICK m \in Nat : Len(y) = m /\ m # 0
      BY <2>1, LenProperties
    <3>2. PICK l \in Nat : l + 1 = m
      BY <3>1, Before
    <3>3. l = 0
      BY <2>1, <2>2, <3>1, <3>2, OneOrMore
    <3> QED
      BY <3>1, <3>2, <3>3
  <2>4. PICK a, b \in NameSet : a = x[1] /\ b = y[1] /\ a.base = b.base
    BY <2>1, <2>2, <2>3, OnlyElements
  <2>5. PICK c \in Nat : Len(a.keys) = c
    BY LenProperties, NameIs
  <2>6. /\ Len(b.keys) = c
        /\ \A i \in 1 .. c : Element(a.keys[i]) = Element(b.keys[i])
    <3>1. /\ Len(KeysOf(x)) = Len(a.keys)
          /\ \A i \in 1 .. Len(a.keys) : KeysOf(x)[i] = Element(a.keys[i])
      BY <2>1, <2>2, <2>4, OnlyElements
    <3>2. /\ Len(KeysOf(y)) = Len(b.keys)
          /\ \A i \in 1 .. Len(b.keys) : KeysOf(y)[i] = Element(b.keys[i])
      BY <2>1, <2>3, <2>4, OnlyElements
    <3> QED
      BY <2>1, <2>5, <3>1, <3>2
  <2>7. a = b
    <3>1. a.base = b.base
      BY <2>4
    <3> QED
      BY <2>5, <2>6, <3>1, SameNames
  <2>8. \A i \in 1 .. 1 : x[i] = y[i]
    <3>1. x[1] = y[1]
      BY <2>4, <2>7
    <3>2. \A i \in 1 .. 1 : i = 1
      OBVIOUS
    <3> QED
      BY <3>1, <3>2
  <2> QED
    BY <2>2, <2>3, <2>8, SeqEqual
<1>2. ASSUME NEW i \in Nat, ToldAt(i)
      PROVE  ToldAt(i + 1)
  <2>1. SUFFICES ASSUME NEW x \in Seq(NameSet), Len(x) = (i + 1) + 1, Opened(x),
                        NEW y \in Seq(NameSet), Len(y) # 0, Opened(y), KeysOf(x) = KeysOf(y)
                 PROVE  x = y
    BY DEF ToldAt, Told
  <2>2. PICK l \in Nat : l = i + 1 /\ l # 0 /\ Len(x) = l + 1
    BY <2>1
  <2>3. PICK k \in Nat : Len(y) = k + 1
    <3>1. PICK m \in Nat : Len(y) = m /\ m # 0
      BY <2>1, LenProperties
    <3> QED
      BY <3>1, Before
  <2>4. k # 0
    <3>1. ASSUME Len(y) = 1
          PROVE  FALSE
      <4>1. KeysOf(y) # KeysOf(x)
        BY <2>1, <2>2, <3>1, OneOrMore
      <4> QED
        BY <2>1, <4>1
    <3> QED
      BY <2>3, <3>1
  <2>5. PICK f \in Seq(NameSet) :
          /\ Len(f) = l /\ Opened(f) /\ \A j \in 1 .. l : x[j] = f[j]
          /\ x[l + 1] \in NameSet /\ x[l + 1].base # NoBase
          /\ EndsIn(KeysOf(x), KeysOf(f), x[l + 1])
    BY <2>1, <2>2, FrontOf
  <2>6. PICK g \in Seq(NameSet) :
          /\ Len(g) = k /\ Opened(g) /\ \A j \in 1 .. k : y[j] = g[j]
          /\ y[k + 1] \in NameSet /\ y[k + 1].base # NoBase
          /\ EndsIn(KeysOf(y), KeysOf(g), y[k + 1])
    BY <2>1, <2>3, <2>4, FrontOf
  <2>7. PICK a, b \in NameSet : a = x[l + 1] /\ b = y[k + 1]
    BY <2>5, <2>6
  <2>8. PICK A, B \in Seq(KeyNames) : A = KeysOf(f) /\ B = KeysOf(g)
    BY KeysOfType
  <2>9. A = B /\ a = b
    <3>1. EndsIn(KeysOf(x), A, a) /\ EndsIn(KeysOf(x), B, b) /\ a.base # NoBase /\ b.base # NoBase
      BY <2>1, <2>5, <2>6, <2>7, <2>8
    <3> QED
      BY <3>1, EndsAlike
  <2>10. f = g
    <3>1. Len(f) = i + 1 /\ Len(g) # 0
      BY <2>2, <2>4, <2>5, <2>6
    <3>2. Told(f)
      BY <1>2, <2>5, <3>1 DEF ToldAt
    <3> QED
      BY <2>6, <2>8, <2>9, <3>1, <3>2 DEF Told
  <2>11. k = l
    BY <2>5, <2>6, <2>10
  <2>12. \A j \in 1 .. l + 1 : x[j] = y[j]
    <3>1. \A j \in 1 .. l + 1 : j = l + 1 \/ j \in 1 .. l
      OBVIOUS
    <3> QED
      BY <2>5, <2>6, <2>7, <2>9, <2>10, <2>11, <3>1
  <2>13. Len(y) = l + 1
    BY <2>3, <2>11
  <2> QED
    BY <2>2, <2>12, <2>13, SeqEqual
<1>3. PICK l \in Nat : Len(u) = l + 1
  <2>1. PICK m \in Nat : Len(u) = m /\ m # 0
    BY LenProperties
  <2> QED
    BY <2>1, Before
<1>4. ToldAt(l)
  <2> DEFINE T == {i \in 0 .. l : ToldAt(i)}
  <2>1. 0 \in T
    BY <1>1
  <2>2. \A i \in T : i < l => i + 1 \in T
    <3>1. ASSUME NEW i \in T, i < l
          PROVE  i + 1 \in T
      <4>1. i \in Nat /\ ToldAt(i) /\ i + 1 \in 0 .. l
        BY <3>1
      <4>2. ToldAt(i + 1)
        BY <1>2, <4>1
      <4> QED
        BY <4>1, <4>2
    <3> QED
      BY <3>1
  <2>3. T \in SUBSET (0 .. l)
    OBVIOUS
  <2>4. l \in T
    <3> HIDE DEF T
    <3>1. T = 0 .. l
      BY <2>1, <2>2, <2>3, UptoInduction
    <3> QED
      BY <3>1
  <2> QED
    BY <2>4
<1> QED
  BY <1>3, <1>4 DEF ToldAt

LEMMA BasedKey ==
  ASSUME NEW part \in NameSet, IsKey(part), ~IsElement(part)
  PROVE  part.base # NoBase
<1>1. ASSUME part.base = NoBase
      PROVE  FALSE
  <2>1. part.keys = <<>>
    BY <1>1 DEF IsElement
  <2>2. part = Name(NoBase, <<>>)
    BY <1>1, <2>1, NameIs
  <2>3. part = Empty
    BY <2>2, KeysOfEmpty
  <2>4. Keys(part) = <<>>
    BY <2>3, KeysOfEmpty
  <2>5. <<part>> = <<>>
    BY <2>4 DEF IsKey
  <2>6. Len(<<part>>) = 1
    OBVIOUS
  <2>7. Len(<<>>) = 0
    OBVIOUS
  <2> QED
    BY <2>5, <2>6, <2>7
<1> QED
  BY <1>1

LEMMA BasedGlued ==
  ASSUME NEW p \in LocalPaths, Based(p), NEW part \in NameSet, IsKey(part)
  PROVE  Based(Glued(p, part))
<1>1. PICK m \in Nat : m = Len(p) /\ m # 0 /\ p \in Seq(NameSet) /\ DOMAIN p = 1 .. m
  BY LenProperties DEF LocalPaths
<1>2. \A k \in 1 .. m : p[k].base # NoBase
  BY <1>1 DEF Based
<1>3. p # EmptyPath
  <2>1. 1 \in 1 .. m
    BY <1>1
  <2>2. p[1].base # NoBase
    BY <1>2, <2>1
  <2> QED
    BY <2>2, EmptyIs
<1>4. CASE IsElement(part)
  <2>1. PICK q \in Seq(NameSet) :
          /\ q = Glued(p, part) /\ Len(q) = m
          /\ q[m] = Name(p[m].base, p[m].keys \o part.keys)
          /\ \A k \in 1 .. m - 1 : q[k] = p[k]
    BY <1>1, <1>3, <1>4, GluedElement
  <2>2. q[m].base = p[m].base
    BY <2>1, NameParts
  <2>3. DOMAIN q = 1 .. m
    BY <2>1, LenProperties
  <2>4. \A k \in 1 .. m : k = m \/ k \in 1 .. m - 1
    OBVIOUS
  <2>5. \A k \in 1 .. m : q[k].base # NoBase
    BY <1>2, <2>1, <2>2, <2>4
  <2> QED
    BY <2>1, <2>3, <2>5 DEF Based
<1>5. CASE ~IsElement(part)
  <2>1. PICK q \in Seq(NameSet) :
          /\ q = Glued(p, part) /\ Len(q) = m + 1
          /\ q[m + 1] = part /\ \A k \in 1 .. m : q[k] = p[k]
    BY <1>1, <1>3, <1>5, GluedSeparate
  <2>2. part.base # NoBase
    BY <1>5, BasedKey
  <2>3. DOMAIN q = 1 .. m + 1
    BY <2>1, LenProperties
  <2>4. \A k \in 1 .. m + 1 : k = m + 1 \/ k \in 1 .. m
    OBVIOUS
  <2>5. \A k \in 1 .. m + 1 : q[k].base # NoBase
    BY <1>2, <2>1, <2>2, <2>4
  <2> QED
    BY <2>1, <2>3, <2>5 DEF Based
<1> QED
  BY <1>4, <1>5

(* Names that are keys, a base first, are glued to segments with a base.    *)
BasedKeys(names) == names[1].base # NoBase /\ \A k \in 2 .. Len(names) : IsKey(names[k])

LEMMA LocalBased ==
  ASSUME NEW t, NEW n, NEW names \in Seq(NameSet), names = LocalNames(t, n),
         NEW m \in Nat, m = Len(names), m # 0,
         BasedKeys(names)
  PROVE  Based(LocalPath(t, n))
<1>0. PICK nothing \in LocalPaths : nothing = EmptyPath
  BY EmptyIs
<1>1. PICK g \in [0 .. m -> LocalPaths] :
        /\ g[0] = nothing
        /\ \A k \in 1 .. m : g[k] = Glued(g[k - 1], names[k])
        /\ LocalPath(t, n) = g[m]
  BY <1>0, LocalSteps, SMTT(30)
<1>2. PICK l \in Nat : l = m - 1 /\ l + 1 = m
  BY Before
<1>3. \A k \in 1 .. m : names[k] \in NameSet
  BY ElementOfSeq
<1> DEFINE T == {i \in 0 .. l : Based(g[i + 1])}
<1>4. 0 \in T
  <2>1. 1 \in 1 .. m /\ 1 - 1 = 0 /\ 0 \in 0 .. l /\ 0 + 1 = 1
    BY <1>2
  <2>2. PICK name \in NameSet : name = names[1] /\ name.base # NoBase
    BY <1>3, <2>1 DEF BasedKeys
  <2>3. g[1] = <<name>>
    BY <1>0, <1>1, <2>1, <2>2 DEF Glued
  <2>4. PICK p \in Seq(NameSet) : p = g[1] /\ Len(p) = 1 /\ p[1] = name
    BY <2>3, OneName
  <2>5. DOMAIN p = 1 .. 1 /\ \A k \in 1 .. 1 : k = 1
    BY <2>4, LenProperties
  <2>6. Based(p)
    BY <2>2, <2>4, <2>5 DEF Based
  <2> QED
    BY <2>1, <2>4, <2>6
<1>5. ASSUME NEW i \in T, i < l
      PROVE  i + 1 \in T
  <2>1. PICK j \in 2 .. m : j = (i + 1) + 1 /\ j - 1 = i + 1 /\ j - 1 \in 0 .. m /\ j \in 1 .. m
                            /\ i + 1 \in 0 .. l
    BY <1>2, <1>5
  <2>2. PICK p \in LocalPaths : p = g[j - 1] /\ Based(p)
    BY <2>1
  <2>3. PICK part \in NameSet : part = names[j] /\ IsKey(part)
    BY <1>3, <2>1 DEF BasedKeys
  <2>4. g[j] = Glued(p, part)
    BY <1>1, <2>1, <2>2, <2>3
  <2>5. Based(g[j])
    BY <2>2, <2>3, <2>4, BasedGlued
  <2> QED
    BY <2>1, <2>5
<1>6. l \in T
  <2>1. T \in SUBSET (0 .. l)
    OBVIOUS
  <2> HIDE DEF T
  <2>2. T = 0 .. l
    BY <1>4, <1>5, <2>1, UptoInduction
  <2> QED
    BY <2>2
<1> QED
  BY <1>1, <1>2, <1>6

(* The local path of a node has the segments that led to it.                *)
LEMMA LocalIs ==
  ASSUME NEW S \in Nat, NEW N \in Nat, NEW t, WellFormed(t, S, N), NEW n \in 0 .. N - 1,
         NEW rest \in Seq(NameSet), Len(rest) # 0, Based(rest),
         LocalNames(t, n)[1] = Plain(rest[1].base),
         Tailed(LocalNames(t, n), KeysOf(Unbased(rest)))
  PROVE  LocalPath(t, n) = rest
<1>1. PICK p \in LocalPaths, names \in Seq(NameSet) :
        p = LocalPath(t, n) /\ names = LocalNames(t, n) /\ Len(names) # 0
  BY NodeIs
<1>2. PICK l \in Nat : Len(names) = l /\ l # 0
  BY <1>1, LenProperties
<1>3. PICK w \in Nat : Len(rest) = w /\ w # 0 /\ DOMAIN rest = 1 .. w
  BY LenProperties
<1>4. PICK v \in Seq(NameSet) : /\ v = Unbased(rest) /\ Len(v) = w
                                /\ v[1] = Name(NoBase, rest[1].keys)
                                /\ \A k \in 2 .. w : v[k] = rest[k]
  BY <1>3, UnbasedIs
<1>5. PICK K \in Seq(KeyNames) :
        K = KeysOf(v) /\ Len(names) = Len(K) + 1 /\ \A k \in 1 .. Len(K) : names[k + 1] = K[k]
  <2>1. KeysOf(v) \in Seq(KeyNames)
    BY KeysOfType
  <2> QED
    BY <1>1, <1>4, <2>1 DEF Tailed
<1>6. Len(K) = l - 1 /\ \A k \in 2 .. l : k - 1 \in 1 .. Len(K) /\ names[k] = K[k - 1]
  <2>1. PICK b \in Nat : Len(K) = b
    BY LenProperties
  <2>2. l = b + 1
    BY <1>2, <1>5, <2>1
  <2>3. \A k \in 2 .. l : k - 1 \in 1 .. b /\ (k - 1) + 1 = k
    BY <2>2
  <2> QED
    BY <1>5, <2>1, <2>2, <2>3
<1>7. \A k \in 2 .. l : IsKey(names[k])
  <2>1. ASSUME NEW k \in 2 .. l
        PROVE  IsKey(names[k])
    <3>1. K[k - 1] \in KeyNames
      BY <1>6, ElementOfSeq
    <3> QED
      BY <1>6, <3>1, KeyIsItsKeys DEF IsKey
  <2> QED
    BY <2>1
<1>8. names[1].keys = <<>> /\ names[1].base = rest[1].base /\ rest[1].base # NoBase
  <2>1. 1 \in DOMAIN rest
    BY <1>3
  <2>2. rest[1].base # NoBase
    BY <2>1 DEF Based
  <2>3. names[1] = Name(rest[1].base, <<>>)
    BY <1>1 DEF Plain
  <2> QED
    BY <2>2, <2>3, NameParts
<1>9. NamesApart(names)
  <2>1. names[1] # Empty
    BY <1>8, EmptyIs
  <2> QED
    BY <1>2, <1>7, <1>8, <2>1 DEF NamesApart
<1>10. Kept(p, names, l)
  <2>1. l = Len(names)
    BY <1>2
  <2> QED
    BY <1>1, <1>2, <1>9, <2>1, LocalKept
<1>11. Based(p)
  <2>1. l = Len(names)
    BY <1>2
  <2>2. BasedKeys(names)
    BY <1>2, <1>7, <1>8 DEF BasedKeys
  <2> QED
    BY <1>1, <1>2, <2>1, <2>2, LocalBased
<1>12. PICK q \in Nat : Len(p) = q /\ q # 0 /\ p \in Seq(NameSet) /\ DOMAIN p = 1 .. q
  BY LenProperties DEF LocalPaths
<1>13. PICK u \in Seq(NameSet) : /\ u = Unbased(p) /\ Len(u) = q
                                 /\ u[1] = Name(NoBase, p[1].keys)
                                 /\ \A k \in 2 .. q : u[k] = p[k]
  BY <1>12, UnbasedIs
<1>14. KeysOf(u) = K
  <2>1. PICK J \in Seq(KeyNames) : J = KeysOf(u)
    BY KeysOfType
  <2>2. Len(J) = l - 1 /\ \A k \in 2 .. l : J[k - 1] = names[k]
    BY <1>10, <1>13, <2>1 DEF Kept
  <2>3. \A k \in 1 .. l - 1 : J[k] = K[k]
    <3>1. ASSUME NEW k \in 1 .. l - 1
          PROVE  J[k] = K[k]
      <4>1. PICK j \in 2 .. l : j = k + 1 /\ j - 1 = k
        <5>1. k + 1 \in 2 .. l /\ (k + 1) - 1 = k
          BY <1>2
        <5> QED
          BY <5>1
      <4>2. J[j - 1] = K[j - 1]
        BY <1>6, <2>2, <4>1
      <4> QED
        BY <4>1, <4>2
    <3> QED
      BY <3>1
  <2>4. J = K
    BY <1>6, <2>2, <2>3, SeqEqual
  <2> QED
    BY <2>1, <2>4
<1>15. Opened(u) /\ Opened(v)
  <2>1. \A k \in 2 .. q : k \in DOMAIN p
    BY <1>12
  <2>2. \A k \in 2 .. w : k \in DOMAIN rest
    BY <1>3
  <2>3. u[1].base = NoBase /\ v[1].base = NoBase
    BY <1>4, <1>13, NameParts
  <2>4. Opened(u)
    BY <1>11, <1>13, <2>1, <2>3 DEF Opened, Based
  <2>5. Opened(v)
    BY <1>4, <2>2, <2>3 DEF Opened, Based
  <2> QED
    BY <2>4, <2>5
<1>16. u = v
  <2>1. Told(u)
    BY <1>12, <1>13, <1>15, KeysTell
  <2>2. KeysOf(u) = KeysOf(v) /\ Len(v) # 0
    BY <1>3, <1>4, <1>5, <1>14
  <2> QED
    BY <1>15, <2>1, <2>2 DEF Told
<1>17. q = w /\ \A k \in 2 .. w : p[k] = rest[k]
  BY <1>4, <1>13, <1>16
<1>18. p[1] = rest[1]
  <2>1. PICK a, b \in NameSet : a = p[1] /\ b = rest[1]
    <3>1. 1 \in 1 .. Len(p) /\ 1 \in 1 .. Len(rest)
      BY <1>3, <1>12
    <3>2. p[1] \in NameSet /\ rest[1] \in NameSet
      BY <1>12, <3>1, ElementOfSeq
    <3> QED
      BY <3>2
  <2>2. a.keys = b.keys
    <3>1. u[1].keys = a.keys /\ v[1].keys = b.keys
      BY <1>4, <1>13, <2>1, NameParts
    <3> QED
      BY <1>16, <3>1
  <2>3. a.base = b.base
    BY <1>8, <1>10, <2>1 DEF Kept
  <2>4. a = Name(a.base, a.keys) /\ b = Name(b.base, b.keys)
    BY NameIs
  <2> QED
    BY <2>1, <2>2, <2>3, <2>4
<1>19. \A k \in 1 .. w : p[k] = rest[k]
  <2>1. \A k \in 1 .. w : k = 1 \/ k \in 2 .. w
    OBVIOUS
  <2> QED
    BY <1>17, <1>18, <2>1
<1>20. p = rest
  BY <1>3, <1>12, <1>17, <1>19, SeqEqual
<1> QED
  BY <1>1, <1>20

LEMMA SplitRest ==
  ASSUME NEW V, NEW path \in Seq(V), NEW m \in Nat, Len(path) = m, NEW d \in Nat, d < m
  PROVE  SubSeq(path, 1, d) \o Rest(path, d) = path
<1>1. PICK a \in Seq(V) : a = SubSeq(path, 1, d) /\ Len(a) = d /\ \A i \in 1 .. d : a[i] = path[i]
  <2>1. d \in 0 .. Len(path)
    OBVIOUS
  <2>2. /\ SubSeq(path, 1, d) \in Seq(V) /\ Len(SubSeq(path, 1, d)) = d
        /\ \A i \in 1 .. d : SubSeq(path, 1, d)[i] = path[i]
    BY <2>1, Prefix
  <2> QED
    BY <2>2
<1>2. PICK b \in Seq(V) : b = Rest(path, d) /\ Len(b) = m - d /\ \A i \in 1 .. m - d : b[i] = path[d + i]
  <2>1. m = Len(path)
    OBVIOUS
  <2> QED
    BY <2>1, RestIs
<1>3. PICK c \in Seq(V) : /\ c = a \o b /\ Len(c) = d + (m - d)
                          /\ \A i \in 1 .. d + (m - d) : c[i] = IF i <= d THEN a[i] ELSE b[i - d]
  <2>1. PICK w \in Nat : w = m - d
    OBVIOUS
  <2>2. Len(a) = d /\ Len(b) = w
    BY <1>1, <1>2, <2>1
  <2>3. /\ a \o b \in Seq(V) /\ Len(a \o b) = d + w
        /\ \A i \in 1 .. d + w : (a \o b)[i] = IF i <= d THEN a[i] ELSE b[i - d]
    BY <2>2, ConcatProperties
  <2> QED
    BY <2>1, <2>3
<1>4. \A i \in 1 .. m : c[i] = path[i]
  <2>1. SUFFICES ASSUME NEW i \in 1 .. m
                 PROVE  c[i] = path[i]
    OBVIOUS
  <2>2. d + (m - d) = m
    OBVIOUS
  <2>3. CASE i <= d
    <3>1. i \in 1 .. d
      BY <2>3
    <3> QED
      BY <1>1, <1>3, <2>2, <2>3, <3>1
  <2>4. CASE ~(i <= d)
    <3>1. i - d \in 1 .. m - d /\ d + (i - d) = i
      BY <2>4
    <3>2. b[i - d] = path[i]
      BY <1>2, <3>1
    <3> QED
      BY <1>3, <2>2, <2>4, <3>2
  <2> QED
    BY <2>3, <2>4
<1>5. c = path
  <2>1. Len(c) = m
    BY <1>3
  <2> QED
    BY <1>4, <2>1, SeqEqual
<1> QED
  BY <1>1, <1>2, <1>3, <1>5

(* BelowBack for a node that is known by its number.                        *)
LEMMA BelowHas ==
  ASSUME NEW S \in Nat, NEW N \in Nat, NEW t, WellFormed(t, S, N), NEW f \in 0 .. S - 1,
         NEW rest \in Seq(NameSet), Len(rest) # 0, NEW n \in 0 .. N - 1, Below(t, f, rest) = n
  PROVE  /\ TopScope(t, n) = f
         /\ LocalNames(t, n)[1] = Plain(rest[1].base)
         /\ Tailed(LocalNames(t, n), KeysOf(Unbased(rest)))
<1>1. PICK x : x = Below(t, f, rest)
  OBVIOUS
<1>2. x \in Nat
  BY <1>1
<1>3. x # NoId
  BY <1>2, Constants, Zenon
<1>4. /\ TopScope(t, x) = f
      /\ LocalNames(t, x)[1] = Plain(rest[1].base)
      /\ Tailed(LocalNames(t, x), KeysOf(Unbased(rest)))
  BY <1>1, <1>3, BelowBack
<1> QED
  BY <1>1, <1>4

(* A node that a path with bases finds has that path.                       *)
LEMMA FoundHas ==
  ASSUME NEW S \in Nat, NEW N \in Nat, NEW t, WellFormed(t, S, N),
         NEW path \in Seq(NameSet), Len(path) # 0, Based(path),
         NEW n \in 0 .. N - 1, FindSignal(t, Root, path) = n
  PROVE  PathOfNode(t, n) = path
<1>1. PICK m \in Nat : Len(path) = m /\ m # 0 /\ DOMAIN path = 1 .. m
  BY LenProperties
<1>2. \A k \in 1 .. m : path[k].base # NoBase
  BY <1>1 DEF Based
<1>3. path # EmptyPath
  <2>1. 1 \in 1 .. m
    BY <1>1
  <2>2. path[1].base # NoBase
    BY <1>2, <2>1
  <2> QED
    BY <2>2, EmptyIs
<1>4. PICK d \in Nat : \E f \in 0 .. S - 1 :
        /\ Deepest(t, Root, path, d, f)
        /\ FindSignal(t, Root, path) = IF path = EmptyPath THEN NoId ELSE Below(t, f, Rest(path, d))
  <2>1. m = Len(path) /\ Root \in 0 .. S - 1
    BY <1>1, ScopesRise
  <2> QED
    BY <1>1, <2>1, FindSignalIs
<1>5. PICK f \in 0 .. S - 1 : Deepest(t, Root, path, d, f) /\ n = Below(t, f, Rest(path, d))
  BY <1>3, <1>4
<1>6. d < m /\ f = ScopeAlong(t, Root, SubSeq(path, 1, d)) /\ f # NoId
  BY <1>1, <1>5 DEF Deepest
<1>7. PICK rest \in Seq(NameSet) : /\ rest = Rest(path, d) /\ Len(rest) = m - d
                                   /\ \A k \in 1 .. m - d : rest[k] = path[d + k]
  <2>1. m = Len(path)
    BY <1>1
  <2> QED
    BY <1>6, <2>1, RestIs
<1>8. Len(rest) # 0 /\ Based(rest)
  <2>1. m - d # 0 /\ \A k \in 1 .. m - d : d + k \in 1 .. m
    BY <1>6
  <2>2. DOMAIN rest = 1 .. m - d
    BY <1>7, LenProperties
  <2>3. \A k \in 1 .. m - d : rest[k].base # NoBase
    BY <1>2, <1>7, <2>1
  <2> QED
    BY <1>7, <2>1, <2>2, <2>3 DEF Based
<1>9. /\ TopScope(t, n) = f
      /\ LocalNames(t, n)[1] = Plain(rest[1].base)
      /\ Tailed(LocalNames(t, n), KeysOf(Unbased(rest)))
  <2>1. Below(t, f, rest) = n /\ Len(rest) # 0
    BY <1>5, <1>7, <1>8
  <2> QED
    BY <2>1, BelowHas
<1>10. LocalPath(t, n) = rest
  BY <1>8, <1>9, LocalIs
<1>11. PICK above \in Seq(NameSet) : /\ above = SubSeq(path, 1, d) /\ Len(above) = d
                                     /\ \A i \in 1 .. d : above[i] = path[i]
  <2>1. d \in 0 .. Len(path)
    BY <1>1, <1>6
  <2>2. /\ SubSeq(path, 1, d) \in Seq(NameSet) /\ Len(SubSeq(path, 1, d)) = d
        /\ \A i \in 1 .. d : SubSeq(path, 1, d)[i] = path[i]
    BY <2>1, Prefix
  <2> QED
    BY <2>2
<1>12. ScopeNames(t, f) = above
  <2>1. ScopeAlong(t, Root, above) = f /\ f # NoId
    BY <1>6, <1>11
  <2>2. ScopeNames(t, ScopeAlong(t, Root, above)) = above
    BY <2>1, ScopeBack
  <2> QED
    BY <2>1, <2>2
<1>13. ~Unnamed(t, f)
  <2>1. above # EmptyPath
    <3>1. SUFFICES ASSUME above = EmptyPath
                   PROVE  FALSE
      OBVIOUS
    <3>2. d = 1 /\ above[1] = Empty
      BY <1>11, <3>1, EmptyIs
    <3>3. 1 \in 1 .. d /\ 1 \in 1 .. m
      BY <1>1, <3>2
    <3>4. path[1] = Empty
      BY <1>11, <3>2, <3>3
    <3> QED
      BY <1>2, <3>3, <3>4, EmptyIs
  <2> QED
    BY <1>12, <2>1 DEF Unnamed
<1>14. PathOfNode(t, n) = above \o rest
  <2>1. ~Unnamed(t, TopScope(t, n))
    BY <1>9, <1>13
  <2>2. PathOfNode(t, n) = ScopeNames(t, TopScope(t, n)) \o LocalPath(t, n)
    BY <2>1, PathForms
  <2> QED
    BY <1>9, <1>10, <1>12, <2>2
<1>15. SubSeq(path, 1, d) \o Rest(path, d) = path
  BY <1>1, <1>6, SplitRest
<1> QED
  BY <1>7, <1>11, <1>14, <1>15

(* A scope that a path finds has that path.                                 *)
LEMMA ScopeHas ==
  ASSUME NEW S \in Nat, NEW N \in Nat, NEW t, WellFormed(t, S, N),
         NEW path \in Seq(NameSet), path # <<>>, FindScope(t, Root, path) # NoId
  PROVE  PathOfScope(t, FindScope(t, Root, path)) = path
<1>1. CASE path = EmptyPath
  BY <1>1 DEF FindScope, PathOfScope
<1>2. CASE path # EmptyPath
  <2>1. PICK s : s = ScopeAlong(t, Root, path)
    OBVIOUS
  <2>2. FindScope(t, Root, path) = s /\ s # NoId
    BY <1>2, <2>1 DEF FindScope
  <2>3. s \in 0 .. S - 1 /\ ScopeNames(t, s) = path
    BY <2>1, <2>2, ScopeBack
  <2>4. s # Root
    BY <2>3, ScopeThere
  <2> QED
    BY <2>2, <2>3, <2>4 DEF PathOfScope
<1> QED
  BY <1>1, <1>2

LEMMA FoundFollow ==
  ASSUME IndexesRight
  PROVE  FoundHasPath
<1>1. PICK S \in Nat : \E N \in Nat : WellFormed(tree, S, N)
  BY DEF IndexesRight
<1>2. PICK N \in Nat : WellFormed(tree, S, N)
  BY <1>1
<1>3. Root \in 0 .. S - 1
  BY <1>2, ScopesRise
<1>4. ASSUME NEW path \in Paths
      PROVE  path \in Seq(NameSet) /\ path # <<>> /\ Len(path) # 0
  <2>1. path \in Seq(NameSet) /\ path # <<>>
    BY HierarchyAssumption DEF NameSet
  <2> QED
    BY <2>1, EmptySeq
<1>5. ASSUME NEW path \in Paths, Based(path), FindSignal(tree, Root, path) # NoId
      PROVE  PathOfNode(tree, FindSignal(tree, Root, path)) = path
  <2>1. PICK n : n = FindSignal(tree, Root, path)
    OBVIOUS
  <2>2. n \in 0 .. N - 1
    BY <1>2, <1>3, <1>4, <1>5, <2>1, FoundType
  <2>3. PathOfNode(tree, n) = path
    BY <1>2, <1>4, <1>5, <2>1, <2>2, FoundHas
  <2> QED
    BY <2>1, <2>3
<1>6. ASSUME NEW path \in Paths, FindScope(tree, Root, path) # NoId
      PROVE  PathOfScope(tree, FindScope(tree, Root, path)) = path
  BY <1>2, <1>4, <1>6, ScopeHas
<1> QED
  BY <1>5, <1>6 DEF FoundHasPath

(* A walk along a path and another one after it goes on along the second.   *)
Onwards(g, e, m) == [k \in 0 .. m |-> g[e + k]]

LEMMA WalkOn ==
  ASSUME NEW index, NEW X, NEW from, NEW V, NEW a \in Seq(V), NEW b \in Seq(V),
         NEW e \in Nat, Len(a) = e, NEW m \in Nat, Len(b) = m,
         NEW g, Walk(index, X, from, a \o b, g)
  PROVE  Walk(index, X, g[e], b, Onwards(g, e, m))
<1>1. PICK c \in Seq(V) : /\ c = a \o b /\ Len(c) = e + m
                          /\ \A i \in 1 .. e + m : c[i] = IF i <= e THEN a[i] ELSE b[i - e]
  <2>1. JoinOf(a \o b, V, a, e, b, m)
    BY JoinIs, Zenon
  <2> QED
    BY <2>1 DEF JoinOf
<1>2. /\ g \in [0 .. e + m -> X \cup {NoId}] /\ g[0] = from
      /\ \A k \in 1 .. e + m : g[k] = Onward(index, g[k - 1], c[k])
  BY <1>1 DEF Walk
<1>3. PICK h : h = Onwards(g, e, m)
  OBVIOUS
<1>4. h \in [0 .. m -> X \cup {NoId}] /\ h[0] = g[e]
  <2>1. \A k \in 0 .. m : e + k \in 0 .. e + m
    OBVIOUS
  <2>2. 0 \in 0 .. m /\ e + 0 = e
    OBVIOUS
  <2> QED
    BY <1>2, <1>3, <2>1, <2>2 DEF Onwards
<1>5. ASSUME NEW k \in 1 .. m
      PROVE  h[k] = Onward(index, h[k - 1], b[k])
  <2>1. PICK j \in 1 .. e + m : j = e + k /\ ~(j <= e) /\ j - e = k /\ j - 1 = e + (k - 1)
    OBVIOUS
  <2>2. c[j] = b[k]
    BY <1>1, <2>1
  <2>3. k \in 0 .. m /\ k - 1 \in 0 .. m
    OBVIOUS
  <2>4. h[k] = g[j] /\ h[k - 1] = g[j - 1]
    BY <1>3, <2>1, <2>3 DEF Onwards
  <2>5. g[j] = Onward(index, g[j - 1], c[j])
    BY <1>2
  <2> QED
    BY <2>2, <2>4, <2>5
<1>6. Walk(index, X, g[e], b, h)
  BY <1>4, <1>5 DEF Walk
<1> QED
  BY <1>3, <1>6

LEMMA KeysOfJoin ==
  ASSUME NEW a \in Seq(NameSet), NEW b \in Seq(NameSet)
  PROVE  KeysOf(a \o b) = KeysOf(a) \o KeysOf(b)
<1>1. PICK e, m \in Nat : Len(a) = e /\ Len(b) = m
  BY LenProperties
<1>2. PICK A \in Seq(KeyNames) : A = KeysOf(a)
  BY KeysOfType
<1> DEFINE F(i) == SubSeq(b, 1, i)
           T == {i \in 0 .. m : KeysOf(a \o F(i)) = A \o KeysOf(F(i))}
<1>3. ASSUME NEW i \in 0 .. m
      PROVE  /\ F(i) \in Seq(NameSet) /\ Len(F(i)) = i /\ \A k \in 1 .. i : F(i)[k] = b[k]
             /\ a \o F(i) \in Seq(NameSet) /\ Len(a \o F(i)) = e + i
             /\ \A k \in 1 .. e + i : (a \o F(i))[k] = IF k <= e THEN a[k] ELSE b[k - e]
  <2>1. i \in 0 .. Len(b)
    BY <1>1
  <2>2. PICK f \in Seq(NameSet) : f = F(i) /\ Len(f) = i /\ \A k \in 1 .. i : f[k] = b[k]
    <3>1. StartOf(SubSeq(b, 1, i), NameSet, b, i)
      BY <2>1, StartForm, Zenon
    <3>2. StartOf(F(i), NameSet, b, i)
      BY <3>1
    <3> HIDE DEF F, T
    <3> QED
      BY <3>2 DEF StartOf
  <2>3. PICK c \in Seq(NameSet) : /\ c = a \o f /\ Len(c) = e + i
                                  /\ \A k \in 1 .. e + i : c[k] = IF k <= e THEN a[k] ELSE f[k - e]
    <3>1. JoinOf(a \o f, NameSet, a, e, f, i)
      <4>1. Len(a) = e /\ Len(f) = i /\ i \in Nat
        BY <1>1, <2>2
      <4> QED
        BY <4>1, JoinIs, Zenon
    <3> QED
      BY <3>1 DEF JoinOf
  <2>4. ASSUME NEW k \in 1 .. e + i
        PROVE  c[k] = IF k <= e THEN a[k] ELSE b[k - e]
    <3>1. ~(k <= e) => k - e \in 1 .. i
      OBVIOUS
    <3> QED
      BY <2>2, <2>3, <3>1
  <2> HIDE DEF F
  <2> QED
    BY <2>2, <2>3, <2>4
<1> HIDE DEF F
<1>4. 0 \in T
  <2>1. 0 \in 0 .. m
    OBVIOUS
  <2>2. PICK f \in Seq(NameSet) : f = F(0) /\ Len(f) = 0
    BY <1>3, <2>1
  <2>3. f = <<>> /\ KeysOf(f) = <<>>
    BY <2>2, EmptySeq, KeysOfNone
  <2>4. a \o f = a /\ A \o <<>> = A
    BY <2>3, ConcatEmptySeq
  <2> QED
    BY <1>2, <2>1, <2>2, <2>3, <2>4
<1>5. ASSUME NEW i \in T, i < m
      PROVE  i + 1 \in T
  <2>1. PICK j \in 0 .. m : j = i + 1 /\ i \in 0 .. m /\ j \in 1 .. m
    BY <1>5
  <2>2. PICK f, g \in Seq(NameSet) :
          /\ f = F(i) /\ Len(f) = i /\ g = F(j) /\ Len(g) = i + 1
          /\ (\A k \in 1 .. i : g[k] = f[k]) /\ g[i + 1] = b[j]
    <3>1. PICK f \in Seq(NameSet) : f = F(i) /\ Len(f) = i /\ \A k \in 1 .. i : f[k] = b[k]
      BY <1>3, <2>1
    <3>2. PICK g \in Seq(NameSet) : g = F(j) /\ Len(g) = j /\ \A k \in 1 .. j : g[k] = b[k]
      BY <1>3, <2>1
    <3>3. i + 1 = j /\ j \in 1 .. j /\ \A k \in 1 .. i : k \in 1 .. j
      BY <2>1
    <3>4. (\A k \in 1 .. i : g[k] = f[k]) /\ g[j] = b[j]
      BY <3>1, <3>2, <3>3
    <3> QED
      BY <3>1, <3>2, <3>3, <3>4
  <2>3. PICK c, d \in Seq(NameSet) :
          /\ c = a \o F(i) /\ Len(c) = e + i /\ d = a \o F(j) /\ Len(d) = (e + i) + 1
          /\ (\A k \in 1 .. e + i : d[k] = c[k]) /\ d[(e + i) + 1] = b[j]
    <3>1. PICK c \in Seq(NameSet) : /\ c = a \o F(i) /\ Len(c) = e + i
                                    /\ \A k \in 1 .. e + i : c[k] = IF k <= e THEN a[k] ELSE b[k - e]
      BY <1>3, <2>1
    <3>2. PICK d \in Seq(NameSet) : /\ d = a \o F(j) /\ Len(d) = e + j
                                    /\ \A k \in 1 .. e + j : d[k] = IF k <= e THEN a[k] ELSE b[k - e]
      BY <1>3, <2>1
    <3>3. /\ e + j = (e + i) + 1 /\ e + j \in 1 .. e + j /\ ~(e + j <= e) /\ (e + j) - e = j
          /\ \A k \in 1 .. e + i : k \in 1 .. e + j
      BY <2>1
    <3>4. d[e + j] = b[j]
      BY <3>2, <3>3
    <3>5. \A k \in 1 .. e + i : d[k] = c[k]
      BY <3>1, <3>2, <3>3
    <3> QED
      BY <3>1, <3>2, <3>3, <3>4, <3>5
  <2>4. PICK name \in NameSet : name = b[j]
    <3>1. j \in 1 .. Len(b)
      BY <1>1, <2>1
    <3> QED
      BY <3>1, ElementOfSeq
  <2>5. KeysOf(g) = KeysOf(f) \o Keys(name)
    <3>1. PICK l \in Nat : l = i
      BY <2>1
    <3>2. Len(f) = l /\ Len(g) = l + 1 /\ (\A k \in 1 .. l : g[k] = f[k]) /\ g[l + 1] = name
      BY <2>2, <2>4, <3>1
    <3> QED
      BY <3>2, KeysOfMore
  <2>6. KeysOf(d) = KeysOf(c) \o Keys(name)
    <3>1. PICK l \in Nat : l = e + i
      BY <2>1
    <3>2. Len(c) = l /\ Len(d) = l + 1 /\ (\A k \in 1 .. l : d[k] = c[k]) /\ d[l + 1] = name
      BY <2>3, <2>4, <3>1
    <3> QED
      BY <3>2, KeysOfMore
  <2>7. PICK B, C \in Seq(KeyNames) : B = KeysOf(f) /\ C = Keys(name)
    BY KeysOfType, KeysType
  <2>8. KeysOf(c) = A \o B
    BY <1>5, <2>2, <2>3, <2>7
  <2>9. KeysOf(d) = A \o (B \o C)
    <3>1. (A \o B) \o C = A \o (B \o C)
      <4> HIDE DEF T
      <4> QED
        BY ConcatAssociative, SMTT(30)
    <3> QED
      BY <2>6, <2>7, <2>8, <3>1
  <2> QED
    BY <2>1, <2>2, <2>3, <2>5, <2>7, <2>9
<1>6. m \in T
  <2>1. T \in SUBSET (0 .. m)
    OBVIOUS
  <2> HIDE DEF T
  <2>2. T = 0 .. m
    BY <1>4, <1>5, <2>1, UptoInduction
  <2> QED
    BY <2>2
<1>7. F(m) = b
  BY <1>1, SubSeqFull DEF F
<1> QED
  BY <1>2, <1>6, <1>7

(* There is one deepest scope, and the search goes on from it.              *)
LEMMA DeepestFinds ==
  ASSUME NEW S \in Nat, NEW N \in Nat, NEW t, WellFormed(t, S, N), NEW from \in 0 .. S - 1,
         NEW path \in Seq(NameSet), path # <<>>, path # EmptyPath,
         NEW d \in Nat, NEW f, Deepest(t, from, path, d, f)
  PROVE  FindSignal(t, from, path) = Below(t, f, Rest(path, d))
<1>1. PICK m \in Nat : m = Len(path) /\ m # 0
  BY LenProperties, EmptySeq
<1>2. PICK c \in Nat : \E g \in 0 .. S - 1 :
        /\ Deepest(t, from, path, c, g)
        /\ FindSignal(t, from, path) = IF path = EmptyPath THEN NoId ELSE Below(t, g, Rest(path, c))
  BY <1>1, FindSignalIs
<1>3. PICK g : /\ Deepest(t, from, path, c, g)
               /\ FindSignal(t, from, path) = Below(t, g, Rest(path, c))
  BY <1>2
<1>4. /\ d < m /\ f = ScopeAlong(t, from, SubSeq(path, 1, d)) /\ f # NoId
      /\ \A k \in 0 .. m - 1 : d < k => ScopeAlong(t, from, SubSeq(path, 1, k)) = NoId
  BY <1>1 DEF Deepest
<1>5. /\ c < m /\ g = ScopeAlong(t, from, SubSeq(path, 1, c)) /\ g # NoId
      /\ \A k \in 0 .. m - 1 : c < k => ScopeAlong(t, from, SubSeq(path, 1, k)) = NoId
  BY <1>1, <1>3 DEF Deepest
<1>6. c = d
  <2>1. c \in 0 .. m - 1 /\ d \in 0 .. m - 1
    BY <1>4, <1>5
  <2>2. ~(c < d) /\ ~(d < c)
    BY <1>4, <1>5, <2>1
  <2> QED
    BY <2>2
<1> QED
  BY <1>3, <1>4, <1>5, <1>6

(* From a scope on a path leads to what it leads to after the names of the  *)
(* scope.                                                                   *)
LEMMA AlongJoined ==
  ASSUME NEW S \in Nat, NEW N \in Nat, NEW t, WellFormed(t, S, N), NEW s \in 0 .. S - 1,
         NEW above \in Seq(NameSet), NEW e \in Nat, Len(above) = e, ScopeAlong(t, Root, above) = s,
         NEW path \in Seq(NameSet), NEW m \in Nat, Len(path) = m, m # 0
  PROVE  \A k \in 0 .. m :
           ScopeAlong(t, Root, SubSeq(above \o path, 1, e + k)) = ScopeAlong(t, s, SubSeq(path, 1, k))
<1>1. PICK I, Y : I = ScopeIndexes(t) /\ Y = 0 .. S - 1
  OBVIOUS
<1>2. Root \in 0 .. S - 1
  BY ScopesRise
<1>3. JoinOf(above \o path, NameSet, above, e, path, m)
  BY JoinIs, Zenon
<1>4. PICK whole \in Seq(NameSet), l \in Nat : whole = above \o path /\ l = e + m /\ Len(whole) = l
  <2>1. e + m \in Nat
    OBVIOUS
  <2> QED
    BY <1>3, <2>1 DEF JoinOf
<1>5. SubSeq(whole, 1, e) = above
  <2>1. SubSeq(above \o path, 1, e) = above
    BY JoinRest
  <2> QED
    BY <1>4, <2>1
<1>6. PICK g : /\ Walk(I, Y, Root, whole, g)
               /\ \A k \in 0 .. l : ScopeAlong(t, Root, SubSeq(whole, 1, k)) = g[k]
  <2>1. l = Len(whole)
    BY <1>4
  <2>2. \E g : /\ Walk(ScopeIndexes(t), 0 .. S - 1, Root, whole, g)
               /\ \A k \in 0 .. l : ScopeAlong(t, Root, SubSeq(whole, 1, k)) = g[k]
    BY <1>2, <2>1, ScopesAlong
  <2> QED
    BY <1>1, <2>2
<1>7. PICK h : /\ Walk(I, Y, s, path, h)
               /\ \A k \in 0 .. m : ScopeAlong(t, s, SubSeq(path, 1, k)) = h[k]
  <2>1. m = Len(path)
    OBVIOUS
  <2>2. \E h : /\ Walk(ScopeIndexes(t), 0 .. S - 1, s, path, h)
               /\ \A k \in 0 .. m : ScopeAlong(t, s, SubSeq(path, 1, k)) = h[k]
    BY <2>1, ScopesAlong
  <2> QED
    BY <1>1, <2>2
<1>8. g[e] = s
  <2>1. e \in 0 .. l
    BY <1>4
  <2> QED
    BY <1>5, <1>6, <2>1
<1>9. PICK on : on = Onwards(g, e, m)
  OBVIOUS
<1>10. Walk(I, Y, s, path, on)
  <2>1. PICK r : r = Root
    OBVIOUS
  <2>2. Walk(I, Y, r, above \o path, g)
    BY <1>4, <1>6, <2>1
  <2>3. Walk(I, Y, g[e], path, Onwards(g, e, m))
    BY <2>2, WalkOn
  <2> QED
    BY <1>8, <1>9, <2>3
<1>11. \A k \in 0 .. m : on[k] = h[k]
  <2>1. Alike(path, path, m)
    BY DEF Alike
  <2> QED
    BY <1>7, <1>10, <2>1, WalksAgree
<1>12. \A k \in 0 .. m : e + k \in 0 .. l
  BY <1>4
<1> QED
  BY <1>4, <1>6, <1>7, <1>9, <1>11, <1>12 DEF Onwards

LEMMA JoinedRest ==
  ASSUME NEW V, NEW above \in Seq(V), NEW e \in Nat, Len(above) = e,
         NEW path \in Seq(V), NEW m \in Nat, Len(path) = m, NEW d \in Nat, d < m
  PROVE  Rest(above \o path, e + d) = Rest(path, d)
<1>1. JoinOf(above \o path, V, above, e, path, m)
  BY JoinIs, Zenon
<1>2. PICK whole \in Seq(V), l, c, w \in Nat :
        /\ whole = above \o path /\ Len(whole) = l /\ l = e + m /\ c = e + d /\ w = m - d /\ l - c = w
        /\ c < l /\ \A i \in 1 .. e + m : whole[i] = IF i <= e THEN above[i] ELSE path[i - e]
  <2>1. e + m \in Nat /\ e + d \in Nat /\ m - d \in Nat /\ (e + m) - (e + d) = m - d /\ e + d < e + m
    OBVIOUS
  <2> QED
    BY <1>1, <2>1 DEF JoinOf
<1>3. PICK a \in Seq(V) : a = Rest(whole, c) /\ Len(a) = w /\ \A k \in 1 .. w : a[k] = whole[c + k]
  <2>1. Len(whole) = l /\ c < l
    BY <1>2
  <2>2. RestOf(Rest(whole, c), V, whole, l, c)
    BY <2>1, RestForm, Zenon
  <2> QED
    BY <1>2, <2>2 DEF RestOf
<1>4. PICK b \in Seq(V) : b = Rest(path, d) /\ Len(b) = w /\ \A k \in 1 .. w : b[k] = path[d + k]
  <2>1. RestOf(Rest(path, d), V, path, m, d)
    BY RestForm, Zenon
  <2> QED
    BY <1>2, <2>1 DEF RestOf
<1>5. ASSUME NEW k \in 1 .. w
      PROVE  a[k] = b[k]
  <2>1. c + k \in 1 .. e + m /\ ~(c + k <= e) /\ (c + k) - e = d + k
    BY <1>2
  <2>2. whole[c + k] = path[d + k]
    BY <1>2, <2>1
  <2> QED
    BY <1>3, <1>4, <2>2
<1>6. a = b
  BY <1>3, <1>4, <1>5, SeqEqual
<1> QED
  BY <1>2, <1>3, <1>4, <1>6

(* A search from a scope finds what the search from the root finds by the   *)
(* names of the scope and the path.                                         *)
LEMMA ScopeRelative ==
  ASSUME NEW S \in Nat, NEW N \in Nat, NEW t, WellFormed(t, S, N), NEW s \in 0 .. S - 1,
         NEW above \in Seq(NameSet), ScopeAlong(t, Root, above) = s,
         NEW path \in Seq(NameSet), path # <<>>, path # EmptyPath
  PROVE  /\ FindSignal(t, s, path) = FindSignal(t, Root, above \o path)
         /\ FindScope(t, s, path) = FindScope(t, Root, above \o path)
<1>1. PICK e, m \in Nat : Len(above) = e /\ Len(path) = m /\ m # 0
  BY LenProperties, EmptySeq
<1>2. PICK whole \in Seq(NameSet), l \in Nat : whole = above \o path /\ l = e + m /\ Len(whole) = l
  <2>1. JoinOf(above \o path, NameSet, above, e, path, m)
    BY <1>1, JoinIs, Zenon
  <2>2. e + m \in Nat
    OBVIOUS
  <2> QED
    BY <2>1, <2>2 DEF JoinOf
<1>3. \A k \in 0 .. m : ScopeAlong(t, Root, SubSeq(whole, 1, e + k)) = ScopeAlong(t, s, SubSeq(path, 1, k))
  <2>1. \A k \in 0 .. m :
          ScopeAlong(t, Root, SubSeq(above \o path, 1, e + k)) = ScopeAlong(t, s, SubSeq(path, 1, k))
    BY <1>1, AlongJoined
  <2> QED
    BY <1>2, <2>1
<1>4. whole # <<>> /\ whole # EmptyPath
  <2>1. l # 0
    BY <1>1, <1>2
  <2>2. whole # <<>>
    BY <1>2, <2>1, EmptySeq
  <2>3. ASSUME whole = EmptyPath
        PROVE  FALSE
    <3>1. l = 1
      BY <1>2, <2>3, EmptyIs
    <3>2. e = 0
      BY <1>1, <1>2, <3>1
    <3>3. above = <<>>
      BY <1>1, <3>2, EmptySeq
    <3>4. above \o path = path
      BY <3>3, ConcatEmptySeq
    <3> QED
      BY <1>2, <2>3, <3>4
  <2> QED
    BY <2>2, <2>3
<1>5. FindScope(t, s, path) = FindScope(t, Root, whole)
  <2>1. m \in 0 .. m
    OBVIOUS
  <2>2. ScopeAlong(t, Root, SubSeq(whole, 1, l)) = ScopeAlong(t, s, SubSeq(path, 1, m))
    BY <1>2, <1>3, <2>1
  <2>3. SubSeq(whole, 1, l) = whole /\ SubSeq(path, 1, m) = path
    BY <1>1, <1>2, SubSeqFull
  <2> QED
    BY <1>4, <2>2, <2>3 DEF FindScope
<1>6. Root \in 0 .. S - 1
  BY ScopesRise
<1>7. PICK d \in Nat : \E f \in 0 .. S - 1 : Deepest(t, s, path, d, f)
  <2>1. m = Len(path)
    BY <1>1
  <2>2. \E d \in Nat : \E f \in 0 .. S - 1 :
          /\ Deepest(t, s, path, d, f)
          /\ FindSignal(t, s, path) = IF path = EmptyPath THEN NoId ELSE Below(t, f, Rest(path, d))
    BY <1>1, <2>1, FindSignalIs
  <2> QED
    BY <2>2
<1>8. PICK f \in 0 .. S - 1 : Deepest(t, s, path, d, f)
  BY <1>7
<1>9. FindSignal(t, s, path) = Below(t, f, Rest(path, d))
  BY <1>8, DeepestFinds
<1>10. /\ d < m /\ f = ScopeAlong(t, s, SubSeq(path, 1, d)) /\ f # NoId
       /\ \A k \in 0 .. m - 1 : d < k => ScopeAlong(t, s, SubSeq(path, 1, k)) = NoId
  BY <1>1, <1>8 DEF Deepest
<1>11. PICK c \in Nat : c = e + d
  OBVIOUS
<1>12. Deepest(t, Root, whole, c, f)
  <2>1. c < l /\ d \in 0 .. m
    BY <1>2, <1>10, <1>11
  <2>2. f = ScopeAlong(t, Root, SubSeq(whole, 1, c))
    BY <1>3, <1>10, <1>11, <2>1
  <2>3. ASSUME NEW k \in 0 .. l - 1, c < k
        PROVE  ScopeAlong(t, Root, SubSeq(whole, 1, k)) = NoId
    <3>1. PICK j \in 0 .. m - 1 : j = k - e /\ e + j = k /\ d < j /\ j \in 0 .. m
      <4>1. k - e \in 0 .. m - 1 /\ e + (k - e) = k /\ d < k - e /\ k - e \in 0 .. m
        BY <1>2, <1>11, <2>3
      <4> QED
        BY <4>1
    <3>2. ScopeAlong(t, s, SubSeq(path, 1, j)) = NoId
      BY <1>10, <3>1
    <3> QED
      BY <1>3, <3>1, <3>2
  <2> QED
    BY <1>2, <1>10, <2>1, <2>2, <2>3 DEF Deepest
<1>13. FindSignal(t, Root, whole) = Below(t, f, Rest(whole, c))
  BY <1>4, <1>6, <1>12, DeepestFinds
<1>14. Rest(whole, c) = Rest(path, d)
  <2>1. Rest(above \o path, e + d) = Rest(path, d)
    BY <1>1, <1>10, JoinedRest
  <2> QED
    BY <1>2, <1>11, <2>1
<1> QED
  BY <1>2, <1>5, <1>9, <1>13, <1>14

(* The search goes on in the scope if there is no scope of the next name.   *)
LEMMA DeepestHere ==
  ASSUME NEW S \in Nat, NEW N \in Nat, NEW t, WellFormed(t, S, N), NEW s \in 0 .. S - 1,
         NEW above \in Seq(NameSet), NEW e \in Nat, Len(above) = e, ScopeAlong(t, Root, above) = s,
         NEW path \in Seq(NameSet), path # <<>>, path[1] \notin DOMAIN t.scopes[s].scopeIndex
  PROVE  Deepest(t, Root, above \o path, e, s) /\ Rest(above \o path, e) = path
<1>1. PICK m \in Nat : Len(path) = m /\ m # 0
  BY LenProperties, EmptySeq
<1>2. PICK whole \in Seq(NameSet), l \in Nat : whole = above \o path /\ l = e + m /\ Len(whole) = l
  <2>1. JoinOf(above \o path, NameSet, above, e, path, m)
    BY <1>1, JoinIs, Zenon
  <2>2. e + m \in Nat
    OBVIOUS
  <2> QED
    BY <2>1, <2>2 DEF JoinOf
<1>3. SubSeq(whole, 1, e) = above /\ whole[e + 1] = path[1]
  <2>1. SubSeq(above \o path, 1, e) = above
    BY <1>1, JoinRest
  <2>2. (above \o path)[e + 1] = path[1]
    <3>1. e + 1 \in 1 .. e + m /\ ~(e + 1 <= e) /\ (e + 1) - e = 1
      BY <1>1
    <3>2. JoinOf(above \o path, NameSet, above, e, path, m)
      BY <1>1, JoinIs, Zenon
    <3> QED
      BY <3>1, <3>2 DEF JoinOf
  <2> QED
    BY <1>2, <2>1, <2>2
<1>4. Rest(whole, e) = path
  <2>1. Rest(above \o path, e) = path
    BY <1>1, JoinRest
  <2> QED
    BY <1>2, <2>1
<1>5. s # NoId
  <2>1. s \in Nat
    OBVIOUS
  <2> QED
    BY <2>1, Constants, Zenon
<1>6. ASSUME NEW k \in 0 .. l - 1, e < k
      PROVE  ScopeAlong(t, Root, SubSeq(whole, 1, k)) = NoId
  <2>1. l = Len(whole) /\ e < l /\ k \in e + 1 .. l
    BY <1>1, <1>2, <1>6
  <2>2. ScopeAlong(t, Root, SubSeq(whole, 1, e)) = s
    BY <1>3
  <2>3. /\ whole[e + 1] \in DOMAIN t.scopes[s].scopeIndex <=>
             ScopeAlong(t, Root, SubSeq(whole, 1, e + 1)) # NoId
        /\ \A d \in e + 1 .. l : ScopeAlong(t, Root, SubSeq(whole, 1, d)) # NoId =>
             ScopeAlong(t, Root, SubSeq(whole, 1, e + 1)) # NoId
    BY <2>1, <2>2, ScopeOnward
  <2> QED
    BY <1>3, <2>1, <2>3
<1>7. Deepest(t, Root, whole, e, s)
  <2>1. e < l
    BY <1>1, <1>2
  <2> QED
    BY <1>2, <1>3, <1>5, <1>6, <2>1 DEF Deepest
<1> QED
  BY <1>2, <1>4, <1>7

(* Going down by the keys of two paths is going down by those of the first  *)
(* and on from there by those of the second.                                *)
LEMMA DescendOn ==
  ASSUME NEW S \in Nat, NEW N \in Nat, NEW t, WellFormed(t, S, N), NEW top \in 0 .. N - 1,
         NEW p \in Seq(NameSet), NEW n \in 0 .. N - 1, Descend(t, top, p) = n,
         NEW path \in Seq(NameSet)
  PROVE  Descend(t, top, p \o path) = Descend(t, n, path)
<1>1. PICK I, Y : I = MemberIndexes(t) /\ Y = 0 .. N - 1
  OBVIOUS
<1>2. PICK A, B \in Seq(KeyNames) : A = KeysOf(p) /\ B = KeysOf(path)
  BY KeysOfType
<1>3. PICK a, b \in Nat : Len(A) = a /\ Len(B) = b /\ DOMAIN A = 1 .. a /\ DOMAIN B = 1 .. b
  BY LenProperties
<1>4. JoinOf(A \o B, KeyNames, A, a, B, b)
  BY <1>3, JoinIs, Zenon
<1>5. PICK whole \in Seq(NameSet), K \in Seq(KeyNames), l \in Nat :
        /\ whole = p \o path /\ K = KeysOf(whole) /\ K = A \o B /\ l = a + b /\ Len(K) = l
        /\ DOMAIN K = 1 .. l /\ \A i \in 1 .. a : K[i] = A[i]
  <2>1. p \o path \in Seq(NameSet) /\ KeysOf(p \o path) = A \o B
    BY <1>2, KeysOfJoin, ConcatProperties
  <2>2. PICK K \in Seq(KeyNames), l \in Nat : K = A \o B /\ l = a + b /\ Len(K) = l
    <3>1. A \o B \in Seq(KeyNames) /\ Len(A \o B) = a + b /\ a + b \in Nat
      BY <1>4 DEF JoinOf
    <3> QED
      BY <3>1
  <2>3. DOMAIN K = 1 .. l
    BY <2>2, LenProperties
  <2>4. \A i \in 1 .. a : i \in 1 .. a + b /\ i <= a
    OBVIOUS
  <2>5. \A i \in 1 .. a : K[i] = A[i]
    BY <1>4, <2>2, <2>4 DEF JoinOf
  <2> QED
    BY <2>1, <2>2, <2>3, <2>5
<1>6. PICK g : Walk(I, Y, top, K, g) /\ Descend(t, top, whole) = g[l]
  <2>1. Len(KeysOf(whole)) \in Nat /\ DOMAIN KeysOf(whole) = 1 .. Len(KeysOf(whole))
    BY <1>5
  <2>2. \E g : /\ Walk(MemberIndexes(t), 0 .. N - 1, top, KeysOf(whole), g)
               /\ Descend(t, top, whole) = g[Len(KeysOf(whole))]
    BY <2>1, MemberWalk
  <2> QED
    BY <1>1, <1>5, <2>2
<1>7. PICK h : Walk(I, Y, top, A, h) /\ n = h[a]
  <2>1. Len(KeysOf(p)) \in Nat /\ DOMAIN KeysOf(p) = 1 .. Len(KeysOf(p))
    BY <1>2, <1>3
  <2>2. \E h : /\ Walk(MemberIndexes(t), 0 .. N - 1, top, KeysOf(p), h)
               /\ Descend(t, top, p) = h[Len(KeysOf(p))]
    BY <2>1, MemberWalk, SMTT(30)
  <2> QED
    BY <1>1, <1>2, <1>3, <2>2
<1>8. PICK f : Walk(I, Y, n, B, f) /\ Descend(t, n, path) = f[b]
  <2>1. Len(KeysOf(path)) \in Nat /\ DOMAIN KeysOf(path) = 1 .. Len(KeysOf(path))
    BY <1>2, <1>3
  <2>2. \E f : /\ Walk(MemberIndexes(t), 0 .. N - 1, n, KeysOf(path), f)
               /\ Descend(t, n, path) = f[Len(KeysOf(path))]
    BY <2>1, MemberWalk
  <2> QED
    BY <1>1, <1>2, <1>3, <2>2
<1>9. g[a] = n
  <2>1. Alike(K, A, a)
    BY <1>3, <1>5 DEF Alike
  <2>2. \A k \in 0 .. a : g[k] = h[k]
    BY <1>6, <1>7, <2>1, WalksAgree
  <2> QED
    BY <1>7, <2>2
<1>10. PICK on : on = Onwards(g, a, b)
  OBVIOUS
<1>11. Walk(I, Y, n, B, on)
  <2>1. Walk(I, Y, top, A \o B, g)
    BY <1>5, <1>6
  <2>2. Walk(I, Y, g[a], B, Onwards(g, a, b))
    BY <1>3, <2>1, WalkOn
  <2> QED
    BY <1>9, <1>10, <2>2
<1>12. \A k \in 0 .. b : on[k] = f[k]
  <2>1. Alike(B, B, b)
    BY <1>3 DEF Alike
  <2> QED
    BY <1>8, <1>11, <2>1, WalksAgree
<1>13. on[b] = g[l] /\ b \in 0 .. b
  BY <1>5, <1>10 DEF Onwards
<1> QED
  BY <1>5, <1>6, <1>8, <1>12, <1>13

LEMMA UnbasedJoin ==
  ASSUME NEW p \in Seq(NameSet), p # <<>>, NEW path \in Seq(NameSet)
  PROVE  Unbased(p \o path) = Unbased(p) \o path /\ (p \o path)[1] = p[1]
<1>1. PICK w, m \in Nat : Len(p) = w /\ w # 0 /\ Len(path) = m
  BY LenProperties, EmptySeq
<1>2. JoinOf(p \o path, NameSet, p, w, path, m)
  BY <1>1, JoinIs, Zenon
<1>3. PICK c \in Seq(NameSet), l \in Nat :
        /\ c = p \o path /\ l = w + m /\ Len(c) = l /\ l # 0 /\ c[1] = p[1]
        /\ \A i \in 1 .. l : c[i] = IF i <= w THEN p[i] ELSE path[i - w]
  <2>1. w + m \in Nat /\ w + m # 0 /\ 1 \in 1 .. w + m /\ 1 <= w
    BY <1>1
  <2> QED
    BY <1>2, <2>1 DEF JoinOf
<1>4. PICK u \in Seq(NameSet) : /\ u = Unbased(p) /\ Len(u) = w /\ u[1] = Name(NoBase, p[1].keys)
                                /\ \A k \in 2 .. w : u[k] = p[k]
  BY <1>1, UnbasedIs
<1>5. PICK v \in Seq(NameSet) : /\ v = Unbased(c) /\ Len(v) = l /\ v[1] = Name(NoBase, c[1].keys)
                                /\ \A k \in 2 .. l : v[k] = c[k]
  BY <1>3, UnbasedIs
<1>6. JoinOf(u \o path, NameSet, u, w, path, m)
  BY <1>1, <1>4, JoinIs, Zenon
<1>7. PICK x \in Seq(NameSet) : /\ x = u \o path /\ Len(x) = l
                                /\ \A i \in 1 .. l : x[i] = IF i <= w THEN u[i] ELSE path[i - w]
  BY <1>3, <1>6 DEF JoinOf
<1>8. ASSUME NEW i \in 1 .. l
      PROVE  v[i] = x[i]
  <2>1. CASE i = 1
    <3>1. i <= w
      BY <1>1, <2>1
    <3> QED
      BY <1>3, <1>4, <1>5, <1>7, <2>1, <3>1
  <2>2. CASE i # 1
    <3>1. i \in 2 .. l /\ (i <= w => i \in 2 .. w)
      BY <2>2
    <3> QED
      BY <1>3, <1>4, <1>5, <1>7, <3>1
  <2> QED
    BY <2>1, <2>2
<1>9. v = x
  BY <1>5, <1>7, <1>8, SeqEqual
<1> QED
  BY <1>3, <1>4, <1>5, <1>7, <1>9

(* What is below a scope goes on below a node of it.                        *)
LEMMA BelowOn ==
  ASSUME NEW S \in Nat, NEW N \in Nat, NEW t, WellFormed(t, S, N), NEW s \in 0 .. S - 1,
         NEW p \in Seq(NameSet), p # <<>>, NEW n \in 0 .. N - 1, Below(t, s, p) = n,
         NEW path \in Seq(NameSet)
  PROVE  Below(t, s, p \o path) = Descend(t, n, path)
<1>1. PICK name : name = Plain(p[1].base)
  OBVIOUS
<1>2. PICK top : top = Lookup(t.scopes[s].signalIndex, name)
  OBVIOUS
<1>3. n # NoId
  <2>1. n \in Nat
    OBVIOUS
  <2> QED
    BY <2>1, Constants, Zenon
<1>4. top # NoId /\ Descend(t, top, Unbased(p)) = n
  BY <1>1, <1>2, <1>3 DEF Below
<1>5. top \in 0 .. N - 1
  <2>1. HasSignal(t, s, name, top)
    BY <1>2, <1>4 DEF HasSignal
  <2> QED
    BY <2>1, SignalFound
<1>6. PICK u \in Seq(NameSet) : u = Unbased(p)
  <2>1. PICK w \in Nat : w = Len(p) /\ w # 0
    BY LenProperties, EmptySeq
  <2> QED
    BY <2>1, UnbasedIs
<1>7. Descend(t, top, u \o path) = Descend(t, n, path)
  BY <1>4, <1>5, <1>6, DescendOn
<1>8. Unbased(p \o path) = u \o path /\ (p \o path)[1] = p[1]
  BY <1>6, UnbasedJoin
<1> QED
  BY <1>1, <1>2, <1>4, <1>7, <1>8 DEF Below

(* A search from a node finds what the search from the root finds by its    *)
(* path and the path.                                                       *)
LEMMA NodeRelative ==
  ASSUME NEW S \in Nat, NEW N \in Nat, NEW t, WellFormed(t, S, N), NEW n \in 0 .. N - 1,
         NodeNamed(t, n), ~Shadowed(t, n), NEW path \in Seq(NameSet)
  PROVE  Descend(t, n, path) = FindSignal(t, Root, Joined(PathOfNode(t, n), path))
<1>1. PICK s \in 0 .. S - 1, p \in Seq(NameSet) :
        s = TopScope(t, n) /\ p = LocalPath(t, n) /\ Len(p) # 0
  BY NodeIs DEF LocalPaths
<1>2. ScopeNamed(t, s)
  BY <1>1 DEF NodeNamed
<1>3. PICK above \in Seq(NameSet) :
        /\ above = ScopeNames(t, s) /\ (s = Root <=> above = <<>>)
        /\ (\A r \in LineOf(t.scopes, s) : FirstScope(t, r)) => ScopeAlong(t, Root, above) = s
  BY ScopeThere
<1>4. ScopeAlong(t, Root, above) = s
  BY <1>2, <1>3 DEF ScopeNamed
<1>5. PathOfNode(t, n) = above \o p
  <2>1. ~Unnamed(t, TopScope(t, n))
    BY <1>1, <1>2 DEF ScopeNamed, Unnamed, PathOfScope
  <2>2. PathOfNode(t, n) = ScopeNames(t, TopScope(t, n)) \o LocalPath(t, n)
    BY <2>1, PathForms
  <2> QED
    BY <1>1, <1>3, <2>2
<1>6. p # <<>> /\ p[1] \notin DOMAIN t.scopes[s].scopeIndex
  BY <1>1, EmptySeq DEF Shadowed
<1>7. PICK e \in Nat : Len(above) = e
  BY LenProperties
<1>8. PICK mine \in Seq(NameSet) : mine = above \o p
  BY <1>6, ConcatProperties
<1>9. Deepest(t, Root, mine, e, s) /\ Rest(mine, e) = p
  BY <1>4, <1>6, <1>7, <1>8, DeepestHere
<1>10. FindSignal(t, Root, mine) = n
  BY <1>5, <1>8, NodeThere
<1>11. Root \in 0 .. S - 1 /\ mine # <<>> /\ mine # EmptyPath
  <2>1. mine # <<>>
    <3>1. PICK w \in Nat : Len(p) = w /\ w # 0
      BY <1>6, LenProperties, EmptySeq
    <3>2. Len(above \o p) = e + w
      BY <1>6, <1>7, <3>1, JoinRest
    <3> QED
      BY <1>8, <3>1, <3>2, EmptySeq
  <2>2. mine # EmptyPath
    <3>1. n # NoId
      <4>1. n \in Nat
        OBVIOUS
      <4> QED
        BY <4>1, Constants, Zenon
    <3> QED
      BY <1>10, <3>1 DEF FindSignal
  <2> QED
    BY <2>1, <2>2, ScopesRise
<1>12. Below(t, s, p) = n
  <2>1. FindSignal(t, Root, mine) = Below(t, s, Rest(mine, e))
    BY <1>7, <1>9, <1>11, DeepestFinds
  <2> QED
    BY <1>9, <1>10, <2>1
<1>13. Below(t, s, p \o path) = Descend(t, n, path)
  <2>1. p # <<>> /\ Below(t, s, p) = n
    BY <1>6, <1>12
  <2> QED
    BY <2>1, BelowOn
<1>14. PICK on \in Seq(NameSet) : on = p \o path /\ on # <<>> /\ on[1] = p[1]
  <2>1. p \o path \in Seq(NameSet) /\ Len(p \o path) = Len(p) + Len(path)
    BY <1>6, ConcatProperties
  <2>2. PICK w, m \in Nat : w = Len(p) /\ w # 0 /\ m = Len(path)
    BY <1>6, LenProperties, EmptySeq
  <2>3. p \o path # <<>>
    BY <2>1, <2>2, EmptySeq
  <2>4. (p \o path)[1] = p[1]
    BY <1>6, UnbasedJoin
  <2> QED
    BY <2>1, <2>3, <2>4
<1>15. PICK whole \in Seq(NameSet) : whole = above \o on
  BY ConcatProperties
<1>16. Deepest(t, Root, whole, e, s) /\ Rest(whole, e) = on
  <2>1. Len(above) = e /\ ScopeAlong(t, Root, above) = s
    BY <1>4, <1>7
  <2>2. on # <<>> /\ on[1] \notin DOMAIN t.scopes[s].scopeIndex
    BY <1>6, <1>14
  <2>3. Deepest(t, Root, above \o on, e, s) /\ Rest(above \o on, e) = on
    BY <2>1, <2>2, DeepestHere
  <2> QED
    BY <1>15, <2>3
<1>17. Joined(PathOfNode(t, n), path) = whole
  <2>1. (above \o p) \o path = above \o (p \o path)
    BY ConcatAssociative, SMTT(30)
  <2> QED
    BY <1>5, <1>8, <1>11, <1>14, <1>15, <2>1 DEF Joined
<1>18. whole # <<>> /\ whole # EmptyPath
  <2>1. PICK w, m \in Nat : Len(p) = w /\ w # 0 /\ Len(path) = m
    BY <1>6, LenProperties, EmptySeq
  <2>2. PICK c \in Nat : Len(mine) = c /\ c # 0
    BY <1>11, LenProperties, EmptySeq
  <2>3. whole = mine \o path
    BY <1>5, <1>8, <1>11, <1>17 DEF Joined
  <2>4. Len(whole) = c + m
    <3>1. JoinOf(mine \o path, NameSet, mine, c, path, m)
      BY <2>1, <2>2, JoinIs, Zenon
    <3> QED
      BY <2>3, <3>1 DEF JoinOf
  <2>5. whole # <<>>
    BY <2>2, <2>4, EmptySeq
  <2>6. ASSUME whole = EmptyPath
        PROVE  FALSE
    <3>1. c + m = 1
      BY <2>4, <2>6, EmptyIs
    <3>2. m = 0
      BY <2>2, <3>1
    <3>3. path = <<>>
      BY <2>1, <3>2, EmptySeq
    <3>4. mine \o path = mine
      BY <3>3, ConcatEmptySeq
    <3> QED
      BY <1>11, <2>3, <2>6, <3>4
  <2> QED
    BY <2>5, <2>6
<1>19. FindSignal(t, Root, whole) = Below(t, s, Rest(whole, e))
  BY <1>7, <1>11, <1>16, <1>18, DeepestFinds
<1> QED
  BY <1>13, <1>14, <1>16, <1>17, <1>19

(* The empty path leads from a node to itself.                              *)
LEMMA DescendEmpty ==
  ASSUME NEW S \in Nat, NEW N \in Nat, NEW t, WellFormed(t, S, N), NEW n \in 0 .. N - 1
  PROVE  Descend(t, n, EmptyPath) = n
<1>1. PICK K : K = KeysOf(EmptyPath)
  OBVIOUS
<1>2. K = <<>>
  <2>1. KeysOf(EmptyPath) = Keys(Empty)
    BY KeysOfOne, EmptyIs
  <2> QED
    BY <1>1, <2>1, KeysOfEmpty
<1>3. Len(K) = 0 /\ DOMAIN K = 1 .. Len(K)
  <2>1. K \in Seq(KeyNames)
    BY <1>2, EmptySeq
  <2> QED
    BY <1>2, <2>1, EmptySeq, LenProperties
<1>4. PICK g : /\ Walk(MemberIndexes(t), 0 .. N - 1, n, K, g) /\ Descend(t, n, EmptyPath) = g[Len(K)]
  <2>1. Len(KeysOf(EmptyPath)) \in Nat /\ DOMAIN KeysOf(EmptyPath) = 1 .. Len(KeysOf(EmptyPath))
    BY <1>1, <1>3
  <2>2. \E g : /\ Walk(MemberIndexes(t), 0 .. N - 1, n, KeysOf(EmptyPath), g)
               /\ Descend(t, n, EmptyPath) = g[Len(KeysOf(EmptyPath))]
    BY <2>1, MemberWalk
  <2> QED
    BY <1>1, <2>2
<1> QED
  BY <1>3, <1>4 DEF Walk

LEMMA RelativeFollow ==
  ASSUME IndexesRight
  PROVE  RelativeAgrees
<1>1. PICK S \in Nat : \E N \in Nat : WellFormed(tree, S, N)
  BY DEF IndexesRight
<1>2. PICK N \in Nat : WellFormed(tree, S, N)
  BY <1>1
<1>3. DOMAIN tree.scopes = 0 .. S - 1 /\ DOMAIN tree.nodes = 0 .. N - 1
  BY <1>2, ScopesRise, NodesRise
<1>4. ASSUME NEW path \in Paths
      PROVE  path \in Seq(NameSet) /\ path # <<>>
  BY HierarchyAssumption DEF NameSet
<1>5. ASSUME NEW s \in 0 .. S - 1, ScopeNamed(tree, s), NEW path \in Paths, path # EmptyPath
      PROVE  /\ FindSignal(tree, s, path) = FindSignal(tree, Root, Joined(PathOfScope(tree, s), path))
             /\ FindScope(tree, s, path) = FindScope(tree, Root, Joined(PathOfScope(tree, s), path))
  <2>1. PICK above \in Seq(NameSet) :
          /\ above = ScopeNames(tree, s) /\ (s = Root <=> above = <<>>)
          /\ (\A r \in LineOf(tree.scopes, s) : FirstScope(tree, r)) => ScopeAlong(tree, Root, above) = s
    BY <1>2, ScopeThere
  <2>2. ScopeAlong(tree, Root, above) = s
    BY <1>5, <2>1 DEF ScopeNamed
  <2>3. Joined(PathOfScope(tree, s), path) = above \o path
    <3>1. CASE s = Root
      <4>1. above \o path = path
        BY <1>4, <2>1, <3>1, ConcatEmptySeq
      <4> QED
        BY <3>1, <4>1 DEF PathOfScope, Joined
    <3>2. CASE s # Root
      <4>1. PathOfScope(tree, s) = above /\ above # EmptyPath
        BY <1>5, <2>1, <3>2 DEF PathOfScope, ScopeNamed
      <4> QED
        BY <4>1 DEF Joined
    <3> QED
      BY <3>1, <3>2
  <2>4. path \in Seq(NameSet) /\ path # <<>>
    BY <1>4
  <2>5. /\ FindSignal(tree, s, path) = FindSignal(tree, Root, above \o path)
        /\ FindScope(tree, s, path) = FindScope(tree, Root, above \o path)
    BY <1>2, <1>5, <2>2, <2>4, ScopeRelative
  <2> QED
    BY <2>3, <2>5
<1>6. ASSUME NEW n \in 0 .. N - 1, NodeNamed(tree, n), ~Shadowed(tree, n), NEW path \in Paths
      PROVE  FindBelow(tree, n, path) = FindSignal(tree, Root, Joined(PathOfNode(tree, n), path))
  <2>1. Descend(tree, n, path) = FindSignal(tree, Root, Joined(PathOfNode(tree, n), path))
    BY <1>2, <1>4, <1>6, NodeRelative
  <2>2. CASE path # EmptyPath
    BY <2>1, <2>2 DEF FindBelow
  <2>3. CASE path = EmptyPath
    <3>1. Descend(tree, n, path) = n
      BY <1>2, <2>3, DescendEmpty
    <3> QED
      BY <2>1, <2>3, <3>1 DEF FindBelow
  <2> QED
    BY <2>2, <2>3
<1> QED
  BY <1>3, <1>5, <1>6 DEF RelativeAgrees

(* What a search finds has the path that was searched for, and a search     *)
(* from a scope or a node finds what its path and the rest find from the    *)
(* root, in any tree that can be built.                                     *)
THEOREM SearchesCorrect == Spec => []SearchesExact
<1>1. Init => IndexesRight
  <2>1. WellFormed(NewTree, 1, 0) /\ 1 \in Nat /\ 0 \in Nat
    BY NewRight
  <2> QED
    BY <2>1 DEF Init, IndexesRight
<1>2. IndexesRight /\ [Next]_tree => IndexesRight'
  BY StepRight
<1>3. IndexesRight => SearchesExact
  BY FoundFollow, RelativeFollow DEF SearchesExact
<1> QED
  BY <1>1, <1>2, <1>3, PTL DEF Spec
=============================================================================
