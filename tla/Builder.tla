------------------------------- MODULE Builder -------------------------------
(***************************************************************************)
(* A reader of a waveform format drives a Builder (io/builder.hpp): scopes *)
(* and variables first, then values in the order of time, then finish()    *)
(* and takeDatabase().  The calls go through ValidatingBuilder, which      *)
(* checks them against what it has seen (validating_builder.cpp), to a     *)
(* BaseBuilder, which allocates streams and grows the hierarchy            *)
(* (base_builder.cpp), over a storage (memory_builder.cpp).                *)
(*                                                                         *)
(* A declared variable stands for its node and, by Expansion of its type,  *)
(* for all nodes below it.  Values are their kind and width.  A call that   *)
(* breaks the contract ends with an exception and changes nothing, which  *)
(* is a stuttering step: actions are the calls that are accepted.  One in  *)
(* which a sink that writes a file throws has changed the same as one that *)
(* returns, for the checker and the storage are changed before the write.  *)
(***************************************************************************)
EXTENDS Types

CONSTANTS
  Declared,         \* types a reader declares
  Ids,              \* SignalIds a reader may hand in, known or not
  Times,            \* arguments of setTime()
  Values,           \* [kind, width] of the arguments of valueChange()
  Leaves,           \* [Declared -> arguments for leaves]
  MaxScopes, MaxVariables, MaxChanges,  \* bounds of a run
  Invalid,          \* an invalid SignalId
  NoAlias,          \* std::nullopt
  NoSlice,          \* no projection
  NoRange           \* TimeRange{}

ASSUME BuilderAssumption ==
  /\ Ids \subseteq Nat /\ Invalid \notin Nat /\ NoAlias \notin Nat /\ NoAlias # Invalid
  /\ Times \subseteq Int /\ NoSlice \notin [offset : 0 .. U32 - 1, width : 0 .. U32 - 1]
  /\ Declared \subseteq Types /\ \A t \in Declared : Leaves[t] \subseteq Seq(Ids \cup {Invalid})

VARIABLES
  known,       \* ValidatingBuilder: streams_, [ids -> [kind, width]]
  openScopes,  \* ValidatingBuilder: openScopes_
  headerDone, finished, taken,  \* ValidatingBuilder: the phase
  now, timeSet,                 \* ValidatingBuilder: now_, timeSet_
  stack,       \* BaseBuilder: stack_, scopes that are open, the root first
  scopes,      \* Hierarchy: parents of the scopes, the root being scope 0
  variables,   \* Hierarchy: the declared variables
  streams,     \* the storage: [ids -> [kind, width]]
  clock,       \* BaseBuilder: now_
  stored,      \* the storage: changes in the order they came
  range        \* the storage: timeRange_

checkerVars == <<known, openScopes, headerDone, finished, taken, now, timeSet>>
headerVars  == <<stack, scopes, variables, streams>>
valueVars   == <<clock, stored, range>>
vars == <<checkerVars, headerVars, valueVars>>
----------------------------------------------------------------------------
(* The nodes that buildChildren() adds below a node of a type, in order:    *)
(* the path of ordinals to each, its type, its slice of the stream that     *)
(* covers it, and whether it binds a stream: one that the caller of         *)
(* declareVar() sees in leaves, or, below a packed composite, a hidden one. *)
NoBinding == "none"
BindingOf_Seen(t, packed, below) ==       \* a seeded fault, for LeavesReadable
  IF packed \/ below \/ ~SingleStream(t) THEN NoBinding ELSE "leaf"
BindingOf(t, packed, below) ==
  IF packed \/ ~SingleStream(t) THEN NoBinding ELSE IF below THEN "hidden" ELSE "leaf"

Under(k, nodes) == [j \in DOMAIN nodes |-> [nodes[j] EXCEPT !.path = <<k>> \o @]]

OffsetIn(base, packed, part) == IF packed THEN (base + part.offset) % U32 ELSE 0
NodeFor(k, part, base, packed, below) ==
  [path |-> <<k>>, type |-> part.type,
   slice |-> IF packed THEN [offset |-> OffsetIn(base, packed, part), width |-> BitWidth[part.type]]
             ELSE NoSlice,
   binds |-> BindingOf(part.type, packed, below)]

(* A call has a type, the offset of its node and whether a stream covers it. *)
Places == Types \X (0 .. U32 - 1) \X BOOLEAN

NodesBelow[place \in Places] ==
  LET t == place[1]  base == place[2]  below == place[3]
      subtree(k, part, packed) ==
        <<NodeFor(k, part, base, packed, below)>>
          \o Under(k, NodesBelow[<<part.type, OffsetIn(base, packed, part), packed \/ below>>])
  IN FlattenSeq([k \in DOMAIN Children(t) |-> subtree(k, Children(t)[k], Descriptor[t].packed)])

NodesOf == [t \in Types |-> NodesBelow[<<t, 0, FALSE>>]]

(* Seeded faults: each replaces the definition it is named after, and the   *)
(* property named beside it finds it.                                       *)
Extended_Overwriting(f, g) ==                                 \* KnownAgrees
  [x \in DOMAIN f \cup DOMAIN g |-> IF x \in DOMAIN g THEN g[x] ELSE f[x]]
Fits_KindOnly(id, v) == known[id].kind = v.kind               \* ChangesFit
ClosedScopes_Lenient == TRUE                                  \* ScopesFollow
RangeEnd_Last(times) == Max(times)                            \* RangeCovers

(* collectExpansion(): the walk of the checker over the same types. *)
Expansion[t \in Types] ==
  LET part(c) == (IF SingleStream(c) THEN <<c>> ELSE <<>>) \o Expansion[c]
  IN IF SingleStream(t) THEN <<>>
     ELSE FlattenSeq([k \in DOMAIN Children(t) |-> part(Children(t)[k].type)])
----------------------------------------------------------------------------
(* BaseBuilder::declareVar(): which node of the variable takes which place  *)
(* in leaves, and which stream is bound to it.  Streams are allocated in    *)
(* the order of the walk: for the variable itself, even if it has an alias, *)
(* then for the nodes below it that are given none.                         *)
PlaceOf(nodes, k) == Cardinality({j \in 1 .. k : nodes[j].binds = "leaf"})

Allocates(nodes, leaves, k) ==
  \/ nodes[k].binds = "hidden"
  \/ nodes[k].binds = "leaf" /\ (leaves = <<>> \/ leaves[PlaceOf(nodes, k)] = Invalid)

Count == Cardinality(DOMAIN streams)
OwnStreams(t) == IF SingleStream(t) THEN 1 ELSE 0
NewId_Backwards(t, nodes, leaves, k) ==          \* a seeded fault, for IdsFollowWalk
  Count + OwnStreams(t) + Cardinality({j \in DOMAIN nodes : j > k /\ Allocates(nodes, leaves, j)})
NewId(t, nodes, leaves, k) ==
  Count + OwnStreams(t) + Cardinality({j \in 1 .. k - 1 : Allocates(nodes, leaves, j)})

Bound_LeavesOnly(t, nodes, leaves, k) ==         \* a seeded fault, for OnlyAliasesWaste
  CASE nodes[k].binds # "leaf"      -> Invalid
    [] Allocates(nodes, leaves, k)  -> NewId(t, nodes, leaves, k)
    [] OTHER                        -> leaves[PlaceOf(nodes, k)]
Bound(t, nodes, leaves, k) ==
  CASE nodes[k].binds = NoBinding   -> Invalid
    [] Allocates(nodes, leaves, k)  -> NewId(t, nodes, leaves, k)
    [] OTHER                        -> leaves[PlaceOf(nodes, k)]

OwnStream(t) == IF SingleStream(t) THEN Count ELSE Invalid

Allocated(t, nodes, leaves) ==
  LET fresh == {k \in DOMAIN nodes : Allocates(nodes, leaves, k)}
      last  == Count + OwnStreams(t) + Cardinality(fresh) - 1
  IN [id \in Count .. last |->
        IF id = OwnStream(t) THEN StreamOf(t)
        ELSE StreamOf(nodes[CHOOSE k \in fresh : NewId(t, nodes, leaves, k) = id].type)]

(* emplace(): what is there already stays as it is. *)
Extended(f, g) == [x \in DOMAIN f \cup DOMAIN g |-> IF x \in DOMAIN f THEN f[x] ELSE g[x]]

SinkDeclares(t, nodes, alias, leaves) ==
  /\ streams' = Extended(streams, Allocated(t, nodes, leaves))
  /\ variables' = Append(variables,
       [scope |-> Last(stack), type |-> t, aliased |-> alias # NoAlias,
        stream |-> IF alias = NoAlias THEN OwnStream(t) ELSE alias,
        below |-> [k \in DOMAIN nodes |-> Bound(t, nodes, leaves, k)]])

(* The size of leaves, which is checked before anything is changed. *)
MayBind(t, leaves) == leaves = <<>> \/ Len(leaves) = ExpansionStreamCount[t]
----------------------------------------------------------------------------
Init ==
  /\ known = <<>> /\ openScopes = 0
  /\ headerDone = FALSE /\ finished = FALSE /\ taken = FALSE
  /\ now = 0 /\ timeSet = FALSE
  /\ stack = <<0>> /\ scopes = <<>> /\ variables = <<>> /\ streams = <<>>
  /\ clock = 0 /\ stored = <<>> /\ range = NoRange

BeginScope ==
  /\ ~headerDone /\ Len(scopes) < MaxScopes
  /\ openScopes' = openScopes + 1
  /\ scopes' = Append(scopes, Last(stack))
  /\ stack' = Append(stack, Len(scopes) + 1)
  /\ UNCHANGED <<known, headerDone, finished, taken, now, timeSet, variables, streams, valueVars>>

(* BaseBuilder::endScope() ignores an end of the root scope. *)
EndScope ==
  /\ ~headerDone /\ openScopes # 0
  /\ openScopes' = openScopes - 1
  /\ stack' = IF Len(stack) > 1 THEN Front(stack) ELSE stack
  /\ UNCHANGED <<known, headerDone, finished, taken, now, timeSet, scopes, variables, streams, valueVars>>

Known(id) == id \in DOMAIN known

(* The checker looks at the leaves only if there are as many as it expects; *)
(* otherwise it leaves the call to the sink, which refuses it.              *)
Expected(t, leaves) == leaves = <<>> \/ Len(leaves) = Len(Expansion[t])

Acceptable(t, alias, leaves) ==
  /\ alias # NoAlias => Known(alias)
  /\ Expected(t, leaves) => \A i \in DOMAIN leaves : leaves[i] = Invalid \/ Known(leaves[i])
  /\ MayBind(t, leaves)

(* What the checker records: the kinds and the widths of the streams that   *)
(* the call gave to the variable and to its leaves, unless it knows them.   *)
PlaceFor(nodes, i) ==
  CHOOSE k \in DOMAIN nodes : nodes[k].binds = "leaf" /\ PlaceOf(nodes, k) = i

LeafId(t, nodes, leaves, i) == Bound(t, nodes, leaves, PlaceFor(nodes, i))

Recorded(t, nodes, alias, leaves) ==
  LET own   == IF alias = NoAlias /\ SingleStream(t) THEN {OwnStream(t)} ELSE {}
      given == {LeafId(t, nodes, leaves, i) : i \in DOMAIN Expansion[t]}
  IN [id \in own \cup given |->
        IF id \in own THEN StreamOf(t)
        ELSE StreamOf(Expansion[t][CHOOSE i \in DOMAIN Expansion[t] :
                                     LeafId(t, nodes, leaves, i) = id])]

DeclareVar(t, alias, leaves) ==
  /\ ~headerDone /\ Acceptable(t, alias, leaves) /\ Len(variables) < MaxVariables
  /\ SinkDeclares(t, NodesOf[t], alias, leaves)
  /\ known' = IF Expected(t, leaves) THEN Extended(known, Recorded(t, NodesOf[t], alias, leaves)) ELSE known
  /\ UNCHANGED <<openScopes, headerDone, finished, taken, now, timeSet, stack, scopes, valueVars>>

ClosedScopes == openScopes = 0

HeaderDone ==
  /\ ~headerDone /\ ClosedScopes
  /\ headerDone' = TRUE
  /\ UNCHANGED <<known, openScopes, finished, taken, now, timeSet, headerVars, valueVars>>

ValuePhase == headerDone /\ ~finished

SetTime(t) ==
  /\ ValuePhase /\ (timeSet => t >= now)
  /\ now' = t /\ timeSet' = TRUE /\ clock' = t
  /\ UNCHANGED <<known, openScopes, headerDone, finished, taken, headerVars, stored, range>>

(* The kind of a value must be its stream's and, of logic, the width too.   *)
Fits(id, v) == known[id].kind = v.kind /\ (v.kind = "LOGIC" => known[id].width = v.width)

ValueChange(id, v) ==
  /\ ValuePhase /\ timeSet /\ Known(id) /\ Fits(id, v) /\ Len(stored) < MaxChanges
  /\ stored' = Append(stored, [id |-> id, time |-> clock, value |-> v])
  /\ UNCHANGED <<checkerVars, headerVars, clock, range>>

(* MemoryStorage::finalize(): over the first and the last change of every   *)
(* stream.                                                                  *)
RangeEnd(times) == Max(times) + 1

ChangesOf(id) == {k \in DOMAIN stored : stored[k].id = id}

TotalRange ==
  LET written == {id \in DOMAIN streams : ChangesOf(id) # {}}
      first(id) == stored[Min(ChangesOf(id))].time
      last(id)  == stored[Max(ChangesOf(id))].time
  IN IF written = {} THEN NoRange
     ELSE <<Min({first(id) : id \in written}), RangeEnd({last(id) : id \in written})>>

Finish ==
  /\ ValuePhase
  /\ finished' = TRUE
  /\ range' = TotalRange
  /\ UNCHANGED <<known, openScopes, headerDone, taken, now, timeSet, headerVars, clock, stored>>

TakeDatabase ==
  /\ finished /\ ~taken
  /\ taken' = TRUE
  /\ UNCHANGED <<known, openScopes, headerDone, finished, now, timeSet, headerVars, valueVars>>

HeaderCalls ==
  \/ BeginScope \/ EndScope
  \/ \E t \in Declared, alias \in Ids \cup {NoAlias, Invalid} :
       \E leaves \in Leaves[t] : DeclareVar(t, alias, leaves)
  \/ HeaderDone

ValueCalls ==
  \/ \E t \in Times : SetTime(t)
  \/ \E id \in Ids \cup {Invalid}, v \in Values : ValueChange(id, v)
  \/ Finish \/ TakeDatabase

Next == HeaderCalls \/ ValueCalls

Spec == Init /\ [][Next]_vars
----------------------------------------------------------------------------
Stream == [kind : {"LOGIC", "REAL", "STRING"}, width : 0 .. U32 - 1]
Variable == [scope : Nat, type : Declared, aliased : BOOLEAN, stream : Nat \cup {Invalid},
             below : Seq(Nat \cup {Invalid})]
Change == [id : Nat, time : Times, value : Values]

(* Everything has its type: streams are numbered without gaps, and what is  *)
(* stored is under the number of a stream.                                  *)
TypeOK ==
  /\ DOMAIN known \subseteq Nat /\ \A id \in DOMAIN known : known[id] \in Stream
  /\ openScopes \in Nat
  /\ headerDone \in BOOLEAN /\ finished \in BOOLEAN /\ taken \in BOOLEAN
  /\ now \in Int /\ timeSet \in BOOLEAN /\ clock \in Int
  /\ stack \in Seq(Nat) /\ stack # <<>> /\ scopes \in Seq(Nat)
  /\ variables \in Seq(Variable)
  /\ DOMAIN streams = 0 .. Count - 1 /\ \A id \in DOMAIN streams : streams[id] \in Stream
  /\ stored \in Seq(Change)

(* What the checker has recorded of a stream is what the storage allocated  *)
(* it with: the walk of the checker over a type meets the streams in the    *)
(* order in which the walk of the builder allocates and binds them          *)
(* (validating_builder.hpp:55), whatever is given in alias and leaves.      *)
KnownAgrees == \A id \in DOMAIN known : id \in DOMAIN streams /\ known[id] = streams[id]

(* Only changes that their stream can hold reach the storage, in the order  *)
(* of time, which the blocks, the index and the searches rely on.           *)
ChangesFit ==
  /\ \A k \in DOMAIN stored :
       /\ stored[k].id \in DOMAIN streams
       /\ stored[k].value.kind = streams[stored[k].id].kind
       /\ stored[k].value.kind = "LOGIC" => stored[k].value.width = streams[stored[k].id].width
  /\ \A j, k \in DOMAIN stored : j < k => stored[j].time <= stored[k].time

(* The scope in which the sink declares is the one the reader has open: the *)
(* counter of the checker and the stack of the builder go together, every   *)
(* scope on the stack lies in the one below it, and the header ends in the  *)
(* root.                                                                    *)
ScopesFollow ==
  /\ Len(stack) = openScopes + 1
  /\ stack[1] = 0 /\ \A k \in 2 .. Len(stack) : scopes[stack[k]] = stack[k - 1]
  /\ headerDone => stack = <<0>>

(* The checker does not lose sight of the sink it wraps: it knows its       *)
(* streams and its open scopes.                                             *)
CheckerAgrees == KnownAgrees /\ ScopesFollow

(* The node whose stream a packed member is a slice of: the nearest one     *)
(* above it that has a stream, the variable itself having the path <<>>.    *)
PathsWithStream(v) ==
  {<<>>} \cup {NodesOf[v.type][k].path : k \in {j \in DOMAIN v.below : v.below[j] # Invalid}}
TypeAt(t, path) ==
  IF path = <<>> THEN t ELSE NodesOf[t][CHOOSE k \in DOMAIN NodesOf[t] : NodesOf[t][k].path = path].type
OwnerPath(v, path) ==
  CHOOSE p \in PathsWithStream(v) :
    /\ IsStrictPrefix(p, path)
    /\ \A q \in PathsWithStream(v) : IsStrictPrefix(q, path) => Len(q) <= Len(p)

Sliced(v) == {k \in DOMAIN NodesOf[v.type] : NodesOf[v.type][k].slice # NoSlice}
BitsOf(slice) == Bits(slice.offset, slice.width)
Siblings(p, q) == Front(p) = Front(q) /\ p # q

(* The stream of a node that has one, and whether it was made for that      *)
(* variable: one that the reader gives was bound by another before.         *)
StreamAt(v, path) ==
  IF path = <<>> THEN v.stream
  ELSE v.below[CHOOSE k \in DOMAIN v.below : NodesOf[v.type][k].path = path]
BoundIn(v, id) == id = v.stream \/ \E k \in DOMAIN v.below : id = v.below[k]
MadeFor(i, id) == \A h \in 1 .. i - 1 : ~BoundIn(variables[h], id)

HoldsWhole(id, t) == streams[id].kind = "LOGIC" /\ streams[id].width >= BitWidth[t]

(* A packed member is a slice of a stream that exists.  One that was made   *)
(* for its owner holds the whole type; and in any that is as wide as the    *)
(* type, the slice lies within the bits that are stored.  A stream given as *)
(* alias or in leaves may be of another kind or narrower, for nobody        *)
(* compares it with the type (builder.hpp:66): slices may end beyond it.    *)
SliceCovered(i, k) ==
  LET v     == variables[i]
      node  == NodesOf[v.type][k]
      owner == OwnerPath(v, node.path)
      id    == StreamAt(v, owner)
      whole == TypeAt(v.type, owner)
  IN /\ id \in DOMAIN streams
     /\ MadeFor(i, id) => HoldsWhole(id, whole)
     /\ HoldsWhole(id, whole) => BitsOf(node.slice) \subseteq 0 .. streams[id].width - 1

SiblingsApart(v) ==
  \A j, k \in Sliced(v) :
    LET a == NodesOf[v.type][j]  b == NodesOf[v.type][k]
    IN Siblings(a.path, b.path) => BitsOf(a.slice) \cap BitsOf(b.slice) = {}

(* Slices of packed members lie within the stream that is really bound to   *)
(* their owner, given streams of another width excepted, and siblings do    *)
(* not overlap, however packed types are nested and whichever way an array  *)
(* is indexed, if the layouts are sound (LaidOut, of the instance too).     *)
SlicesFit ==
  \A i \in DOMAIN variables :
    /\ \A k \in Sliced(variables[i]) : SliceCovered(i, k)
    /\ SiblingsApart(variables[i])

(* Every node of a type that has values can be read: it has a stream, or is *)
(* a slice of one; and so can the reader write it, hidden streams excepted. *)
LeavesReadable ==
  \A v \in ToSet(variables) :
    /\ SingleStream(v.type) => v.stream # Invalid
    /\ \A k \in DOMAIN v.below :
         LET node == NodesOf[v.type][k]
         IN SingleStream(node.type) =>
              \/ v.below[k] # Invalid
              \/ node.slice # NoSlice /\ SingleStream(TypeAt(v.type, OwnerPath(v, node.path)))

(* Whatever has a value leads to bits of a stream, and to its own.          *)
NodesReadable == SlicesFit /\ LeavesReadable

(* A reader that passes no leaves derives the ids from the order of the     *)
(* expansion (builder.hpp:61): along the declarations, and in each along    *)
(* its nodes, a stream that is met for the first time has a higher id than  *)
(* all before.                                                              *)
Bindings == FlattenSeq([i \in DOMAIN variables |-> <<variables[i].stream>> \o variables[i].below])
IdsFollowWalk ==
  \A k \in DOMAIN Bindings :
    LET id     == Bindings[k]
        before == {Bindings[j] : j \in 1 .. k - 1} \ {Invalid}
    IN id = Invalid \/ id \in before \/ \A other \in before : other < id

(* The time range of a finished storage holds every change and begins and   *)
(* ends with one.                                                           *)
RangeCovers ==
  finished =>
    LET times == {stored[k].time : k \in DOMAIN stored}
    IN IF times = {} THEN range = NoRange
       ELSE times \subseteq range[1] .. range[2] - 1 /\ {range[1], range[2] - 1} \subseteq times

(* The storage a builder hands out consists of known streams and of values  *)
(* within its range.                                                        *)
StorageExact == TypeOK /\ RangeCovers

(* A variable with an alias shares the stream of another (builder.hpp:46).  *)
(* A stream that belongs to no node costs an id, which a reader that counts *)
(* must know of: there is one for every alias of a type of one stream, for  *)
(* which one is allocated all the same, and there are no others.            *)
Aliases == {i \in DOMAIN variables : variables[i].aliased /\ SingleStream(variables[i].type)}
OnlyAliasesWaste ==
  Cardinality(DOMAIN streams \ ToSet(Bindings)) = Cardinality(Aliases)

(* A reader can count the streams along with the builder.                   *)
IdsPredictable == IdsFollowWalk /\ OnlyAliasesWaste
=============================================================================
