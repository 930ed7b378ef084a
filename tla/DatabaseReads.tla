---------------------------- MODULE DatabaseReads ----------------------------
(***************************************************************************)
(* How a Database answers for a node of the hierarchy (database.cpp): a    *)
(* node with a stream of its own, a packed member, which is a slice of the *)
(* stream of an ancestor, or a composite, which is made of its children.   *)
(* A reader puts a marker on the time axis, jumps with it from edge to     *)
(* edge of a node, or lists the changes of nodes from it on.               *)
(*                                                                         *)
(* A logic value is the function from bit numbers to bits.  A cursor is    *)
(* the sequence of the changes it gives; module MergeCursor shows that the *)
(* lazy merge gives the sequence Merge.                                    *)
(***************************************************************************)
EXTENDS Integers, FiniteSetsExt, SequencesExt

CONSTANTS
  Tree,        \* [nodes -> [parent, children, stream, projection]]
  Histories,   \* what the streams may hold: [streams -> changes in order]
  NodeLists,   \* what may be listed together
  Marks,       \* where the marker may be put
  Ends,        \* up to where may be listed
  NoNode,      \* an invalid NodeId
  NoStream,    \* an invalid SignalId
  NoSlice,     \* no projection
  NoTime,      \* kNoTime
  NoValue,     \* an empty value
  NoCursor,    \* a null cursor
  KeepSource,  \* kKeepSource
  X            \* Logic::X

VARIABLES
  history,  \* the changes of every stream
  marker,   \* the reader's marker
  answer    \* the last call and what it gave

vars == <<history, marker, answer>>

Nodes == DOMAIN Tree

Below(n) == ToSet(Tree[n].children)

(* A child is added after its parent and names it; addMember() and          *)
(* addElement() give a node a slice or a stream, never both.                *)
ASSUME TreeAssumption ==
  /\ IsFiniteSet(Nodes) /\ NoNode \notin Nodes
  /\ \A n \in Nodes :
       /\ Tree[n].parent \in Nodes \cup {NoNode}
       /\ Tree[n].children \in Seq(Nodes)
       /\ \A c \in Below(n) : Tree[c].parent = n
       /\ Tree[n].projection # NoSlice => Tree[n].stream = NoStream
  /\ \A U \in (SUBSET Nodes) \ {{}} :
       /\ \E n \in U : Tree[n].parent \notin U
       /\ \E n \in U : Below(n) \cap U = {}
----------------------------------------------------------------------------
(* The storage, over the plain history of a stream. *)
CountWhere(s, Test(_)) == Cardinality({k \in DOMAIN history[s] : Test(history[s][k].time)})

StoredAt(s, t) ==
  LET upTo == CountWhere(s, LAMBDA u : u <= t)
  IN IF upTo = 0 THEN NoValue ELSE history[s][upTo].value

NextStored(s, t) ==
  LET upTo == CountWhere(s, LAMBDA u : u <= t)
  IN IF upTo = Len(history[s]) THEN NoTime ELSE history[s][upTo + 1].time

(* A seeded fault of PrevStored: upperBound() for lowerBound().              *)
PrevStored_UpTo(s, t) ==                                      \* WaysAgree
  LET upTo == CountWhere(s, LAMBDA u : u <= t)
  IN IF upTo = 0 THEN NoTime ELSE history[s][upTo].time

PrevStored(s, t) ==
  LET before == CountWhere(s, LAMBDA u : u < t)
  IN IF before = 0 THEN NoTime ELSE history[s][before].time

OpenStream(s, range) ==
  LET inside == SelectSeq(history[s], LAMBDA c : range[1] <= c.time /\ c.time < range[2])
  IN [k \in DOMAIN inside |-> [time |-> inside[k].time, value |-> inside[k].value, source |-> 0]]

(* MergeCursor: by time, and at one time by source.                         *)
Merge(subs, sources) ==
  LET NumberedBy(sub, source) ==
        [k \in DOMAIN sub |-> IF source = KeepSource THEN sub[k] ELSE [sub[k] EXCEPT !.source = source]]
      Later(c, d) == IF c.time # d.time THEN c.time > d.time ELSE c.source > d.source
      Insert(list, c) ==
        SelectSeq(list, LAMBDA d : ~Later(d, c)) \o <<c>> \o SelectSeq(list, LAMBDA d : Later(d, c))
  IN FoldLeft(Insert, <<>>, FlattenSeq([i \in DOMAIN subs |-> NumberedBy(subs[i], sources[i])]))

(* Storage::openCursor of several streams, numbered by their place.         *)
OpenStreams(ss, range) ==
  Merge([i \in DOMAIN ss |-> OpenStream(ss[i], range)], [i \in DOMAIN ss |-> i - 1])
----------------------------------------------------------------------------
HasStream(n) == Tree[n].stream # NoStream
IsMember(n)  == Tree[n].projection # NoSlice /\ Tree[n].children = <<>>

OwnerFrom(up, m) ==
  IF m = NoNode THEN NoNode ELSE IF HasStream(m) THEN m ELSE up[Tree[m].parent]

OwningAncestor(n) ==
  LET up[m \in Nodes \cup {NoNode}] == OwnerFrom(up, m) IN up[Tree[n].parent]

Carrier(n) == Tree[OwningAncestor(n)].stream

(* The changes of a stream come by time, and no time of a change is         *)
(* kNoTime.                                                                 *)
ASSUME HistoryAssumption ==
  /\ NoTime \in Int /\ Marks \subseteq Int
  /\ \A h \in Histories :
       /\ IsFiniteSet(DOMAIN h)
       /\ \A s \in DOMAIN h :
            /\ Len(h[s]) \in Nat /\ DOMAIN h[s] = 1 .. Len(h[s])
            /\ \A j \in DOMAIN h[s] : h[s][j].time \in Int \ {NoTime}
            /\ \A j, k \in DOMAIN h[s] : j < k => h[s][j].time <= h[s][k].time
       /\ \A n \in Nodes : HasStream(n) => Tree[n].stream \in DOMAIN h

(* extractSlice(): a bit that the stream does not have reads as X.          *)
Cut(bits, slice) ==
  [b \in 0 .. slice.width - 1 |->
     IF slice.offset + b \in DOMAIN bits THEN bits[slice.offset + b] ELSE X]

CutOf(v, slice) ==
  IF v # NoValue /\ v.kind = "logic"
  THEN [kind |-> "logic", bits |-> Cut(v.bits, slice)]
  ELSE NoValue

SliceAt(n, t) == CutOf(StoredAt(Carrier(n), t), Tree[n].projection)

(* The value of a node, by the values of its children.                      *)
ValueFor(value, m, t) ==
  CASE Tree[m].children # <<>> ->
         [k \in DOMAIN Tree[m].children |-> value[Tree[m].children[k]]]
    [] IsMember(m) ->
         IF OwningAncestor(m) = NoNode THEN NoValue ELSE SliceAt(m, t)
    [] OTHER ->
         IF HasStream(m) THEN StoredAt(Tree[m].stream, t) ELSE NoValue

ValueAt(n, t) == LET value[m \in Nodes] == ValueFor(value, m, t) IN value[n]

(* Seeded faults: each replaces the definition it is named after, and the   *)
(* property named beside it finds it.                                       *)
Appears_NotFirst(n, e) ==                                     \* NothingBetween
  LET p == PrevStored(Carrier(n), e) IN p # NoTime /\ SliceAt(n, e) # SliceAt(n, p)
Appears_OfVector(n, e) == TRUE                                \* EdgesAreOwn
LeafStreams_ByStack(n) ==                                     \* LeavesMirror
  LET streams[m \in Nodes] ==
        IF HasStream(m) THEN <<Tree[m].stream>>
        ELSE FlattenSeq(Reverse([k \in DOMAIN Tree[m].children |-> streams[Tree[m].children[k]]]))
  IN streams[n]
CarryIn_Nothing(n, range) == NoValue                          \* WindowIndependent
CarryIn_AtBegin(n, range) == SliceAt(n, range[1])             \* ListTellsValue
SliceChanges_OfVector(n, range) ==                            \* EdgesListed
  LET all == OpenStream(Carrier(n), range)
  IN [k \in DOMAIN all |-> [all[k] EXCEPT !.value = CutOf(@, Tree[n].projection)]]
Remap_OneBased(cursor, places) ==                             \* TypeOK
  [k \in DOMAIN cursor |-> [cursor[k] EXCEPT !.source = places[@ + 1]]]
Remap_Without(cursor, places) == cursor                       \* SourcesAreNodes

(* The first edge of the carrier behind t at which the slice is not what it *)
(* was at t; having none counts as a value.                                 *)
NextEdge(n, t) ==
  LET edges == {e \in {c.time : c \in ToSet(history[Carrier(n)])} :
                  e > t /\ SliceAt(n, e) # SliceAt(n, t)}
  IN IF edges = {} THEN NoTime ELSE Min(edges)

(* The last edge of the carrier before t at which the slice is not what it  *)
(* was at the edge before that; at the first, that it has a value at all.   *)
Appears(n, e) ==
  LET p == PrevStored(Carrier(n), e)
  IN SliceAt(n, e) # IF p = NoTime THEN NoValue ELSE SliceAt(n, p)

PrevEdge(n, t) ==
  LET edges == {e \in {c.time : c \in ToSet(history[Carrier(n)])} : e < t /\ Appears(n, e)}
  IN IF edges = {} THEN NoTime ELSE Max(edges)

Nearest(times, Best(_)) ==
  LET known == times \ {NoTime} IN IF known = {} THEN NoTime ELSE Best(known)

NextFor(next, m, t) ==
  CASE HasStream(m) -> NextStored(Tree[m].stream, t)
    [] ~HasStream(m) /\ IsMember(m) ->
         IF OwningAncestor(m) = NoNode THEN NoTime ELSE NextEdge(m, t)
    [] OTHER -> Nearest({next[c] : c \in Below(m)}, Min)

NextChange(n, t) == LET next[m \in Nodes] == NextFor(next, m, t) IN next[n]

PrevFor(prev, m, t) ==
  CASE HasStream(m) -> PrevStored(Tree[m].stream, t)
    [] ~HasStream(m) /\ IsMember(m) ->
         IF OwningAncestor(m) = NoNode THEN NoTime ELSE PrevEdge(m, t)
    [] OTHER -> Nearest({prev[c] : c \in Below(m)}, Max)

PrevChange(n, t) == LET prev[m \in Nodes] == PrevFor(prev, m, t) IN prev[n]
----------------------------------------------------------------------------
(* The nodes with streams of their own in a subtree, depth first; streams   *)
(* below such a node are covered by its own.                                *)
LeafNodes(n) ==
  LET leaves[m \in Nodes] ==
        IF HasStream(m) THEN <<m>>
        ELSE FlattenSeq([k \in DOMAIN Tree[m].children |-> leaves[Tree[m].children[k]]])
  IN leaves[n]

LeafStreams(n) ==
  LET streams[m \in Nodes] ==
        IF HasStream(m) THEN <<Tree[m].stream>>
        ELSE FlattenSeq([k \in DOMAIN Tree[m].children |-> streams[Tree[m].children[k]]])
  IN streams[n]

(* SliceCursor: changes of the carrier that change the slice, from the      *)
(* value on that the slice had when the range begins.                       *)
CarryIn(n, range) ==
  LET t == PrevStored(Carrier(n), range[1])
  IN IF t = NoTime THEN NoValue ELSE SliceAt(n, t)

SliceChanges(n, range) ==
  LET Keep(seen, c) ==
        LET cut == CutOf(c.value, Tree[n].projection)
        IN IF cut = NoValue \/ cut = seen.prev THEN seen
           ELSE [list |-> Append(seen.list, [c EXCEPT !.value = cut]), prev |-> cut]
  IN FoldLeft(Keep, [list |-> <<>>, prev |-> CarryIn(n, range)], OpenStream(Carrier(n), range)).list

(* openNodeCursor()                                                         *)
NodeCursor(n, range) ==
  CASE IsMember(n) /\ ~HasStream(n) ->
         IF OwningAncestor(n) = NoNode THEN NoCursor ELSE SliceChanges(n, range)
    [] OTHER ->
         LET streams == LeafStreams(n)
         IN CASE Len(streams) = 0 -> NoCursor
              [] Len(streams) = 1 -> OpenStream(streams[1], range)
              [] OTHER            -> OpenStreams(streams, range)

Listed(cursor) == IF cursor = NoCursor THEN <<>> ELSE cursor

Changes(n, range) == Listed(NodeCursor(n, range))

(* changes(nodes): nodes with streams are read by one cursor, whose sources *)
(* are then mapped to places in nodes (RemapCursor); others by one each.    *)
PlacesWhere(nodes, Test(_)) ==
  SelectSeq([i \in DOMAIN nodes |-> i], LAMBDA i : Test(nodes[i]))

Remap(cursor, places) ==
  [k \in DOMAIN cursor |-> [cursor[k] EXCEPT !.source = places[@ + 1] - 1]]

ChangesOf(nodes, range) ==
  LET simple  == PlacesWhere(nodes, HasStream)
      other   == PlacesWhere(nodes, LAMBDA n : ~HasStream(n) /\ NodeCursor(n, range) # NoCursor)
      streams == [k \in DOMAIN simple |-> Tree[nodes[simple[k]]].stream]
      batch   == OpenStreams(streams, range)
      subs    == [k \in DOMAIN other |-> NodeCursor(nodes[other[k]], range)]
      sources == [k \in DOMAIN other |-> other[k] - 1]
  IN CASE other = <<>> /\ Len(simple) = Len(nodes) -> batch
       [] simple = <<>> -> Merge(subs, sources)
       [] OTHER -> Merge(Append(subs, Remap(batch, simple)), Append(sources, KeepSource))
----------------------------------------------------------------------------
Nothing == [op |-> "none"]

Init ==
  /\ history \in Histories
  /\ marker \in Marks
  /\ answer = Nothing

Jump(op, n, t) ==
  /\ marker' = IF t = NoTime THEN marker ELSE t
  /\ answer' = [op |-> op, node |-> n, from |-> marker, to |-> t]
  /\ UNCHANGED history

Forward(n)  == Jump("next", n, NextChange(n, marker))
Backward(n) == Jump("prev", n, PrevChange(n, marker))

(* A list is a read like any other, so the reader makes one, of the range   *)
(* from the marker to some end.                                             *)
List(n, range) ==
  /\ answer = Nothing
  /\ answer' = [op |-> "list", node |-> n, range |-> range, changes |-> Changes(n, range)]
  /\ UNCHANGED <<history, marker>>

ListTogether(nodes, range) ==
  /\ answer = Nothing
  /\ answer' = [op |-> "together", nodes |-> nodes, range |-> range, changes |-> ChangesOf(nodes, range)]
  /\ UNCHANGED <<history, marker>>

Navigate ==
  /\ answer.op \in {"none", "next", "prev"}
  /\ \E n \in Nodes : Forward(n) \/ Backward(n)

Browse ==
  \E end \in {e \in Ends : marker <= e} :
    \/ \E n \in Nodes : List(n, <<marker, end>>)
    \/ \E nodes \in NodeLists : ListTogether(nodes, <<marker, end>>)

Next == Navigate \/ Browse

Spec == Init /\ [][Next]_vars
----------------------------------------------------------------------------
Bit == {0, 1, X}
Ops == {"none", "next", "prev", "list", "together"}
Times == {c.time : c \in UNION {ToSet(history[s]) : s \in DOMAIN history}}
Start == Min(Times \cup {0})
End   == Max(Times \cup {0}) + 1
Whole == <<Start, End>>

Plain(list) == [k \in DOMAIN list |-> [time |-> list[k].time, value |-> list[k].value]]
FromSource(list, i) == SelectSeq(list, LAMBDA c : c.source = i)
SortedBySource(list) ==
  \A j, k \in DOMAIN list :
    j < k => \/ list[j].time < list[k].time
             \/ list[j].time = list[k].time /\ list[j].source <= list[k].source

(* The marker stands where it was put or on a change; what a jump or a      *)
(* listing tells are times of the data, and sources of the query.           *)
TypeOK ==
  /\ history \in Histories
  /\ marker \in Marks \cup Times
  /\ answer.op \in Ops
  /\ answer.op \in {"next", "prev"} => answer.to \in Times \cup {NoTime}
  /\ answer.op = "together" =>
       \A k \in DOMAIN answer.changes :
         /\ answer.changes[k].time \in Times
         /\ answer.changes[k].source \in 0 .. Len(answer.nodes) - 1

(* The nodes whose values make the value of a node, that node included.     *)
Subtree(n) ==
  LET part[m \in Nodes] == {m} \cup UNION {part[c] : c \in Below(m)} IN part[n]

(* A jump of a node looks no further than to the first stream on the way    *)
(* down (database.cpp:246), and valueAt() as far as the leaves (:143).      *)
(* They speak of the same unless a stream below a stream has changes, which *)
(* it may if a composite that is not packed has an alias                    *)
(* (base_builder.cpp:38): then its members have streams of their own.       *)
Covered(n) ==
  \A m \in Subtree(n) :
    HasStream(m) /\ OwningAncestor(m) \in Subtree(n) => history[Tree[m].stream] = <<>>

(* A jump to the next or the previous edge passes over no change of the     *)
(* value that valueAt() gives for the node: a leaf, a slice or a composite  *)
(* whose members are told by the streams that the jump looks at.            *)
NothingBetween ==
  /\ answer.op = "next" /\ Covered(answer.node) =>
       \A t \in Times :
         answer.from <= t /\ (answer.to = NoTime \/ t < answer.to) =>
           ValueAt(answer.node, t) = ValueAt(answer.node, answer.from)
  /\ answer.op = "prev" /\ Covered(answer.node) =>
       \A t \in Times :
         t < answer.from /\ (answer.to = NoTime \/ answer.to <= t) =>
           ValueAt(answer.node, t) = ValueAt(answer.node, answer.from - 1)

(* An edge of a packed member is one of its own, not of its neighbours in   *)
(* the vector (test_memory.cpp:149): the member's value differs at it.      *)
EdgesAreOwn ==
  answer.op \in {"next", "prev"} /\ IsMember(answer.node) /\ answer.to # NoTime =>
    ValueAt(answer.node, answer.to) # ValueAt(answer.node, answer.to - 1)

(* Jumping forth and jumping back know the same edges: from where a jump    *)
(* arrives, none leads back into what it passed over.                       *)
WaysAgree ==
  /\ answer.op = "next" =>
       LET back == PrevChange(answer.node, IF answer.to = NoTime THEN End ELSE answer.to)
       IN back = NoTime \/ back <= answer.from
  /\ answer.op = "prev" =>
       LET forth == NextChange(answer.node, IF answer.to = NoTime THEN Start - 1 ELSE answer.to)
       IN forth = NoTime \/ forth >= answer.from

(* Jumps as a whole, as readers of nextChange() and prevChange() use them.  *)
JumpsExact == NothingBetween /\ EdgesAreOwn /\ WaysAgree

(* What is listed does not depend on the borders of the range               *)
(* (database.cpp:53): a range gives its part of the whole list, because a   *)
(* slice enters it with the value it had before.                            *)
WindowIndependent ==
  answer.op = "list" =>
    answer.changes =
      SelectSeq(Changes(answer.node, Whole),
                LAMBDA c : answer.range[1] <= c.time /\ c.time < answer.range[2])

(* The list of a leaf or a slice tells its value at every time of the       *)
(* range: that of the last change listed, or the one it began with.         *)
ListTellsValue ==
  answer.op = "list" /\ Tree[answer.node].children = <<>> =>
    \A t \in answer.range[1] .. answer.range[2] - 1 :
      LET upTo == SelectSeq(answer.changes, LAMBDA c : c.time <= t)
      IN ValueAt(answer.node, t) =
           IF upTo = <<>> THEN ValueAt(answer.node, answer.range[1] - 1) ELSE Last(upTo).value

(* Every edge of a packed member is listed; and what is listed is an edge   *)
(* (test_memory.cpp:204), unless its stream has several changes at that     *)
(* time: a member that changes and changes back is listed but is no edge.   *)
EdgesIn(n, range) == {t \in Times : NextChange(n, t - 1) = t /\ range[1] <= t /\ t < range[2]}
TimesOf(list) == {c.time : c \in ToSet(list)}
Crowded(s) ==
  {t \in Times : Cardinality({k \in DOMAIN history[s] : history[s][k].time = t}) > 1}

EdgesListed ==
  answer.op = "list" /\ IsMember(answer.node) =>
    /\ EdgesIn(answer.node, answer.range) \subseteq TimesOf(answer.changes)
    /\ TimesOf(answer.changes) \ EdgesIn(answer.node, answer.range) \subseteq Crowded(Carrier(answer.node))

(* Lists tell the values and the edges that valueAt() and the jumps tell.   *)
ListsExact == ListTellsValue /\ EdgesListed

(* changes(id) of a composite numbers its changes by leafNodes(id)          *)
(* (database.hpp:81): two walks of the tree agree on order and selection.   *)
LeavesMirror ==
  answer.op = "list" =>
    LET leaves == LeafNodes(answer.node)
    IN /\ SortedBySource(answer.changes)
       /\ Len(leaves) > 1 =>
            \A k \in DOMAIN leaves :
              Plain(FromSource(answer.changes, k - 1)) = Plain(Changes(leaves[k], answer.range))

(* changes(nodes) lists, under the number of each node, what changes() of   *)
(* that node alone lists, and nothing else, by time and in the order of     *)
(* nodes, whichever of its nodes have streams, slices or children.          *)
SourcesAreNodes ==
  answer.op = "together" =>
    /\ SortedBySource(answer.changes)
    /\ \A i \in DOMAIN answer.nodes :
         Plain(FromSource(answer.changes, i - 1)) = Plain(Changes(answer.nodes[i], answer.range))

(* The numbers of sources mean what a caller takes them for, and are those  *)
(* of nodes that there are.                                                 *)
SourcesExact == TypeOK /\ LeavesMirror /\ SourcesAreNodes

(* The list of a composite unites the times at which its children change    *)
(* (signal.hpp:71); one with a stream of its own may list more.             *)
CompositeUnitesChildren ==
  answer.op = "list" /\ Tree[answer.node].children # <<>> =>
    UNION {TimesOf(Changes(c, answer.range)) : c \in ToSet(Tree[answer.node].children)}
      \subseteq TimesOf(answer.changes)
=============================================================================
