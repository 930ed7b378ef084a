--------------------------- MODULE MCDatabaseReads ---------------------------
(* A small hierarchy over three streams for TLC. *)
EXTENDS DatabaseReads

CONSTANTS
  MaxTime, MaxChanges,
  A, B, C,                                \* the streams
  req, valid, hdr, lo, hi, mem, e0, e1, clk, ev, pair, p0  \* the nodes

Slice(offset, width) == [offset |-> offset, width |-> width]

Node(parent, children, stream, projection) ==
  [parent |-> parent, children |-> children, stream |-> stream, projection |-> projection]

(* struct packed req {valid; struct packed hdr {lo; hi}} on stream A, which *)
(* has no bit for hi; an array mem of two streams; clk, an alias of the     *)
(* first of them; an event; and struct pair {p0}, not packed but with an    *)
(* alias, whose member is given the other stream of mem.                    *)
MCNodes == {req, valid, hdr, lo, hi, mem, e0, e1, clk, ev, pair, p0}
MCTree ==
  [n \in MCNodes |->
     CASE n = req   -> Node(NoNode, <<valid, hdr>>, A, NoSlice)
       [] n = valid -> Node(req, <<>>, NoStream, Slice(0, 1))
       [] n = hdr   -> Node(req, <<lo, hi>>, NoStream, Slice(1, 2))
       [] n = lo    -> Node(hdr, <<>>, NoStream, Slice(1, 1))
       [] n = hi    -> Node(hdr, <<>>, NoStream, Slice(2, 1))
       [] n = mem   -> Node(NoNode, <<e0, e1>>, NoStream, NoSlice)
       [] n = e0    -> Node(mem, <<>>, B, NoSlice)
       [] n = e1    -> Node(mem, <<>>, C, NoSlice)
       [] n = clk   -> Node(NoNode, <<>>, B, NoSlice)
       [] n = ev    -> Node(NoNode, <<>>, NoStream, NoSlice)
       [] n = pair  -> Node(NoNode, <<p0>>, B, NoSlice)
       [] n = p0    -> Node(pair, <<>>, C, NoSlice)]
UnaliasedTree == [n \in MCNodes \ {pair, p0} |-> MCTree[n]]

Bits2(b, c) == [kind |-> "logic", bits |-> [i \in 0 .. 1 |-> IF i = 0 THEN b ELSE c]]
Wide == {Bits2(0, 0), Bits2(0, 1), Bits2(1, 0)}
Narrow == {[kind |-> "logic", bits |-> [i \in {0} |-> 0]]}

InTimeOrder(h) == \A j, k \in DOMAIN h : j < k => h[j].time <= h[k].time
Strict(h) == \A j, k \in DOMAIN h : j < k => h[j].time < h[k].time

HistoriesOf(n, values) ==
  {h \in UNION {[1 .. m -> [time : 1 .. MaxTime, value : values]] : m \in 0 .. n} : InTimeOrder(h)}

(* Stream A with any values, several at one time included; and with values  *)
(* that are not logic, as a stream bound by an alias may have.  The streams *)
(* of the array vary beside fewer changes of A.                             *)
Three(onA, onB, onC) == [s \in {A, B, C} |-> CASE s = A -> onA [] s = B -> onB [] s = C -> onC]
OneOf(value, t) == <<[time |-> t, value |-> value]>>
Zero == CHOOSE v \in Narrow : TRUE

MCHistories ==
  {Three(onA, OneOf(Zero, 1), OneOf(Zero, 2)) :
     onA \in HistoriesOf(MaxChanges, Wide) \cup HistoriesOf(1, {[kind |-> "real"]})}
    \cup
  {Three(onA, onB, onC) :
     onA \in HistoriesOf(1, {Bits2(0, 1)}), onB \in HistoriesOf(1, Narrow), onC \in HistoriesOf(1, Narrow)}
StrictHistories == {h \in MCHistories : \A s \in DOMAIN h : Strict(h[s])}

MCMarks == 0 .. MaxTime + 1
MCNodeLists == {<<>>, <<clk, req>>, <<clk, valid>>, <<valid, ev, mem, req>>, <<mem, clk, hdr, lo, e1>>, <<p0, lo, pair>>}
UnaliasedLists == {list \in MCNodeLists : ToSet(list) \subseteq DOMAIN UnaliasedTree}

MCNoTime == -9
=============================================================================
