---------------------------- MODULE MCLazyStorage ----------------------------
(* Small instances of LazyStorage for TLC.                                  *)
EXTENDS LazyRefinement, TLC

CONSTANTS
  MaxChanges,  \* changes of stream A
  MaxTime,     \* of a change; callers ask one further on either side
  A, B         \* the streams

MCNoTime == -9
MCStreams == {A, B}
OneStream == {A}

TimesUpTo(n) == UNION {[1 .. m -> 0 .. MaxTime] : m \in 0 .. n}
HistoriesOf(n) == {h \in TimesUpTo(n) : Ordered(h)}

(* A history is cut into blocks before the k-th change, for k in cuts.      *)
Starts(h, cuts) ==
  SetToSortSeq(cuts \cup (IF h = <<>> THEN {} ELSE {1}), LAMBDA a, b : a < b)
EndOfPart(h, starts, b) == IF b = Len(starts) THEN Len(h) ELSE starts[b + 1] - 1

(* The index of a *.wsfstore: a span holds exactly the times of its block,  *)
(* with a hole before the next; every block has an offset of its own.       *)
OwnIndex(h, cuts, base) ==
  LET starts == Starts(h, cuts)
  IN [b \in DOMAIN starts |->
       LET to == EndOfPart(h, starts, b)
       IN [begin |-> h[starts[b]], end |-> h[to] + 1, offset |-> base + b, cookie |-> 0,
           first |-> starts[b], times |-> SubSeq(h, starts[b], to)]]

(* The index of a foreign file (SignalIndex, block_source.hpp:23): spans    *)
(* meet each other, and one chunk at one offset holds every block.          *)
ForeignIndex(h, cuts) ==
  LET starts == Starts(h, cuts)
      begin(b) == IF b = 1 THEN -1 ELSE h[starts[b]]
  IN [b \in DOMAIN starts |->
       LET to == EndOfPart(h, starts, b)
       IN [begin |-> begin(b), end |-> IF b = Len(starts) THEN MaxTime + 2 ELSE begin(b + 1),
           offset |-> 7, cookie |-> b, first |-> starts[b], times |-> SubSeq(h, starts[b], to)]]

Cuts(h) == SUBSET (2 .. Len(h))
ClearCuts(h) == {cuts \in Cuts(h) : \A k \in cuts : h[k - 1] < h[k]}

OwnLayouts ==
  {(A :> OwnIndex(h, cuts, 0)) @@ (B :> OwnIndex(<<1>>, {}, 10))
     : <<h, cuts>> \in {x \in HistoriesOf(MaxChanges) \X SUBSET (2 .. MaxChanges) : x[2] \in Cuts(x[1])}}

ForeignLayouts ==
  {(A :> ForeignIndex(h, cuts)) @@ (B :> ForeignIndex(<<1>>, {}))
     : <<h, cuts>> \in {x \in HistoriesOf(MaxChanges) \X SUBSET (2 .. MaxChanges) : x[2] \in ClearCuts(x[1])}}

AllLayouts == OwnLayouts \cup ForeignLayouts

(* A stream in three blocks, two of which begin at one time, another in a   *)
(* single larger block, and a file where all of them lie at one offset.     *)
FewLayouts ==
  {(A :> OwnIndex(<<0, 1, 1>>, {2, 3}, 0)) @@ (B :> OwnIndex(<<0, 1, 1, 2>>, {}, 10)),
   (A :> ForeignIndex(<<0, 1, 2>>, {2, 3})) @@ (B :> ForeignIndex(<<0, 1, 1, 2>>, {}))}

LookupLayouts == AllLayouts \cup FewLayouts

OneLayout ==
  {(A :> OwnIndex(<<0, 1>>, {2}, 0))}

None == {}
AllAsked == -1 .. MaxTime + 1
CacheWindows == {<<0, 1>>, <<1, MaxTime + 1>>}
CursorRanges == {<<b, e>> \in AllAsked \X AllAsked : b <= e}
OneAsked == {MaxTime}
FewRanges == {<<0, MaxTime + 1>>}
=============================================================================
