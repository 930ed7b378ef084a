--------------------------- MODULE LazyRefinement ---------------------------
(***************************************************************************)
(* What a LazyStorage promises to its callers (storage.hpp): it implements *)
(* Storage, over the history that its index stands for.                    *)
(***************************************************************************)
EXTENDS LazyStorage

(* The data an index stands for: the times of its blocks, one after another. *)
HistoryOf(blocks) == FlattenSeq([b \in DOMAIN blocks |-> blocks[b].times])
HistoryIn(layout) == [s \in Streams |-> HistoryOf(layout[s])]
DataHistory == HistoryIn(index)

(* How many changes of the stream are behind the cursor. *)
Behind(c) ==
  IF ~c.loaded
  THEN CHOOSE p \in LowerBounds(DataHistory[c.stream], c.begin) : TRUE
  ELSE LET ref == index[c.stream][AtMost(c.block, c.last)]
       IN IF AtBlockEnd(c) THEN ref.first - 1 + Len(ref.times) ELSE c.cur.first - 1 + c.pos

Contract == INSTANCE Storage WITH
  Histories <- {HistoryIn(layout) : layout \in Layouts},
  history <- DataHistory,
  cursor <- [i \in Instances |->
               IF cursor[i] = Closed THEN Closed
               ELSE [stream |-> cursor[i].stream, end |-> cursor[i].end, pos |-> Behind(cursor[i])]]

(* Whatever the layout of the blocks, the state of the cache and of the     *)
(* handles, and whichever reads fail, a storage answers as one that holds   *)
(* the plain history in memory: the same values, fronts and cursor steps.   *)
ImplementsStorage == Contract!Spec
=============================================================================
