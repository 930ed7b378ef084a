----------------------------- MODULE MergeCursor -----------------------------
(***************************************************************************)
(* MergeCursor (merge_cursor.hpp): the changes of several sub-cursors in   *)
(* one chronological order, chosen by a heap of keys.  The sub-cursor      *)
(* whose change was given stays on it until the next call of next(),       *)
(* because the view handed out lives only as long (merge_cursor.hpp:17).   *)
(*                                                                         *)
(* A sub-cursor is external: it stands before its first change, on one of  *)
(* its changes, or behind the last; its next() may throw.  The heap is the *)
(* set of its keys, and pop_heap gives one that is not later than another. *)
(***************************************************************************)
EXTENDS Integers, Sequences

CONSTANTS
  Subs,        \* indices of the sub-cursors
  KeepSource,  \* kKeepSource
  Queries,     \* what may be asked: the changes of the sub-cursors and sources_
  None         \* kNone

VARIABLES
  query,    \* the query asked
  pos,      \* [Subs -> number of the change a sub-cursor stands on]
  heap,     \* heap_
  last,     \* last_
  current,  \* time and source of current_
  answer    \* what the last call was: see Answers

vars == <<query, pos, heap, last, current, answer>>

Answers == {"new", "failed", "open", "change", "end", "threw"}
Sources == Nat \ {KeepSource}

Size(q, s) == Len(q.changes[s])
TimeOf(q, s, k) == q.changes[s][k].time

(* Seeded faults: each replaces the definition it is named after, and the   *)
(* property named beside it finds it.                                       *)
SourceOf_OwnNumber(q, s, k) == q.sources[s]                   \* TypeOK
Later_ByTime(a, b) == a.time > b.time                         \* ImplementsMerge

(* sourceOf(): the number given for the sub-cursor, or, of one over several *)
(* streams, the number it gave its change itself.                           *)
SourceOf(q, s, k) ==
  IF q.sources[s] # KeepSource THEN q.sources[s] ELSE q.changes[s][k].source

(* Sub-cursors are cursors: their changes come by time.  One over several   *)
(* streams gives those of one time by the source it numbers them with.      *)
InOrder(q) ==
  \A s \in Subs : \A j, k \in 1 .. Size(q, s) :
    j < k =>
      \/ TimeOf(q, s, j) < TimeOf(q, s, k)
      \/ TimeOf(q, s, j) = TimeOf(q, s, k) /\ SourceOf(q, s, j) <= SourceOf(q, s, k)

Query == [changes : [Subs -> Seq([time : Int, source : Sources])], sources : [Subs -> Nat]]

ASSUME QueriesAssumption ==
  /\ KeepSource \in Nat \ {0}
  /\ None \notin Subs
  /\ \A q \in Queries : q \in Query /\ InOrder(q)

KeyOf(s, k) == [time |-> TimeOf(query, s, k), source |-> SourceOf(query, s, k), sub |-> s]

Later(a, b) == IF a.time # b.time THEN a.time > b.time ELSE a.source > b.source

Init ==
  /\ query \in Queries
  /\ pos = [s \in Subs |-> 0]
  /\ heap = {}
  /\ last = None
  /\ current = [time |-> 0, source |-> 0]
  /\ answer = "new"

(* The constructor steps every sub-cursor onto its first change.            *)
Start ==
  /\ answer = "new"
  /\ pos' = [s \in Subs |-> 1]
  /\ heap' = {KeyOf(s, 1) : s \in {t \in Subs : Size(query, t) >= 1}}
  /\ answer' = "open"
  /\ UNCHANGED <<query, last, current>>

(* A sub-cursor throws in the constructor: there is no cursor.              *)
StartThrows ==
  /\ answer = "new"
  /\ Subs # {}
  /\ answer' = "failed"
  /\ UNCHANGED <<query, pos, heap, last, current>>

Callable == answer \notin {"new", "failed"}

(* advanceLast(): the sub-cursor that is stepped, where the sub-cursors     *)
(* then stand, and the keys then in the heap.                               *)
ToStep == {last} \ {None}
Stepped == [s \in Subs |-> IF s \in ToStep THEN pos[s] + 1 ELSE pos[s]]
Filled == heap \cup {KeyOf(s, Stepped[s]) : s \in {t \in ToStep : Stepped[t] <= Size(query, t)}}

(* takeMin()                                                                *)
Least(keys) == {k \in keys : \A other \in keys : ~Later(k, other)}

NextGives ==
  /\ Callable
  /\ \E best \in Least(Filled) :
       /\ heap' = Filled \ {best}
       /\ last' = best.sub
       /\ current' = [time |-> TimeOf(query, best.sub, Stepped[best.sub]), source |-> best.source]
  /\ pos' = Stepped
  /\ answer' = "change"
  /\ UNCHANGED query

NextEnds ==
  /\ Callable
  /\ Filled = {}
  /\ last' = None
  /\ pos' = Stepped
  /\ answer' = "end"
  /\ UNCHANGED <<query, heap, current>>

(* The sub-cursor throws, on the change it stood on or further: it is       *)
(* neither in the heap nor last_ any more, so next() never returns to it.   *)
NextThrows ==
  /\ Callable
  /\ last # None
  /\ \E p \in pos[last] .. Size(query, last) + 1 : pos' = [pos EXCEPT ![last] = p]
  /\ last' = None
  /\ answer' = "threw"
  /\ UNCHANGED <<query, heap, current>>

Next == Start \/ StartThrows \/ NextGives \/ NextEnds \/ NextThrows

Spec == Init /\ [][Next]_vars
----------------------------------------------------------------------------
(* Everything has its type; in particular a key in the heap never holds     *)
(* kKeepSource in place of a number (merge_cursor.hpp:49), and no           *)
(* sub-cursor is asked for more after it was at its end.                    *)
TypeOK ==
  /\ query \in Query
  /\ pos \in [Subs -> Nat]
  /\ \A s \in Subs : pos[s] <= Size(query, s) + 1
  /\ heap \subseteq [time : Int, source : Sources, sub : Subs]
  /\ last \in Subs \cup {None}
  /\ current \in [time : Int, source : Sources]
  /\ answer \in Answers
----------------------------------------------------------------------------
(* The contract of a merged cursor.  The changes not given yet are those    *)
(* ahead of the sub-cursors that the cursor still has, in the heap or as    *)
(* last_.  What a caller sees of a change is the time and the source that   *)
(* were copied, and a view of the change the sub-cursor stands on now.      *)
Change(q, s, k) ==
  [time |-> TimeOf(q, s, k), source |-> SourceOf(q, s, k), sub |-> s, ordinal |-> k]

AllChanges(q) == UNION {{Change(q, s, k) : k \in 1 .. Size(q, s)} : s \in Subs}

Awaited(s, k) ==
  \/ ~Callable
  \/ k >= pos[s] /\ \E key \in heap : key.sub = s
  \/ k > pos[s] /\ s = last

Left == {c \in AllChanges(query) : Awaited(c.sub, c.ordinal)}

Shown == [time |-> current.time, source |-> current.source, sub |-> last, ordinal |-> pos[last]]

Seen ==
  CASE answer = "change" -> [is |-> "change", change |-> Shown]
    [] answer = "end"    -> [is |-> "end"]
    [] answer = "threw"  -> [is |-> "threw"]
    [] answer \in {"new", "failed", "open"} -> [is |-> "none"]

Contract == INSTANCE MergedChanges WITH
  Queries <- {AllChanges(q) : q \in Queries},
  left <- Left,
  answer <- Seen

(* next() gives every change of every sub-cursor once, by time, and those   *)
(* of one time by the number of the requested source, whatever the heap     *)
(* looks like; the view it hands out stays on the change it was given for;  *)
(* a sub-cursor that throws takes nothing with it but its own changes.      *)
ImplementsMerge == Contract!Spec
=============================================================================
