---------------------------- MODULE MergedChanges ----------------------------
(***************************************************************************)
(* What a cursor over several sources promises (storage.hpp:55): the       *)
(* changes of all sources, each once, by time, and those of one time in    *)
(* the order of the requested sources.  A next() may throw: then the       *)
(* source that was to be read is given up, and all others go on.           *)
(***************************************************************************)
EXTENDS Integers

CONSTANT
  Queries  \* the changes a query may have to give: a set of sets

VARIABLES
  left,     \* changes not given yet
  answer    \* what the last next() gave

vars == <<left, answer>>

NotYet    == [is |-> "none"]
Given(c)  == [is |-> "change", change |-> c]
Exhausted == [is |-> "end"]
Thrown    == [is |-> "threw"]

(* A change is [time, source, sub, ordinal]: the ordinal-th of its source.  *)
Before(c, d) ==
  \/ c.time < d.time
  \/ c.time = d.time /\ c.source < d.source
  \/ c.time = d.time /\ c.source = d.source /\ c.sub = d.sub /\ c.ordinal < d.ordinal

Init ==
  /\ left \in Queries
  /\ answer = NotYet

Give ==
  \E c \in left :
    /\ \A d \in left : ~Before(d, c)
    /\ left' = left \ {c}
    /\ answer' = Given(c)

End ==
  /\ left = {}
  /\ answer' = Exhausted
  /\ UNCHANGED left

Fail ==
  /\ answer.is = "change"
  /\ left' = {c \in left : c.sub # answer.change.sub}
  /\ answer' = Thrown

Next == Give \/ End \/ Fail

Spec == Init /\ [][Next]_vars
=============================================================================
