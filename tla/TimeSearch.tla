----------------------------- MODULE TimeSearch -----------------------------
(***************************************************************************)
(* The binary searches over ordered times (TimeColumn, and the ranges of    *)
(* BlockRef).  A search finds the partition point of its sequence; stated   *)
(* as a set, it has one member whenever the sequence is ordered.            *)
(***************************************************************************)
EXTENDS Integers, Sequences

(* How many of `times' are at or before t: upperBound(). *)
UpperBounds(times, t) ==
  {u \in 0 .. Len(times) : /\ \A k \in 1 .. u : times[k] <= t
                           /\ \A k \in u + 1 .. Len(times) : t < times[k]}

(* How many of `times' are before t: lowerBound(). *)
LowerBounds(times, t) ==
  {u \in 0 .. Len(times) : /\ \A k \in 1 .. u : times[k] < t
                           /\ \A k \in u + 1 .. Len(times) : t <= times[k]}

Ordered(times) == \A k \in 1 .. Len(times) - 1 : times[k] <= times[k + 1]
=============================================================================
