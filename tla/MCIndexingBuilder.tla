-------------------------- MODULE MCIndexingBuilder --------------------------
(* Small instances of IndexingBuilder for TLC, and its refinement of        *)
(* StoreHistory.                                                            *)
EXTENDS StoreRefinement, TLC

(* Payloads in units of four bytes: a 32-bit time offset is one.  A fresh   *)
(* string block holds the leading arena offset; a string change adds its    *)
(* own, a logic change one or two 64-bit words.                             *)
MCEmptyPayload == [k \in Kinds |-> IF k = "STRING" THEN 1 ELSE 0]
MCChangePayload == [k \in Kinds |-> IF k = "LOGIC" THEN 3 ELSE 2]

MCNoTime == -1
=============================================================================
