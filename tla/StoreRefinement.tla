--------------------------- MODULE StoreRefinement ---------------------------
(***************************************************************************)
(* IndexingBuilder, seen through openStore(), implements StoreHistory: the *)
(* abstract record is what the reader reported, and the abstract store is  *)
(* what a reader of the file finds at this moment.                         *)
(***************************************************************************)
EXTENDS IndexingBuilder

CONSTANT Unopenable   \* what a file gives that openStore() rejects

(* What a reader of the file sees: each stream, its blocks in index order.  *)
ReadBack ==
  [s \in Sids |-> FlattenSeq([i \in DOMAIN Meta.index[s] |->
                                Stored(landed, Meta.index[s][i])])]

History == INSTANCE StoreHistory WITH
  Streams <- Sids,
  Changes <- [time : Times, n : 1 .. MaxChanges],
  recorded <- history,
  store <- IF OpenResult = "opened" THEN ReadBack ELSE Unopenable

(* Seen through openStore(), the builder only records and then publishes,   *)
(* all at once: no interleaving of flushes, landing bytes and crashes shows *)
(* a reader a partial or a changing history.                                *)
ImplementsHistory == History!Spec
=============================================================================
