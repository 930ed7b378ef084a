---------------------------- MODULE StoreHistory ----------------------------
(***************************************************************************)
(* What an ingestion into a store promises, whoever looks at the file:     *)
(* changes are recorded, stream by stream and in order, and the whole      *)
(* record becomes openable in one step and never changes afterwards.  An   *)
(* ingestion that stops before that step leaves nothing that can be        *)
(* opened.  IndexingBuilder implements this module; its writes, its        *)
(* buffers, the relief of its budget and every failure are stuttering.     *)
(***************************************************************************)
EXTENDS Sequences

CONSTANTS
  Streams,    \* the streams of the dump
  Changes,    \* what may be recorded
  Unopenable  \* what openStore() gives for a file it rejects; no record

VARIABLES
  recorded,   \* [Streams -> changes reported so far]
  store       \* what openStore() reads: Unopenable, or a record

Init ==
  /\ recorded = [s \in Streams |-> <<>>]
  /\ store = Unopenable

Record(s) ==
  /\ store = Unopenable
  /\ \E c \in Changes : recorded' = [recorded EXCEPT ![s] = Append(@, c)]
  /\ UNCHANGED store

Publish ==
  /\ store = Unopenable
  /\ store' = recorded
  /\ UNCHANGED recorded

Next == (\E s \in Streams : Record(s)) \/ Publish

Spec == Init /\ [][Next]_<<recorded, store>>
=============================================================================
