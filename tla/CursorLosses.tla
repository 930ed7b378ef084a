---------------------------- MODULE CursorLosses ----------------------------
(***************************************************************************)
(* What a caller of LazyCursor::next() has been given, and what it can no   *)
(* longer be given, when reads of blocks fail (lazy_storage.cpp:70).  The   *)
(* contract Storage allows a cursor that threw to go on past changes; here  *)
(* it is watched which ones.  Two variables observe the cursor of an        *)
(* instance and change nothing of what it does.                             *)
(***************************************************************************)
EXTENDS LazyRefinement

VARIABLES
  given,   \* [Instances -> ordinals the open cursor has given, in order]
  failed   \* [Instances -> blocks that a next() of it failed to load]

observed == <<given, failed>>

WatchedInit ==
  /\ Init
  /\ given = [i \in Instances |-> <<>>]
  /\ failed = [i \in Instances |-> {}]

Opens(i) ==
  /\ \E s \in Streams, range \in Ranges : OpenCursor(i, s, range)
  /\ given' = [given EXCEPT ![i] = <<>>]
  /\ failed' = [failed EXCEPT ![i] = {}]

Gives(i) ==
  /\ CursorGives(i)
  /\ given' = IF answer'[i].result = 0 THEN given
              ELSE [given EXCEPT ![i] = Append(@, answer'[i].result)]
  /\ UNCHANGED failed

Fails(i) ==
  /\ CursorThrows(i)
  /\ failed' = [failed EXCEPT ![i] = @ \cup {BlockToLoad(cursor[i])}]
  /\ UNCHANGED given

(* Lookups, prefetch and release do not touch a cursor: they are left out.  *)
WatchedNext ==
  \E i \in Instances :
    \/ Opens(i) \/ Gives(i) \/ Fails(i)
    \/ (CursorNext(i) \/ CursorSeeks(i) \/ CursorLoads(i)) /\ UNCHANGED observed

Watched ==
  WatchedInit /\ [][WatchedNext]_<<vars, observed>> /\ \A i \in Instances : WF_vars(Work(i))

----------------------------------------------------------------------------
(* The changes a cursor was opened for, as ordinals, and those of a block.  *)
InRange(c) ==
  {n \in DOMAIN DataHistory[c.stream] :
     c.begin <= DataHistory[c.stream][n] /\ DataHistory[c.stream][n] < c.end}
ChangesOf(ref) == ref.first .. ref.first + Len(ref.times) - 1

(* The block with which a cursor begins is loaded again when that failed.   *)
FirstBlock(c) == CHOOSE b \in {m[1] : m \in BlocksIn(c.stream, <<c.begin, c.end>>)} : TRUE

(* What a cursor has passed by without giving it. *)
Lost(i) == {n \in InRange(cursor[i]) : n <= Behind(cursor[i])} \ Range(given[i])

(* A cursor gives changes of its range in order and none twice, and it      *)
(* passes by exactly those in blocks, after its first, whose load failed:   *)
(* an exception never costs more than the block it was about, never one     *)
(* that was or will be read, and nothing at all at the first block          *)
(* (lazy_storage.cpp:74, :92).  So a false from next() says that the data   *)
(* have ended only if no load has failed behind the first block.            *)
LostWithTheirBlocks ==
  \A i \in Instances :
    cursor[i] # Closed =>
      LET c == cursor[i]
          gone == failed[i] \ {FirstBlock(c)}
      IN /\ Range(given[i]) \subseteq InRange(c)
         /\ \A k \in 2 .. Len(given[i]) : given[i][k - 1] < given[i][k]
         /\ Lost(i) = InRange(c) \cap UNION {ChangesOf(index[c.stream][b]) : b \in gone}
=============================================================================
