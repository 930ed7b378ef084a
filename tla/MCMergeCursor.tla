---------------------------- MODULE MCMergeCursor ----------------------------
(* Small instances of MergeCursor for TLC. *)
EXTENDS MergeCursor, FiniteSets

CONSTANTS MaxTime, MaxChanges

MCSubs == 0 .. 2

SeqsOf(S) == UNION {[1 .. n -> S] : n \in 0 .. MaxChanges}
Single == SeqsOf([time : 1 .. MaxTime, source : {0}])
Merged == SeqsOf([time : 1 .. MaxTime, source : {0, 2}])

(* Cursors over one stream each, numbered by their place                    *)
(* (Storage::openCursor), and a cursor over two streams, with sources 0 and *)
(* 2 of the request, beside cursors of sources 1 and 3 (Database::changes). *)
Numbered == [s \in MCSubs |-> s]
Mixed == [s \in MCSubs |-> IF s = 2 THEN KeepSource ELSE 2 * s + 1]

Asked ==
  {[changes |-> [s \in MCSubs |-> h[s + 1]], sources |-> Numbered] : h \in Single \X Single \X Single}
    \cup
  {[changes |-> [s \in MCSubs |-> h[s + 1]], sources |-> Mixed] : h \in Single \X Single \X Merged}

MCQueries == {q \in Asked : InOrder(q)}
=============================================================================
