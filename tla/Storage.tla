------------------------------ MODULE Storage ------------------------------
(***************************************************************************)
(* The contract of a Storage (storage.hpp), answered the way MemoryStorage *)
(* answers it: over the plain history of every stream.  An instance serves *)
(* one thread.  A call may throw; a cursor whose next() threw may go on    *)
(* past changes it did not give, but never gives one twice or out of order.*)
(***************************************************************************)
EXTENDS TimeSearch

CONSTANTS
  Instances,  \* storages over the same data, one per thread
  Streams,
  Asked,      \* times a caller asks for
  Ranges,     \* ranges <<begin, end>> a cursor is opened for
  Histories,  \* what the data may be: [Streams -> times of the changes]
  NoTime      \* kNoTime

VARIABLES
  history,    \* the data; the k-th change of a stream has value k
  answer,     \* [Instances -> what the last call gave]
  cursor      \* [Instances -> a cursor, or Closed]

vars == <<history, answer, cursor>>

Void   == [op |-> "void"]
Thrown == [op |-> "threw"]
Closed == [open |-> FALSE]
Answer(op, s, t, r) == [op |-> op, stream |-> s, at |-> t, result |-> r]

(* The value at t is the last change at or before it; 0 is no value.       *)
ValuesAt(s, t) == UpperBounds(history[s], t)

NextChanges(s, t) ==
  {IF u = Len(history[s]) THEN NoTime ELSE history[s][u + 1]
     : u \in UpperBounds(history[s], t)}

PrevChanges(s, t) ==
  {IF u = 0 THEN NoTime ELSE history[s][u] : u \in LowerBounds(history[s], t)}

Init ==
  /\ history \in Histories
  /\ answer = [i \in Instances |-> Void]
  /\ cursor = [i \in Instances |-> Closed]

Give(i, a) == answer' = [answer EXCEPT ![i] = a]

(* A call begins, or ends without an answer (prefetch, release).           *)
Quiet(i) == Give(i, Void) /\ UNCHANGED <<history, cursor>>

Throw(i) == Give(i, Thrown) /\ UNCHANGED <<history, cursor>>

Lookup(i, s, t) ==
  /\ \/ \E r \in ValuesAt(s, t) : Give(i, Answer("valueAt", s, t, r))
     \/ \E r \in NextChanges(s, t) : Give(i, Answer("nextChange", s, t, r))
     \/ \E r \in PrevChanges(s, t) : Give(i, Answer("prevChange", s, t, r))
  /\ UNCHANGED <<history, cursor>>

OpenCursor(i, s, range) ==
  /\ \E p \in LowerBounds(history[s], range[1]) :
       cursor' = [cursor EXCEPT ![i] = [stream |-> s, end |-> range[2], pos |-> p]]
  /\ Give(i, Void)
  /\ UNCHANGED history

CursorNext(i) ==
  /\ cursor[i] # Closed
  /\ LET s    == cursor[i].stream
         p    == cursor[i].pos + 1
         more == p <= Len(history[s]) /\ history[s][p] < cursor[i].end
     IN IF more
        THEN /\ cursor' = [cursor EXCEPT ![i].pos = p]
             /\ Give(i, Answer("next", s, history[s][p], p))
        ELSE UNCHANGED cursor /\ Give(i, Answer("next", s, NoTime, 0))
  /\ UNCHANGED history

CursorThrows(i) ==
  /\ cursor[i] # Closed
  /\ \E p \in cursor[i].pos .. Len(history[cursor[i].stream]) :
       cursor' = [cursor EXCEPT ![i].pos = p]
  /\ Give(i, Thrown)
  /\ UNCHANGED history

Next ==
  \E i \in Instances :
    \/ Quiet(i) \/ Throw(i)
    \/ \E s \in Streams, t \in Asked : Lookup(i, s, t)
    \/ \E s \in Streams, range \in Ranges : OpenCursor(i, s, range)
    \/ CursorNext(i) \/ CursorThrows(i)

Spec == Init /\ [][Next]_vars
=============================================================================
