-------------------------- MODULE MergeCursor_proofs --------------------------
(* Proofs about MergeCursor: it is typed, and it implements MergedChanges,  *)
(* for any number of sub-cursors and changes.                               *)
EXTENDS MergeCursor, TLAPS

InHeap(s) == \E key \in heap : key.sub = s

(* What holds at the end of every call: a key in the heap is that of the    *)
(* change its sub-cursor stands on, and of last_ there is none.             *)
Inv ==
  /\ TypeOK
  /\ InOrder(query)
  /\ ~Callable => heap = {} /\ last = None
  /\ \A key \in heap :
       pos[key.sub] \in 1 .. Size(query, key.sub) /\ key = KeyOf(key.sub, pos[key.sub])
  /\ (last # None) <=> (answer = "change")
  /\ last # None =>
       /\ pos[last] \in 1 .. Size(query, last)
       /\ ~InHeap(last)
       /\ current = [time |-> TimeOf(query, last, pos[last]),
                     source |-> SourceOf(query, last, pos[last])]

(* What a query holds, by type.                                             *)
LEMMA ChangeTyped ==
  ASSUME NEW q \in Query, NEW s \in Subs
  PROVE  /\ Size(q, s) \in Nat
         /\ \A k \in 1 .. Size(q, s) :
              TimeOf(q, s, k) \in Int /\ SourceOf(q, s, k) \in Sources
<1>1. q.changes[s] \in Seq([time : Int, source : Sources]) /\ q.sources[s] \in Nat
  BY DEF Query
<1>2. Size(q, s) \in Nat
  BY <1>1 DEF Size
<1>3. ASSUME NEW k \in 1 .. Size(q, s)
      PROVE  TimeOf(q, s, k) \in Int /\ SourceOf(q, s, k) \in Sources
  <2>1. \A S : \A list \in Seq(S) : \A i \in 1 .. Len(list) : list[i] \in S
    OBVIOUS
  <2>2. q.changes[s][k] \in [time : Int, source : Sources]
    BY <1>1, <2>1 DEF Size
  <2>3. TimeOf(q, s, k) \in Int /\ q.changes[s][k].source \in Sources
    BY <2>2 DEF TimeOf
  <2>4. q.sources[s] # KeepSource => q.sources[s] \in Sources
    BY <1>1 DEF Sources
  <2>5. QED
    BY <2>3, <2>4 DEF SourceOf
<1>4. QED
  BY <1>2, <1>3

(* advanceLast() keeps what Inv says of the heap, and all that it steps is  *)
(* in the heap or at its end.                                               *)
LEMMA FilledByStep ==
  ASSUME Inv
  PROVE  /\ Stepped \in [Subs -> Nat]
         /\ \A s \in Subs : Stepped[s] <= Size(query, s) + 1
         /\ Filled \subseteq [time : Int, source : Sources, sub : Subs]
         /\ \A key \in Filled :
              /\ Stepped[key.sub] \in 1 .. Size(query, key.sub)
              /\ key = KeyOf(key.sub, Stepped[key.sub])
<1>1. /\ query \in Query
      /\ pos \in [Subs -> Nat]
      /\ \A s \in Subs : pos[s] <= Size(query, s) + 1 /\ Size(query, s) \in Nat
      /\ ToStep \subseteq Subs
      /\ \A s \in ToStep : s = last /\ pos[s] \in 1 .. Size(query, s) /\ ~InHeap(s)
  BY ChangeTyped DEF Inv, TypeOK, ToStep
<1>2. Stepped \in [Subs -> Nat] /\ \A s \in Subs : Stepped[s] <= Size(query, s) + 1
  BY <1>1 DEF Stepped
<1>3. ASSUME NEW key \in heap
      PROVE  /\ key \in [time : Int, source : Sources, sub : Subs]
             /\ Stepped[key.sub] \in 1 .. Size(query, key.sub)
             /\ key = KeyOf(key.sub, Stepped[key.sub])
  <2>1. key \in [time : Int, source : Sources, sub : Subs] /\ key.sub \in Subs
    BY DEF Inv, TypeOK
  <2>2. key.sub \notin ToStep
    BY <1>1 DEF InHeap
  <2>3. QED
    BY <2>1, <2>2 DEF Inv, Stepped
<1>4. ASSUME NEW s \in ToStep, Stepped[s] <= Size(query, s)
      PROVE  /\ KeyOf(s, Stepped[s]) \in [time : Int, source : Sources, sub : Subs]
             /\ Stepped[s] \in 1 .. Size(query, s)
             /\ KeyOf(s, Stepped[s]).sub = s
  <2>1. s \in Subs /\ Stepped[s] \in 1 .. Size(query, s)
    BY <1>1, <1>4 DEF Stepped
  <2>2. QED
    BY <1>1, <2>1, ChangeTyped DEF KeyOf
<1>5. QED
  BY <1>2, <1>3, <1>4 DEF Filled

(* The inductive invariant holds.                                         *)
THEOREM InvCorrect == Spec => []Inv
<1>1. Init => Inv
  <2> SUFFICES ASSUME Init PROVE Inv
    OBVIOUS
  <2>1. query \in Query /\ InOrder(query)
    BY QueriesAssumption DEF Init
  <2>2. \A s \in Subs : Size(query, s) \in Nat
    BY <2>1, ChangeTyped
  <2>3. TypeOK
    BY <2>1, <2>2, QueriesAssumption DEF Init, TypeOK, Sources, Answers
  <2>4. QED
    BY <2>1, <2>3 DEF Init, Inv, Callable
<1>2. Inv /\ [Next]_vars => Inv'
  <2> SUFFICES ASSUME Inv, [Next]_vars PROVE Inv'
    OBVIOUS
  <2>0. /\ TypeOK /\ InOrder(query) /\ query \in Query
        /\ \A s \in Subs : Size(query, s) \in Nat
    BY ChangeTyped DEF Inv, TypeOK
  <2>1. CASE Start
    <3>1. ASSUME NEW key \in heap'
          PROVE  /\ key \in [time : Int, source : Sources, sub : Subs]
                 /\ 1 \in 1 .. Size(query, key.sub)
                 /\ key = KeyOf(key.sub, 1)
      <4>1. PICK s \in Subs : Size(query, s) >= 1 /\ key = KeyOf(s, 1)
        BY <2>1 DEF Start
      <4>2. 1 \in 1 .. Size(query, s) /\ key.sub = s
        BY <2>0, <4>1 DEF KeyOf
      <4>3. QED
        BY <2>0, <4>1, <4>2, ChangeTyped DEF KeyOf
    <3>2. query' = query /\ last' = None /\ answer' = "open" /\ current' = current
          /\ pos' = [s \in Subs |-> 1]
      BY <2>1 DEF Start, Inv, Callable
    <3>3. TypeOK'
      BY <2>0, <3>1, <3>2 DEF TypeOK, Answers
    <3>4. \A key \in heap' : pos'[key.sub] \in 1 .. Size(query, key.sub) /\ key = KeyOf(key.sub, pos'[key.sub])
      BY <3>1, <3>2
    <3>5. QED
      BY <2>0, <3>2, <3>3, <3>4 DEF Inv, Callable, KeyOf
  <2>2. CASE StartThrows
    BY <2>0, <2>2 DEF StartThrows, Inv, TypeOK, Answers, Callable, KeyOf, InHeap
  <2>3. CASE NextGives
    <3>1. PICK best \in Least(Filled) :
            /\ heap' = Filled \ {best}
            /\ last' = best.sub
            /\ current' = [time |-> TimeOf(query, best.sub, Stepped[best.sub]), source |-> best.source]
      BY <2>3 DEF NextGives
    <3>2. best \in Filled /\ best.sub \in Subs /\ best.source \in Sources
      BY <3>1, FilledByStep DEF Least
    <3>3. /\ Stepped[best.sub] \in 1 .. Size(query, best.sub)
          /\ best = KeyOf(best.sub, Stepped[best.sub])
      BY <3>2, FilledByStep
    <3>4. query' = query /\ pos' = Stepped /\ answer' = "change"
      BY <2>3 DEF NextGives
    <3>5. current' = [time |-> TimeOf(query, best.sub, Stepped[best.sub]),
                      source |-> SourceOf(query, best.sub, Stepped[best.sub])]
      BY <3>1, <3>3 DEF KeyOf
    <3>6. TypeOK'
      BY <2>0, <3>1, <3>2, <3>3, <3>4, <3>5, FilledByStep, ChangeTyped DEF TypeOK, Answers
    <3>7. \A key \in heap' : /\ pos'[key.sub] \in 1 .. Size(query, key.sub)
                             /\ key = KeyOf(key.sub, pos'[key.sub])
                             /\ key.sub # best.sub
      BY <3>1, <3>3, <3>4, FilledByStep
    <3>8. last' # None
      BY <3>1, <3>2, QueriesAssumption
    <3>9. QED
      BY <2>0, <3>1, <3>3, <3>4, <3>5, <3>6, <3>7, <3>8 DEF Inv, Callable, KeyOf, InHeap
  <2>4. CASE NextEnds
    <3>1. heap = {} /\ heap' = {}
      BY <2>4 DEF NextEnds, Filled
    <3>2. query' = query /\ pos' = Stepped /\ answer' = "end" /\ last' = None /\ current' = current
      BY <2>4 DEF NextEnds
    <3>3. TypeOK'
      BY <2>0, <3>1, <3>2, FilledByStep DEF TypeOK, Answers
    <3>4. QED
      BY <2>0, <3>1, <3>2, <3>3 DEF Inv, Callable
  <2>5. CASE NextThrows
    <3>1. PICK p \in pos[last] .. Size(query, last) + 1 : pos' = [pos EXCEPT ![last] = p]
      BY <2>5 DEF NextThrows
    <3>2. query' = query /\ heap' = heap /\ answer' = "threw" /\ last' = None /\ current' = current
          /\ last # None
      BY <2>5 DEF NextThrows
    <3>3. last \in Subs /\ ~InHeap(last) /\ pos[last] \in Nat
      BY <2>0, <3>2 DEF Inv, TypeOK
    <3>4. p \in Nat /\ p <= Size(query, last) + 1
      BY <2>0, <3>1, <3>3
    <3>5. TypeOK'
      BY <2>0, <3>1, <3>2, <3>3, <3>4 DEF TypeOK, Answers
    <3>6. \A key \in heap : key.sub \in Subs /\ key.sub # last /\ pos'[key.sub] = pos[key.sub]
      BY <2>0, <3>1, <3>3 DEF TypeOK, InHeap
    <3>7. QED
      BY <2>0, <3>2, <3>5, <3>6 DEF Inv, Callable, KeyOf
  <2>6. CASE UNCHANGED vars
    BY <2>6 DEF vars, Inv, TypeOK, Callable, KeyOf, InHeap
  <2>7. QED
    BY <2>1, <2>2, <2>3, <2>4, <2>5, <2>6 DEF Next
<1>3. QED
  BY <1>1, <1>2, PTL DEF Spec

(* The types hold: no key is kKeepSource and no sub-cursor is asked after *)
(* its end (MergeCursor of merge_cursor.hpp).                             *)
THEOREM TypeCorrect == Spec => []TypeOK
<1>1. Inv => TypeOK
  BY DEF Inv
<1>2. QED
  BY <1>1, InvCorrect, PTL
----------------------------------------------------------------------------
(* Once the cursor is open, the changes not given yet are those from the    *)
(* places on where the sub-cursors in the heap stand after advanceLast().   *)
LEMMA AwaitedInFilled ==
  ASSUME Inv, Callable, NEW s \in Subs, NEW k \in 1 .. Size(query, s)
  PROVE  Awaited(s, k) <=> k >= Stepped[s] /\ \E key \in Filled : key.sub = s
<1>1. Size(query, s) \in Nat /\ pos[s] \in Nat /\ k \in Nat
  BY ChangeTyped DEF Inv, TypeOK
<1>2. CASE s \in ToStep
  <2>1. s = last /\ pos[s] \in 1 .. Size(query, s) /\ ~InHeap(s) /\ Stepped[s] = pos[s] + 1
    BY <1>2 DEF ToStep, Inv, Stepped
  <2>2. Awaited(s, k) <=> k >= Stepped[s]
    BY <1>1, <2>1 DEF Awaited, InHeap
  <2>3. k >= Stepped[s] => Stepped[s] <= Size(query, s)
    BY <1>1, <2>1
  <2>4. Stepped[s] <= Size(query, s) => KeyOf(s, Stepped[s]) \in Filled /\ KeyOf(s, Stepped[s]).sub = s
    BY <1>2 DEF Filled, KeyOf
  <2>5. QED
    BY <2>2, <2>3, <2>4
<1>3. CASE s \notin ToStep
  <2>1. s # last /\ Stepped[s] = pos[s]
    BY <1>3, QueriesAssumption DEF ToStep, Stepped
  <2>2. (\E key \in Filled : key.sub = s) <=> \E key \in heap : key.sub = s
    BY <1>3 DEF Filled, KeyOf
  <2>3. QED
    BY <2>1, <2>2 DEF Awaited
<1>4. QED
  BY <1>2, <1>3

(* The change of a key that is not later than another comes before none     *)
(* that is left: each of those is at or behind a key of its sub-cursor.     *)
LEMMA LeastComesFirst ==
  ASSUME Inv, Callable, NEW best \in Least(Filled),
         NEW s \in Subs, NEW k \in 1 .. Size(query, s), Awaited(s, k)
  PROVE  ~Contract!Before(Change(query, s, k), Change(query, best.sub, Stepped[best.sub]))
<1> DEFINE b == best.sub
           m == Stepped[best.sub]
           n == Stepped[s]
<1>1. /\ b \in Subs /\ m \in 1 .. Size(query, b)
      /\ best = KeyOf(b, m)
  BY FilledByStep DEF Least
<1>2. k >= n /\ n \in 1 .. Size(query, s) /\ KeyOf(s, n) \in Filled
  <2>1. PICK key \in Filled : key.sub = s /\ k >= Stepped[s]
    BY AwaitedInFilled
  <2>2. QED
    BY <2>1, FilledByStep
<1>3. /\ Size(query, s) \in Nat /\ Size(query, b) \in Nat
      /\ TimeOf(query, b, m) \in Int /\ SourceOf(query, b, m) \in Nat
      /\ TimeOf(query, s, n) \in Int /\ SourceOf(query, s, n) \in Nat
      /\ TimeOf(query, s, k) \in Int /\ SourceOf(query, s, k) \in Nat
  BY <1>1, <1>2, ChangeTyped DEF Inv, TypeOK, Sources
<1>4. ~Later(best, KeyOf(s, n))
  BY <1>2 DEF Least
<1>5. \/ TimeOf(query, b, m) < TimeOf(query, s, n)
      \/ TimeOf(query, b, m) = TimeOf(query, s, n) /\ SourceOf(query, b, m) <= SourceOf(query, s, n)
  BY <1>1, <1>3, <1>4 DEF Later, KeyOf
<1>6. \/ TimeOf(query, s, n) < TimeOf(query, s, k)
      \/ TimeOf(query, s, n) = TimeOf(query, s, k) /\ SourceOf(query, s, n) <= SourceOf(query, s, k)
  <2>1. CASE k = n
    BY <2>1, <1>3
  <2>2. CASE n < k
    BY <1>2, <2>2 DEF Inv, InOrder
  <2>3. QED
    BY <1>2, <1>3, <2>1, <2>2
<1>7. s = b => k >= m
  BY <1>2
<1> HIDE DEF b, m, n
<1>8. ~Contract!Before(Change(query, s, k), Change(query, b, m))
  BY <1>1, <1>2, <1>3, <1>5, <1>6, <1>7 DEF Contract!Before, Change
<1>9. QED
  BY <1>8 DEF b, m

(* The merge is what a caller was promised, for any sub-cursors, in any     *)
(* order of their changes and whichever of them throws.                     *)
THEOREM MergeCorrect == Spec => ImplementsMerge
<1>1. Init => Contract!Init
  <2> SUFFICES ASSUME Init PROVE Contract!Init
    OBVIOUS
  <2>1. Left = AllChanges(query)
    BY DEF Init, Left, Awaited, Callable
  <2>2. Seen = [is |-> "none"]
    BY DEF Init, Seen
  <2>3. QED
    BY <2>1, <2>2 DEF Init, Contract!Init, Contract!NotYet
<1>2. Inv /\ [Next]_vars => [Contract!Next]_(Contract!vars)
  <2> SUFFICES ASSUME Inv, [Next]_vars
               PROVE  Contract!Next \/ UNCHANGED <<Left, Seen>>
    BY DEF Contract!vars
  <2>0. \A c \in AllChanges(query) :
          /\ c.sub \in Subs /\ c.ordinal \in 1 .. Size(query, c.sub)
          /\ c = Change(query, c.sub, c.ordinal)
    BY DEF AllChanges, Change
  <2>1. CASE Start
    <3>1. query' = query /\ Callable' /\ pos' = [s \in Subs |-> 1]
      BY <2>1 DEF Start, Callable
    <3>2. Left = AllChanges(query)
      BY <2>1 DEF Start, Left, Awaited, Callable
    <3>3. ASSUME NEW c \in AllChanges(query) PROVE Awaited(c.sub, c.ordinal)'
      <4>1. c.sub \in Subs /\ c.ordinal \in 1 .. Size(query, c.sub) /\ Size(query, c.sub) \in Nat
        BY <2>0, ChangeTyped DEF Inv, TypeOK
      <4>2. KeyOf(c.sub, 1) \in heap' /\ KeyOf(c.sub, 1).sub = c.sub
        BY <2>1, <4>1 DEF Start, KeyOf
      <4>3. QED
        BY <3>1, <4>1, <4>2 DEF Awaited
    <3>4. Left' = AllChanges(query)
      BY <3>1, <3>3 DEF Left
    <3>5. Seen' = Seen
      BY <2>1 DEF Start, Seen
    <3>6. QED
      BY <3>2, <3>4, <3>5
  <2>2. CASE StartThrows
    BY <2>2 DEF StartThrows, Left, Awaited, Callable, Seen
  <2>3. CASE NextGives
    <3>1. PICK best \in Least(Filled) :
            /\ heap' = Filled \ {best}
            /\ last' = best.sub
            /\ current' = [time |-> TimeOf(query, best.sub, Stepped[best.sub]), source |-> best.source]
      BY <2>3 DEF NextGives
    <3>2. Callable /\ query' = query /\ pos' = Stepped /\ answer' = "change" /\ Callable'
      BY <2>3 DEF NextGives, Callable
    <3> DEFINE b == best.sub
               m == Stepped[best.sub]
               given == Change(query, b, m)
    <3>3. b \in Subs /\ m \in 1 .. Size(query, b) /\ best \in Filled /\ best = KeyOf(b, m)
      BY <3>1, FilledByStep DEF Least
    <3>4. given \in AllChanges(query) /\ given.sub = b /\ given.ordinal = m
      BY <3>3 DEF AllChanges, Change
    <3>5. given \in Left
      BY <3>2, <3>3, <3>4, AwaitedInFilled DEF Left
    <3>6. \A d \in Left : ~Contract!Before(d, given)
      BY <2>0, <3>1, <3>2, LeastComesFirst DEF Left
    <3>7. Left' = Left \ {given}
      <4>1. ASSUME NEW c \in AllChanges(query)
            PROVE  Awaited(c.sub, c.ordinal)' <=> Awaited(c.sub, c.ordinal) /\ c # given
        <5>1. /\ c.sub \in Subs /\ c.ordinal \in 1 .. Size(query, c.sub)
              /\ c = Change(query, c.sub, c.ordinal)
          BY <2>0
        <5>2. Awaited(c.sub, c.ordinal)
                <=> c.ordinal >= Stepped[c.sub] /\ \E key \in Filled : key.sub = c.sub
          BY <3>2, <5>1, AwaitedInFilled
        <5>3. Size(query, c.sub) \in Nat /\ Stepped[c.sub] \in Nat
          BY <5>1, FilledByStep, ChangeTyped DEF Inv, TypeOK
        <5>4. CASE c.sub = b
          <6>1. ~\E key \in heap' : key.sub = c.sub
            BY <3>1, <3>3, <5>4, FilledByStep
          <6>2. Awaited(c.sub, c.ordinal)' <=> c.ordinal > m
            BY <3>1, <3>2, <5>4, <6>1 DEF Awaited
          <6>3. c # given <=> c.ordinal # m
            BY <3>4, <5>1, <5>4
          <6>4. QED
            BY <3>3, <5>1, <5>2, <5>3, <5>4, <6>2, <6>3
        <5>5. CASE c.sub # b
          <6>1. (\E key \in heap' : key.sub = c.sub) <=> \E key \in Filled : key.sub = c.sub
            BY <3>1, <5>5
          <6>2. Awaited(c.sub, c.ordinal)'
                  <=> c.ordinal >= Stepped[c.sub] /\ \E key \in heap' : key.sub = c.sub
            BY <3>1, <3>2, <5>5 DEF Awaited
          <6>3. QED
            BY <3>4, <5>2, <5>5, <6>1, <6>2
        <5>6. QED
          BY <5>4, <5>5
      <4>2. QED
        BY <3>2, <4>1 DEF Left
    <3>8. Seen' = Contract!Given(given)
      BY <3>1, <3>2, <3>3 DEF Seen, Shown, Contract!Given, Change, KeyOf
    <3>9. Contract!Give
      BY <3>5, <3>6, <3>7, <3>8 DEF Contract!Give
    <3>10. QED
      BY <3>9 DEF Contract!Next
  <2>4. CASE NextEnds
    <3>1. Callable /\ Filled = {} /\ heap = {} /\ heap' = {} /\ query' = query
          /\ last' = None /\ answer' = "end" /\ Callable'
      BY <2>4 DEF NextEnds, Filled, Callable
    <3>2. Left = {}
      BY <2>0, <3>1, AwaitedInFilled DEF Left
    <3>3. Left' = {}
      <4>1. \A c \in AllChanges(query) : c.sub # None
        BY <2>0, QueriesAssumption
      <4>2. QED
        BY <3>1, <4>1 DEF Left, Awaited
    <3>4. Seen' = Contract!Exhausted
      BY <3>1 DEF Seen, Contract!Exhausted
    <3>5. QED
      BY <3>2, <3>3, <3>4 DEF Contract!Next, Contract!End
  <2>5. CASE NextThrows
    <3>1. PICK p \in pos[last] .. Size(query, last) + 1 : pos' = [pos EXCEPT ![last] = p]
      BY <2>5 DEF NextThrows
    <3>2. /\ Callable /\ last # None /\ answer = "change" /\ last \in Subs /\ ~InHeap(last)
          /\ query' = query /\ heap' = heap /\ last' = None /\ answer' = "threw" /\ Callable'
      BY <2>5 DEF NextThrows, Inv, TypeOK, Callable
    <3>3. Left' = {c \in Left : c.sub # last}
      <4>1. ASSUME NEW c \in AllChanges(query)
            PROVE  Awaited(c.sub, c.ordinal)' <=> Awaited(c.sub, c.ordinal) /\ c.sub # last
        <5>1. c.sub \in Subs /\ c.sub # None
          BY <2>0, QueriesAssumption
        <5>2. c.sub # last => pos'[c.sub] = pos[c.sub]
          BY <3>1, <5>1 DEF Inv, TypeOK
        <5>3. QED
          BY <3>2, <5>1, <5>2 DEF Awaited, InHeap
      <4>2. QED
        BY <3>2, <4>1 DEF Left
    <3>4. Seen = [is |-> "change", change |-> Shown] /\ Shown.sub = last
      BY <3>2 DEF Seen, Shown
    <3>5. Seen' = Contract!Thrown
      BY <3>2 DEF Seen, Contract!Thrown
    <3>6. QED
      BY <3>3, <3>4, <3>5 DEF Contract!Next, Contract!Fail
  <2>6. CASE UNCHANGED vars
    BY <2>6 DEF vars, Left, Awaited, Callable, Seen, Shown
  <2>7. QED
    BY <2>1, <2>2, <2>3, <2>4, <2>5, <2>6 DEF Next
<1>3. QED
  BY <1>1, <1>2, InvCorrect, PTL DEF Spec, ImplementsMerge, Contract!Spec
=============================================================================
