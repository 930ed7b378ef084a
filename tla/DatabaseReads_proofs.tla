------------------------- MODULE DatabaseReads_proofs -------------------------
(***************************************************************************)
(* That the jumps of a reader are exact (JumpsExact), for every hierarchy  *)
(* and every contents of the streams that the assumptions admit.           *)
(*                                                                         *)
(* Every node has a set of edges: the times of its stream, the times at    *)
(* which its slice appears or changes, or the edges of its children.       *)
(* NextChange and PrevChange give the neighbours of a time in it, and the  *)
(* value of the node stays what it is from one edge to the next.           *)
(***************************************************************************)
EXTENDS DatabaseReads, DataInduction, TLAPS

TimesIn(s) == {c.time : c \in ToSet(history[s])}

(* x is the first member of E behind t, or there is none.                   *)
IsNext(E, t, x) ==
  IF x = NoTime THEN \A e \in E : e <= t
                ELSE x \in E /\ t < x /\ \A e \in E : t < e => x <= e

(* x is the last member of E before t, or there is none.                    *)
IsPrev(E, t, x) ==
  IF x = NoTime THEN \A e \in E : t <= e
                ELSE x \in E /\ x < t /\ \A e \in E : e < t => e <= x

Quiet(E, t, u) == \A e \in E : e <= t \/ u < e

(* A finite set of times has a first and a last member.                     *)
LEMMA EndsOf ==
  ASSUME NEW S \in SUBSET Int, IsFiniteSet(S), S # {}
  PROVE  /\ Min(S) \in S /\ \A y \in S : Min(S) <= y
         /\ Max(S) \in S /\ \A y \in S : y <= Max(S)
<1> DEFINE Ended(T) == T # {} => (\E x \in T : \A y \in T : x <= y) /\ (\E x \in T : \A y \in T : x >= y)
           F == {T \in SUBSET S : Ended(T)}
<1>1. ASSUME NEW T \in SUBSET S, \A x \in T : T \ {x} \in F
      PROVE  T \in F
  <2>1. CASE T = {}
    BY <2>1
  <2>2. CASE \E x \in T : T = {x}
    <3>1. PICK x \in T : T = {x}
      BY <2>2
    <3>2. x <= x /\ x >= x
      OBVIOUS
    <3> QED
      BY <3>1, <3>2
  <2>3. CASE T # {} /\ ~\E x \in T : T = {x}
    <3>1. PICK z \in T : TRUE
      BY <2>3
    <3>2. T \ {z} # {} /\ Ended(T \ {z})
      BY <1>1, <2>3, <3>1
    <3>3. PICK a \in T \ {z} : \A y \in T \ {z} : a <= y
      BY <3>2
    <3>4. PICK b \in T \ {z} : \A y \in T \ {z} : b >= y
      BY <3>2
    <3>5. \E x \in T : \A y \in T : x <= y
      <4>1. CASE a <= z
        BY <3>3, <4>1
      <4>2. CASE z <= a
        <5>1. ASSUME NEW y \in T PROVE z <= y
          <6>1. y = z \/ a <= y
            BY <3>3
          <6> QED
            BY <4>2, <6>1
        <5> QED
          BY <5>1
      <4> QED
        BY <4>1, <4>2
    <3>6. \E x \in T : \A y \in T : x >= y
      <4>1. CASE b >= z
        BY <3>4, <4>1
      <4>2. CASE z >= b
        <5>1. ASSUME NEW y \in T PROVE z >= y
          <6>1. y = z \/ b >= y
            BY <3>4
          <6> QED
            BY <4>2, <6>1
        <5> QED
          BY <5>1
      <4> QED
        BY <4>1, <4>2
    <3> QED
      BY <3>5, <3>6
  <2> QED
    BY <2>1, <2>2, <2>3
<1>2. F = SUBSET S
  <2>1. F \in SUBSET SUBSET S
    OBVIOUS
  <2> HIDE DEF F
  <2> QED
    BY <1>1, <2>1, SubsetInduction
<1>3. (\E x \in S : \A y \in S : x <= y) /\ (\E x \in S : \A y \in S : x >= y)
  BY <1>2
<1>4. Min(S) \in S /\ \A y \in S : Min(S) <= y
  BY <1>3 DEF Min
<1>5. Max(S) \in S /\ \A y \in S : Max(S) >= y
  BY <1>3 DEF Max
<1>6. \A y \in S : y <= Max(S)
  BY <1>5
<1> QED
  BY <1>4, <1>5, <1>6

(* Positions that are, with each, all before it are the first so many.      *)
LEMMA FirstSoMany ==
  ASSUME NEW n \in Nat, NEW S \in SUBSET (1 .. n), \A k \in S : \A j \in 1 .. k : j \in S
  PROVE  \E u \in 0 .. n : S = 1 .. u /\ Cardinality(S) = u
<1>1. CASE S = {}
  <2>1. 0 \in 0 .. n /\ S = 1 .. 0 /\ Cardinality(S) = 0
    BY <1>1, FS_EmptySet
  <2> QED
    BY <2>1
<1>2. CASE S # {}
  <2>1. IsFiniteSet(S) /\ S \in SUBSET Int
    <3>1. IsFiniteSet(1 .. n) /\ 1 .. n \subseteq Int
      BY FS_Interval
    <3> QED
      BY <3>1, FS_Subset
  <2>2. PICK u \in S : \A y \in S : y <= u
    BY <1>2, <2>1, EndsOf
  <2>3. u \in 1 .. n
    OBVIOUS
  <2>4. S = 1 .. u
    <3>1. ASSUME NEW k \in S PROVE k \in 1 .. u
      BY <2>2, <2>3
    <3>2. \A k \in 1 .. u : k \in S
      OBVIOUS
    <3> QED
      BY <3>1, <3>2
  <2>5. Cardinality(1 .. u) = u
    BY <2>3, FS_Interval
  <2> QED
    BY <2>3, <2>4, <2>5
<1> QED
  BY <1>1, <1>2

----------------------------------------------------------------------------
(* A stream is a sequence of changes in the order of time.                  *)
LEMMA StreamIs ==
  ASSUME history \in Histories, NEW s \in DOMAIN history
  PROVE  \E n \in Nat :
           /\ Len(history[s]) = n /\ DOMAIN history[s] = 1 .. n
           /\ \A j \in 1 .. n : history[s][j].time \in Int /\ history[s][j].time # NoTime
           /\ \A j, k \in 1 .. n : j < k => history[s][j].time <= history[s][k].time
           /\ TimesIn(s) = {history[s][k].time : k \in 1 .. n}
<1>1. PICK n : n = Len(history[s])
  OBVIOUS
<1>2. /\ n \in Nat /\ DOMAIN history[s] = 1 .. n
      /\ \A j \in 1 .. n : history[s][j].time \in Int \ {NoTime}
      /\ \A j, k \in 1 .. n : j < k => history[s][j].time <= history[s][k].time
  BY <1>1, HistoryAssumption
<1>3. TimesIn(s) = {history[s][k].time : k \in 1 .. n}
  BY <1>2 DEF TimesIn, ToSet
<1> QED
  BY <1>1, <1>2, <1>3

(* The changes up to a time are the first so many.                          *)
LEMMA CountUpTo ==
  ASSUME history \in Histories, NEW s \in DOMAIN history, NEW t \in Int
  PROVE  \E u \in 0 .. Len(history[s]) :
           /\ CountWhere(s, LAMBDA v : v <= t) = u
           /\ \A k \in DOMAIN history[s] : history[s][k].time <= t <=> k <= u
<1>1. PICK n \in Nat :
           /\ Len(history[s]) = n /\ DOMAIN history[s] = 1 .. n
           /\ \A j \in 1 .. n : history[s][j].time \in Int /\ history[s][j].time # NoTime
           /\ \A j, k \in 1 .. n : j < k => history[s][j].time <= history[s][k].time
  BY StreamIs
<1> DEFINE S == {k \in DOMAIN history[s] : history[s][k].time <= t}
<1>2. S \in SUBSET (1 .. n) /\ \A k \in S : \A j \in 1 .. k : j \in S
  <2>1. ASSUME NEW k \in S, NEW j \in 1 .. k PROVE j \in S
    <3>1. k \in 1 .. n /\ j \in 1 .. n /\ (j < k \/ j = k)
      BY <1>1
    <3>2. history[s][j].time <= history[s][k].time
      BY <1>1, <3>1
    <3> QED
      BY <1>1, <3>1, <3>2
  <2> QED
    BY <1>1, <2>1
<1>3. PICK u \in 0 .. n : S = 1 .. u /\ Cardinality(S) = u
  <2> HIDE DEF S
  <2> QED
    BY <1>2, FirstSoMany
<1>4. CountWhere(s, LAMBDA v : v <= t) = u
  BY <1>3 DEF CountWhere
<1>5. ASSUME NEW k \in DOMAIN history[s] PROVE history[s][k].time <= t <=> k <= u
  <2>1. history[s][k].time <= t <=> k \in S
    OBVIOUS
  <2>2. k \in S <=> k <= u
    BY <1>1, <1>3
  <2> QED
    BY <2>1, <2>2
<1> QED
  BY <1>1, <1>4, <1>5

(* And so are those before it.                                              *)
LEMMA CountBefore ==
  ASSUME history \in Histories, NEW s \in DOMAIN history, NEW t \in Int
  PROVE  \E u \in 0 .. Len(history[s]) :
           /\ CountWhere(s, LAMBDA v : v < t) = u
           /\ \A k \in DOMAIN history[s] : history[s][k].time < t <=> k <= u
<1>1. PICK n \in Nat :
           /\ Len(history[s]) = n /\ DOMAIN history[s] = 1 .. n
           /\ \A j \in 1 .. n : history[s][j].time \in Int /\ history[s][j].time # NoTime
           /\ \A j, k \in 1 .. n : j < k => history[s][j].time <= history[s][k].time
  BY StreamIs
<1> DEFINE S == {k \in DOMAIN history[s] : history[s][k].time < t}
<1>2. S \in SUBSET (1 .. n) /\ \A k \in S : \A j \in 1 .. k : j \in S
  <2>1. ASSUME NEW k \in S, NEW j \in 1 .. k PROVE j \in S
    <3>1. k \in 1 .. n /\ j \in 1 .. n /\ (j < k \/ j = k)
      BY <1>1
    <3>2. history[s][j].time <= history[s][k].time
      BY <1>1, <3>1
    <3> QED
      BY <1>1, <3>1, <3>2
  <2> QED
    BY <1>1, <2>1
<1>3. PICK u \in 0 .. n : S = 1 .. u /\ Cardinality(S) = u
  <2> HIDE DEF S
  <2> QED
    BY <1>2, FirstSoMany
<1>4. CountWhere(s, LAMBDA v : v < t) = u
  BY <1>3 DEF CountWhere
<1>5. ASSUME NEW k \in DOMAIN history[s] PROVE history[s][k].time < t <=> k <= u
  <2>1. history[s][k].time < t <=> k \in S
    OBVIOUS
  <2>2. k \in S <=> k <= u
    BY <1>1, <1>3
  <2> QED
    BY <2>1, <2>2
<1> QED
  BY <1>1, <1>4, <1>5

(* MemoryStorage::nextChange gives the time behind a time.                  *)
LEMMA NextStoredIs ==
  ASSUME history \in Histories, NEW s \in DOMAIN history, NEW t \in Int
  PROVE  IsNext(TimesIn(s), t, NextStored(s, t)) /\ NextStored(s, t) \in Int
<1>1. PICK n \in Nat :
           /\ Len(history[s]) = n /\ DOMAIN history[s] = 1 .. n
           /\ \A j \in 1 .. n : history[s][j].time \in Int /\ history[s][j].time # NoTime
           /\ \A j, k \in 1 .. n : j < k => history[s][j].time <= history[s][k].time
           /\ TimesIn(s) = {history[s][k].time : k \in 1 .. n}
  BY StreamIs
<1>2. PICK u \in 0 .. n :
           /\ CountWhere(s, LAMBDA v : v <= t) = u
           /\ \A k \in 1 .. n : history[s][k].time <= t <=> k <= u
  BY <1>1, CountUpTo
<1>3. NextStored(s, t) = IF u = n THEN NoTime ELSE history[s][u + 1].time
  BY <1>1, <1>2 DEF NextStored
<1>4. CASE u = n
  <2>1. \A k \in 1 .. n : history[s][k].time <= t
    BY <1>2, <1>4
  <2> QED
    BY <1>1, <1>3, <1>4, <2>1, HistoryAssumption DEF IsNext
<1>5. CASE u # n
  <2>1. PICK k \in 1 .. n : k = u + 1
    BY <1>5
  <2>2. PICK x \in Int : x = history[s][k].time /\ x # NoTime
    BY <1>1
  <2>3. NextStored(s, t) = x /\ x \in TimesIn(s)
    BY <1>1, <1>3, <1>5, <2>1, <2>2
  <2>4. t < x
    BY <1>2, <2>1, <2>2
  <2>5. ASSUME NEW j \in 1 .. n, t < history[s][j].time PROVE x <= history[s][j].time
    <3>1. PICK y \in Int : y = history[s][j].time
      BY <1>1
    <3>2. ~(j <= u)
      BY <1>2, <2>5, <3>1
    <3>3. j = k \/ k < j
      BY <2>1, <3>2
    <3> QED
      BY <1>1, <2>2, <3>3
  <2> QED
    BY <1>1, <2>2, <2>3, <2>4, <2>5 DEF IsNext
<1> QED
  BY <1>4, <1>5

(* MemoryStorage::prevChange gives the time before a time.                  *)
LEMMA PrevStoredIs ==
  ASSUME history \in Histories, NEW s \in DOMAIN history, NEW t \in Int
  PROVE  IsPrev(TimesIn(s), t, PrevStored(s, t)) /\ PrevStored(s, t) \in Int
<1>1. PICK n \in Nat :
           /\ Len(history[s]) = n /\ DOMAIN history[s] = 1 .. n
           /\ \A j \in 1 .. n : history[s][j].time \in Int /\ history[s][j].time # NoTime
           /\ \A j, k \in 1 .. n : j < k => history[s][j].time <= history[s][k].time
           /\ TimesIn(s) = {history[s][k].time : k \in 1 .. n}
  BY StreamIs
<1>2. PICK u \in 0 .. n :
           /\ CountWhere(s, LAMBDA v : v < t) = u
           /\ \A k \in 1 .. n : history[s][k].time < t <=> k <= u
  BY <1>1, CountBefore
<1>3. PrevStored(s, t) = IF u = 0 THEN NoTime ELSE history[s][u].time
  BY <1>1, <1>2 DEF PrevStored
<1>4. CASE u = 0
  <2>1. ASSUME NEW k \in 1 .. n PROVE t <= history[s][k].time
    <3>1. ~(history[s][k].time < t)
      BY <1>2, <1>4
    <3> QED
      BY <1>1, <3>1
  <2> QED
    BY <1>1, <1>3, <1>4, <2>1, HistoryAssumption DEF IsPrev
<1>5. CASE u # 0
  <2>0. u \in 1 .. n
    BY <1>5
  <2>2. PICK x \in Int : x = history[s][u].time /\ x # NoTime
    BY <1>1, <2>0
  <2>3. PrevStored(s, t) = x /\ x \in TimesIn(s)
    BY <1>1, <1>3, <1>5, <2>0, <2>2
  <2>4. x < t
    BY <1>2, <2>0, <2>2
  <2>5. ASSUME NEW j \in 1 .. n, history[s][j].time < t PROVE history[s][j].time <= x
    <3>1. j <= u
      BY <1>2, <2>5
    <3>2. j = u \/ j < u
      BY <3>1
    <3>3. PICK y \in Int : y = history[s][j].time
      BY <1>1
    <3> QED
      BY <1>1, <2>0, <2>2, <3>2, <3>3
  <2> QED
    BY <1>1, <2>2, <2>3, <2>4, <2>5 DEF IsPrev
<1> QED
  BY <1>4, <1>5

(* The value of a stream stays what it is while nothing is stored.          *)
LEMMA StoredStays ==
  ASSUME history \in Histories, NEW s \in DOMAIN history, NEW t \in Int, NEW u \in Int,
         t <= u, Quiet(TimesIn(s), t, u)
  PROVE  StoredAt(s, t) = StoredAt(s, u)
<1>1. PICK n \in Nat :
           /\ Len(history[s]) = n /\ DOMAIN history[s] = 1 .. n
           /\ \A j \in 1 .. n : history[s][j].time \in Int /\ history[s][j].time # NoTime
           /\ TimesIn(s) = {history[s][k].time : k \in 1 .. n}
  BY StreamIs
<1>2. PICK a \in 0 .. n :
           /\ CountWhere(s, LAMBDA v : v <= t) = a
           /\ \A k \in 1 .. n : history[s][k].time <= t <=> k <= a
  BY <1>1, CountUpTo
<1>3. PICK b \in 0 .. n :
           /\ CountWhere(s, LAMBDA v : v <= u) = b
           /\ \A k \in 1 .. n : history[s][k].time <= u <=> k <= b
  BY <1>1, CountUpTo
<1>4. ASSUME NEW k \in 1 .. n PROVE k <= a <=> k <= b
  <2>1. PICK x \in Int : x = history[s][k].time /\ x \in TimesIn(s)
    BY <1>1
  <2>2. x <= t \/ u < x
    BY <2>1 DEF Quiet
  <2>3. x <= t <=> x <= u
    BY <2>2
  <2> QED
    BY <1>2, <1>3, <2>1, <2>3
<1>5. a = b
  <2>1. a \in 1 .. n => a <= b
    BY <1>4
  <2>2. b \in 1 .. n => b <= a
    BY <1>4
  <2> QED
    BY <2>1, <2>2
<1> QED
  BY <1>2, <1>3, <1>5 DEF StoredAt

(* Before the first change a stream has no value.                           *)
LEMMA NothingStored ==
  ASSUME history \in Histories, NEW s \in DOMAIN history, NEW t \in Int,
         \A e \in TimesIn(s) : t < e
  PROVE  StoredAt(s, t) = NoValue
<1>1. PICK n \in Nat :
           /\ Len(history[s]) = n /\ DOMAIN history[s] = 1 .. n
           /\ \A j \in 1 .. n : history[s][j].time \in Int /\ history[s][j].time # NoTime
           /\ TimesIn(s) = {history[s][k].time : k \in 1 .. n}
  BY StreamIs
<1>2. PICK a \in 0 .. n :
           /\ CountWhere(s, LAMBDA v : v <= t) = a
           /\ \A k \in 1 .. n : history[s][k].time <= t <=> k <= a
  BY <1>1, CountUpTo
<1>3. a = 0
  <2>1. SUFFICES ASSUME a # 0 PROVE FALSE
    OBVIOUS
  <2>2. a \in 1 .. n
    BY <2>1
  <2>3. PICK x \in Int : x = history[s][a].time /\ x \in TimesIn(s)
    BY <1>1, <2>2
  <2>4. x <= t /\ t < x
    BY <1>2, <2>2, <2>3
  <2> QED
    BY <2>4
<1> QED
  BY <1>2, <1>3 DEF StoredAt

(* The times of a stream are finitely many.                                 *)
LEMMA TimesInFinite ==
  ASSUME history \in Histories, NEW s \in DOMAIN history
  PROVE  TimesIn(s) \in SUBSET Int /\ NoTime \notin TimesIn(s) /\ IsFiniteSet(TimesIn(s))
<1>1. PICK n \in Nat :
           /\ \A j \in 1 .. n : history[s][j].time \in Int /\ history[s][j].time # NoTime
           /\ TimesIn(s) = {history[s][k].time : k \in 1 .. n}
  BY StreamIs
<1>2. IsFiniteSet(1 .. n)
  BY FS_Interval
<1> DEFINE f == [k \in 1 .. n |-> history[s][k].time]
<1>3. f \in Surjection(1 .. n, TimesIn(s))
  BY <1>1 DEF Surjection
<1>4. IsFiniteSet(TimesIn(s))
  <2> HIDE DEF f
  <2> QED
    BY <1>2, <1>3, FS_Surjection
<1> QED
  BY <1>1, <1>4
----------------------------------------------------------------------------
(* Walks of the tree: from a node to its parent, and from its children.     *)
LEMMA TreeIs ==
  /\ IsFiniteSet(Nodes) /\ NoNode \notin Nodes
  /\ \A n \in Nodes :
       /\ Tree[n].parent \in Nodes \cup {NoNode}
       /\ Tree[n].children \in Seq(Nodes)
       /\ Below(n) \subseteq Nodes
       /\ \A c \in Below(n) : Tree[c].parent = n
       /\ \A k \in DOMAIN Tree[n].children : Tree[n].children[k] \in Below(n)
       /\ Tree[n].children = <<>> => Below(n) = {}
       /\ Tree[n].projection # NoSlice => Tree[n].stream = NoStream
<1>1. ASSUME NEW n \in Nodes, Tree[n].children \in Seq(Nodes)
      PROVE  /\ Below(n) \subseteq Nodes
             /\ \A k \in DOMAIN Tree[n].children : Tree[n].children[k] \in Below(n)
             /\ Tree[n].children = <<>> => Below(n) = {}
  BY <1>1 DEF Below, ToSet
<1> QED
  BY <1>1, TreeAssumption

(* owningAncestor() of a child is its parent, if that has a stream, and     *)
(* that of its parent otherwise.                                            *)
Owners == {NoNode} \cup {n \in Nodes : HasStream(n)}

(* The walk from parent to parent ends, at a stream or above the roots.     *)
LEMMA WalkUpEnds ==
  \E up : /\ \A n \in Nodes : OwningAncestor(n) = up[Tree[n].parent]
          /\ \A m \in Nodes \cup {NoNode} : up[m] = OwnerFrom(up, m) /\ up[m] \in Owners
<1> DEFINE T == Nodes \cup {NoNode}
           D == [m \in T |-> IF m = NoNode THEN {} ELSE {Tree[m].parent}]
           H == [x \in T \X [T -> Owners] |-> OwnerFrom(x[2], x[1])]
           Is(f) == f = [m \in T |-> OwnerFrom(f, m)]
<1>1. IsFiniteSet(T)
  BY TreeIs, FS_AddElement
<1>2. D \in [T -> SUBSET T]
  BY TreeIs
<1>3. Grounded(T, D)
  <2>1. ASSUME NEW U \in SUBSET T, U # {} PROVE \E m \in U : D[m] \cap U = {}
    <3>1. CASE NoNode \in U
      BY <3>1
    <3>2. CASE NoNode \notin U
      <4>1. PICK n \in U : n \in Nodes /\ Tree[n].parent \notin U
        BY <2>1, <3>2, TreeAssumption
      <4> QED
        BY <4>1, TreeIs
    <3> QED
      BY <3>1, <3>2
  <2> QED
    BY <2>1 DEF Grounded
<1>4. H \in [T \X [T -> Owners] -> Owners]
  <2>1. ASSUME NEW m \in T, NEW f \in [T -> Owners] PROVE OwnerFrom(f, m) \in Owners
    BY TreeIs DEF OwnerFrom, Owners
  <2> QED
    BY <2>1
<1>5. ASSUME NEW m \in T, NEW f \in [T -> Owners], NEW g \in [T -> Owners],
             \A q \in D[m] : f[q] = g[q]
      PROVE  H[<<m, f>>] = H[<<m, g>>]
  BY <1>5, TreeIs DEF OwnerFrom
<1>6. PICK f \in [T -> Owners] : Solution(f, T, H)
  <2>1. AsksParts(H, T, Owners, D)
    <3> HIDE DEF T, H, D
    <3> QED
      BY <1>4, <1>5 DEF AsksParts
  <2>2. Owners # {}
    BY DEF Owners
  <2> HIDE DEF T, H, D
  <2> QED
    BY <1>1, <1>2, <1>3, <2>1, <2>2, RecursionExists
<1>7. Is(f)
  <2>1. \A m \in T : f[m] = OwnerFrom(f, m)
    BY <1>6 DEF Solution
  <2> QED
    BY <2>1
<1> DEFINE up == CHOOSE g : Is(g)
<1>8. Is(up)
  <2> HIDE DEF Is
  <2> QED
    BY <1>7
<1>9. \A n \in Nodes : OwningAncestor(n) = up[Tree[n].parent]
  BY DEF OwningAncestor
<1>10. \A m \in T : up[m] = OwnerFrom(up, m)
  <2> HIDE DEF up
  <2> QED
    BY <1>8
<1>11. \A m \in T : up[m] \in Owners
  <2> HIDE DEF up
  <2> DEFINE U == {m \in T : up[m] \notin Owners}
  <2>1. SUFFICES ASSUME U # {} PROVE FALSE
    OBVIOUS
  <2>2. PICK m \in U : D[m] \cap U = {}
    <3>1. U \in SUBSET T
      OBVIOUS
    <3> HIDE DEF U, D, T
    <3> QED
      BY <1>3, <2>1, <3>1 DEF Grounded
  <2>3. m = NoNode \/ HasStream(m) \/ up[Tree[m].parent] \in Owners
    BY <2>2, TreeIs
  <2>4. up[m] \in Owners
    BY <1>10, <2>3 DEF OwnerFrom, Owners
  <2> QED
    BY <2>4
<1> QED
  <2> HIDE DEF up
  <2> QED
    BY <1>9, <1>10, <1>11

(* The owner of a child, by that of its parent.                           *)
LEMMA OwnerOfChild ==
  ASSUME NEW n \in Nodes
  PROVE  /\ OwningAncestor(n) # NoNode => OwningAncestor(n) \in Nodes /\ HasStream(OwningAncestor(n))
         /\ \A c \in Below(n) : OwningAncestor(c) = IF HasStream(n) THEN n ELSE OwningAncestor(n)
<1>1. PICK up : /\ \A m \in Nodes : OwningAncestor(m) = up[Tree[m].parent]
                /\ \A m \in Nodes \cup {NoNode} : up[m] = OwnerFrom(up, m) /\ up[m] \in Owners
  BY WalkUpEnds
<1>2. OwningAncestor(n) \in Owners
  BY <1>1, TreeIs
<1>3. ASSUME NEW c \in Below(n)
      PROVE  OwningAncestor(c) = IF HasStream(n) THEN n ELSE OwningAncestor(n)
  <2>1. c \in Nodes /\ Tree[c].parent = n /\ n # NoNode
    BY TreeIs
  <2>2. OwningAncestor(c) = OwnerFrom(up, n)
    BY <1>1, <2>1
  <2> QED
    BY <1>1, <2>1, <2>2 DEF OwnerFrom
<1> QED
  BY <1>2, <1>3 DEF Owners

(* The nodes of a subtree: its root and those of the subtrees below.        *)
PartOf(part, m) == {m} \cup UNION {part[c] : c \in Below(m)}

LEMMA SubtreesAre ==
  \A n \in Nodes : /\ Subtree(n) \in SUBSET Nodes
                   /\ Subtree(n) = {n} \cup UNION {Subtree(c) : c \in Below(n)}
<1> DEFINE D == [m \in Nodes |-> Below(m)]
           V == SUBSET Nodes
           H == [x \in Nodes \X [Nodes -> V] |-> PartOf(x[2], x[1])]
           Is(f) == f = [m \in Nodes |-> PartOf(f, m)]
<1>1. D \in [Nodes -> SUBSET Nodes]
  BY TreeIs
<1>2. Grounded(Nodes, D)
  <2>1. ASSUME NEW U \in SUBSET Nodes, U # {} PROVE \E m \in U : D[m] \cap U = {}
    BY <2>1, TreeAssumption
  <2> QED
    BY <2>1 DEF Grounded
<1>3. H \in [Nodes \X [Nodes -> V] -> V]
  <2>1. ASSUME NEW m \in Nodes, NEW f \in [Nodes -> V] PROVE PartOf(f, m) \in V
    <3>1. \A c \in Below(m) : f[c] \in SUBSET Nodes
      BY TreeIs
    <3> QED
      BY <3>1 DEF PartOf
  <2> QED
    BY <2>1
<1>4. ASSUME NEW m \in Nodes, NEW f \in [Nodes -> V], NEW g \in [Nodes -> V],
             \A q \in D[m] : f[q] = g[q]
      PROVE  H[<<m, f>>] = H[<<m, g>>]
  <2>1. {f[c] : c \in Below(m)} = {g[c] : c \in Below(m)}
    BY <1>4
  <2>2. PartOf(f, m) = PartOf(g, m)
    BY <2>1, Zenon DEF PartOf
  <2>3. H[<<m, f>>] = PartOf(f, m) /\ H[<<m, g>>] = PartOf(g, m)
    OBVIOUS
  <2> QED
    BY <2>2, <2>3
<1>5. PICK f \in [Nodes -> V] : Solution(f, Nodes, H)
  <2>1. AsksParts(H, Nodes, V, D)
    <3> HIDE DEF H, D, V
    <3> QED
      BY <1>3, <1>4 DEF AsksParts
  <2>2. V # {}
    OBVIOUS
  <2> HIDE DEF H, D, V
  <2> QED
    BY <1>1, <1>2, <2>1, <2>2, TreeIs, RecursionExists
<1>6. Is(f)
  <2>1. \A m \in Nodes : f[m] = PartOf(f, m)
    BY <1>5 DEF Solution
  <2> QED
    BY <2>1
<1> DEFINE part == CHOOSE g : Is(g)
<1>7. Is(part)
  <2> HIDE DEF Is
  <2> QED
    BY <1>6
<1>8. \A n \in Nodes : Subtree(n) = part[n]
  BY DEF Subtree, PartOf
<1>9. \A n \in Nodes : part[n] = PartOf(part, n)
  <2> HIDE DEF part
  <2> QED
    BY <1>7
<1> HIDE DEF part
<1>10. \A n \in Nodes : Subtree(n) \in SUBSET Nodes
  <2> DEFINE U == {n \in Nodes : Subtree(n) \notin SUBSET Nodes}
  <2>1. SUFFICES ASSUME U # {} PROVE FALSE
    OBVIOUS
  <2>2. PICK n \in U : Below(n) \cap U = {}
    <3>1. U \in (SUBSET Nodes) \ {{}}
      BY <2>1
    <3> HIDE DEF U
    <3> QED
      BY <3>1, TreeAssumption
  <2>3. \A c \in Below(n) : c \in Nodes /\ part[c] \in SUBSET Nodes
    BY <1>8, <2>2, TreeIs
  <2>4. PartOf(part, n) \in SUBSET Nodes
    BY <2>2, <2>3 DEF PartOf
  <2> QED
    BY <1>8, <1>9, <2>2, <2>4
<1>11. ASSUME NEW n \in Nodes
       PROVE  Subtree(n) = {n} \cup UNION {Subtree(c) : c \in Below(n)}
  <2>1. \A c \in Below(n) : Subtree(c) = part[c]
    BY <1>8, TreeIs
  <2>2. {Subtree(c) : c \in Below(n)} = {part[c] : c \in Below(n)}
    BY <2>1
  <2> QED
    BY <1>8, <1>9, <2>2 DEF PartOf
<1> QED
  BY <1>10, <1>11

(* A subtree has the subtrees of its nodes.                                 *)
LEMMA SubtreeOfChild ==
  ASSUME NEW n \in Nodes
  PROVE  /\ n \in Subtree(n) /\ Subtree(n) \subseteq Nodes
         /\ \A c \in Below(n) : c \in Subtree(n) /\ Subtree(c) \subseteq Subtree(n)
         /\ \A m \in Subtree(n) : Below(m) \subseteq Subtree(n)
<1> DEFINE U == {q \in Nodes : ~\A m \in Subtree(q) : Below(m) \subseteq Subtree(q)}
<1>1. ASSUME NEW q \in Nodes
      PROVE  /\ q \in Subtree(q)
             /\ \A c \in Below(q) : c \in Nodes /\ c \in Subtree(q) /\ Subtree(c) \subseteq Subtree(q)
             /\ \A m \in Subtree(q) : m = q \/ \E c \in Below(q) : m \in Subtree(c)
  <2>1. Subtree(q) = {q} \cup UNION {Subtree(c) : c \in Below(q)}
    BY SubtreesAre
  <2>2. \A c \in Below(q) : c \in Nodes /\ c \in Subtree(c)
    <3>1. \A c \in Below(q) : c \in Nodes
      BY TreeIs
    <3> QED
      BY <3>1, SubtreesAre
  <2> QED
    BY <2>1, <2>2
<1>2. U = {}
  <2>1. SUFFICES ASSUME U # {} PROVE FALSE
    OBVIOUS
  <2>2. PICK q \in U : Below(q) \cap U = {}
    <3>1. U \in (SUBSET Nodes) \ {{}}
      BY <2>1
    <3> HIDE DEF U
    <3> QED
      BY <3>1, TreeAssumption
  <2>3. ASSUME NEW m \in Subtree(q) PROVE Below(m) \subseteq Subtree(q)
    <3>1. CASE m = q
      BY <1>1, <2>2, <3>1
    <3>2. CASE m # q
      <4>1. PICK c \in Below(q) : m \in Subtree(c)
        BY <1>1, <2>2, <3>2
      <4>2. c \in Nodes /\ c \notin U
        BY <1>1, <2>2
      <4>3. Below(m) \subseteq Subtree(c)
        BY <4>1, <4>2
      <4> QED
        BY <1>1, <2>2, <4>3
    <3> QED
      BY <3>1, <3>2
  <2> QED
    BY <2>2, <2>3
<1>3. \A m \in Subtree(n) : Below(m) \subseteq Subtree(n)
  BY <1>2
<1> QED
  BY <1>1, <1>3, SubtreesAre

(* valueAt() asks for the values of the children only.                        *)
LEMMA ValueOfParts ==
  ASSUME NEW m \in Nodes, NEW t, NEW f, NEW g, \A c \in Below(m) : f[c] = g[c]
  PROVE  ValueFor(f, m, t) = ValueFor(g, m, t)
<1>1. [k \in DOMAIN Tree[m].children |-> f[Tree[m].children[k]]]
        = [k \in DOMAIN Tree[m].children |-> g[Tree[m].children[k]]]
  BY TreeIs
<1> QED
  BY <1>1 DEF ValueFor

(* So the recursion has a value: it is extended node by node, a parent      *)
(* after its children.                                                      *)
LEMMA ValuesAre ==
  ASSUME NEW t
  PROVE  \E f : \A n \in Nodes : ValueAt(n, t) = f[n] /\ f[n] = ValueFor(f, n, t)
<1> DEFINE Is(f, S) == f = [m \in S |-> ValueFor(f, m, t)]
           Closed(S) == \A m \in S : Below(m) \subseteq S
           Good == {S \in SUBSET Nodes : Closed(S) => \E f : Is(f, S)}
<1>1. ASSUME NEW S \in SUBSET Nodes, \A x \in S : S \ {x} \in Good
      PROVE  S \in Good
  <2>1. SUFFICES ASSUME Closed(S) PROVE \E f : Is(f, S)
    OBVIOUS
  <2>2. CASE S = {}
    <3> DEFINE f == [m \in {} |-> 0]
    <3>1. Is(f, S)
      BY <2>2
    <3> QED
      BY <3>1
  <2>3. CASE S # {}
    <3>1. PICK x \in S : Tree[x].parent \notin S
      BY <2>3, TreeAssumption
    <3>2. \A m \in S : Below(m) \subseteq S \ {x}
      BY <2>1, <3>1, TreeIs
    <3>3. PICK f : Is(f, S \ {x})
      BY <1>1, <3>2
    <3> DEFINE g == [m \in S |-> ValueFor(f, m, t)]
    <3>4. \A m \in S \ {x} : g[m] = f[m]
      BY <3>3
    <3>5. \A m \in S : ValueFor(f, m, t) = ValueFor(g, m, t)
      <4> HIDE DEF g
      <4>1. \A m \in S : \A c \in Below(m) : f[c] = g[c]
        BY <3>2, <3>4
      <4> QED
        BY <4>1, ValueOfParts
    <3>6. Is(g, S)
      BY <3>5
    <3> QED
      BY <3>6
  <2> QED
    BY <2>2, <2>3
<1>2. Good = SUBSET Nodes
  <2>1. Good \in SUBSET SUBSET Nodes
    OBVIOUS
  <2> HIDE DEF Good
  <2> QED
    BY <1>1, <2>1, SubsetInduction, TreeIs
<1>3. \E f : Is(f, Nodes)
  <2>1. Nodes \in Good
    BY <1>2
  <2>2. Closed(Nodes)
    BY TreeIs
  <2> QED
    BY <2>1, <2>2
<1> DEFINE all == CHOOSE f : Is(f, Nodes)
<1>4. Is(all, Nodes)
  <2> HIDE DEF Is
  <2> QED
    BY <1>3
<1>5. \A n \in Nodes : ValueAt(n, t) = all[n]
  BY DEF ValueAt
<1>6. \A n \in Nodes : all[n] = ValueFor(all, n, t)
  <2> HIDE DEF all
  <2> QED
    BY <1>4
<1> QED
  <2> HIDE DEF all
  <2> QED
    BY <1>5, <1>6

(* nextChange() asks for those of the children only.                         *)
LEMMA NextOfParts ==
  ASSUME NEW m \in Nodes, NEW t, NEW f, NEW g, \A c \in Below(m) : f[c] = g[c]
  PROVE  NextFor(f, m, t) = NextFor(g, m, t)
<1>1. {f[c] : c \in Below(m)} = {g[c] : c \in Below(m)}
  OBVIOUS
<1> QED
  BY <1>1 DEF NextFor

(* So the recursion has a value: it is extended node by node, a parent      *)
(* after its children.                                                      *)
LEMMA NextChangesAre ==
  ASSUME NEW t
  PROVE  \E f : \A n \in Nodes : NextChange(n, t) = f[n] /\ f[n] = NextFor(f, n, t)
<1> DEFINE Is(f, S) == f = [m \in S |-> NextFor(f, m, t)]
           Closed(S) == \A m \in S : Below(m) \subseteq S
           Good == {S \in SUBSET Nodes : Closed(S) => \E f : Is(f, S)}
<1>1. ASSUME NEW S \in SUBSET Nodes, \A x \in S : S \ {x} \in Good
      PROVE  S \in Good
  <2>1. SUFFICES ASSUME Closed(S) PROVE \E f : Is(f, S)
    OBVIOUS
  <2>2. CASE S = {}
    <3> DEFINE f == [m \in {} |-> 0]
    <3>1. Is(f, S)
      BY <2>2
    <3> QED
      BY <3>1
  <2>3. CASE S # {}
    <3>1. PICK x \in S : Tree[x].parent \notin S
      BY <2>3, TreeAssumption
    <3>2. \A m \in S : Below(m) \subseteq S \ {x}
      BY <2>1, <3>1, TreeIs
    <3>3. PICK f : Is(f, S \ {x})
      BY <1>1, <3>2
    <3> DEFINE g == [m \in S |-> NextFor(f, m, t)]
    <3>4. \A m \in S \ {x} : g[m] = f[m]
      BY <3>3
    <3>5. \A m \in S : NextFor(f, m, t) = NextFor(g, m, t)
      <4> HIDE DEF g
      <4>1. \A m \in S : \A c \in Below(m) : f[c] = g[c]
        BY <3>2, <3>4
      <4> QED
        BY <4>1, NextOfParts
    <3>6. Is(g, S)
      BY <3>5
    <3> QED
      BY <3>6
  <2> QED
    BY <2>2, <2>3
<1>2. Good = SUBSET Nodes
  <2>1. Good \in SUBSET SUBSET Nodes
    OBVIOUS
  <2> HIDE DEF Good
  <2> QED
    BY <1>1, <2>1, SubsetInduction, TreeIs
<1>3. \E f : Is(f, Nodes)
  <2>1. Nodes \in Good
    BY <1>2
  <2>2. Closed(Nodes)
    BY TreeIs
  <2> QED
    BY <2>1, <2>2
<1> DEFINE all == CHOOSE f : Is(f, Nodes)
<1>4. Is(all, Nodes)
  <2> HIDE DEF Is
  <2> QED
    BY <1>3
<1>5. \A n \in Nodes : NextChange(n, t) = all[n]
  BY DEF NextChange
<1>6. \A n \in Nodes : all[n] = NextFor(all, n, t)
  <2> HIDE DEF all
  <2> QED
    BY <1>4
<1> QED
  <2> HIDE DEF all
  <2> QED
    BY <1>5, <1>6

(* prevChange() asks for those of the children only.                         *)
LEMMA PrevOfParts ==
  ASSUME NEW m \in Nodes, NEW t, NEW f, NEW g, \A c \in Below(m) : f[c] = g[c]
  PROVE  PrevFor(f, m, t) = PrevFor(g, m, t)
<1>1. {f[c] : c \in Below(m)} = {g[c] : c \in Below(m)}
  OBVIOUS
<1> QED
  BY <1>1 DEF PrevFor

(* So the recursion has a value: it is extended node by node, a parent      *)
(* after its children.                                                      *)
LEMMA PrevChangesAre ==
  ASSUME NEW t
  PROVE  \E f : \A n \in Nodes : PrevChange(n, t) = f[n] /\ f[n] = PrevFor(f, n, t)
<1> DEFINE Is(f, S) == f = [m \in S |-> PrevFor(f, m, t)]
           Closed(S) == \A m \in S : Below(m) \subseteq S
           Good == {S \in SUBSET Nodes : Closed(S) => \E f : Is(f, S)}
<1>1. ASSUME NEW S \in SUBSET Nodes, \A x \in S : S \ {x} \in Good
      PROVE  S \in Good
  <2>1. SUFFICES ASSUME Closed(S) PROVE \E f : Is(f, S)
    OBVIOUS
  <2>2. CASE S = {}
    <3> DEFINE f == [m \in {} |-> 0]
    <3>1. Is(f, S)
      BY <2>2
    <3> QED
      BY <3>1
  <2>3. CASE S # {}
    <3>1. PICK x \in S : Tree[x].parent \notin S
      BY <2>3, TreeAssumption
    <3>2. \A m \in S : Below(m) \subseteq S \ {x}
      BY <2>1, <3>1, TreeIs
    <3>3. PICK f : Is(f, S \ {x})
      BY <1>1, <3>2
    <3> DEFINE g == [m \in S |-> PrevFor(f, m, t)]
    <3>4. \A m \in S \ {x} : g[m] = f[m]
      BY <3>3
    <3>5. \A m \in S : PrevFor(f, m, t) = PrevFor(g, m, t)
      <4> HIDE DEF g
      <4>1. \A m \in S : \A c \in Below(m) : f[c] = g[c]
        BY <3>2, <3>4
      <4> QED
        BY <4>1, PrevOfParts
    <3>6. Is(g, S)
      BY <3>5
    <3> QED
      BY <3>6
  <2> QED
    BY <2>2, <2>3
<1>2. Good = SUBSET Nodes
  <2>1. Good \in SUBSET SUBSET Nodes
    OBVIOUS
  <2> HIDE DEF Good
  <2> QED
    BY <1>1, <2>1, SubsetInduction, TreeIs
<1>3. \E f : Is(f, Nodes)
  <2>1. Nodes \in Good
    BY <1>2
  <2>2. Closed(Nodes)
    BY TreeIs
  <2> QED
    BY <2>1, <2>2
<1> DEFINE all == CHOOSE f : Is(f, Nodes)
<1>4. Is(all, Nodes)
  <2> HIDE DEF Is
  <2> QED
    BY <1>3
<1>5. \A n \in Nodes : PrevChange(n, t) = all[n]
  BY DEF PrevChange
<1>6. \A n \in Nodes : all[n] = PrevFor(all, n, t)
  <2> HIDE DEF all
  <2> QED
    BY <1>4
<1> QED
  <2> HIDE DEF all
  <2> QED
    BY <1>5, <1>6
----------------------------------------------------------------------------
(* A packed member: its edges are the times of its carrier at which its     *)
(* slice is not what it was at the time before.                             *)
SliceEdges(n) == {e \in TimesIn(Carrier(n)) : Appears(n, e)}

(* The edges that nextChange() looks for from a time on.                    *)
Differing(n, t) == {e \in TimesIn(Carrier(n)) : e > t /\ SliceAt(n, e) # SliceAt(n, t)}

(* A slice stays what it is while its carrier does.                         *)
LEMMA SliceStays ==
  ASSUME history \in Histories, NEW n, Carrier(n) \in DOMAIN history, NEW t \in Int, NEW u \in Int,
         t <= u, Quiet(TimesIn(Carrier(n)), t, u)
  PROVE  SliceAt(n, t) = SliceAt(n, u)
  BY StoredStays DEF SliceAt

(* Before the first change of the carrier a slice has no value.             *)
LEMMA NoSliceBefore ==
  ASSUME history \in Histories, NEW n, Carrier(n) \in DOMAIN history, NEW t \in Int,
         \A e \in TimesIn(Carrier(n)) : t < e
  PROVE  SliceAt(n, t) = NoValue
  BY NothingStored DEF SliceAt, CutOf

(* What a slice is compared with at a time is its value before that time,   *)
(* as far back as to the change before.                                     *)
LEMMA ValueBefore ==
  ASSUME history \in Histories, NEW n, Carrier(n) \in DOMAIN history, NEW e \in TimesIn(Carrier(n)),
         NEW t \in Int, t < e,
         PrevStored(Carrier(n), e) = NoTime \/ PrevStored(Carrier(n), e) <= t
  PROVE  Appears(n, e) <=> SliceAt(n, e) # SliceAt(n, t)
<1> DEFINE p == PrevStored(Carrier(n), e)
<1>1. e \in Int /\ IsPrev(TimesIn(Carrier(n)), e, p) /\ p \in Int /\ TimesIn(Carrier(n)) \in SUBSET Int
  BY PrevStoredIs, TimesInFinite
<1>2. CASE p = NoTime
  <2>1. \A x \in TimesIn(Carrier(n)) : e <= x
    BY <1>1, <1>2 DEF IsPrev
  <2>2. ASSUME NEW x \in TimesIn(Carrier(n)) PROVE t < x
    <3>1. x \in Int /\ e <= x
      BY <1>1, <2>1
    <3> QED
      BY <1>1, <3>1
  <2>3. SliceAt(n, t) = NoValue
    BY <2>2, NoSliceBefore
  <2> QED
    BY <1>2, <2>3 DEF Appears
<1>3. CASE p # NoTime
  <2>1. \A x \in TimesIn(Carrier(n)) : x < e => x <= p
    BY <1>1, <1>3 DEF IsPrev
  <2>2. p <= t
    BY <1>3
  <2>3. ASSUME NEW x \in TimesIn(Carrier(n)) PROVE x <= p \/ t < x
    <3>1. x \in Int /\ (x < e => x <= p)
      BY <1>1, <2>1
    <3> QED
      BY <1>1, <3>1
  <2>4. SliceAt(n, p) = SliceAt(n, t)
    <3>1. Quiet(TimesIn(Carrier(n)), p, t)
      BY <2>3 DEF Quiet
    <3> HIDE DEF p
    <3> QED
      BY <1>1, <2>2, <3>1, SliceStays
  <2> QED
    BY <1>3, <2>4 DEF Appears
<1> QED
  BY <1>2, <1>3

(* An edge is an edge of its own: just before it the slice was another.     *)
LEMMA EdgeIsOwn ==
  ASSUME history \in Histories, NEW n, Carrier(n) \in DOMAIN history, NEW e \in SliceEdges(n)
  PROVE  SliceAt(n, e) # SliceAt(n, e - 1)
<1> DEFINE p == PrevStored(Carrier(n), e)
<1>1. e \in TimesIn(Carrier(n)) /\ e \in Int /\ Appears(n, e)
  BY TimesInFinite DEF SliceEdges
<1>2. IsPrev(TimesIn(Carrier(n)), e, p) /\ p \in Int
  BY <1>1, PrevStoredIs
<1>3. p = NoTime \/ p <= e - 1
  <2>1. p = NoTime \/ p < e
    BY <1>2 DEF IsPrev
  <2> QED
    BY <1>1, <1>2, <2>1
<1>4. e - 1 \in Int /\ e - 1 < e
  BY <1>1
<1> QED
  BY <1>1, <1>3, <1>4, ValueBefore

(* The first time at which the slice differs from what it was is an edge.   *)
LEMMA FirstDiffers ==
  ASSUME history \in Histories, NEW n, Carrier(n) \in DOMAIN history, NEW t \in Int,
         NEW e \in Differing(n, t), \A d \in Differing(n, t) : e <= d
  PROVE  Appears(n, e)
<1> DEFINE p == PrevStored(Carrier(n), e)
<1>1. e \in TimesIn(Carrier(n)) /\ e \in Int /\ t < e /\ SliceAt(n, e) # SliceAt(n, t)
  BY TimesInFinite DEF Differing
<1>2. IsPrev(TimesIn(Carrier(n)), e, p) /\ p \in Int
  BY <1>1, PrevStoredIs
<1>3. CASE p = NoTime \/ p <= t
  BY <1>1, <1>3, ValueBefore
<1>4. CASE p # NoTime /\ t < p
  <2>1. p \in TimesIn(Carrier(n)) /\ p < e
    BY <1>2, <1>4 DEF IsPrev
  <2>2. p \notin Differing(n, t)
    BY <1>1, <1>2, <2>1
  <2>3. SliceAt(n, p) = SliceAt(n, t)
    BY <1>2, <1>4, <2>1, <2>2 DEF Differing
  <2> QED
    BY <1>1, <1>4, <2>3 DEF Appears
<1> QED
  BY <1>2, <1>3, <1>4

(* No edge without a time up to it at which the slice differs.              *)
LEMMA EdgeDiffers ==
  ASSUME history \in Histories, NEW n, Carrier(n) \in DOMAIN history, NEW t \in Int,
         NEW e \in SliceEdges(n), t < e
  PROVE  \E d \in Differing(n, t) : d <= e
<1> DEFINE p == PrevStored(Carrier(n), e)
<1>1. e \in TimesIn(Carrier(n)) /\ e \in Int /\ Appears(n, e)
  BY TimesInFinite DEF SliceEdges
<1>2. IsPrev(TimesIn(Carrier(n)), e, p) /\ p \in Int
  BY <1>1, PrevStoredIs
<1>3. CASE p = NoTime \/ p <= t
  <2>1. SliceAt(n, e) # SliceAt(n, t)
    BY <1>1, <1>3, ValueBefore
  <2>2. e \in Differing(n, t) /\ e <= e
    BY <1>1, <2>1 DEF Differing
  <2> QED
    BY <2>2
<1>4. CASE p # NoTime /\ t < p
  <2>1. p \in TimesIn(Carrier(n)) /\ p < e
    BY <1>2, <1>4 DEF IsPrev
  <2>2. SliceAt(n, e) # SliceAt(n, p)
    BY <1>1, <1>4 DEF Appears
  <2>3. CASE SliceAt(n, p) # SliceAt(n, t)
    <3>1. p \in Differing(n, t) /\ p <= e
      BY <1>1, <1>2, <1>4, <2>1, <2>3 DEF Differing
    <3> QED
      BY <3>1
  <2>4. CASE SliceAt(n, p) = SliceAt(n, t)
    <3>1. e \in Differing(n, t) /\ e <= e
      BY <1>1, <2>2, <2>4 DEF Differing
    <3> QED
      BY <3>1
  <2> QED
    BY <2>3, <2>4
<1> QED
  BY <1>2, <1>3, <1>4

(* nextChange() of a packed member gives the edge behind a time.            *)
LEMMA NextEdgeIs ==
  ASSUME history \in Histories, NEW n, Carrier(n) \in DOMAIN history, NEW t \in Int
  PROVE  IsNext(SliceEdges(n), t, NextEdge(n, t))
<1>1. /\ Differing(n, t) \in SUBSET Int /\ IsFiniteSet(Differing(n, t)) /\ NoTime \notin Differing(n, t)
      /\ SliceEdges(n) \in SUBSET Int
  <2>1. Differing(n, t) \subseteq TimesIn(Carrier(n)) /\ SliceEdges(n) \subseteq TimesIn(Carrier(n))
    BY DEF Differing, SliceEdges
  <2> QED
    BY <2>1, TimesInFinite, FS_Subset
<1>2. NextEdge(n, t) = IF Differing(n, t) = {} THEN NoTime ELSE Min(Differing(n, t))
  BY DEF NextEdge, Differing, TimesIn
<1>3. CASE Differing(n, t) = {}
  <2>1. ASSUME NEW e \in SliceEdges(n) PROVE e <= t
    <3>1. ~(t < e)
      BY <1>3, EdgeDiffers
    <3> QED
      BY <1>1, <3>1
  <2> QED
    BY <1>2, <1>3, <2>1 DEF IsNext
<1>4. CASE Differing(n, t) # {}
  <2>1. PICK x \in Differing(n, t) : x = Min(Differing(n, t)) /\ \A d \in Differing(n, t) : x <= d
    BY <1>1, <1>4, EndsOf
  <2>2. x \in Int /\ t < x /\ x \in TimesIn(Carrier(n)) /\ x # NoTime
    BY <1>1 DEF Differing
  <2>3. x \in SliceEdges(n)
    BY <2>1, <2>2, FirstDiffers DEF SliceEdges
  <2>4. ASSUME NEW e \in SliceEdges(n), t < e PROVE x <= e
    <3>1. PICK d \in Differing(n, t) : d <= e
      BY <2>4, EdgeDiffers
    <3>2. x <= d /\ d \in Int /\ e \in Int
      BY <1>1, <2>1
    <3> QED
      BY <2>2, <3>1, <3>2
  <2>5. NextEdge(n, t) = x
    BY <1>2, <1>4, <2>1
  <2> QED
    BY <2>2, <2>3, <2>4, <2>5 DEF IsNext
<1> QED
  BY <1>3, <1>4

(* prevChange() of a packed member gives the edge before a time.            *)
LEMMA PrevEdgeIs ==
  ASSUME history \in Histories, NEW n, Carrier(n) \in DOMAIN history, NEW t \in Int
  PROVE  IsPrev(SliceEdges(n), t, PrevEdge(n, t))
<1> DEFINE before == {e \in SliceEdges(n) : e < t}
<1>1. /\ before \in SUBSET Int /\ IsFiniteSet(before) /\ NoTime \notin before
      /\ SliceEdges(n) \in SUBSET Int
  <2>1. before \subseteq TimesIn(Carrier(n)) /\ SliceEdges(n) \subseteq TimesIn(Carrier(n))
    BY DEF SliceEdges
  <2> QED
    BY <2>1, TimesInFinite, FS_Subset
<1>2. PrevEdge(n, t) = IF before = {} THEN NoTime ELSE Max(before)
  <2>1. before = {e \in {c.time : c \in ToSet(history[Carrier(n)])} : e < t /\ Appears(n, e)}
    BY DEF SliceEdges, TimesIn
  <2> QED
    BY <2>1 DEF PrevEdge
<1>3. CASE before = {}
  <2>1. ASSUME NEW e \in SliceEdges(n) PROVE t <= e
    <3>1. ~(e < t)
      BY <1>3
    <3> QED
      BY <1>1, <3>1
  <2> QED
    BY <1>2, <1>3, <2>1 DEF IsPrev
<1>4. CASE before # {}
  <2>1. PICK x \in before : x = Max(before) /\ \A d \in before : d <= x
    <3> HIDE DEF before
    <3> QED
      BY <1>1, <1>4, EndsOf
  <2>2. x \in Int /\ x < t /\ x \in SliceEdges(n) /\ x # NoTime
    BY <1>1
  <2>3. PrevEdge(n, t) = x
    BY <1>2, <1>4, <2>1
  <2> QED
    BY <2>1, <2>2, <2>3 DEF IsPrev
<1> QED
  BY <1>3, <1>4

(* The slice stays what it is from one edge to the next.                    *)
LEMMA SliceStaysBetween ==
  ASSUME history \in Histories, NEW n, Carrier(n) \in DOMAIN history, NEW t \in Int, NEW u \in Int,
         t <= u, Quiet(SliceEdges(n), t, u)
  PROVE  SliceAt(n, t) = SliceAt(n, u)
<1> DEFINE upTo == {e \in TimesIn(Carrier(n)) : e <= u}
<1>0. TimesIn(Carrier(n)) \in SUBSET Int /\ IsFiniteSet(TimesIn(Carrier(n)))
  BY TimesInFinite
<1>1. upTo \in SUBSET Int /\ IsFiniteSet(upTo)
  <2>1. upTo \subseteq TimesIn(Carrier(n))
    OBVIOUS
  <2> QED
    BY <1>0, <2>1, FS_Subset
<1>2. CASE \A e \in upTo : e <= t
  <2>1. Quiet(TimesIn(Carrier(n)), t, u)
    <3>1. ASSUME NEW e \in TimesIn(Carrier(n)) PROVE e <= t \/ u < e
      <4>1. e \in Int /\ (e <= u => e <= t)
        BY <1>0, <1>2
      <4> QED
        BY <4>1
    <3> QED
      BY <3>1 DEF Quiet
  <2> QED
    BY <2>1, SliceStays
<1>3. CASE \E e \in upTo : ~(e <= t)
  <2>1. PICK q \in upTo : \A e \in upTo : e <= q
    <3>1. upTo # {}
      BY <1>3
    <3> HIDE DEF upTo
    <3> QED
      BY <1>1, <3>1, EndsOf
  <2>2. q \in Int /\ q <= u /\ t < q /\ q \in TimesIn(Carrier(n))
    <3>1. PICK e \in upTo : ~(e <= t)
      BY <1>3
    <3>2. e <= q /\ e \in Int /\ q \in Int
      BY <1>1, <2>1
    <3> QED
      BY <3>1, <3>2
  <2>3. SliceAt(n, q) = SliceAt(n, u)
    <3>1. ASSUME NEW e \in TimesIn(Carrier(n)) PROVE e <= q \/ u < e
      <4>1. e \in Int /\ (e <= u => e <= q)
        BY <1>0, <2>1
      <4> QED
        BY <4>1
    <3>2. Quiet(TimesIn(Carrier(n)), q, u)
      BY <3>1 DEF Quiet
    <3> QED
      BY <2>2, <3>2, SliceStays
  <2>4. SUFFICES ASSUME q \in Differing(n, t) PROVE FALSE
    BY <2>2, <2>3 DEF Differing
  <2>5. PICK d \in Differing(n, t) : \A e \in Differing(n, t) : d <= e
    <3>1. Differing(n, t) \subseteq TimesIn(Carrier(n))
      BY DEF Differing
    <3>2. Differing(n, t) \in SUBSET Int /\ IsFiniteSet(Differing(n, t)) /\ Differing(n, t) # {}
      BY <1>0, <2>4, <3>1, FS_Subset
    <3> QED
      BY <3>2, EndsOf
  <2>6. d \in Int /\ t < d /\ d <= q /\ d \in TimesIn(Carrier(n))
    BY <1>0, <2>4, <2>5 DEF Differing
  <2>7. d \in SliceEdges(n)
    BY <2>5, <2>6, FirstDiffers DEF SliceEdges
  <2>8. d <= t \/ u < d
    BY <2>7 DEF Quiet
  <2> QED
    BY <2>2, <2>6, <2>8
<1> QED
  BY <1>2, <1>3
----------------------------------------------------------------------------
(* What valueAt() gives, case by case.                                      *)
LEMMA ValueIs ==
  ASSUME NEW n \in Nodes, NEW t
  PROVE  /\ Tree[n].children # <<>> =>
              ValueAt(n, t) = [k \in DOMAIN Tree[n].children |-> ValueAt(Tree[n].children[k], t)]
         /\ IsMember(n) =>
              ValueAt(n, t) = IF OwningAncestor(n) = NoNode THEN NoValue ELSE SliceAt(n, t)
         /\ Tree[n].children = <<>> /\ ~IsMember(n) =>
              ValueAt(n, t) = IF HasStream(n) THEN StoredAt(Tree[n].stream, t) ELSE NoValue
<1>1. PICK f : \A m \in Nodes : ValueAt(m, t) = f[m] /\ f[m] = ValueFor(f, m, t)
  BY ValuesAre
<1>2. CASE Tree[n].children # <<>>
  <2>1. f[n] = [k \in DOMAIN Tree[n].children |-> f[Tree[n].children[k]]]
    BY <1>1, <1>2 DEF ValueFor, IsMember
  <2>2. \A k \in DOMAIN Tree[n].children : ValueAt(Tree[n].children[k], t) = f[Tree[n].children[k]]
    BY <1>1, TreeIs
  <2>3. ValueAt(n, t) = [k \in DOMAIN Tree[n].children |-> ValueAt(Tree[n].children[k], t)]
    BY <1>1, <2>1, <2>2
  <2> QED
    BY <1>2, <2>3 DEF IsMember
<1>3. CASE Tree[n].children = <<>>
  BY <1>1, <1>3 DEF ValueFor, IsMember
<1> QED
  BY <1>2, <1>3

(* The stream that a node or its owner has is one of the history.           *)
LEMMA StreamsKnown ==
  ASSUME history \in Histories, NEW n \in Nodes
  PROVE  /\ HasStream(n) => Tree[n].stream \in DOMAIN history
         /\ OwningAncestor(n) # NoNode => Carrier(n) \in DOMAIN history
<1>1. HasStream(n) => Tree[n].stream \in DOMAIN history
  BY HistoryAssumption
<1>2. OwningAncestor(n) # NoNode => Carrier(n) \in DOMAIN history
  BY OwnerOfChild, HistoryAssumption DEF Carrier
<1> QED
  BY <1>1, <1>2

(* A stream without changes has no value and no times.                      *)
LEMMA EmptyStream ==
  ASSUME NEW s, history[s] = <<>>
  PROVE  (\A t : StoredAt(s, t) = NoValue) /\ TimesIn(s) = {}
<1>1. ASSUME NEW t PROVE StoredAt(s, t) = NoValue
  <2>1. {k \in DOMAIN history[s] : history[s][k].time <= t} = {}
    OBVIOUS
  <2>2. CountWhere(s, LAMBDA v : v <= t) = 0
    BY <2>1, FS_EmptySet DEF CountWhere
  <2> QED
    BY <2>2 DEF StoredAt
<1>2. TimesIn(s) = {}
  BY DEF TimesIn, ToSet
<1> QED
  BY <1>1, <1>2

(* What is covered by streams further up stays what it is while they do.    *)
LEMMA CarriedStays ==
  ASSUME history \in Histories, NEW root \in Nodes, Covered(root),
         NEW n \in Subtree(root), OwningAncestor(n) \in Subtree(root),
         NEW t \in Int, NEW u \in Int, t <= u, Quiet(TimesIn(Carrier(n)), t, u)
  PROVE  ValueAt(n, t) = ValueAt(n, u)
<1> DEFINE Held(m) == OwningAncestor(m) \in Subtree(root) /\ Quiet(TimesIn(Carrier(m)), t, u)
           U == {m \in Subtree(root) : Held(m) /\ ValueAt(m, t) # ValueAt(m, u)}
<1>0. Subtree(root) \subseteq Nodes /\ \A m \in Subtree(root) : Below(m) \subseteq Subtree(root)
  BY SubtreeOfChild
<1>1. SUFFICES ASSUME U # {} PROVE FALSE
  OBVIOUS
<1>2. PICK m \in U : Below(m) \cap U = {}
  <2>1. U \in (SUBSET Nodes) \ {{}}
    BY <1>0, <1>1
  <2> HIDE DEF U
  <2> QED
    BY <2>1, TreeAssumption
<1>3. /\ m \in Subtree(root) /\ m \in Nodes /\ m # NoNode
      /\ OwningAncestor(m) \in Subtree(root) /\ OwningAncestor(m) # NoNode /\ Carrier(m) \in DOMAIN history
  BY <1>0, TreeIs, StreamsKnown
<1>3a. HasStream(m) => /\ \A v : StoredAt(Tree[m].stream, v) = NoValue
                       /\ TimesIn(Tree[m].stream) = {}
  BY <1>3, EmptyStream DEF Covered
<1>4. ValueAt(m, t) = ValueAt(m, u)
  <2>1. CASE Tree[m].children # <<>>
    <3>1. PICK ch : ch = Tree[m].children
      OBVIOUS
    <3>2. ASSUME NEW k \in DOMAIN ch PROVE ValueAt(ch[k], t) = ValueAt(ch[k], u)
      <4>1. ch[k] \in Below(m) /\ ch[k] \in Nodes /\ ch[k] \in Subtree(root)
        BY <1>0, <1>3, <3>1, TreeIs
      <4>2. OwningAncestor(ch[k]) = IF HasStream(m) THEN m ELSE OwningAncestor(m)
        BY <1>3, <4>1, OwnerOfChild
      <4>3. CASE ~HasStream(m)
        BY <1>2, <1>3, <4>1, <4>2, <4>3 DEF Carrier
      <4>4. CASE HasStream(m)
        <5>1. TimesIn(Carrier(ch[k])) = {}
          BY <1>3, <1>3a, <4>2, <4>4 DEF Carrier
        <5>2. Held(ch[k])
          BY <1>3, <4>2, <4>4, <5>1 DEF Quiet
        <5> QED
          BY <1>2, <4>1, <5>2
      <4> QED
        BY <4>3, <4>4
    <3>3. [k \in DOMAIN ch |-> ValueAt(ch[k], t)] = [k \in DOMAIN ch |-> ValueAt(ch[k], u)]
      BY <3>2
    <3> QED
      BY <1>3, <2>1, <3>1, <3>3, ValueIs
  <2>2. CASE IsMember(m)
    <3>1. SliceAt(m, t) = SliceAt(m, u)
      BY <1>3, SliceStays
    <3> QED
      BY <1>3, <2>2, <3>1, ValueIs
  <2>3. CASE Tree[m].children = <<>> /\ ~IsMember(m)
    BY <1>3, <1>3a, <2>3, ValueIs
  <2> QED
    BY <2>1, <2>2, <2>3
<1> QED
  BY <1>4

----------------------------------------------------------------------------
(* The edges of a node: nextChange() and prevChange() give the neighbours   *)
(* of a time among them, and valueAt() is one value between them, if no     *)
(* stream below a stream has changes.                                       *)
EdgesAre(n, E) ==
  /\ E \in SUBSET (Int \ {NoTime})
  /\ \A t \in Int : IsNext(E, t, NextChange(n, t)) /\ IsPrev(E, t, PrevChange(n, t))
  /\ Covered(n) => \A t, u \in Int : t <= u /\ Quiet(E, t, u) => ValueAt(n, t) = ValueAt(n, u)

(* Of a node with a stream these are the times of the stream.               *)
LEMMA EdgesOfStream ==
  ASSUME history \in Histories, NEW n \in Nodes, HasStream(n)
  PROVE  EdgesAre(n, TimesIn(Tree[n].stream))
<1> DEFINE s == Tree[n].stream
<1>1. s \in DOMAIN history /\ n # NoNode /\ ~IsMember(n)
  BY StreamsKnown, TreeIs DEF HasStream, IsMember
<1>2. TimesIn(s) \in SUBSET (Int \ {NoTime})
  BY <1>1, TimesInFinite
<1>3. ASSUME NEW t \in Int
      PROVE  IsNext(TimesIn(s), t, NextChange(n, t)) /\ IsPrev(TimesIn(s), t, PrevChange(n, t))
  <2>1. NextChange(n, t) = NextStored(s, t)
    BY NextChangesAre DEF NextFor
  <2>2. PrevChange(n, t) = PrevStored(s, t)
    BY PrevChangesAre DEF PrevFor
  <2> QED
    BY <1>1, <2>1, <2>2, NextStoredIs, PrevStoredIs
<1>4. ASSUME Covered(n), NEW t \in Int, NEW u \in Int, t <= u, Quiet(TimesIn(s), t, u)
      PROVE  ValueAt(n, t) = ValueAt(n, u)
  <2>1. CASE Tree[n].children = <<>>
    <3>1. StoredAt(s, t) = StoredAt(s, u)
      BY <1>1, <1>4, StoredStays
    <3> QED
      BY <1>1, <2>1, <3>1, ValueIs
  <2>2. CASE Tree[n].children # <<>>
    <3>1. PICK ch : ch = Tree[n].children
      OBVIOUS
    <3>2. ASSUME NEW k \in DOMAIN ch PROVE ValueAt(ch[k], t) = ValueAt(ch[k], u)
      <4>1. ch[k] \in Below(n) /\ ch[k] \in Nodes /\ ch[k] \in Subtree(n)
        BY <3>1, TreeIs, SubtreeOfChild
      <4>2. OwningAncestor(ch[k]) = n /\ OwningAncestor(ch[k]) \in Subtree(n)
        BY <1>1, <4>1, OwnerOfChild, SubtreeOfChild
      <4>3. Carrier(ch[k]) = s
        BY <4>2 DEF Carrier
      <4> QED
        BY <1>4, <4>1, <4>2, <4>3, CarriedStays
    <3>3. [k \in DOMAIN ch |-> ValueAt(ch[k], t)] = [k \in DOMAIN ch |-> ValueAt(ch[k], u)]
      BY <3>2
    <3> QED
      BY <2>2, <3>1, <3>3, ValueIs
  <2> QED
    BY <2>1, <2>2
<1> QED
  BY <1>2, <1>3, <1>4 DEF EdgesAre

(* Of a packed member, where its slice appears or changes.                  *)
LEMMA EdgesOfMember ==
  ASSUME history \in Histories, NEW n \in Nodes, IsMember(n)
  PROVE  EdgesAre(n, IF OwningAncestor(n) = NoNode THEN {} ELSE SliceEdges(n))
<1>1. ~HasStream(n)
  BY TreeIs DEF HasStream, IsMember
<1>2. \A t : NextChange(n, t) = IF OwningAncestor(n) = NoNode THEN NoTime ELSE NextEdge(n, t)
  BY <1>1, NextChangesAre DEF NextFor
<1>3. \A t : PrevChange(n, t) = IF OwningAncestor(n) = NoNode THEN NoTime ELSE PrevEdge(n, t)
  BY <1>1, PrevChangesAre DEF PrevFor
<1>4. CASE OwningAncestor(n) = NoNode
  BY <1>2, <1>3, <1>4, ValueIs DEF EdgesAre, IsNext, IsPrev
<1>5. CASE OwningAncestor(n) # NoNode
  <2>1. Carrier(n) \in DOMAIN history
    BY <1>5, StreamsKnown
  <2>2. SliceEdges(n) \in SUBSET (Int \ {NoTime})
    BY <2>1, TimesInFinite DEF SliceEdges
  <2>3. \A t \in Int : IsNext(SliceEdges(n), t, NextChange(n, t)) /\ IsPrev(SliceEdges(n), t, PrevChange(n, t))
    BY <1>2, <1>3, <1>5, <2>1, NextEdgeIs, PrevEdgeIs
  <2>4. \A t, u \in Int : t <= u /\ Quiet(SliceEdges(n), t, u) => ValueAt(n, t) = ValueAt(n, u)
    BY <1>5, <2>1, ValueIs, SliceStaysBetween
  <2> QED
    BY <1>5, <2>2, <2>3, <2>4 DEF EdgesAre
<1> QED
  BY <1>4, <1>5

(* Of a composite without a stream, the edges of its children.              *)
LEMMA EdgesOfComposite ==
  ASSUME history \in Histories, NEW n \in Nodes, ~HasStream(n), ~IsMember(n),
         NEW Es, \A c \in Below(n) : EdgesAre(c, Es[c])
  PROVE  EdgesAre(n, UNION {Es[c] : c \in Below(n)})
<1> DEFINE E == UNION {Es[c] : c \in Below(n)}
<1>0. /\ IsFiniteSet(Below(n)) /\ NoTime \in Int /\ Below(n) \subseteq Nodes
      /\ E \in SUBSET (Int \ {NoTime})
      /\ \A c \in Below(n) : Es[c] \in SUBSET (Int \ {NoTime}) /\ Es[c] \subseteq E
      /\ \A e \in E : \E c \in Below(n) : e \in Es[c]
  <2>1. \A c \in Below(n) : Es[c] \in SUBSET (Int \ {NoTime})
    BY DEF EdgesAre
  <2>2. IsFiniteSet(Below(n)) /\ NoTime \in Int /\ Below(n) \subseteq Nodes
    BY TreeIs, FS_Subset, HistoryAssumption
  <2> QED
    BY <2>1, <2>2
<1>1. ASSUME NEW t \in Int PROVE IsNext(E, t, NextChange(n, t))
  <2> DEFINE f == [c \in Below(n) |-> NextChange(c, t)]
             all == {f[c] : c \in Below(n)}
             known == all \ {NoTime}
  <2>1. NextChange(n, t) = IF known = {} THEN NoTime ELSE Min(known)
    <3>1. PICK g : \A m \in Nodes : NextChange(m, t) = g[m] /\ g[m] = NextFor(g, m, t)
      BY NextChangesAre
    <3>2. {g[c] : c \in Below(n)} = all
      BY <1>0, <3>1
    <3>3. g[n] = Nearest({g[c] : c \in Below(n)}, Min)
      BY <3>1 DEF NextFor
    <3> QED
      BY <3>1, <3>2, <3>3 DEF Nearest
  <2>2. \A c \in Below(n) : IsNext(Es[c], t, f[c])
    BY DEF EdgesAre
  <2>3. all \in SUBSET Int /\ IsFiniteSet(all)
    <3>1. \A c \in Below(n) : f[c] = NoTime \/ f[c] \in Es[c]
      BY <2>2 DEF IsNext
    <3>2. f \in Surjection(Below(n), all)
      BY DEF Surjection
    <3> QED
      BY <1>0, <3>1, <3>2, FS_Surjection
  <2>4. known \in SUBSET Int /\ IsFiniteSet(known)
    BY <2>3, FS_Subset
  <2>5. CASE known = {}
    <3>1. \A c \in Below(n) : f[c] = NoTime
      BY <2>5
    <3>2. \A c \in Below(n) : \A e \in Es[c] : e <= t
      BY <2>2, <3>1 DEF IsNext
    <3> QED
      BY <1>0, <2>1, <2>5, <3>2 DEF IsNext
  <2>6. CASE known # {}
    <3>1. PICK x \in known : x = Min(known) /\ \A y \in known : x <= y
      <4> HIDE DEF known
      <4> QED
        BY <2>4, <2>6, EndsOf
    <3>2. PICK c \in Below(n) : x = f[c] /\ x # NoTime
      OBVIOUS
    <3>3. x \in E /\ t < x
      BY <1>0, <2>2, <3>2 DEF IsNext
    <3>4. ASSUME NEW e \in E, t < e PROVE x <= e
      <4>1. PICK d \in Below(n) : e \in Es[d]
        BY <1>0
      <4>2. e \in Int /\ ~(e <= t)
        BY <1>0, <3>4
      <4>3. f[d] # NoTime /\ f[d] <= e
        BY <2>2, <3>4, <4>1, <4>2 DEF IsNext
      <4>4. f[d] \in known
        BY <4>3
      <4>5. x <= f[d] /\ f[d] \in Int /\ x \in Int
        BY <2>4, <3>1, <4>4
      <4> QED
        BY <4>2, <4>3, <4>5
    <3>5. NextChange(n, t) = x
      BY <2>1, <2>6, <3>1
    <3> QED
      BY <3>2, <3>3, <3>4, <3>5 DEF IsNext
  <2> QED
    BY <2>5, <2>6
<1>2. ASSUME NEW t \in Int PROVE IsPrev(E, t, PrevChange(n, t))
  <2> DEFINE f == [c \in Below(n) |-> PrevChange(c, t)]
             all == {f[c] : c \in Below(n)}
             known == all \ {NoTime}
  <2>1. PrevChange(n, t) = IF known = {} THEN NoTime ELSE Max(known)
    <3>1. PICK g : \A m \in Nodes : PrevChange(m, t) = g[m] /\ g[m] = PrevFor(g, m, t)
      BY PrevChangesAre
    <3>2. {g[c] : c \in Below(n)} = all
      BY <1>0, <3>1
    <3>3. g[n] = Nearest({g[c] : c \in Below(n)}, Max)
      BY <3>1 DEF PrevFor
    <3> QED
      BY <3>1, <3>2, <3>3 DEF Nearest
  <2>2. \A c \in Below(n) : IsPrev(Es[c], t, f[c])
    BY DEF EdgesAre
  <2>3. all \in SUBSET Int /\ IsFiniteSet(all)
    <3>1. \A c \in Below(n) : f[c] = NoTime \/ f[c] \in Es[c]
      BY <2>2 DEF IsPrev
    <3>2. f \in Surjection(Below(n), all)
      BY DEF Surjection
    <3> QED
      BY <1>0, <3>1, <3>2, FS_Surjection
  <2>4. known \in SUBSET Int /\ IsFiniteSet(known)
    BY <2>3, FS_Subset
  <2>5. CASE known = {}
    <3>1. \A c \in Below(n) : f[c] = NoTime
      BY <2>5
    <3>2. \A c \in Below(n) : \A e \in Es[c] : t <= e
      BY <2>2, <3>1 DEF IsPrev
    <3> QED
      BY <1>0, <2>1, <2>5, <3>2 DEF IsPrev
  <2>6. CASE known # {}
    <3>1. PICK x \in known : x = Max(known) /\ \A y \in known : y <= x
      <4> HIDE DEF known
      <4> QED
        BY <2>4, <2>6, EndsOf
    <3>2. PICK c \in Below(n) : x = f[c] /\ x # NoTime
      OBVIOUS
    <3>3. x \in E /\ x < t
      BY <1>0, <2>2, <3>2 DEF IsPrev
    <3>4. ASSUME NEW e \in E, e < t PROVE e <= x
      <4>1. PICK d \in Below(n) : e \in Es[d]
        BY <1>0
      <4>2. e \in Int /\ ~(t <= e)
        BY <1>0, <3>4
      <4>3. f[d] # NoTime /\ e <= f[d]
        BY <2>2, <3>4, <4>1, <4>2 DEF IsPrev
      <4>4. f[d] \in known
        BY <4>3
      <4>5. f[d] <= x /\ f[d] \in Int /\ x \in Int
        BY <2>4, <3>1, <4>4
      <4> QED
        BY <4>2, <4>3, <4>5
    <3>5. PrevChange(n, t) = x
      BY <2>1, <2>6, <3>1
    <3> QED
      BY <3>2, <3>3, <3>4, <3>5 DEF IsPrev
  <2> QED
    BY <2>5, <2>6
<1>3. ASSUME Covered(n), NEW t \in Int, NEW u \in Int, t <= u, Quiet(E, t, u)
      PROVE  ValueAt(n, t) = ValueAt(n, u)
  <2>1. CASE Tree[n].children = <<>>
    BY <2>1, ValueIs
  <2>2. CASE Tree[n].children # <<>>
    <3>1. PICK ch : ch = Tree[n].children
      OBVIOUS
    <3>2. ASSUME NEW k \in DOMAIN ch PROVE ValueAt(ch[k], t) = ValueAt(ch[k], u)
      <4>1. ch[k] \in Below(n)
        BY <3>1, TreeIs
      <4>2. Quiet(Es[ch[k]], t, u)
        BY <1>0, <1>3, <4>1 DEF Quiet
      <4>3. Covered(ch[k])
        BY <1>3, <4>1, SubtreeOfChild DEF Covered
      <4> QED
        BY <1>3, <4>1, <4>2, <4>3 DEF EdgesAre
    <3>3. [k \in DOMAIN ch |-> ValueAt(ch[k], t)] = [k \in DOMAIN ch |-> ValueAt(ch[k], u)]
      BY <3>2
    <3> QED
      BY <2>2, <3>1, <3>3, ValueIs
  <2> QED
    BY <2>1, <2>2
<1> QED
  <2>1. E \in SUBSET (Int \ {NoTime})
    BY <1>0
  <2> HIDE DEF E
  <2>2. EdgesAre(n, E)
    BY <1>1, <1>2, <1>3, <2>1 DEF EdgesAre
  <2> QED
    BY <2>2 DEF E

(* So every node has its edges.                                             *)
LEMMA EdgesExist ==
  ASSUME history \in Histories, NEW n \in Nodes
  PROVE  \E E : EdgesAre(n, E)
<1> DEFINE U == {m \in Nodes : ~\E E : EdgesAre(m, E)}
<1>1. SUFFICES ASSUME U # {} PROVE FALSE
  OBVIOUS
<1>2. PICK m \in U : Below(m) \cap U = {}
  <2>1. U \in (SUBSET Nodes) \ {{}}
    BY <1>1
  <2> HIDE DEF U
  <2> QED
    BY <2>1, TreeAssumption
<1> DEFINE Es == [c \in Below(m) |-> CHOOSE E : EdgesAre(c, E)]
<1>3. \A c \in Below(m) : EdgesAre(c, Es[c])
  <2>1. \A c \in Below(m) : \E E : EdgesAre(c, E)
    BY <1>2, TreeIs
  <2> QED
    BY <2>1
<1>4. \E E : EdgesAre(m, E)
  <2>1. CASE HasStream(m)
    BY <2>1, EdgesOfStream
  <2>2. CASE IsMember(m)
    BY <2>2, EdgesOfMember
  <2>3. CASE ~HasStream(m) /\ ~IsMember(m)
    <3> HIDE DEF Es
    <3> QED
      BY <1>3, <2>3, EdgesOfComposite
  <2> QED
    BY <2>1, <2>2, <2>3
<1> QED
  BY <1>4

----------------------------------------------------------------------------
(* What is read depends on the streams alone: while they stay, so do the    *)
(* answers.                                                                 *)
LEMMA ReadsStay ==
  ASSUME UNCHANGED history
  PROVE  \A n, t : /\ NextChange(n, t)' = NextChange(n, t)
                   /\ PrevChange(n, t)' = PrevChange(n, t)
<1>1. ASSUME NEW n, NEW t PROVE NextChange(n, t)' = NextChange(n, t)
  BY DEF NextChange, NextFor, NextEdge, NextStored, SliceAt, StoredAt, CountWhere, Nearest
<1>2. ASSUME NEW n, NEW t PROVE PrevChange(n, t)' = PrevChange(n, t)
  BY DEF PrevChange, PrevFor, PrevEdge, PrevStored, SliceAt, StoredAt, CountWhere, Nearest, Appears
<1> QED
  BY <1>1, <1>2

(* The invariant: the marker is a time, and the last jump was one from a    *)
(* time to the neighbour that the streams give.                             *)
Jumped ==
  /\ history \in Histories
  /\ marker \in Int
  /\ answer.op \in {"next", "prev"} => answer.node \in Nodes /\ answer.from \in Int
  /\ answer.op = "next" => answer.to = NextChange(answer.node, answer.from)
  /\ answer.op = "prev" => answer.to = PrevChange(answer.node, answer.from)

(* A jump leads to a time or nowhere.                                       *)
LEMMA JumpsToTimes ==
  ASSUME history \in Histories, NEW n \in Nodes, NEW t \in Int
  PROVE  NextChange(n, t) \in Int /\ PrevChange(n, t) \in Int
<1>1. PICK E : EdgesAre(n, E)
  BY EdgesExist
<1>2. IsNext(E, t, NextChange(n, t)) /\ IsPrev(E, t, PrevChange(n, t)) /\ E \subseteq Int
  BY <1>1 DEF EdgesAre
<1> QED
  BY <1>2, HistoryAssumption DEF IsNext, IsPrev

(* Both jumps keep the invariant, and listing is no jump.                 *)
LEMMA JumpedKept == Spec => []Jumped
<1>1. Init => Jumped
  BY HistoryAssumption DEF Init, Jumped, Nothing
<1>2. Jumped /\ [Next]_vars => Jumped'
  <2> SUFFICES ASSUME Jumped, [Next]_vars PROVE Jumped'
    OBVIOUS
  <2>1. ASSUME NEW n \in Nodes, Forward(n) PROVE Jumped'
    <3>0. PICK m \in Int : m = marker
      BY DEF Jumped
    <3>1. PICK t \in Int : t = NextChange(n, m)
      BY JumpsToTimes DEF Jumped
    <3>2. /\ marker' = IF t = NoTime THEN marker ELSE t
          /\ answer' = [op |-> "next", node |-> n, from |-> m, to |-> t]
          /\ UNCHANGED history
      BY <3>0, <2>1, <3>1 DEF Forward, Jump
    <3>3. NextChange(n, m)' = t
      BY <3>1, <3>2, ReadsStay
    <3> QED
      BY <3>0, <3>2, <3>3 DEF Jumped
  <2>2. ASSUME NEW n \in Nodes, Backward(n) PROVE Jumped'
    <3>0. PICK m \in Int : m = marker
      BY DEF Jumped
    <3>1. PICK t \in Int : t = PrevChange(n, m)
      BY JumpsToTimes DEF Jumped
    <3>2. /\ marker' = IF t = NoTime THEN marker ELSE t
          /\ answer' = [op |-> "prev", node |-> n, from |-> m, to |-> t]
          /\ UNCHANGED history
      BY <3>0, <2>2, <3>1 DEF Backward, Jump
    <3>3. PrevChange(n, m)' = t
      BY <3>1, <3>2, ReadsStay
    <3> QED
      BY <3>0, <3>2, <3>3 DEF Jumped
  <2>3. ASSUME Browse PROVE Jumped'
    <3>1. UNCHANGED <<history, marker>> /\ answer'.op \notin {"next", "prev"}
      BY <2>3 DEF Browse, List, ListTogether
    <3> QED
      BY <3>1 DEF Jumped
  <2>4. ASSUME UNCHANGED vars PROVE Jumped'
    <3>1. UNCHANGED history /\ UNCHANGED marker /\ UNCHANGED answer
      BY <2>4 DEF vars
    <3>2. /\ NextChange(answer.node, answer.from)' = NextChange(answer.node, answer.from)
          /\ PrevChange(answer.node, answer.from)' = PrevChange(answer.node, answer.from)
      BY <3>1, ReadsStay
    <3> QED
      BY <3>1, <3>2 DEF Jumped
  <2> QED
    BY <2>1, <2>2, <2>3, <2>4 DEF Next, Navigate
<1> QED
  BY <1>1, <1>2, PTL DEF Spec

(* The ends of the data lie around all times.                               *)
LEMMA EndsAreTimes ==
  ASSUME history \in Histories
  PROVE  Times \subseteq Int /\ Start - 1 \in Int /\ End \in Int
<1> DEFINE All == {ToSet(history[s]) : s \in DOMAIN history}
           f == [s \in DOMAIN history |-> TimesIn(s)]
           Each == {f[s] : s \in DOMAIN history}
<1>1. \A s \in DOMAIN history : TimesIn(s) \in SUBSET Int /\ IsFiniteSet(TimesIn(s))
  BY TimesInFinite
<1>2. Times = UNION Each
  BY DEF Times, TimesIn
<1>3. IsFiniteSet(Each)
  <2>1. f \in Surjection(DOMAIN history, Each)
    BY DEF Surjection
  <2>2. IsFiniteSet(DOMAIN history)
    BY HistoryAssumption
  <2> QED
    BY <2>1, <2>2, FS_Surjection
<1>4. IsFiniteSet(Times)
  <2>1. \A T \in Each : IsFiniteSet(T)
    BY <1>1
  <2> HIDE DEF Each
  <2> QED
    BY <1>2, <1>3, <2>1, FS_UNION
<1>5. Times \subseteq Int
  BY <1>1, <1>2
<1>6. IsFiniteSet(Times \cup {0}) /\ Times \cup {0} \in SUBSET Int /\ Times \cup {0} # {}
  BY <1>4, <1>5, FS_AddElement
<1>7. Min(Times \cup {0}) \in Int /\ Max(Times \cup {0}) \in Int
  BY <1>6, EndsOf
<1> QED
  BY <1>5, <1>7 DEF Start, End

(* Jumping is exact in every state of the invariant.                        *)
LEMMA JumpedIsExact == Jumped => JumpsExact
<1> SUFFICES ASSUME Jumped PROVE JumpsExact
  OBVIOUS
<1>0. history \in Histories /\ Times \subseteq Int /\ Start - 1 \in Int /\ End \in Int /\ NoTime \in Int
  BY EndsAreTimes, HistoryAssumption DEF Jumped
<1> DEFINE n == answer.node
           m == answer.from
           x == answer.to
<1>1. CASE answer.op = "next"
  <2>1. n \in Nodes /\ m \in Int /\ x = NextChange(n, m) /\ m - 1 \in Int
    BY <1>1 DEF Jumped
  <2>2. PICK E : EdgesAre(n, E)
    BY <1>0, <2>1, EdgesExist
  <2>3. E \subseteq Int /\ IsNext(E, m, x) /\ x \in Int
    BY <1>0, <2>1, <2>2 DEF EdgesAre, IsNext
  <2>4. NothingBetween
    <3>1. ASSUME Covered(n), NEW t \in Times, m <= t, x = NoTime \/ t < x
          PROVE  ValueAt(n, t) = ValueAt(n, m)
      <4>1. t \in Int
        BY <1>0
      <4>2. ASSUME NEW e \in E PROVE e <= m \/ t < e
        <5>1. e \in Int
          BY <2>3
        <5>2. e <= m \/ (x # NoTime /\ x <= e)
          BY <2>1, <2>3, <5>1 DEF IsNext
        <5> QED
          BY <2>3, <3>1, <4>1, <5>1, <5>2
      <4>3. Quiet(E, m, t)
        BY <4>2 DEF Quiet
      <4> HIDE DEF n, m, x
      <4> QED
        BY <2>1, <2>2, <3>1, <4>1, <4>3 DEF EdgesAre
    <3> QED
      BY <1>1, <3>1 DEF NothingBetween
  <2>5. EdgesAreOwn
    <3>1. ASSUME IsMember(n), x # NoTime PROVE ValueAt(n, x) # ValueAt(n, x - 1)
      <4>1. EdgesAre(n, IF OwningAncestor(n) = NoNode THEN {} ELSE SliceEdges(n))
        BY <1>0, <2>1, <3>1, EdgesOfMember
      <4>2. IsNext(IF OwningAncestor(n) = NoNode THEN {} ELSE SliceEdges(n), m, x)
        BY <2>1, <4>1 DEF EdgesAre
      <4>3. OwningAncestor(n) # NoNode /\ x \in SliceEdges(n)
        BY <3>1, <4>2 DEF IsNext
      <4>4. Carrier(n) \in DOMAIN history
        BY <1>0, <2>1, <4>3, StreamsKnown
      <4>5. SliceAt(n, x) # SliceAt(n, x - 1)
        BY <1>0, <4>3, <4>4, EdgeIsOwn
      <4> HIDE DEF n, m, x
      <4> QED
        BY <2>1, <3>1, <4>3, <4>5, ValueIs
    <3> QED
      BY <3>1 DEF EdgesAreOwn
  <2>6. WaysAgree
    <3>1. PICK u : u = (IF x = NoTime THEN End ELSE x) /\ u \in Int
      BY <1>0, <2>3
    <3>2. PICK back : back = PrevChange(n, u) /\ IsPrev(E, u, back)
      BY <2>2, <3>1 DEF EdgesAre
    <3>3. back = NoTime \/ back <= m
      <4>1. SUFFICES ASSUME back # NoTime PROVE back <= m
        OBVIOUS
      <4>2. back \in E /\ back < u /\ back \in Int
        BY <2>3, <3>2, <4>1 DEF IsPrev
      <4>3. CASE x = NoTime
        BY <2>3, <4>2, <4>3 DEF IsNext
      <4>4. CASE x # NoTime
        <5>1. m < back => x <= back
          BY <2>3, <4>2, <4>4 DEF IsNext
        <5> QED
          BY <2>1, <2>3, <3>1, <4>2, <4>4, <5>1
      <4> QED
        BY <4>3, <4>4
    <3> QED
      BY <1>1, <3>1, <3>2, <3>3 DEF WaysAgree
  <2> QED
    BY <2>4, <2>5, <2>6 DEF JumpsExact
<1>2. CASE answer.op = "prev"
  <2>1. n \in Nodes /\ m \in Int /\ x = PrevChange(n, m) /\ m - 1 \in Int
    BY <1>2 DEF Jumped
  <2>2. PICK E : EdgesAre(n, E)
    BY <1>0, <2>1, EdgesExist
  <2>3. E \subseteq Int /\ IsPrev(E, m, x) /\ x \in Int
    BY <1>0, <2>1, <2>2 DEF EdgesAre, IsPrev
  <2>4. NothingBetween
    <3>1. ASSUME Covered(n), NEW t \in Times, t < m, x = NoTime \/ x <= t
          PROVE  ValueAt(n, t) = ValueAt(n, m - 1)
      <4>1. t \in Int /\ t <= m - 1
        BY <1>0, <2>1, <3>1
      <4>2. ASSUME NEW e \in E PROVE e <= t \/ m - 1 < e
        <5>1. e \in Int
          BY <2>3
        <5>2. m <= e \/ (x # NoTime /\ e <= x)
          BY <2>1, <2>3, <5>1 DEF IsPrev
        <5> QED
          BY <2>1, <2>3, <3>1, <4>1, <5>1, <5>2
      <4>3. Quiet(E, t, m - 1)
        BY <4>2 DEF Quiet
      <4> HIDE DEF n, m, x
      <4> QED
        BY <2>1, <2>2, <3>1, <4>1, <4>3 DEF EdgesAre
    <3> QED
      BY <1>2, <3>1 DEF NothingBetween
  <2>5. EdgesAreOwn
    <3>1. ASSUME IsMember(n), x # NoTime PROVE ValueAt(n, x) # ValueAt(n, x - 1)
      <4>1. EdgesAre(n, IF OwningAncestor(n) = NoNode THEN {} ELSE SliceEdges(n))
        BY <1>0, <2>1, <3>1, EdgesOfMember
      <4>2. IsPrev(IF OwningAncestor(n) = NoNode THEN {} ELSE SliceEdges(n), m, x)
        BY <2>1, <4>1 DEF EdgesAre
      <4>3. OwningAncestor(n) # NoNode /\ x \in SliceEdges(n)
        BY <3>1, <4>2 DEF IsPrev
      <4>4. Carrier(n) \in DOMAIN history
        BY <1>0, <2>1, <4>3, StreamsKnown
      <4>5. SliceAt(n, x) # SliceAt(n, x - 1)
        BY <1>0, <4>3, <4>4, EdgeIsOwn
      <4> HIDE DEF n, m, x
      <4> QED
        BY <2>1, <3>1, <4>3, <4>5, ValueIs
    <3> QED
      BY <3>1 DEF EdgesAreOwn
  <2>6. WaysAgree
    <3>1. PICK u : u = (IF x = NoTime THEN Start - 1 ELSE x) /\ u \in Int
      BY <1>0, <2>3
    <3>2. PICK forth : forth = NextChange(n, u) /\ IsNext(E, u, forth)
      BY <2>2, <3>1 DEF EdgesAre
    <3>3. forth = NoTime \/ forth >= m
      <4>1. SUFFICES ASSUME forth # NoTime PROVE forth >= m
        OBVIOUS
      <4>2. forth \in E /\ u < forth /\ forth \in Int
        BY <2>3, <3>2, <4>1 DEF IsNext
      <4>3. CASE x = NoTime
        <5>1. m <= forth
          BY <2>3, <4>2, <4>3 DEF IsPrev
        <5> QED
          BY <2>1, <4>2, <5>1
      <4>4. CASE x # NoTime
        <5>1. forth < m => forth <= x
          BY <2>3, <4>2, <4>4 DEF IsPrev
        <5> QED
          BY <2>1, <2>3, <3>1, <4>2, <4>4, <5>1
      <4> QED
        BY <4>3, <4>4
    <3> QED
      BY <1>2, <3>1, <3>2, <3>3 DEF WaysAgree
  <2> QED
    BY <2>4, <2>5, <2>6 DEF JumpsExact
<1>3. CASE answer.op \notin {"next", "prev"}
  BY <1>3 DEF JumpsExact, NothingBetween, EdgesAreOwn, WaysAgree
<1> QED
  BY <1>1, <1>2, <1>3

(* Whatever the hierarchy and the streams, a jump of a reader passes over   *)
(* no change of the value of its node, unless a stream below a stream in it *)
(* has changes; a packed member stops at changes of its own only; and jumps *)
(* forth and back know the same edges, of every node.                       *)
THEOREM JumpsCorrect == Spec => []JumpsExact
  BY JumpedKept, JumpedIsExact, PTL
=============================================================================
