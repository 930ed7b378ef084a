---------------------------- MODULE DataInduction ----------------------------
(***************************************************************************)
(* Induction over the numbers and the finite sets a definition walks, in   *)
(* the form the proofs of this project use: the predicate is the set of    *)
(* the members it holds of.  From it, sums, lists that are cut and glued,  *)
(* and functions that are defined by recursion.                            *)
(***************************************************************************)
EXTENDS Integers, FiniteSets, Functions, SequencesExt, FiniteSetTheorems,
        SequenceTheorems, WellFoundedInduction, TLAPS

(* A set of numbers with zero and with the successor of each of its members *)
(* has them all: else there is a least one it misses.                       *)
LEMMA NatSetInduction ==
  ASSUME NEW T \in SUBSET Nat, 0 \in T, \A n \in T : n + 1 \in T
  PROVE  T = Nat
<1>1. SUFFICES ASSUME Nat \ T # {}
               PROVE  FALSE
  OBVIOUS
<1> DEFINE R == {ss \in Nat \X Nat : ss[1] < ss[2]}
<1>2. IsWellFoundedOn(R, Nat)
  BY NatLessThanWellFounded DEF OpToRel
<1>3. PICK n \in Nat \ T : \A m \in Nat \ T : ~ (<<m, n>> \in R)
  <2> HIDE DEF R
  <2>1. Nat \ T \subseteq Nat
    OBVIOUS
  <2> QED
    BY <1>1, <1>2, <2>1, WFMin
<1>4. \A m \in Nat \ T : ~ (m < n)
  BY <1>3
<1>5. n \in Nat /\ n \notin T
  BY <1>3
<1>6. n # 0 /\ n - 1 \in Nat /\ n - 1 < n
  BY <1>5
<1>7. n - 1 \in T
  BY <1>4, <1>6
<1>8. n - 1 + 1 \in T
  BY <1>7
<1> QED
  BY <1>5, <1>8

(* The same within the first numbers, as for the members of a sequence.     *)
LEMMA UptoInduction ==
  ASSUME NEW m \in Nat, NEW T \in SUBSET (0 .. m), 0 \in T,
         \A n \in T : n < m => n + 1 \in T
  PROVE  T = 0 .. m
<1> DEFINE U == T \cup {n \in Nat : n > m}
<1>1. U \in SUBSET Nat /\ 0 \in U
  <2>1. 0 .. m \subseteq Nat
    OBVIOUS
  <2>2. T \subseteq Nat /\ {n \in Nat : n > m} \subseteq Nat
    BY <2>1
  <2> QED
    BY <2>2
<1>2. ASSUME NEW n \in U
      PROVE  n + 1 \in U
  OBVIOUS
<1>3. U = Nat
  <2> HIDE DEF U
  <2> QED
    BY <1>1, <1>2, NatSetInduction
<1>4. \A n \in 0 .. m : n \in U /\ ~(n > m)
  BY <1>3
<1> QED
  BY <1>4

(* What holds of a set when it holds of the set without any one member      *)
(* holds of every subset of a finite set.                                   *)
LEMMA SubsetInduction ==
  ASSUME NEW S, IsFiniteSet(S), NEW F \in SUBSET SUBSET S,
         \A T \in SUBSET S : (\A x \in T : T \ {x} \in F) => T \in F
  PROVE  F = SUBSET S
<1>1. SUFFICES ASSUME F # SUBSET S
               PROVE  FALSE
  OBVIOUS
<1> DEFINE R == StrictSubsetOrdering(S)
           M == (SUBSET S) \ F
<1>2. PICK T \in M : \A U \in M : ~ (<<U, T>> \in R)
  <2>1. IsWellFoundedOn(R, SUBSET S)
    BY FS_StrictSubsetOrderingWellFounded, FS_FiniteSubsetsOfFinite
  <2>2. M # {} /\ M \subseteq SUBSET S
    BY <1>1
  <2> HIDE DEF R, M
  <2> QED
    BY <2>1, <2>2, WFMin
<1>3. T \subseteq S /\ T \notin F
  BY <1>2
<1>4. ASSUME NEW x \in T
      PROVE  T \ {x} \in F
  <2>1. T \ {x} \subseteq S /\ <<T \ {x}, T>> \in R
    BY <1>3, <1>4 DEF StrictSubsetOrdering
  <2> QED
    BY <1>2, <2>1
<1> QED
  BY <1>3, <1>4

----------------------------------------------------------------------------
(* SumFunction() of the community modules takes the members of the domain   *)
(* one by one, in the order CHOOSE gives.  Its recursion has a value, and   *)
(* the order makes no difference.                                           *)
Pick1(T) == CHOOSE x \in T : TRUE
SumsUp(it, f, D) ==
  it = [T \in SUBSET D |-> IF T = {} THEN 0 ELSE f[Pick1(T)] + it[T \ {Pick1(T)}]]

(* A sum over a set is one member and the sum over the others.            *)
LEMMA SumStep ==
  ASSUME NEW D, NEW f, NEW it, SumsUp(it, f, D), NEW T \in SUBSET D
  PROVE  it[T] = IF T = {} THEN 0 ELSE f[Pick1(T)] + it[T \ {Pick1(T)}]
  BY DEF SumsUp

(* Over a finite set there is such a sum, for every subset.               *)
LEMMA SumExists ==
  ASSUME NEW D, IsFiniteSet(D), NEW f \in [D -> Nat]
  PROVE  \E it \in [SUBSET D -> Nat] : SumsUp(it, f, D)
<1> DEFINE Step(it, T) ==
             it[T] = IF T = {} THEN 0 ELSE f[Pick1(T)] + it[T \ {Pick1(T)}]
           Good(n) == \E it \in [SUBSET D -> Nat] :
                        \A T \in SUBSET D : Cardinality(T) <= n => Step(it, T)
           N == {n \in Nat : Good(n)}
<1>0. ASSUME NEW T \in SUBSET D
      PROVE  /\ IsFiniteSet(T) /\ Cardinality(T) \in Nat
             /\ Cardinality(T) = 0 <=> T = {}
             /\ Cardinality(T) <= Cardinality(D)
  <2>1. IsFiniteSet(T) /\ Cardinality(T) <= Cardinality(D)
    BY FS_Subset
  <2> QED
    BY <2>1, FS_CardinalityType, FS_EmptySet
<1>1. ASSUME NEW T \in SUBSET D, T # {}
      PROVE  /\ Pick1(T) \in T
             /\ T \ {Pick1(T)} \in SUBSET D
             /\ Cardinality(T \ {Pick1(T)}) = Cardinality(T) - 1
             /\ f[Pick1(T)] \in Nat
  <2>1. Pick1(T) \in T
    BY <1>1 DEF Pick1
  <2> QED
    BY <1>0, <2>1, FS_RemoveElement
<1>2. Good(0)
  <2> DEFINE it == [T \in SUBSET D |-> 0]
  <2>1. it \in [SUBSET D -> Nat]
    OBVIOUS
  <2>2. ASSUME NEW T \in SUBSET D, Cardinality(T) <= 0
        PROVE  Step(it, T)
    <3>1. T = {}
      BY <1>0, <2>2
    <3> QED
      BY <3>1
  <2> QED
    BY <2>1, <2>2
<1>3. ASSUME NEW n \in Nat, Good(n)
      PROVE  Good(n + 1)
  <2>1. PICK it \in [SUBSET D -> Nat] :
          \A T \in SUBSET D : Cardinality(T) <= n => Step(it, T)
    BY <1>3
  <2> DEFINE jt == [T \in SUBSET D |->
                      IF Cardinality(T) = n + 1 THEN f[Pick1(T)] + it[T \ {Pick1(T)}]
                      ELSE it[T]]
  <2>2. ASSUME NEW T \in SUBSET D
        PROVE  jt[T] \in Nat
    <3>1. CASE Cardinality(T) = n + 1
      <4>1. T # {}
        BY <1>0, <3>1
      <4>2. it[T \ {Pick1(T)}] \in Nat /\ f[Pick1(T)] \in Nat
        BY <1>1, <4>1
      <4> QED
        BY <3>1, <4>2
    <3>2. CASE Cardinality(T) # n + 1
      BY <3>2
    <3> QED
      BY <3>1, <3>2
  <2>3. ASSUME NEW T \in SUBSET D, Cardinality(T) <= n + 1
        PROVE  Step(jt, T)
    <3>1. CASE T = {}
      <4>1. Cardinality(T) = 0
        BY <1>0, <3>1
      <4>2. Step(it, T) /\ jt[T] = it[T]
        BY <2>1, <4>1
      <4> QED
        BY <3>1, <4>2
    <3>2. CASE T # {}
      <4> DEFINE U == T \ {Pick1(T)}
      <4>1. U \in SUBSET D /\ Cardinality(U) = Cardinality(T) - 1 /\ Cardinality(T) \in Nat
        BY <1>0, <1>1, <3>2
      <4>2. jt[U] = it[U]
        <5>1. Cardinality(U) # n + 1
          BY <2>3, <4>1
        <5> HIDE DEF U
        <5> QED
          BY <4>1, <5>1
      <4>3. CASE Cardinality(T) = n + 1
        BY <3>2, <4>2, <4>3
      <4>4. CASE Cardinality(T) # n + 1
        <5>1. Cardinality(T) <= n
          BY <2>3, <4>1, <4>4
        <5>2. jt[T] = it[T] /\ Step(it, T)
          BY <2>1, <4>4, <5>1
        <5> QED
          BY <3>2, <4>2, <5>2
      <4> QED
        BY <4>3, <4>4
    <3> QED
      BY <3>1, <3>2
  <2>4. jt \in [SUBSET D -> Nat]
    BY <2>2
  <2> HIDE DEF jt, Step
  <2> QED
    BY <2>3, <2>4
<1>4. N = Nat
  <2>1. N \in SUBSET Nat /\ 0 \in N
    BY <1>2
  <2>2. ASSUME NEW n \in N
        PROVE  n + 1 \in N
    <3> HIDE DEF Good
    <3>1. n \in Nat /\ Good(n) /\ n + 1 \in Nat
      OBVIOUS
    <3>2. Good(n + 1)
      BY <1>3, <3>1
    <3> QED
      BY <3>1, <3>2
  <2> HIDE DEF N
  <2> QED
    BY <2>1, <2>2, NatSetInduction
<1>5. Good(Cardinality(D))
  BY <1>4, FS_CardinalityType
<1>6. PICK it \in [SUBSET D -> Nat] : \A T \in SUBSET D : Step(it, T)
  BY <1>0, <1>5
<1> QED
  BY <1>6 DEF SumsUp
(* Any member may be taken first.                                           *)
LEMMA SumTakes ==
  ASSUME NEW D, IsFiniteSet(D), NEW f \in [D -> Nat],
         NEW it \in [SUBSET D -> Nat], SumsUp(it, f, D),
         NEW T \in SUBSET D, NEW x \in T
  PROVE  it[T] = f[x] + it[T \ {x}]
<1> DEFINE AnyFirst(U) == \A y \in U : it[U] = f[y] + it[U \ {y}]
           F == {U \in SUBSET D : AnyFirst(U)}
<1>1. ASSUME NEW U \in SUBSET D, \A y \in U : U \ {y} \in F
      PROVE  U \in F
  <2>1. SUFFICES ASSUME NEW y \in U
                 PROVE  it[U] = f[y] + it[U \ {y}]
    OBVIOUS
  <2>2. PICK z \in U : it[U] = f[z] + it[U \ {z}]
    <3>1. U # {} /\ Pick1(U) \in U
      BY <2>1 DEF Pick1
    <3> QED
      BY <3>1, SumStep
  <2>3. CASE y = z
    BY <2>2, <2>3
  <2>4. CASE y # z
    <3>1. AnyFirst(U \ {z}) /\ AnyFirst(U \ {y})
      BY <1>1
    <3>2. y \in U \ {z} /\ z \in U \ {y}
      BY <2>4
    <3>3. /\ it[U \ {z}] = f[y] + it[(U \ {z}) \ {y}]
          /\ it[U \ {y}] = f[z] + it[(U \ {y}) \ {z}]
      BY <3>1, <3>2
    <3>4. (U \ {z}) \ {y} = (U \ {y}) \ {z}
      OBVIOUS
    <3>5. PICK a \in Nat : a = it[(U \ {y}) \ {z}]
      OBVIOUS
    <3>6. it[U] = f[z] + (f[y] + a) /\ it[U \ {y}] = f[z] + a
      BY <2>2, <3>3, <3>4, <3>5
    <3>7. f[z] + (f[y] + a) = f[y] + (f[z] + a)
      <4>1. f[y] \in Nat /\ f[z] \in Nat
        OBVIOUS
      <4> QED
        BY <4>1
    <3> QED
      BY <3>6, <3>7
  <2> QED
    BY <2>3, <2>4
<1>2. F = SUBSET D
  <2>1. F \in SUBSET SUBSET D
    OBVIOUS
  <2> HIDE DEF F
  <2> QED
    BY <1>1, <2>1, SubsetInduction
<1>3. AnyFirst(T)
  BY <1>2
<1> QED
  BY <1>3

(* What two sums have in common depends on the common values alone.         *)
LEMMA SumAgrees ==
  ASSUME NEW D, IsFiniteSet(D), NEW f, NEW it, SumsUp(it, f, D),
         NEW E, NEW g, NEW jt, SumsUp(jt, g, E),
         NEW S \in SUBSET (D \cap E), \A x \in S : f[x] = g[x]
  PROVE  it[S] = jt[S]
<1> DEFINE F == {T \in SUBSET S : it[T] = jt[T]}
<1>1. ASSUME NEW T \in SUBSET S, \A x \in T : T \ {x} \in F
      PROVE  T \in F
  <2>1. /\ it[T] = IF T = {} THEN 0 ELSE f[Pick1(T)] + it[T \ {Pick1(T)}]
        /\ jt[T] = IF T = {} THEN 0 ELSE g[Pick1(T)] + jt[T \ {Pick1(T)}]
    <3>1. T \in SUBSET D /\ T \in SUBSET E
      OBVIOUS
    <3>2. it[T] = IF T = {} THEN 0 ELSE f[Pick1(T)] + it[T \ {Pick1(T)}]
      BY <3>1 DEF SumsUp
    <3>3. jt[T] = IF T = {} THEN 0 ELSE g[Pick1(T)] + jt[T \ {Pick1(T)}]
      BY <3>1 DEF SumsUp
    <3> QED
      BY <3>2, <3>3
  <2>2. T # {} => Pick1(T) \in T
    BY DEF Pick1
  <2> QED
    BY <1>1, <2>1, <2>2
<1>2. F = SUBSET S
  <2>1. IsFiniteSet(S) /\ F \in SUBSET SUBSET S
    BY FS_Subset
  <2> HIDE DEF F
  <2> QED
    BY <1>1, <2>1, SubsetInduction
<1> QED
  BY <1>2

(* SumFunction of the library, a fold, is that sum.                       *)
LEMMA SumIsSum ==
  ASSUME NEW D, IsFiniteSet(D), NEW f \in [D -> Nat]
  PROVE  \E it \in [SUBSET D -> Nat] : SumsUp(it, f, D) /\ SumFunction(f) = it[D]
<1> DEFINE sum == CHOOSE it : SumsUp(it, f, D)
<1>1. PICK it \in [SUBSET D -> Nat] : SumsUp(it, f, D)
  BY SumExists
<1>2. SumsUp(sum, f, D)
  BY <1>1
<1>3. SumFunction(f) = sum[D]
  BY DEF SumFunction, SumFunctionOnSet, FoldFunctionOnSet, MapThenFoldSet, SumsUp, Pick1
<1>4. sum[D] = it[D]
  <2> HIDE DEF sum
  <2> QED
    BY <1>1, <1>2, SumAgrees
<1> QED
  BY <1>1, <1>3, <1>4
(* A sum of sizes is a size.                                                *)
LEMMA SumType ==
  ASSUME NEW D, IsFiniteSet(D), NEW f \in [D -> Nat]
  PROVE  SumFunction(f) \in Nat
<1>1. PICK it \in [SUBSET D -> Nat] : SumsUp(it, f, D) /\ SumFunction(f) = it[D]
  BY SumIsSum
<1>2. it[D] \in Nat
  <2>1. D \in SUBSET D
    OBVIOUS
  <2> QED
    BY <2>1
<1> QED
  BY <1>1, <1>2

(* No sum without a summand that is not zero.                               *)
LEMMA SumOfNothing ==
  ASSUME NEW D, IsFiniteSet(D), NEW f \in [D -> Nat], \A x \in D : f[x] = 0
  PROVE  SumFunction(f) = 0
<1>1. PICK it \in [SUBSET D -> Nat] : SumsUp(it, f, D) /\ SumFunction(f) = it[D]
  BY SumIsSum
<1> DEFINE F == {T \in SUBSET D : it[T] = 0}
<1>2. ASSUME NEW T \in SUBSET D, \A x \in T : T \ {x} \in F
      PROVE  T \in F
  <2>1. it[T] = IF T = {} THEN 0 ELSE f[Pick1(T)] + it[T \ {Pick1(T)}]
    BY <1>1, SumStep
  <2>2. T # {} => Pick1(T) \in T
    BY DEF Pick1
  <2> QED
    BY <1>2, <2>1, <2>2
<1>3. F = SUBSET D
  <2>1. F \in SUBSET SUBSET D
    OBVIOUS
  <2> HIDE DEF F
  <2> QED
    BY <1>2, <2>1, SubsetInduction
<1> QED
  BY <1>1, <1>3

(* One summand, and the others.                                             *)
LEMMA SumSplit ==
  ASSUME NEW D, IsFiniteSet(D), NEW f \in [D -> Nat], NEW x \in D
  PROVE  SumFunction(f) = f[x] + SumFunction([y \in D \ {x} |-> f[y]])
<1> DEFINE g == [y \in D \ {x} |-> f[y]]
<1>1. PICK it \in [SUBSET D -> Nat] : SumsUp(it, f, D) /\ SumFunction(f) = it[D]
  BY SumIsSum
<1>2. g \in [D \ {x} -> Nat] /\ IsFiniteSet(D \ {x})
  BY FS_RemoveElement
<1>3. PICK jt \in [SUBSET (D \ {x}) -> Nat] :
        SumsUp(jt, g, D \ {x}) /\ SumFunction(g) = jt[D \ {x}]
  <2> HIDE DEF g
  <2> QED
    BY <1>2, SumIsSum
<1>4. it[D \ {x}] = jt[D \ {x}]
  <2>1. \A y \in D \ {x} : f[y] = g[y]
    OBVIOUS
  <2>2. D \ {x} \in SUBSET (D \cap (D \ {x}))
    OBVIOUS
  <2> HIDE DEF g
  <2> QED
    BY <1>1, <1>3, <2>1, <2>2, SumAgrees
<1>5. it[D] = f[x] + it[D \ {x}]
  <2>1. PICK T \in SUBSET D : T = D
    OBVIOUS
  <2>2. it[T] = f[x] + it[T \ {x}]
    BY <1>1, <2>1, SumTakes
  <2> QED
    BY <2>1, <2>2
<1> QED
  BY <1>1, <1>3, <1>4, <1>5

(* Changing one summand changes the sum by as much.                         *)
LEMMA SumChanges ==
  ASSUME NEW D, IsFiniteSet(D), NEW f \in [D -> Nat], NEW g \in [D -> Nat],
         NEW x \in D, \A y \in D \ {x} : f[y] = g[y]
  PROVE  /\ SumFunction(g) = SumFunction(f) - f[x] + g[x]
         /\ f[x] <= SumFunction(f)
<1>1. [y \in D \ {x} |-> f[y]] = [y \in D \ {x} |-> g[y]]
  OBVIOUS
<1>2. PICK a : a = SumFunction([y \in D \ {x} |-> f[y]])
  OBVIOUS
<1>3. a \in Nat
  <2>1. IsFiniteSet(D \ {x}) /\ [y \in D \ {x} |-> f[y]] \in [D \ {x} -> Nat]
    BY FS_RemoveElement
  <2> QED
    BY <1>2, <2>1, SumType
<1>4. SumFunction(f) = f[x] + a /\ SumFunction(g) = g[x] + a
  <2>1. SumFunction(f) = f[x] + a
    BY <1>2, SumSplit
  <2>2. SumFunction(g) = g[x] + SumFunction([y \in D \ {x} |-> g[y]])
    BY SumSplit
  <2> QED
    BY <1>1, <1>2, <2>1, <2>2
<1>5. f[x] \in Nat /\ g[x] \in Nat
  OBVIOUS
<1> QED
  BY <1>3, <1>4, <1>5

(* Summands of zero may be left out.                                        *)
LEMMA SumOfSupport ==
  ASSUME NEW D, IsFiniteSet(D), NEW f \in [D -> Nat],
         NEW E \in SUBSET D, \A x \in D \ E : f[x] = 0
  PROVE  SumFunction(f) = SumFunction([x \in E |-> f[x]])
<1> DEFINE g == [x \in E |-> f[x]]
<1>1. PICK it \in [SUBSET D -> Nat] : SumsUp(it, f, D) /\ SumFunction(f) = it[D]
  BY SumIsSum
<1>2. g \in [E -> Nat] /\ IsFiniteSet(E)
  BY FS_Subset
<1>3. PICK jt \in [SUBSET E -> Nat] : SumsUp(jt, g, E) /\ SumFunction(g) = jt[E]
  <2> HIDE DEF g
  <2> QED
    BY <1>2, SumIsSum
<1> DEFINE F == {T \in SUBSET (D \ E) : it[E \cup T] = it[E]}
<1>4. ASSUME NEW T \in SUBSET (D \ E), \A x \in T : T \ {x} \in F
      PROVE  T \in F
  <2>1. CASE T = {}
    <3>1. E \cup {} = E
      OBVIOUS
    <3> QED
      BY <2>1, <3>1
  <2>2. CASE T # {}
    <3>1. PICK x \in T : TRUE
      BY <2>2
    <3>2. E \cup T \in SUBSET D /\ x \in E \cup T /\ f[x] = 0
      BY <3>1
    <3>3. it[E \cup T] = f[x] + it[(E \cup T) \ {x}]
      BY <1>1, <3>2, SumTakes, SMTT(30)
    <3>4. (E \cup T) \ {x} = E \cup (T \ {x})
      BY <3>1
    <3>5. it[E \cup (T \ {x})] = it[E] /\ it[E] \in Nat
      BY <1>4, <3>1
    <3>6. PICK a \in Nat : a = it[E]
      BY <3>5
    <3>7. it[E \cup T] = 0 + a
      BY <3>2, <3>3, <3>4, <3>5, <3>6
    <3> QED
      BY <3>6, <3>7
  <2> QED
    BY <2>1, <2>2
<1>5. F = SUBSET (D \ E)
  <2>1. F \in SUBSET SUBSET (D \ E) /\ IsFiniteSet(D \ E)
    BY FS_Subset
  <2> HIDE DEF F
  <2> QED
    BY <1>4, <2>1, SubsetInduction
<1>6. it[D] = it[E]
  <2>1. D \ E \in F /\ E \cup (D \ E) = D
    BY <1>5
  <2> QED
    BY <2>1
<1>7. it[E] = jt[E]
  <2>1. \A y \in E : f[y] = g[y]
    OBVIOUS
  <2>2. E \in SUBSET (D \cap E)
    OBVIOUS
  <2> HIDE DEF g
  <2> QED
    BY <1>1, <1>3, <2>1, <2>2, SumAgrees
<1> QED
  BY <1>1, <1>3, <1>6, <1>7

(* Renaming the summands one to one leaves the sum.                         *)
Takes(it, f, D) ==
  /\ it[{}] = 0
  /\ \A T \in SUBSET D : \A x \in T : it[T] = f[x] + it[T \ {x}]

(* And it may be taken in any order: whichever member is taken first.     *)
LEMMA SumIsTaken ==
  ASSUME NEW D, IsFiniteSet(D), NEW f \in [D -> Nat]
  PROVE  \E it \in [SUBSET D -> Nat] : Takes(it, f, D) /\ SumFunction(f) = it[D]
<1>1. PICK it \in [SUBSET D -> Nat] : SumsUp(it, f, D) /\ SumFunction(f) = it[D]
  BY SumIsSum
<1>2. ASSUME NEW T \in SUBSET D, NEW x \in T
      PROVE  it[T] = f[x] + it[T \ {x}]
  BY <1>1, SumTakes
<1>3. it[{}] = 0
  <2>1. {} \in SUBSET D
    OBVIOUS
  <2> QED
    BY <1>1, <2>1, SumStep
<1> QED
  BY <1>1, <1>2, <1>3 DEF Takes

Renames(p, E, D) ==
  /\ p \in [E -> D]
  /\ \A x, y \in E : p[x] = p[y] => x = y
  /\ \A d \in D : \E x \in E : d = p[x]
Renamed(g, f, p, E) == \A x \in E : g[x] = f[p[x]]

(* A sum does not change when its members get other names.                *)
LEMMA SumRenamed ==
  ASSUME NEW D, IsFiniteSet(D), NEW f \in [D -> Nat],
         NEW E, IsFiniteSet(E), NEW g \in [E -> Nat],
         NEW p, Renames(p, E, D), Renamed(g, f, p, E)
  PROVE  SumFunction(g) = SumFunction(f)
<1>1. PICK it \in [SUBSET D -> Nat] : Takes(it, f, D) /\ SumFunction(f) = it[D]
  BY SumIsTaken
<1>2. PICK jt \in [SUBSET E -> Nat] : Takes(jt, g, E) /\ SumFunction(g) = jt[E]
  BY SumIsTaken
<1>3. ASSUME NEW T \in SUBSET D, NEW x \in T
      PROVE  it[T] = f[x] + it[T \ {x}]
  BY <1>1 DEF Takes
<1>4. ASSUME NEW T \in SUBSET E, NEW x \in T
      PROVE  jt[T] = g[x] + jt[T \ {x}]
  BY <1>2 DEF Takes
<1> DEFINE Named(T) == {p[x] : x \in T}
           F == {T \in SUBSET E : jt[T] = it[Named(T)]}
<1>5. ASSUME NEW T \in SUBSET E, \A x \in T : T \ {x} \in F
      PROVE  T \in F
  <2>1. CASE T = {}
    <3>1. Named(T) = {} /\ {} \in SUBSET D /\ {} \in SUBSET E
      BY <2>1
    <3>2. it[{}] = 0 /\ jt[{}] = 0
      BY <1>1, <1>2 DEF Takes
    <3> QED
      BY <2>1, <3>1, <3>2
  <2>2. CASE T # {}
    <3>1. PICK x \in T : TRUE
      BY <2>2
    <3>2. Named(T) \in SUBSET D /\ p[x] \in Named(T)
      BY <3>1 DEF Renames
    <3>3. Named(T) \ {p[x]} = Named(T \ {x})
      BY <3>1 DEF Renames
    <3>4. jt[T] = g[x] + jt[T \ {x}]
      BY <1>4, <3>1
    <3>5. it[Named(T)] = f[p[x]] + it[Named(T) \ {p[x]}]
      <4> HIDE DEF Named
      <4> QED
        BY <1>3, <3>2
    <3>6. jt[T \ {x}] = it[Named(T \ {x})]
      BY <1>5, <3>1
    <3>7. g[x] = f[p[x]]
      BY <3>1 DEF Renamed
    <3>8. jt[T] = it[Named(T)]
      <4> HIDE DEF Named
      <4> QED
        BY <3>3, <3>4, <3>5, <3>6, <3>7
    <3> QED
      BY <3>8
  <2> QED
    BY <2>1, <2>2
<1>6. F = SUBSET E
  <2>1. F \in SUBSET SUBSET E
    OBVIOUS
  <2> HIDE DEF F
  <2> QED
    BY <1>5, <2>1, SubsetInduction
<1>7. E \in F
  BY <1>6
<1>8. Named(E) = D
  BY DEF Renames
<1> QED
  BY <1>1, <1>2, <1>7, <1>8

(* The summand at a position, and the others closed up over the gap.        *)
LEMMA SumClosedUp ==
  ASSUME NEW n \in Nat, NEW f \in [1 .. n -> Nat], NEW k \in 1 .. n,
         NEW g \in [1 .. n - 1 -> Nat],
         \A j \in 1 .. n - 1 : g[j] = IF j < k THEN f[j] ELSE f[j + 1]
  PROVE  SumFunction(f) = f[k] + SumFunction(g)
<1> DEFINE D == (1 .. n) \ {k}
           E == 1 .. n - 1
           rest == [y \in D |-> f[y]]
           p == [j \in E |-> IF j < k THEN j ELSE j + 1]
<1>1. IsFiniteSet(1 .. n) /\ IsFiniteSet(D) /\ IsFiniteSet(E)
  <2>1. IsFiniteSet(1 .. n) /\ IsFiniteSet(1 .. n - 1)
    BY FS_Interval
  <2> QED
    BY <2>1, FS_RemoveElement
<1>2. rest \in [D -> Nat]
  OBVIOUS
<1>3. p \in [E -> D]
  <2>1. ASSUME NEW j \in E
        PROVE  (IF j < k THEN j ELSE j + 1) \in D
    OBVIOUS
  <2> QED
    BY <2>1
<1>4. \A x, y \in E : p[x] = p[y] => x = y
  OBVIOUS
<1>5. ASSUME NEW d \in D
      PROVE  \E x \in E : d = p[x]
  <2>1. CASE d < k
    <3>1. d \in E /\ p[d] = d
      BY <2>1
    <3> QED
      BY <3>1
  <2>2. CASE ~(d < k)
    <3>1. d - 1 \in E /\ ~(d - 1 < k)
      BY <2>2
    <3>2. p[d - 1] = d
      BY <3>1
    <3> QED
      BY <3>1, <3>2
  <2> QED
    BY <2>1, <2>2
<1>6. ASSUME NEW x \in E
      PROVE  g[x] = rest[p[x]]
  <2>1. p[x] \in D /\ p[x] = IF x < k THEN x ELSE x + 1
    BY <1>3
  <2>2. rest[p[x]] = f[p[x]]
    BY <2>1
  <2> QED
    BY <2>1, <2>2
<1>7. SumFunction(g) = SumFunction(rest)
  <2>1. g \in [E -> Nat]
    OBVIOUS
  <2>2. Renames(p, E, D) /\ Renamed(g, rest, p, E)
    <3> HIDE DEF D, E, rest, p
    <3> QED
      BY <1>3, <1>4, <1>5, <1>6 DEF Renames, Renamed
  <2> HIDE DEF D, E, rest, p
  <2> QED
    BY <1>1, <1>2, <2>1, <2>2, SumRenamed
<1>8. SumFunction(f) = f[k] + SumFunction(rest)
  BY <1>1, SumSplit, ZenonT(30)
<1> QED
  BY <1>7, <1>8

----------------------------------------------------------------------------
(* What lies between two marks of a history.                                *)
LEMMA BetweenMarks ==
  ASSUME NEW S, NEW h \in Seq(S), NEW a \in 0 .. Len(h), NEW b \in 0 .. Len(h)
  PROVE  /\ SubSeq(h, a + 1, b) \in Seq(S)
         /\ Len(SubSeq(h, a + 1, b)) = (IF a < b THEN b - a ELSE 0)
         /\ \A i \in 1 .. b - a : SubSeq(h, a + 1, b)[i] = h[a + i]
<1>1. Len(h) \in Nat /\ a \in Nat /\ b \in Nat
  OBVIOUS
<1>2. \A i \in a + 1 .. b : h[i] \in S
  BY <1>1
<1>3. /\ SubSeq(h, a + 1, b) \in Seq(S)
      /\ Len(SubSeq(h, a + 1, b)) = (IF a + 1 <= b THEN b - (a + 1) + 1 ELSE 0)
      /\ \A i \in 1 .. b - (a + 1) + 1 : SubSeq(h, a + 1, b)[i] = h[a + 1 + i - 1]
  BY <1>1, <1>2, SubSeqProperties
<1>4. \A i \in Int : a + 1 + i - 1 = a + i
  BY <1>1
<1>5. b - (a + 1) + 1 = b - a /\ (a + 1 <= b <=> a < b)
  BY <1>1
<1> QED
  BY <1>1, <1>3, <1>4, <1>5

(* Gluing the pieces of a history gives the history back.  The recursive    *)
(* function of FlattenSeq has a value, since the prefixes of the history    *)
(* satisfy its equation, and only one, by induction over the pieces.        *)
Glues(f, pieces, m) ==
  f = [i \in 1 .. m |-> IF i = 1 THEN pieces[i] ELSE f[i - 1] \o pieces[i]]

(* Gluing pieces together has one result only.                            *)
LEMMA GluedOnce ==
  ASSUME NEW m \in Nat, m # 0, NEW pieces, NEW f, NEW g,
         Glues(f, pieces, m), Glues(g, pieces, m)
  PROVE  f[m] = g[m]
<1>1. ASSUME NEW i \in 1 .. m
      PROVE  /\ f[i] = IF i = 1 THEN pieces[i] ELSE f[i - 1] \o pieces[i]
             /\ g[i] = IF i = 1 THEN pieces[i] ELSE g[i - 1] \o pieces[i]
  BY DEF Glues
<1> DEFINE T == {i \in 0 .. m : i = 0 \/ f[i] = g[i]}
<1>2. T \in SUBSET (0 .. m) /\ 0 \in T
  OBVIOUS
<1>3. ASSUME NEW n \in T, n < m
      PROVE  n + 1 \in T
  <2>1. n \in 0 .. m /\ n + 1 \in 1 .. m /\ n + 1 \in 0 .. m /\ n + 1 - 1 = n
    BY <1>3
  <2>2. CASE n = 0
    BY <1>1, <2>1, <2>2
  <2>3. CASE n # 0
    <3>1. f[n] = g[n] /\ n + 1 # 1
      BY <2>1, <2>3
    <3>2. PICK k : k = n + 1
      OBVIOUS
    <3>3. k \in 1 .. m /\ k # 1 /\ k - 1 = n
      BY <2>1, <3>1, <3>2
    <3>4. f[k] = f[k - 1] \o pieces[k] /\ g[k] = g[k - 1] \o pieces[k]
      BY <1>1, <3>3
    <3>5. f[k] = g[k]
      BY <3>1, <3>3, <3>4
    <3> QED
      BY <2>1, <3>2, <3>5
  <2> QED
    BY <2>2, <2>3
<1>4. T = 0 .. m
  <2> HIDE DEF T
  <2> QED
    BY <1>2, <1>3, UptoInduction
<1>5. m \in T
  <2>1. m \in 0 .. m
    OBVIOUS
  <2> HIDE DEF T
  <2> QED
    BY <1>4, <2>1
<1> QED
  BY <1>5

Pieces(pieces, h, u, m) ==
  /\ u \in [0 .. m -> 0 .. Len(h)] /\ u[0] = 0
  /\ \A i \in 1 .. m : u[i - 1] < u[i]
  /\ DOMAIN pieces = 1 .. m /\ Len(pieces) = m
  /\ \A i \in 1 .. m : pieces[i] = SubSeq(h, u[i - 1] + 1, u[i])

(* The prefixes of a list up to its marks are the results on the way.     *)
LEMMA PrefixesGlue ==
  ASSUME NEW S, NEW h \in Seq(S), NEW m \in Nat, m # 0, NEW u, NEW pieces,
         Pieces(pieces, h, u, m)
  PROVE  Glues([i \in 1 .. m |-> SubSeq(h, 1, u[i])], pieces, m)
<1>1. PICK n \in Nat : n = Len(h)
  OBVIOUS
<1>2. ASSUME NEW i \in 1 .. m
      PROVE  /\ u[i - 1] \in 0 .. n /\ u[i] \in 0 .. n /\ u[i - 1] < u[i]
             /\ pieces[i] = SubSeq(h, u[i - 1] + 1, u[i])
  <2>1. i - 1 \in 0 .. m /\ i \in 0 .. m
    OBVIOUS
  <2> QED
    BY <1>1, <2>1 DEF Pieces
<1> DEFINE g == [i \in 1 .. m |-> SubSeq(h, 1, u[i])]
<1>3. ASSUME NEW i \in 1 .. m
      PROVE  g[i] = IF i = 1 THEN pieces[i] ELSE g[i - 1] \o pieces[i]
  <2>1. CASE i = 1
    <3>1. u[1 - 1] + 1 = 1
      BY DEF Pieces
    <3>2. pieces[1] = SubSeq(h, 1, u[1])
      BY <1>2, <2>1, <3>1
    <3> QED
      BY <2>1, <3>2
  <2>2. CASE i # 1
    <3>1. i - 1 \in 1 .. m
      BY <2>2
    <3>2. /\ 1 \in 1 .. n + 1 /\ u[i - 1] \in 1 - 1 .. n /\ u[i] \in u[i - 1] .. n
      BY <1>1, <1>2
    <3>3. SubSeq(h, 1, u[i]) = SubSeq(h, 1, u[i - 1]) \o SubSeq(h, u[i - 1] + 1, u[i])
      BY <1>1, <3>2, ConcatAdjacentSubSeq
    <3> QED
      BY <1>2, <2>2, <3>1, <3>3
  <2> QED
    BY <2>1, <2>2
<1> QED
  BY <1>3 DEF Glues

(* The pieces of a list that is cut at marks, put together again, are the *)
(* list up to the last mark.                                              *)
LEMMA FlattenOfCuts ==
  ASSUME NEW S, NEW h \in Seq(S), NEW m \in Nat, m # 0, NEW u, NEW pieces,
         Pieces(pieces, h, u, m)
  PROVE  FlattenSeq(pieces) = SubSeq(h, 1, u[m])
<1> DEFINE g == [i \in 1 .. m |-> SubSeq(h, 1, u[i])]
           flatten == CHOOSE f : Glues(f, pieces, m)
<1>1. Glues(g, pieces, m)
  BY PrefixesGlue
<1>2. Glues(flatten, pieces, m)
  <2> HIDE DEF g
  <2> QED
    BY <1>1
<1>3. FlattenSeq(pieces) = flatten[m]
  BY DEF FlattenSeq, Glues, Pieces
<1>4. g[m] = SubSeq(h, 1, u[m])
  <2>1. m \in 1 .. m
    OBVIOUS
  <2> QED
    BY <2>1
<1>5. flatten[m] = g[m]
  <2> HIDE DEF g, flatten
  <2> QED
    BY <1>1, <1>2, GluedOnce
<1> QED
  BY <1>3, <1>4, <1>5

(* A function on the first numbers is a sequence.                           *)
LEMMA FunctionIsSeq ==
  ASSUME NEW m \in Nat, NEW S, NEW e \in [1 .. m -> S]
  PROVE  e \in Seq(S) /\ Len(e) = m
<1>1. e \in Seq(S)
  BY SeqDef
<1>2. Len(e) \in Nat /\ DOMAIN e = 1 .. Len(e) /\ DOMAIN e = 1 .. m
  BY <1>1, LenProperties
<1> QED
  BY <1>1, <1>2

----------------------------------------------------------------------------
(* A recursive function over a finite domain, whose value at a member rests *)
(* on its values at the parts of that member, exists if no members rest on  *)
(* one another in a circle: H gives the value at a member from a function   *)
(* of which it asks the parts only.                                         *)
Grounded(T, D) == \A U \in SUBSET T : U # {} => \E t \in U : D[t] \cap U = {}

AsksParts(H, T, V, D) ==
  /\ H \in [T \X [T -> V] -> V]
  /\ \A t \in T : \A f, g \in [T -> V] :
       (\A p \in D[t] : f[p] = g[p]) => H[<<t, f>>] = H[<<t, g>>]

Solution(f, T, H) == \A t \in T : f[t] = H[<<t, f>>]

(* A recursive definition that asks for parts only, over a finite set in  *)
(* which no member rests on itself, has a solution.                       *)
LEMMA RecursionExists ==
  ASSUME NEW T, IsFiniteSet(T), NEW V, V # {}, NEW D, D \in [T -> SUBSET T], Grounded(T, D),
         NEW H, AsksParts(H, T, V, D)
  PROVE  \E f \in [T -> V] : Solution(f, T, H)
<1>0. /\ H \in [T \X [T -> V] -> V]
      /\ \A t \in T : \A f, g \in [T -> V] :
           (\A p \in D[t] : f[p] = g[p]) => H[<<t, f>>] = H[<<t, g>>]
  BY DEF AsksParts
<1> DEFINE Solves(f, G) == \A t \in G : D[t] \subseteq G /\ f[t] = H[<<t, f>>]
           Reached(n, f, G) == Solves(f, G) /\ (G = T \/ Cardinality(G) >= n)
           N == {n \in Nat : \E f \in [T -> V] : \E G \in SUBSET T : Reached(n, f, G)}
<1>1. 0 \in N
  <2>1. PICK v \in V : TRUE
    OBVIOUS
  <2>2. [t \in T |-> v] \in [T -> V] /\ {} \in SUBSET T
    BY <2>1
  <2>3. Reached(0, [t \in T |-> v], {})
    BY FS_EmptySet
  <2> HIDE DEF Reached
  <2> QED
    BY <2>2, <2>3
<1>2. ASSUME NEW n \in N
      PROVE  n + 1 \in N
  <2>1. PICK f \in [T -> V] : \E G \in SUBSET T : Reached(n, f, G)
    OBVIOUS
  <2>2. PICK G \in SUBSET T : Reached(n, f, G)
    BY <2>1
  <2>3. n \in Nat /\ n + 1 \in Nat
    OBVIOUS
  <2>4. CASE G = T
    <3>1. Reached(n + 1, f, G)
      BY <2>2, <2>4
    <3> HIDE DEF Reached
    <3> QED
      BY <2>3, <3>1
  <2>5. CASE G # T
    <3>1. T \ G \in SUBSET T /\ T \ G # {}
      BY <2>5
    <3>2. PICK t \in T \ G : D[t] \cap (T \ G) = {}
      BY <3>1 DEF Grounded
    <3>3. D[t] \subseteq G /\ t \in T /\ t \notin G
      BY <3>2
    <3> DEFINE g == [f EXCEPT ![t] = H[<<t, f>>]]
    <3>4. H[<<t, f>>] \in V
      BY <1>0, <3>3
    <3>5. g \in [T -> V] /\ g[t] = H[<<t, f>>] /\ \A s \in T \ {t} : g[s] = f[s]
      BY <3>3, <3>4
    <3> HIDE DEF g
    <3>6. ASSUME NEW s \in T, D[s] \subseteq G
          PROVE  H[<<s, g>>] = H[<<s, f>>]
      <4>1. \A p \in D[s] : g[p] = f[p]
        BY <3>3, <3>5, <3>6
      <4> QED
        BY <1>0, <3>5, <4>1
    <3>7. Solves(g, G \cup {t})
      <4>1. ASSUME NEW s \in G
            PROVE  D[s] \subseteq G /\ g[s] = H[<<s, g>>]
        <5>1. D[s] \subseteq G /\ f[s] = H[<<s, f>>] /\ s \in T /\ s # t
          BY <2>2, <3>3
        <5> QED
          BY <3>5, <3>6, <5>1
      <4>2. g[t] = H[<<t, g>>]
        BY <3>3, <3>5, <3>6
      <4> QED
        BY <3>3, <4>1, <4>2
    <3>8. Cardinality(G \cup {t}) >= n + 1
      <4>1. IsFiniteSet(G) /\ Cardinality(G) >= n
        BY <2>2, <2>5, FS_Subset
      <4>2. Cardinality(G) \in Nat /\ Cardinality(G \cup {t}) = Cardinality(G) + 1
        BY <3>3, <4>1, FS_CardinalityType, FS_AddElement
      <4> QED
        BY <2>3, <4>1, <4>2
    <3>9. G \cup {t} \in SUBSET T
      BY <3>3
    <3>10. Reached(n + 1, g, G \cup {t})
      BY <3>7, <3>8
    <3> HIDE DEF Reached
    <3> QED
      BY <2>3, <3>5, <3>9, <3>10
  <2> QED
    BY <2>4, <2>5
<1>3. N = Nat
  <2>1. N \in SUBSET Nat
    OBVIOUS
  <2> HIDE DEF N
  <2> QED
    BY <1>1, <1>2, <2>1, NatSetInduction
<1>4. Cardinality(T) + 1 \in N
  <2>1. Cardinality(T) \in Nat
    BY FS_CardinalityType
  <2> HIDE DEF N
  <2> QED
    BY <1>3, <2>1
<1>5. PICK f \in [T -> V] : \E G \in SUBSET T : Reached(Cardinality(T) + 1, f, G)
  BY <1>4
<1>6. PICK G \in SUBSET T : Reached(Cardinality(T) + 1, f, G)
  BY <1>5
<1>7. G = T
  <2>1. Cardinality(G) <= Cardinality(T) /\ Cardinality(G) \in Nat /\ Cardinality(T) \in Nat
    BY FS_Subset, FS_CardinalityType
  <2>2. ~(Cardinality(G) >= Cardinality(T) + 1)
    BY <2>1
  <2> QED
    BY <1>6, <2>2
<1> QED
  BY <1>6, <1>7 DEF Solution

(* FlattenSeq glues the pieces one by one.                                  *)
LEMMA FlattenSteps ==
  ASSUME NEW S, NEW m \in Nat, NEW pieces \in [1 .. m -> Seq(S)]
  PROVE  \E g \in [0 .. m -> Seq(S)] :
           /\ g[0] = <<>>
           /\ \A i \in 1 .. m : g[i] = g[i - 1] \o pieces[i]
           /\ FlattenSeq(pieces) = g[m]
<1> DEFINE Steps(g, n) == g[0] = <<>> /\ \A i \in 1 .. n : g[i] = g[i - 1] \o pieces[i]
           T == {n \in 0 .. m : \E g \in [0 .. m -> Seq(S)] : Steps(g, n)}
<1>1. <<>> \in Seq(S)
  BY EmptySeq
<1>2. 0 \in T
  <2>1. [i \in 0 .. m |-> <<>>] \in [0 .. m -> Seq(S)]
    BY <1>1
  <2>2. Steps([i \in 0 .. m |-> <<>>], 0)
    OBVIOUS
  <2>3. 0 \in 0 .. m
    OBVIOUS
  <2> HIDE DEF Steps
  <2> QED
    BY <2>1, <2>2, <2>3
<1>3. ASSUME NEW n \in T, n < m
      PROVE  n + 1 \in T
  <2>1. n \in 0 .. m /\ n + 1 \in 1 .. m /\ n + 1 \in 0 .. m /\ n + 1 - 1 = n
    BY <1>3
  <2>2. PICK g \in [0 .. m -> Seq(S)] : Steps(g, n)
    OBVIOUS
  <2>3. PICK k \in 1 .. m : k = n + 1 /\ k - 1 = n /\ k \in 0 .. m
    BY <2>1
  <2>4. g[n] \in Seq(S) /\ pieces[k] \in Seq(S)
    BY <2>1, <2>3
  <2>5. g[n] \o pieces[k] \in Seq(S)
    BY <2>4, ConcatProperties
  <2> DEFINE h == [g EXCEPT ![k] = g[n] \o pieces[k]]
  <2>6. h \in [0 .. m -> Seq(S)] /\ h[k] = g[n] \o pieces[k] /\ \A i \in 0 .. m : i # k => h[i] = g[i]
    BY <2>3, <2>5
  <2> HIDE DEF h
  <2>7. h[0] = <<>>
    BY <2>2, <2>3, <2>6
  <2>8. ASSUME NEW i \in 1 .. n + 1
        PROVE  h[i] = h[i - 1] \o pieces[i]
    <3>1. CASE i = k
      <4>1. h[n] = g[n]
        BY <2>1, <2>3, <2>6
      <4> QED
        BY <2>3, <2>6, <3>1, <4>1
    <3>2. CASE i # k
      <4>1. i \in 1 .. n /\ i \in 0 .. m /\ i - 1 \in 0 .. m /\ i - 1 # k
        BY <2>1, <2>3, <3>2
      <4>2. g[i] = g[i - 1] \o pieces[i]
        BY <2>2, <4>1
      <4> QED
        BY <2>6, <3>2, <4>1, <4>2
    <3> QED
      BY <3>1, <3>2
  <2>9. Steps(h, n + 1)
    BY <2>7, <2>8
  <2> HIDE DEF Steps
  <2> QED
    BY <2>1, <2>6, <2>9
<1>4. T = 0 .. m
  <2>1. T \in SUBSET (0 .. m)
    OBVIOUS
  <2> HIDE DEF T
  <2> QED
    BY <1>2, <1>3, <2>1, UptoInduction
<1>5. m \in T
  <2>1. m \in 0 .. m
    OBVIOUS
  <2> HIDE DEF T
  <2> QED
    BY <1>4, <2>1
<1>6. PICK g \in [0 .. m -> Seq(S)] : Steps(g, m)
  BY <1>5
<1>7. pieces \in Seq(Seq(S)) /\ Len(pieces) = m
  BY FunctionIsSeq
<1>8. FlattenSeq(pieces) = g[m]
  <2>1. CASE m = 0
    <3>1. FlattenSeq(pieces) = pieces /\ pieces = <<>>
      BY <1>7, <2>1 DEF FlattenSeq
    <3> QED
      BY <1>6, <2>1, <3>1
  <2>2. CASE m # 0
    <3> DEFINE f == [i \in 1 .. m |-> g[i]]
               flatten == CHOOSE e : Glues(e, pieces, m)
    <3>1. ASSUME NEW i \in 1 .. m
          PROVE  f[i] = IF i = 1 THEN pieces[i] ELSE f[i - 1] \o pieces[i]
      <4>1. g[i] = g[i - 1] \o pieces[i]
        BY <1>6
      <4>2. CASE i = 1
        <5>1. g[1 - 1] = <<>>
          BY <1>6
        <5>2. pieces[1] \in Seq(S)
          BY <4>2
        <5>3. <<>> \o pieces[1] = pieces[1]
          BY <5>2, ConcatEmptySeq
        <5> QED
          BY <4>1, <4>2, <5>1, <5>3
      <4>3. CASE i # 1
        <5>1. i - 1 \in 1 .. m
          BY <4>3
        <5> QED
          BY <4>1, <4>3, <5>1
      <4> QED
        BY <4>2, <4>3
    <3>2. Glues(f, pieces, m)
      BY <3>1 DEF Glues
    <3>3. Glues(flatten, pieces, m)
      <4> HIDE DEF f
      <4> QED
        BY <3>2
    <3>4. FlattenSeq(pieces) = flatten[m]
      BY <1>7, <2>2 DEF FlattenSeq, Glues
    <3>5. f[m] = g[m]
      <4>1. m \in 1 .. m
        BY <2>2
      <4> QED
        BY <4>1
    <3>6. flatten[m] = f[m]
      <4> HIDE DEF f, flatten
      <4> QED
        BY <2>2, <3>2, <3>3, GluedOnce
    <3> QED
      BY <3>4, <3>5, <3>6
  <2> QED
    BY <2>1, <2>2
<1> QED
  BY <1>6, <1>8

(* One more piece at the end of a glued list.                               *)
LEMMA FlattenOneMore ==
  ASSUME NEW S, NEW m \in Nat, NEW pieces \in [1 .. m -> Seq(S)], NEW more \in [1 .. m + 1 -> Seq(S)],
         \A i \in 1 .. m : more[i] = pieces[i]
  PROVE  FlattenSeq(more) = FlattenSeq(pieces) \o more[m + 1]
<1>1. PICK g \in [0 .. m -> Seq(S)] :
        /\ g[0] = <<>>
        /\ \A i \in 1 .. m : g[i] = g[i - 1] \o pieces[i]
        /\ FlattenSeq(pieces) = g[m]
  BY FlattenSteps
<1>2. PICK n \in Nat : n = m + 1
  OBVIOUS
<1>3. PICK h \in [0 .. n -> Seq(S)] :
        /\ h[0] = <<>>
        /\ \A i \in 1 .. n : h[i] = h[i - 1] \o more[i]
        /\ FlattenSeq(more) = h[n]
  <2>1. more \in [1 .. n -> Seq(S)]
    BY <1>2
  <2> QED
    BY <2>1, FlattenSteps
<1> DEFINE T == {i \in 0 .. m : g[i] = h[i]}
<1>4. 0 \in T
  BY <1>1, <1>3
<1>5. ASSUME NEW i \in T, i < m
      PROVE  i + 1 \in T
  <2>1. i + 1 \in 0 .. m /\ i + 1 \in 1 .. m /\ i + 1 \in 1 .. n /\ (i + 1) - 1 = i
    BY <1>2, <1>5
  <2>2. g[i + 1] = g[i] \o pieces[i + 1] /\ h[i + 1] = h[i] \o more[i + 1]
    BY <1>1, <1>3, <2>1
  <2> QED
    BY <2>1, <2>2
<1>6. T = 0 .. m
  <2>1. T \in SUBSET (0 .. m)
    OBVIOUS
  <2> HIDE DEF T
  <2> QED
    BY <1>4, <1>5, <2>1, UptoInduction
<1>7. m \in T
  <2> HIDE DEF T
  <2> QED
    BY <1>6
<1>8. n \in 1 .. n /\ n - 1 = m
  BY <1>2
<1>9. h[n] = h[n - 1] \o more[n]
  BY <1>3, <1>8
<1>10. h[n] = g[m] \o more[n]
  BY <1>7, <1>8, <1>9
<1> QED
  BY <1>1, <1>2, <1>3, <1>10

(* A sum over the places of a list, from left to right.                     *)
LEMMA SumUpto ==
  ASSUME NEW n \in Nat, NEW f \in [1 .. n -> Nat], NEW h \in [0 .. n -> Nat], h[0] = 0,
         \A i \in 1 .. n : h[i] = h[i - 1] + f[i]
  PROVE  SumFunction(f) = h[n]
<1> DEFINE part(i) == [k \in 1 .. i |-> f[k]]
           T == {i \in 0 .. n : SumFunction(part(i)) = h[i]}
<1>0. ASSUME NEW i \in 0 .. n
      PROVE  part(i) \in [1 .. i -> Nat] /\ IsFiniteSet(1 .. i)
  <2>1. 1 .. i \subseteq 1 .. n
    OBVIOUS
  <2>2. IsFiniteSet(1 .. i)
    BY FS_Interval
  <2> QED
    BY <2>1, <2>2
<1>1. 0 \in T
  <2>1. SumFunction(part(0)) = 0
    <3>1. part(0) \in [1 .. 0 -> Nat] /\ IsFiniteSet(1 .. 0) /\ \A x \in 1 .. 0 : part(0)[x] = 0
      BY <1>0
    <3> HIDE DEF part
    <3> QED
      BY <3>1, SumOfNothing
  <2> QED
    BY <2>1
<1>2. ASSUME NEW i \in T, i < n
      PROVE  i + 1 \in T
  <2>1. i \in 0 .. n /\ i + 1 \in 1 .. n /\ i + 1 \in 0 .. n /\ i + 1 \in 1 .. i + 1 /\ (i + 1) - 1 = i
    BY <1>2
  <2>2. part(i + 1) \in [1 .. i + 1 -> Nat] /\ IsFiniteSet(1 .. i + 1)
    BY <1>0, <2>1
  <2>7. SumFunction(part(i)) = h[i]
    OBVIOUS
  <2>8. h[i + 1] = h[i] + f[i + 1]
    BY <2>1
  <2>9. h[i] \in Nat /\ f[i + 1] \in Nat
    BY <2>1
  <2> HIDE DEF T
  <2>3. PICK q \in [1 .. i + 1 -> Nat] : q = part(i + 1)
    BY <2>2
  <2>4. SumFunction(q) = q[i + 1] + SumFunction([y \in (1 .. i + 1) \ {i + 1} |-> q[y]])
    <3> HIDE DEF part
    <3>1. PICK D : D = 1 .. i + 1
      OBVIOUS
    <3>2. PICK x \in D : x = i + 1
      BY <2>1, <3>1
    <3>3. IsFiniteSet(D) /\ q \in [D -> Nat]
      BY <2>2, <3>1
    <3>4. SumFunction(q) = q[x] + SumFunction([y \in D \ {x} |-> q[y]])
      BY <3>3, SumSplit, ZenonT(90)
    <3> QED
      BY <3>1, <3>2, <3>4
  <2>5. (1 .. i + 1) \ {i + 1} = 1 .. i
    <3>1. i \in Nat
      BY <2>1
    <3> QED
      BY <3>1
  <2>6. [y \in (1 .. i + 1) \ {i + 1} |-> q[y]] = part(i) /\ q[i + 1] = f[i + 1]
    BY <2>1, <2>3, <2>5
  <2> HIDE DEF part
  <2>10. SumFunction(q) = f[i + 1] + SumFunction(part(i))
    BY <2>4, <2>6
  <2>11. SumFunction(q) = h[i + 1]
    BY <2>7, <2>8, <2>9, <2>10
  <2>12. SumFunction(part(i + 1)) = h[i + 1]
    BY <2>3, <2>11
  <2> QED
    BY <2>1, <2>12 DEF T
<1>3. T = 0 .. n
  <2>1. T \in SUBSET (0 .. n)
    OBVIOUS
  <2> HIDE DEF T
  <2> QED
    BY <1>1, <1>2, <2>1, UptoInduction
<1>4. n \in T
  <2>1. n \in 0 .. n
    OBVIOUS
  <2> HIDE DEF T
  <2> QED
    BY <1>3, <2>1
<1>5. part(n) = f
  OBVIOUS
<1> QED
  BY <1>4, <1>5

(* A sum of equal terms is a product.                                       *)
LEMMA SumOfEqual ==
  ASSUME NEW n \in Nat, NEW c \in Nat, NEW f \in [1 .. n -> Nat], \A i \in 1 .. n : f[i] = c
  PROVE  SumFunction(f) = n * c
<1> DEFINE h == [i \in 0 .. n |-> i * c]
<1>1. h \in [0 .. n -> Nat] /\ h[0] = 0 /\ h[n] = n * c
  OBVIOUS
<1>2. ASSUME NEW i \in 1 .. n
      PROVE  h[i] = h[i - 1] + f[i]
  <2>1. h[i] = i * c /\ h[i - 1] = (i - 1) * c /\ f[i] = c
    OBVIOUS
  <2>2. i * c = (i - 1) * c + c
    OBVIOUS
  <2> HIDE DEF h
  <2> QED
    BY <2>1, <2>2
<1> HIDE DEF h
<1> QED
  BY <1>1, <1>2, SumUpto

(* A glued list is as long as its pieces together.                          *)
LEMMA LengthOfFlatten ==
  ASSUME NEW S, NEW m \in Nat, NEW pieces \in [1 .. m -> Seq(S)]
  PROVE  /\ FlattenSeq(pieces) \in Seq(S)
         /\ Len(FlattenSeq(pieces)) = SumFunction([i \in 1 .. m |-> Len(pieces[i])])
<1>1. PICK g \in [0 .. m -> Seq(S)] :
        /\ g[0] = <<>>
        /\ \A i \in 1 .. m : g[i] = g[i - 1] \o pieces[i]
        /\ FlattenSeq(pieces) = g[m]
  BY FlattenSteps
<1> DEFINE h == [i \in 0 .. m |-> Len(g[i])]
           f == [i \in 1 .. m |-> Len(pieces[i])]
<1>2. h \in [0 .. m -> Nat] /\ f \in [1 .. m -> Nat]
  <2>1. ASSUME NEW i \in 0 .. m PROVE Len(g[i]) \in Nat
    <3>1. g[i] \in Seq(S)
      OBVIOUS
    <3> QED
      BY <3>1, LenProperties
  <2>2. ASSUME NEW i \in 1 .. m PROVE Len(pieces[i]) \in Nat
    <3>1. pieces[i] \in Seq(S)
      OBVIOUS
    <3> QED
      BY <3>1, LenProperties
  <2> QED
    BY <2>1, <2>2
<1>3. h[0] = 0
  BY <1>1
<1>4. ASSUME NEW i \in 1 .. m
      PROVE  h[i] = h[i - 1] + f[i]
  <2>1. i \in 0 .. m /\ i - 1 \in 0 .. m
    OBVIOUS
  <2>2. g[i] = g[i - 1] \o pieces[i] /\ g[i - 1] \in Seq(S) /\ pieces[i] \in Seq(S)
    BY <1>1, <2>1
  <2>3. Len(g[i]) = Len(g[i - 1]) + Len(pieces[i])
    BY <2>2, ConcatProperties
  <2> QED
    BY <2>1, <2>3
<1>5. h[m] = Len(FlattenSeq(pieces)) /\ FlattenSeq(pieces) \in Seq(S)
  BY <1>1
<1> HIDE DEF h, f
<1>6. SumFunction(f) = h[m]
  BY <1>2, <1>3, <1>4, SumUpto
<1> QED
  BY <1>5, <1>6 DEF f

(* A set of places of a list has a first and a last one, unless it is empty.*)
LEMMA FirstAndLast ==
  ASSUME NEW n \in Nat, NEW S \in SUBSET (1 .. n), S # {}
  PROVE  /\ \E x \in S : \A y \in S : x <= y
         /\ \E x \in S : \A y \in S : y <= x
<1>1. ASSUME ~ \E x \in S : \A y \in S : x <= y
      PROVE  FALSE
  <2> DEFINE T == {k \in 0 .. n : \A j \in S : j > k}
  <2>1. 0 \in T
    OBVIOUS
  <2>2. ASSUME NEW k \in T, k < n
        PROVE  k + 1 \in T
    <3>1. k \in 0 .. n /\ \A j \in S : j > k
      OBVIOUS
    <3>2. ASSUME k + 1 \in S PROVE FALSE
      <4>1. \A j \in S : k + 1 <= j
        BY <3>1
      <4> QED
        BY <1>1, <3>2, <4>1
    <3>3. \A j \in S : j > k + 1
      BY <3>1, <3>2
    <3> QED
      BY <2>2, <3>1, <3>3
  <2>3. T = 0 .. n
    <3>1. T \in SUBSET (0 .. n)
      OBVIOUS
    <3> HIDE DEF T
    <3> QED
      BY <2>1, <2>2, <3>1, UptoInduction
  <2>4. n \in T
    <3>1. n \in 0 .. n
      OBVIOUS
    <3> HIDE DEF T
    <3> QED
      BY <2>3, <3>1
  <2>5. PICK j \in S : j \in 1 .. n
    OBVIOUS
  <2> QED
    BY <2>4, <2>5
<1>2. ASSUME ~ \E x \in S : \A y \in S : y <= x
      PROVE  FALSE
  <2> DEFINE T == {k \in 0 .. n : \A j \in S : j <= n - k}
  <2>1. 0 \in T
    OBVIOUS
  <2>2. ASSUME NEW k \in T, k < n
        PROVE  k + 1 \in T
    <3>1. k \in 0 .. n /\ \A j \in S : j <= n - k
      OBVIOUS
    <3>2. ASSUME n - k \in S PROVE FALSE
      BY <1>2, <3>1, <3>2
    <3>3. \A j \in S : j <= n - (k + 1)
      BY <3>1, <3>2
    <3> QED
      BY <2>2, <3>1, <3>3
  <2>3. T = 0 .. n
    <3>1. T \in SUBSET (0 .. n)
      OBVIOUS
    <3> HIDE DEF T
    <3> QED
      BY <2>1, <2>2, <3>1, UptoInduction
  <2>4. n \in T
    <3>1. n \in 0 .. n
      OBVIOUS
    <3> HIDE DEF T
    <3> QED
      BY <2>3, <3>1
  <2>5. PICK j \in S : j \in 1 .. n
    OBVIOUS
  <2> QED
    BY <2>4, <2>5
<1> QED
  BY <1>1, <1>2

-----------------------------------------------------------------------------
(* Folding a list from the left takes the last of the places from those     *)
(* that are left; over all places up to one, that is the place itself.      *)
LEMMA LastPlace ==
  ASSUME NEW m \in Nat
  PROVE  /\ \A T \in SUBSET (1 .. m) : T # {} => Max(T) \in T
         /\ \A k \in 1 .. m : Max(1 .. k) = k /\ (1 .. k) \ {k} = 1 .. k - 1
<1>1. ASSUME NEW T \in SUBSET (1 .. m), T # {}
      PROVE  Max(T) \in T
  <2>1. PICK x \in T : \A y \in T : y <= x
    BY <1>1, FirstAndLast
  <2>2. x \in T /\ \A y \in T : x >= y
    <3>1. \A y \in T : y \in Nat /\ x \in Nat
      OBVIOUS
    <3> QED
      BY <2>1, <3>1
  <2> QED
    BY <2>2 DEF Max
<1>2. ASSUME NEW k \in 1 .. m
      PROVE  Max(1 .. k) = k /\ (1 .. k) \ {k} = 1 .. k - 1
  <2>1. k \in 1 .. k /\ \A y \in 1 .. k : k >= y
    OBVIOUS
  <2>2. PICK x : x = Max(1 .. k)
    OBVIOUS
  <2>3. x \in 1 .. k /\ \A y \in 1 .. k : x >= y
    BY <2>1, <2>2 DEF Max
  <2>4. x = k
    BY <2>1, <2>3
  <2> QED
    BY <2>2, <2>4
<1> QED
  BY <1>1, <1>2

(* The fold of a step F over every subset of the places.                    *)
IsFold(it, F, base, m) ==
  \A T \in SUBSET (1 .. m) : it[T] = IF T = {} THEN base ELSE F[<<it[T \ {Max(T)}], Max(T)>>]

(* There is one for a step that keeps to a set of values.                   *)
LEMMA FoldExists ==
  ASSUME NEW m \in Nat, NEW V, NEW base \in V, NEW F \in [V \X (1 .. m) -> V]
  PROVE  \E it \in [SUBSET (1 .. m) -> V] : IsFold(it, F, base, m)
<1> DEFINE P == SUBSET (1 .. m)
           D == [T \in P |-> IF T = {} THEN {} ELSE {T \ {Max(T)}}]
           Value(T, f) == IF T = {} THEN base ELSE F[<<f[T \ {Max(T)}], Max(T)>>]
           H == [p \in P \X [P -> V] |-> Value(p[1], p[2])]
<1>1. IsFiniteSet(P) /\ \A T \in P : IsFiniteSet(T)
  <2>1. IsFiniteSet(1 .. m)
    BY FS_Interval
  <2> QED
    BY <2>1, FS_SUBSET, FS_Subset
<1>2. \A T \in P : T # {} => Max(T) \in T /\ Max(T) \in 1 .. m /\ T \ {Max(T)} \in P
  BY LastPlace
<1>3. D \in [P -> SUBSET P]
  <2>1. \A T \in P : (IF T = {} THEN {} ELSE {T \ {Max(T)}}) \in SUBSET P
    BY <1>2
  <2> HIDE DEF P
  <2> QED
    BY <2>1
<1>4. Grounded(P, D)
  <2> SUFFICES ASSUME NEW U \in SUBSET P, U # {}, \A T \in U : D[T] \cap U # {} PROVE FALSE
    BY DEF Grounded
  <2>1. ASSUME NEW T \in U
        PROVE  T # {} /\ T \ {Max(T)} \in U /\ T \in P
    <3>1. T \in P /\ D[T] \cap U # {}
      OBVIOUS
    <3>2. D[T] = IF T = {} THEN {} ELSE {T \ {Max(T)}}
      BY <3>1
    <3> QED
      BY <3>1, <3>2
  <2>2. ASSUME NEW T \in U
        PROVE  /\ Cardinality(T) \in Nat /\ Cardinality(T \ {Max(T)}) \in Nat
               /\ Cardinality(T) = Cardinality(T \ {Max(T)}) + 1
    <3>1. T # {} /\ T \in P /\ IsFiniteSet(T) /\ Max(T) \in T
      BY <1>1, <1>2, <2>1
    <3>2. Cardinality(T \ {Max(T)}) = Cardinality(T) - 1 /\ Cardinality(T) \in Nat /\ IsFiniteSet(T \ {Max(T)})
      BY <3>1, FS_RemoveElement, FS_CardinalityType
    <3>3. Cardinality(T \ {Max(T)}) \in Nat
      BY <3>2, FS_CardinalityType
    <3> QED
      BY <3>2, <3>3
  <2> DEFINE N == {n \in Nat : \A T \in U : Cardinality(T) >= n}
  <2>3. N \in SUBSET Nat /\ 0 \in N
    <3>1. ASSUME NEW T \in U
          PROVE  Cardinality(T) >= 0
      <4>1. PICK c \in Nat : c = Cardinality(T)
        BY <2>2
      <4> QED
        BY <4>1
    <3> QED
      BY <3>1
  <2>4. ASSUME NEW n \in N
        PROVE  n + 1 \in N
    <3>1. n \in Nat /\ \A T \in U : Cardinality(T) >= n
      OBVIOUS
    <3>2. ASSUME NEW T \in U
          PROVE  Cardinality(T) >= n + 1
      <4>1. Cardinality(T \ {Max(T)}) >= n
        BY <2>1, <3>1
      <4> QED
        BY <2>2, <3>1, <4>1
    <3> QED
      BY <3>1, <3>2
  <2>5. N = Nat
    <3> HIDE DEF N
    <3> QED
      BY <2>3, <2>4, NatSetInduction
  <2>6. PICK T \in U : TRUE
    OBVIOUS
  <2>7. PICK c \in Nat : c = Cardinality(T)
    BY <2>2
  <2>8. c + 1 \in N
    BY <2>5
  <2> QED
    BY <2>7, <2>8
<1>5. H \in [P \X [P -> V] -> V]
  <2>1. ASSUME NEW T \in P, NEW f \in [P -> V]
        PROVE  Value(T, f) \in V
    <3>1. CASE T = {}
      BY <3>1
    <3>2. CASE T # {}
      <4>1. T \ {Max(T)} \in P /\ Max(T) \in 1 .. m
        BY <1>2, <3>2
      <4>2. f[T \ {Max(T)}] \in V
        BY <4>1
      <4> QED
        BY <3>2, <4>1, <4>2
    <3> QED
      BY <3>1, <3>2
  <2> HIDE DEF P, Value
  <2> QED
    BY <2>1
<1>6. ASSUME NEW T \in P, NEW f \in [P -> V]
      PROVE  H[<<T, f>>] = Value(T, f)
  <2> HIDE DEF P, Value
  <2> QED
    OBVIOUS
<1>7. ASSUME NEW T \in P, NEW f \in [P -> V], NEW g \in [P -> V], \A p \in D[T] : f[p] = g[p]
      PROVE  H[<<T, f>>] = H[<<T, g>>]
  <2>1. T # {} => f[T \ {Max(T)}] = g[T \ {Max(T)}]
    BY <1>7
  <2>2. Value(T, f) = Value(T, g)
    BY <2>1
  <2> HIDE DEF H, Value, P
  <2> QED
    BY <1>6, <2>2
<1>8. AsksParts(H, P, V, D)
  <2> HIDE DEF H, D, P
  <2> QED
    BY <1>5, <1>7 DEF AsksParts
<1>9. PICK it \in [P -> V] : Solution(it, P, H)
  <2> HIDE DEF H, D, P
  <2> QED
    BY <1>1, <1>3, <1>4, <1>8, RecursionExists
<1>10. \A T \in P : it[T] = Value(T, it)
  <2> HIDE DEF P, H, Value
  <2> QED
    BY <1>6, <1>9 DEF Solution
<1>11. IsFold(it, F, base, m)
  BY <1>10 DEF IsFold
<1> QED
  BY <1>9, <1>11
=============================================================================
