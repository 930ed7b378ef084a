------------------------ MODULE DecodedBlock_proofs ------------------------
(* Proofs about DecodedBlock: the column of times gives back what it was    *)
(* given and is searched as the list of times is, the columns of values     *)
(* give back every value, and the slices of a block and of a value are the  *)
(* parts asked for, for any widths, times, values and number of changes.    *)
EXTENDS DecodedBlock, DataInduction

(* What a column in either form stands for. *)
Columns == [base : Int, narrow : Seq(Int), wide : Seq(Int)]

StandsFor(c, times) ==
  /\ c \in Columns
  /\ c.narrow = <<>> \/ c.wide = <<>>
  /\ c.wide # <<>> => c.wide = times
  /\ c.wide = <<>> => /\ Len(c.narrow) = Len(times)
                      /\ \A i \in 1 .. Len(times) : c.base + c.narrow[i] = times[i]

(* append() keeps it, whichever form the column has and takes. *)
LEMMA AddedStandsFor ==
  ASSUME NEW c, NEW times \in Seq(Int), NEW t \in Int, StandsFor(c, times)
  PROVE  StandsFor(Column!Added(c, t), Append(times, t))
<1> DEFINE more == Append(times, t)
<1>1. /\ more \in Seq(Int) /\ Len(more) = Len(times) + 1 /\ more[Len(times) + 1] = t
      /\ \A i \in 1 .. Len(times) : more[i] = times[i]
  OBVIOUS
<1>2. more # <<>>
  BY <1>1
<1>3. c \in Columns /\ c.base \in Int /\ c.narrow \in Seq(Int) /\ c.wide \in Seq(Int)
  BY DEF StandsFor, Columns
<1> HIDE DEF more
<1>4. CASE c.wide # <<>>
  <2>1. c.narrow = <<>> /\ c.wide = times
    BY <1>4 DEF StandsFor
  <2>2. Column!Added(c, t) = [c EXCEPT !.wide = Append(@, t)]
    BY <1>4 DEF Column!Added, Column!IsWide
  <2>3. Column!Added(c, t) = [c EXCEPT !.wide = more]
    BY <2>1, <2>2 DEF more
  <2>4. QED
    BY <1>1, <1>2, <1>3, <2>1, <2>3 DEF StandsFor, Columns, more
<1>5. CASE c.wide = <<>> /\ c.narrow = <<>>
  <2>1. times = <<>>
    BY <1>5 DEF StandsFor
  <2>2. Column!Added(c, t) = [c EXCEPT !.base = t, !.narrow = <<0>>]
    BY <1>5 DEF Column!Added, Column!IsWide
  <2>3. Len(more) = 1 /\ more[1] = t
    BY <1>1, <2>1
  <2>4. <<0>> \in Seq(Int) /\ Len(<<0>>) = 1 /\ <<0>>[1] = 0
    OBVIOUS
  <2>5. /\ Column!Added(c, t) \in Columns /\ Column!Added(c, t).base = t
        /\ Column!Added(c, t).narrow = <<0>> /\ Column!Added(c, t).wide = <<>>
    BY <1>3, <1>5, <2>2, <2>4 DEF Columns
  <2>6. QED
    BY <2>3, <2>4, <2>5 DEF StandsFor, more
<1>6. CASE c.wide = <<>> /\ c.narrow # <<>>
  <2>1. Len(c.narrow) = Len(times) /\ \A i \in 1 .. Len(times) : c.base + c.narrow[i] = times[i]
    BY <1>6 DEF StandsFor
  <2>2. CASE t < c.base \/ Column!OffsetFromBase(c, t) > Column!MaxNarrow
    <3> DEFINE absolute == [i \in DOMAIN c.narrow |-> c.base + c.narrow[i]]
    <3>1. absolute = times
      <4>1. DOMAIN c.narrow = 1 .. Len(times) /\ DOMAIN times = 1 .. Len(times)
        BY <1>3, <2>1
      <4>2. times = [i \in 1 .. Len(times) |-> times[i]]
        OBVIOUS
      <4>3. QED
        BY <2>1, <4>1, <4>2
    <3>2. Column!Promoted(c) = [c EXCEPT !.wide = times, !.narrow = <<>>]
      BY <3>1 DEF Column!Promoted
    <3> HIDE DEF absolute
    <3>3. Column!Added(c, t) = [Column!Promoted(c) EXCEPT !.wide = Append(@, t)]
      BY <1>6, <2>2 DEF Column!Added, Column!IsWide
    <3>4. /\ Column!Promoted(c) \in Columns
          /\ Column!Promoted(c).wide = times /\ Column!Promoted(c).narrow = <<>>
      <4>1. <<>> \in Seq(Int) /\ times \in Seq(Int)
        OBVIOUS
      <4>2. QED
        BY <1>3, <3>2, <4>1 DEF Columns
    <3>5. Column!Added(c, t) = [Column!Promoted(c) EXCEPT !.wide = more]
      BY <3>3, <3>4 DEF more
    <3>6. /\ Column!Added(c, t) \in Columns
          /\ Column!Added(c, t).wide = more /\ Column!Added(c, t).narrow = <<>>
      BY <1>1, <3>4, <3>5 DEF Columns
    <3>7. QED
      BY <1>2, <3>6 DEF StandsFor, more
  <2>3. CASE ~(t < c.base \/ Column!OffsetFromBase(c, t) > Column!MaxNarrow)
    <3> DEFINE offsets == Append(c.narrow, t - c.base)
    <3>1. Column!OffsetFromBase(c, t) = t - c.base
      BY <1>3, <2>3 DEF Column!OffsetFromBase
    <3>2. Column!Added(c, t) = [c EXCEPT !.narrow = Append(@, Column!OffsetFromBase(c, t))]
      BY <1>6, <2>3 DEF Column!Added, Column!IsWide
    <3>3. Column!Added(c, t) = [c EXCEPT !.narrow = offsets]
      BY <3>1, <3>2
    <3>4. \A d \in Int : \A list \in Seq(Int) :
            /\ Append(list, d) \in Seq(Int) /\ Len(Append(list, d)) = Len(list) + 1
            /\ Append(list, d)[Len(list) + 1] = d
            /\ \A i \in 1 .. Len(list) : Append(list, d)[i] = list[i]
      OBVIOUS
    <3>5. t - c.base \in Int
      BY <1>3
    <3>6. /\ offsets \in Seq(Int) /\ Len(offsets) = Len(times) + 1
          /\ offsets[Len(times) + 1] = t - c.base
          /\ \A i \in 1 .. Len(times) : offsets[i] = c.narrow[i]
      BY <1>3, <2>1, <3>4, <3>5
    <3> HIDE DEF offsets
    <3>7. /\ Column!Added(c, t) \in Columns /\ Column!Added(c, t).base = c.base
          /\ Column!Added(c, t).narrow = offsets /\ Column!Added(c, t).wide = <<>>
      BY <1>3, <1>6, <3>3, <3>6 DEF Columns
    <3>8. \A i \in 1 .. Len(more) : c.base + offsets[i] = more[i]
      <4> TAKE i \in 1 .. Len(more)
      <4>1. CASE i \in 1 .. Len(times)
        BY <1>1, <2>1, <3>6, <4>1
      <4>2. CASE i = Len(times) + 1
        BY <1>1, <1>3, <3>6, <4>2
      <4>3. QED
        BY <1>1, <4>1, <4>2
    <3>9. QED
      BY <1>1, <3>6, <3>7, <3>8 DEF StandsFor, more
  <2>4. QED
    BY <2>2, <2>3
<1>7. QED
  BY <1>4, <1>5, <1>6

(* A column that stands for times gives them back. *)
LEMMA StandsForIsExact ==
  ASSUME NEW c, NEW times \in Seq(Int), StandsFor(c, times)
  PROVE  Column!TimesOf(c) = times
<1>1. Column!Size(c) = Len(times)
  BY DEF StandsFor, Column!Size, Column!IsWide
<1>2. ASSUME NEW i \in 1 .. Len(times)
      PROVE  Column!TimeAt(c, i - 1) = times[i]
  <2>1. i - 1 < Column!Size(c) /\ ~(i - 1 >= Column!Size(c)) /\ i - 1 + 1 = i
    BY <1>1
  <2>2. CASE c.wide # <<>>
    BY <2>1, <2>2 DEF StandsFor, Column!TimeAt, Column!IsWide
  <2>3. CASE c.wide = <<>>
    BY <2>1, <2>3 DEF StandsFor, Column!TimeAt, Column!IsWide
  <2>4. QED
    BY <2>2, <2>3
<1>3. times = [i \in 1 .. Len(times) |-> times[i]]
  OBVIOUS
<1>4. QED
  BY <1>1, <1>2, <1>3 DEF Column!TimesOf

-----------------------------------------------------------------------------
Changes == UNION {{<<c[1], c[2]>> : c \in Samples[s.kind]} : s \in Streams}
Shape == {"kind", "width", "times", "aval", "bval", "reals", "arena", "offsets"}

Kept ==
  /\ block = [x \in Shape |-> block[x]]
  /\ \E s \in Streams : block.kind = s.kind
  /\ history \in Seq(Changes)
  /\ Times \in Seq(Int)
  /\ StandsFor(block.times, Times)

(* The times of a longer history. *)
LEMMA TimesOfLonger ==
  ASSUME NEW change \in Changes, history \in Seq(Changes), history' = Append(history, change)
  PROVE  /\ Times \in Seq(Int) /\ change[1] \in Int
         /\ history' \in Seq(Changes) /\ Times' = Append(Times, change[1])
<1>1. \A c \in Changes : c[1] \in Int
  BY SamplesAssumption DEF SamplesAssumption, Changes
<1>2. \A S : \A list \in Seq(S) : \A i \in 1 .. Len(list) : list[i] \in S
  OBVIOUS
<1>3. /\ Times = [i \in 1 .. Len(history) |-> history[i][1]]
      /\ \A i \in 1 .. Len(history) : history[i][1] \in Int
  BY <1>1, <1>2 DEF Times
<1>4. Times \in Seq(Int) /\ Len(Times) = Len(history)
  BY <1>3
<1>5. /\ history' \in Seq(Changes) /\ Len(history') = Len(history) + 1
      /\ history'[Len(history) + 1] = change
      /\ \A i \in 1 .. Len(history) : history'[i] = history[i]
  OBVIOUS
<1>6. Times' = [i \in 1 .. Len(history) + 1 |-> history'[i][1]]
  BY <1>5 DEF Times
<1>7. change[1] \in Int
  BY <1>1
<1>8. Append(Times, change[1]) = [i \in 1 .. Len(history) + 1 |-> IF i = Len(history) + 1 THEN change[1] ELSE Times[i]]
  BY <1>4, <1>7
<1>9. \A i \in 1 .. Len(history) + 1 :
        history'[i][1] = IF i = Len(history) + 1 THEN change[1] ELSE Times[i]
  BY <1>3, <1>5
<1>10. QED
  BY <1>4, <1>5, <1>6, <1>7, <1>8, <1>9

(* A value goes to the column of its kind and leaves the times alone. *)
LEMMA ValueLeavesTimes ==
  ASSUME NEW v, Kept
  PROVE  /\ WithValue(block, v) = [x \in Shape |-> WithValue(block, v)[x]]
         /\ WithValue(block, v).times = block.times
         /\ WithValue(block, v).kind = block.kind
<1>1. block = [x \in Shape |-> block[x]] /\ block.kind \in {"NONE", "LOGIC", "REAL", "STRING"}
  BY SamplesAssumption DEF Kept, SamplesAssumption, KindCode
<1>2. \A a, b : [block EXCEPT !.aval = a, !.bval = b] = [x \in Shape |-> CASE x = "aval" -> a [] x = "bval" -> b [] OTHER -> block[x]]
  BY <1>1 DEF Shape
<1>3. \A a : [block EXCEPT !.reals = a] = [x \in Shape |-> IF x = "reals" THEN a ELSE block[x]]
  BY <1>1 DEF Shape
<1>4. \A a, b : [block EXCEPT !.arena = a, !.offsets = b] = [x \in Shape |-> CASE x = "arena" -> a [] x = "offsets" -> b [] OTHER -> block[x]]
  BY <1>1 DEF Shape
<1>5. CASE block.kind = "NONE"
  BY <1>1, <1>5 DEF WithValue
<1>6. CASE block.kind = "LOGIC"
  <2>1. PICK a, b : WithValue(block, v) = [block EXCEPT !.aval = a, !.bval = b]
    BY <1>6 DEF WithValue
  <2>2. QED
    BY <1>2, <2>1 DEF Shape
<1>7. CASE block.kind = "REAL"
  <2>1. PICK a : WithValue(block, v) = [block EXCEPT !.reals = a]
    BY <1>7 DEF WithValue
  <2>2. QED
    BY <1>3, <2>1 DEF Shape
<1>8. CASE block.kind = "STRING"
  <2>1. PICK a, b : WithValue(block, v) = [block EXCEPT !.arena = a, !.offsets = b]
    BY <1>8 DEF WithValue
  <2>2. QED
    BY <1>4, <2>1 DEF Shape
<1>9. QED
  BY <1>1, <1>5, <1>6, <1>7, <1>8

(* An empty block stands for no samples.                                  *)
LEMMA KeptInit == Init => Kept
<1> SUFFICES ASSUME Init PROVE Kept
  OBVIOUS
<1>1. PICK s \in Streams : block = Empty(s.kind, s.width)
  BY DEF Init
<1>2. /\ block = [x \in Shape |-> block[x]] /\ block.kind = s.kind
      /\ block.times = [base |-> 0, narrow |-> <<>>, wide |-> <<>>]
  BY <1>1 DEF Empty, Shape, Column!EmptyColumn
<1>3. history = <<>> /\ Times = <<>>
  BY DEF Init, Times
<1>4. StandsFor(block.times, <<>>)
  <2>1. <<>> \in Seq(Int) /\ Len(<<>>) = 0
    OBVIOUS
  <2> DEFINE new == [base |-> 0, narrow |-> <<>>, wide |-> <<>>]
  <2>2. new \in Columns /\ new.narrow = <<>> /\ new.wide = <<>>
    BY <2>1 DEF Columns
  <2>3. QED
    BY <1>2, <2>1, <2>2 DEF StandsFor
<1>5. QED
  BY <1>2, <1>3, <1>4 DEF Kept

(* appendChange() keeps the column of times in step with the samples.     *)
LEMMA KeptByStep ==
  ASSUME Kept, NEW change \in Samples[block.kind], AppendChange(change[1], change[2])
  PROVE  Kept'
<1> DEFINE valued == WithValue(block, change[2])
           pair == <<change[1], change[2]>>
<1>1. block' = [valued EXCEPT !.times = Column!Added(@, change[1])] /\ history' = Append(history, pair)
  BY DEF AppendChange
<1>2. pair \in Changes /\ pair[1] = change[1]
  BY DEF Kept, Changes
<1>3. valued = [x \in Shape |-> valued[x]] /\ valued.times = block.times /\ valued.kind = block.kind
  BY ValueLeavesTimes
<1> HIDE DEF valued, pair
<1>4. /\ block' = [x \in Shape |-> block'[x]] /\ block'.kind = block.kind
      /\ block'.times = Column!Added(block.times, change[1])
  BY <1>1, <1>3 DEF Shape
<1>5. /\ Times \in Seq(Int) /\ pair[1] \in Int
      /\ history' \in Seq(Changes) /\ Times' = Append(Times, pair[1])
  BY <1>1, <1>2, TimesOfLonger DEF Kept
<1>6. StandsFor(block.times, Times)
  BY DEF Kept
<1>7. StandsFor(block'.times, Append(Times, change[1]))
  BY <1>2, <1>4, <1>5, <1>6, AddedStandsFor
<1>8. Times' \in Seq(Int)
  BY <1>5
<1>9. StandsFor(block'.times, Times')
  BY <1>2, <1>5, <1>7
<1>10. QED
  BY <1>4, <1>5, <1>8, <1>9 DEF Kept

(* So does every step.                                                    *)
LEMMA KeptByNext == Kept /\ [Next]_vars => Kept'
<1> SUFFICES ASSUME Kept, [Next]_vars PROVE Kept'
  OBVIOUS
<1>1. CASE \E change \in Samples[block.kind] : AppendChange(change[1], change[2])
  BY <1>1, KeptByStep
<1>2. CASE UNCHANGED vars
  BY <1>2 DEF vars, Kept, Times
<1>3. QED
  BY <1>1, <1>2 DEF Next

(* The times of every change read back as they were given, however far      *)
(* apart they lie and even where they decrease: neither the change to       *)
(* absolute times nor an offset at the edge of 32 bits loses one            *)
(* (TimeColumn::append, operator[]).                                        *)
THEOREM TimesCorrect == Spec => []TimesExact
<1>1. Kept /\ [Next]_vars => Kept'
  BY KeptByNext
<1>2. Kept => TimesExact
  BY StandsForIsExact DEF Kept, TimesExact
<1>3. QED
  BY KeptInit, <1>1, <1>2, PTL DEF Spec

-----------------------------------------------------------------------------
(* In an ordered list, all entries are ordered, and a search has a place to *)
(* find.                                                                    *)
LEMMA OrderedThroughout ==
  ASSUME NEW times \in Seq(Int), Search!Ordered(times)
  PROVE  \A k \in 1 .. Len(times) : \A j \in 1 .. k : times[j] <= times[k]
<1>1. PICK n \in Nat : n = Len(times)
  BY LenProperties
<1>2. \A k \in 1 .. n : times[k] \in Int
  BY <1>1
<1>3. \A k \in 1 .. n - 1 : times[k] <= times[k + 1]
  BY <1>1 DEF Search!Ordered
<1> DEFINE T == {k \in 0 .. n : \A j \in 1 .. k : times[j] <= times[k]}
<1>4. 0 \in T
  OBVIOUS
<1>5. ASSUME NEW k \in T, k < n
      PROVE  k + 1 \in T
  <2>1. k \in 0 .. n /\ \A j \in 1 .. k : times[j] <= times[k]
    OBVIOUS
  <2>2. ASSUME NEW j \in 1 .. k + 1
        PROVE  times[j] <= times[k + 1]
    <3>1. CASE j = k + 1
      BY <1>2, <1>5, <2>1, <3>1
    <3>2. CASE j # k + 1
      <4>1. j \in 1 .. k /\ k \in 1 .. n /\ k \in 1 .. n - 1 /\ j \in 1 .. n /\ k + 1 \in 1 .. n
        BY <1>5, <2>1, <3>2
      <4>2. PICK a \in Int, b \in Int, c \in Int : a = times[j] /\ b = times[k] /\ c = times[k + 1]
        BY <1>2, <4>1
      <4>3. a <= b /\ b <= c
        BY <1>3, <2>1, <4>1, <4>2
      <4> QED
        BY <4>2, <4>3
    <3> QED
      BY <3>1, <3>2
  <2>3. k + 1 \in 0 .. n
    BY <1>5, <2>1
  <2> QED
    BY <2>2, <2>3
<1>6. T = 0 .. n
  <2>1. T \in SUBSET (0 .. n)
    OBVIOUS
  <2> HIDE DEF T
  <2> QED
    BY <1>4, <1>5, <2>1, UptoInduction
<1>7. ASSUME NEW k \in 1 .. n
      PROVE  \A j \in 1 .. k : times[j] <= times[k]
  <2>1. k \in T
    <3> HIDE DEF T
    <3> QED
      BY <1>6
  <2> QED
    BY <2>1
<1> QED
  BY <1>1, <1>7

(* An ordered list has a partition point of either kind.                  *)
LEMMA PlaceToFind ==
  ASSUME NEW times \in Seq(Int), Search!Ordered(times), NEW t \in Int
  PROVE  Search!UpperBounds(times, t) # {} /\ Search!LowerBounds(times, t) # {}
<1>1. PICK n \in Nat : n = Len(times)
  BY LenProperties
<1>2. \A k \in 1 .. n : times[k] \in Int
  BY <1>1
<1>3. \A k \in 1 .. n : \A j \in 1 .. k : j \in 1 .. n /\ times[j] <= times[k]
  BY <1>1, OrderedThroughout
<1>4. Search!UpperBounds(times, t) # {}
  <2> DEFINE S == {k \in 1 .. n : times[k] <= t}
  <2>1. PICK u \in 0 .. n : (u = 0 \/ u \in S) /\ \A y \in S : y <= u
    <3>1. CASE S = {}
      <4>1. 0 \in 0 .. n
        OBVIOUS
      <4> HIDE DEF S
      <4> QED
        BY <3>1, <4>1
    <3>2. CASE S # {}
      <4>1. S \in SUBSET (1 .. n)
        OBVIOUS
      <4>2. \E x \in S : \A y \in S : y <= x
        <5> HIDE DEF S
        <5> QED
          BY <3>2, <4>1, FirstAndLast
      <4> QED
        BY <4>1, <4>2
    <3> QED
      BY <3>1, <3>2
  <2>2. ASSUME NEW k \in 1 .. u
        PROVE  times[k] <= t
    <3>1. u \in 1 .. n /\ times[u] <= t
      BY <2>1
    <3>2. PICK a \in Int, b \in Int : a = times[k] /\ b = times[u]
      BY <1>2, <1>3, <3>1
    <3>3. a <= b /\ b <= t
      BY <1>3, <3>1, <3>2
    <3> QED
      BY <3>2, <3>3
  <2>3. ASSUME NEW k \in u + 1 .. n
        PROVE  t < times[k]
    <3>1. k \in 1 .. n /\ ~ (k <= u)
      BY <2>1
    <3>2. k \notin S
      BY <2>1, <3>1
    <3>3. PICK a \in Int : a = times[k]
      BY <1>2, <3>1
    <3>4. ~ (a <= t)
      BY <3>1, <3>2, <3>3
    <3> QED
      BY <3>3, <3>4
  <2> HIDE DEF S
  <2> QED
    BY <1>1, <2>2, <2>3 DEF Search!UpperBounds
<1>5. Search!LowerBounds(times, t) # {}
  <2> DEFINE S == {k \in 1 .. n : times[k] < t}
  <2>1. PICK u \in 0 .. n : (u = 0 \/ u \in S) /\ \A y \in S : y <= u
    <3>1. CASE S = {}
      <4>1. 0 \in 0 .. n
        OBVIOUS
      <4> HIDE DEF S
      <4> QED
        BY <3>1, <4>1
    <3>2. CASE S # {}
      <4>1. S \in SUBSET (1 .. n)
        OBVIOUS
      <4>2. \E x \in S : \A y \in S : y <= x
        <5> HIDE DEF S
        <5> QED
          BY <3>2, <4>1, FirstAndLast
      <4> QED
        BY <4>1, <4>2
    <3> QED
      BY <3>1, <3>2
  <2>2. ASSUME NEW k \in 1 .. u
        PROVE  times[k] < t
    <3>1. u \in 1 .. n /\ times[u] < t
      BY <2>1
    <3>2. PICK a \in Int, b \in Int : a = times[k] /\ b = times[u]
      BY <1>2, <1>3, <3>1
    <3>3. a <= b /\ b < t
      BY <1>3, <3>1, <3>2
    <3> QED
      BY <3>2, <3>3
  <2>3. ASSUME NEW k \in u + 1 .. n
        PROVE  t <= times[k]
    <3>1. k \in 1 .. n /\ ~ (k <= u)
      BY <2>1
    <3>2. k \notin S
      BY <2>1, <3>1
    <3>3. PICK a \in Int : a = times[k]
      BY <1>2, <3>1
    <3>4. ~ (a < t)
      BY <3>1, <3>2, <3>3
    <3> QED
      BY <3>3, <3>4
  <2> HIDE DEF S
  <2> QED
    BY <1>1, <2>2, <2>3 DEF Search!LowerBounds
<1> QED
  BY <1>4, <1>5

-----------------------------------------------------------------------------
(* Offsets that are kept are no larger than what 32 bits hold.              *)
Near(c) == \A i \in 1 .. Len(c.narrow) :
             c.narrow[i] = 0 \/ (0 <= c.narrow[i] /\ c.narrow[i] <= Column!MaxNarrow)

(* The widest offset that the narrow form holds is a number.              *)
LEMMA WidestOffset == Column!MaxNarrow \in Int
  BY ColumnAssumption DEF ColumnAssumption, Column!MaxNarrow

(* append() keeps an offset only if it is no wider.                       *)
LEMMA AddedNear ==
  ASSUME NEW c \in Columns, NEW t \in Int, Near(c)
  PROVE  Near(Column!Added(c, t))
<1>1. c.base \in Int /\ c.narrow \in Seq(Int) /\ c.wide \in Seq(Int)
  BY DEF Columns
<1>2. CASE Column!IsWide(c)
  <2>1. Column!Added(c, t) = [c EXCEPT !.wide = Append(@, t)]
    BY <1>2 DEF Column!Added
  <2>2. Column!Added(c, t).narrow = c.narrow
    BY <2>1 DEF Columns
  <2> QED
    BY <2>2 DEF Near
<1>3. CASE ~ Column!IsWide(c) /\ c.narrow = <<>>
  <2>1. Column!Added(c, t) = [c EXCEPT !.base = t, !.narrow = <<0>>]
    BY <1>3 DEF Column!Added
  <2>2. Column!Added(c, t).narrow = <<0>>
    BY <2>1 DEF Columns
  <2> QED
    BY <2>2 DEF Near
<1>4. CASE ~ Column!IsWide(c) /\ c.narrow # <<>>
  <2>1. CASE t < c.base \/ Column!OffsetFromBase(c, t) > Column!MaxNarrow
    <3>1. Column!Added(c, t) = [Column!Promoted(c) EXCEPT !.wide = Append(@, t)]
      BY <1>4, <2>1 DEF Column!Added
    <3>2. Column!Added(c, t).narrow = <<>>
      BY <3>1 DEF Columns, Column!Promoted
    <3> QED
      BY <3>2 DEF Near
  <2>2. CASE ~ (t < c.base \/ Column!OffsetFromBase(c, t) > Column!MaxNarrow)
    <3>1. PICK off \in Int : off = Column!OffsetFromBase(c, t) /\ off = t - c.base
      BY <1>1, <2>2 DEF Column!OffsetFromBase
    <3>2. 0 <= off /\ off <= Column!MaxNarrow
      BY <1>1, <2>2, <3>1, WidestOffset
    <3>3. Column!Added(c, t) = [c EXCEPT !.narrow = Append(@, off)]
      BY <1>4, <2>2, <3>1 DEF Column!Added
    <3>4. PICK list \in Seq(Int) : list = c.narrow
      BY <1>1
    <3>5. Column!Added(c, t).narrow = Append(list, off)
      BY <3>3, <3>4 DEF Columns
    <3>6. PICK n \in Nat : n = Len(list)
      BY LenProperties
    <3>7. /\ Len(Append(list, off)) = n + 1 /\ Append(list, off)[n + 1] = off
          /\ \A i \in 1 .. n : Append(list, off)[i] = list[i]
      BY <3>6
    <3>8. ASSUME NEW i \in 1 .. n + 1
          PROVE  Append(list, off)[i] = 0 \/ (0 <= Append(list, off)[i] /\ Append(list, off)[i] <= Column!MaxNarrow)
      <4>1. CASE i = n + 1
        BY <3>2, <3>7, <4>1
      <4>2. CASE i # n + 1
        <5>1. i \in 1 .. n
          BY <4>2
        <5> QED
          BY <3>4, <3>6, <3>7, <5>1 DEF Near
      <4> QED
        BY <4>1, <4>2
    <3> QED
      BY <3>5, <3>7, <3>8 DEF Near
  <2> QED
    BY <2>1, <2>2
<1> QED
  BY <1>2, <1>3, <1>4

(* In either form a search finds what it finds among the times that the     *)
(* column stands for.                                                       *)
LEMMA SearchesFind ==
  ASSUME NEW c, NEW times \in Seq(Int), StandsFor(c, times), Near(c), Search!Ordered(times), NEW t \in Int
  PROVE  /\ Column!UpperBound(c, t) \in Search!UpperBounds(times, t)
         /\ Column!LowerBound(c, t) \in Search!LowerBounds(times, t)
<1>1. c \in Columns /\ c.base \in Int /\ c.narrow \in Seq(Int) /\ c.wide \in Seq(Int)
  BY DEF StandsFor, Columns
<1>2. Search!UpperBounds(times, t) # {} /\ Search!LowerBounds(times, t) # {}
  BY PlaceToFind
<1>3. CASE Column!IsWide(c)
  <2>1. c.wide = times
    BY <1>3 DEF StandsFor, Column!IsWide
  <2>2. Column!UpperBound(c, t) = CHOOSE u \in Search!UpperBounds(times, t) : TRUE
    BY <1>3, <2>1 DEF Column!UpperBound, Column!UpperBounds, Search!UpperBounds
  <2>3. Column!LowerBound(c, t) = CHOOSE u \in Search!LowerBounds(times, t) : TRUE
    BY <1>3, <2>1 DEF Column!LowerBound, Column!LowerBounds, Search!LowerBounds
  <2> QED
    BY <1>2, <2>2, <2>3
<1>4. CASE ~ Column!IsWide(c)
  <2>1. PICK n \in Nat : n = Len(times)
    BY LenProperties
  <2>2. PICK base \in Int, narrow \in Seq(Int) : base = c.base /\ narrow = c.narrow /\ Len(narrow) = n
    BY <1>1, <1>4, <2>1 DEF StandsFor, Column!IsWide
  <2>3. ASSUME NEW i \in 1 .. n
        PROVE  /\ narrow[i] \in Int /\ times[i] \in Int /\ base + narrow[i] = times[i] /\ 0 <= narrow[i]
               /\ narrow[i] = 0 \/ narrow[i] <= Column!MaxNarrow
    <3>1. narrow[i] \in Int /\ times[i] \in Int
      BY <2>1, <2>2
    <3>2. base + narrow[i] = times[i]
      BY <1>4, <2>1, <2>2 DEF StandsFor, Column!IsWide
    <3>3. narrow[i] = 0 \/ (0 <= narrow[i] /\ narrow[i] <= Column!MaxNarrow)
      BY <2>2 DEF Near
    <3>4. PICK d \in Int : d = narrow[i]
      BY <3>1
    <3>5. 0 <= d
      BY <3>3, <3>4
    <3> QED
      BY <3>1, <3>2, <3>3, <3>4, <3>5
  <2>4. ASSUME NEW i \in 1 .. n
        PROVE  /\ narrow[i] <= t - base <=> times[i] <= t
               /\ narrow[i] < t - base <=> times[i] < t
               /\ t - base < narrow[i] <=> t < times[i]
               /\ t - base <= narrow[i] <=> t <= times[i]
    <3>1. PICK d \in Int, a \in Int : d = narrow[i] /\ a = times[i] /\ base + d = a
      BY <2>3
    <3>2. /\ d <= t - base <=> a <= t
          /\ d < t - base <=> a < t
          /\ t - base < d <=> t < a
          /\ t - base <= d <=> t <= a
      BY <3>1
    <3> QED
      BY <3>1, <3>2
  <2>5. /\ Column!UpperBounds(narrow, t - base) = Search!UpperBounds(times, t)
        /\ Column!LowerBounds(narrow, t - base) = Search!LowerBounds(times, t)
    <3>1. ASSUME NEW u \in 0 .. n
          PROVE  (\A k \in 1 .. u : k \in 1 .. n) /\ (\A k \in u + 1 .. n : k \in 1 .. n)
      OBVIOUS
    <3> QED
      BY <2>1, <2>2, <2>4, <3>1 DEF Column!UpperBounds, Column!LowerBounds, Search!UpperBounds, Search!LowerBounds
  <2>6. t >= base => Column!OffsetFromBase(c, t) = t - base
    BY <2>2 DEF Column!OffsetFromBase
  <2>7. narrow = <<>> <=> n = 0
    BY <2>2
  <2>8. Column!UpperBound(c, t) \in Search!UpperBounds(times, t)
    <3>1. CASE narrow = <<>> \/ t < base
      <4>1. Column!UpperBound(c, t) = 0
        BY <1>4, <2>2, <3>1 DEF Column!UpperBound
      <4>2. ASSUME NEW k \in 0 + 1 .. n
            PROVE  t < times[k]
        <5>1. k \in 1 .. n /\ t < base
          BY <2>7, <3>1
        <5>2. PICK d \in Int, a \in Int : d = narrow[k] /\ a = times[k] /\ base + d = a /\ 0 <= d
          BY <2>3, <5>1
        <5> QED
          BY <5>1, <5>2
      <4> QED
        BY <2>1, <4>1, <4>2 DEF Search!UpperBounds
    <3>2. CASE ~ (narrow = <<>> \/ t < base) /\ Column!OffsetFromBase(c, t) > Column!MaxNarrow
      <4>1. Column!UpperBound(c, t) = n
        BY <1>4, <2>2, <3>2 DEF Column!UpperBound
      <4>2. ASSUME NEW k \in 1 .. n
            PROVE  times[k] <= t
        <5>1. PICK d \in Int, a \in Int : /\ d = narrow[k] /\ a = times[k] /\ base + d = a
                                          /\ d = 0 \/ d <= Column!MaxNarrow
          BY <2>3
        <5>2. t - base > Column!MaxNarrow /\ t >= base
          BY <2>6, <3>2
        <5> QED
          BY <5>1, <5>2, WidestOffset
      <4> QED
        BY <2>1, <4>1, <4>2 DEF Search!UpperBounds
    <3>3. CASE ~ (narrow = <<>> \/ t < base) /\ ~ (Column!OffsetFromBase(c, t) > Column!MaxNarrow)
      <4>1. Column!UpperBound(c, t) = CHOOSE u \in Column!UpperBounds(narrow, t - base) : TRUE
        BY <1>4, <2>2, <2>6, <3>3 DEF Column!UpperBound
      <4> QED
        BY <1>2, <2>5, <4>1
    <3> QED
      BY <3>1, <3>2, <3>3
  <2>9. Column!LowerBound(c, t) \in Search!LowerBounds(times, t)
    <3>1. CASE narrow = <<>> \/ t <= base
      <4>1. Column!LowerBound(c, t) = 0
        BY <1>4, <2>2, <3>1 DEF Column!LowerBound
      <4>2. ASSUME NEW k \in 0 + 1 .. n
            PROVE  t <= times[k]
        <5>1. k \in 1 .. n /\ t <= base
          BY <2>7, <3>1
        <5>2. PICK d \in Int, a \in Int : d = narrow[k] /\ a = times[k] /\ base + d = a /\ 0 <= d
          BY <2>3, <5>1
        <5> QED
          BY <5>1, <5>2
      <4> QED
        BY <2>1, <4>1, <4>2 DEF Search!LowerBounds
    <3>2. CASE ~ (narrow = <<>> \/ t <= base) /\ Column!OffsetFromBase(c, t) > Column!MaxNarrow
      <4>1. Column!LowerBound(c, t) = n
        BY <1>4, <2>2, <3>2 DEF Column!LowerBound
      <4>2. ASSUME NEW k \in 1 .. n
            PROVE  times[k] < t
        <5>1. PICK d \in Int, a \in Int : /\ d = narrow[k] /\ a = times[k] /\ base + d = a
                                          /\ d = 0 \/ d <= Column!MaxNarrow
          BY <2>3
        <5>2. t - base > Column!MaxNarrow /\ t > base
          BY <2>6, <3>2
        <5> QED
          BY <5>1, <5>2, WidestOffset
      <4> QED
        BY <2>1, <4>1, <4>2 DEF Search!LowerBounds
    <3>3. CASE ~ (narrow = <<>> \/ t <= base) /\ ~ (Column!OffsetFromBase(c, t) > Column!MaxNarrow)
      <4>1. Column!LowerBound(c, t) = CHOOSE u \in Column!LowerBounds(narrow, t - base) : TRUE
        BY <1>4, <2>2, <2>6, <3>3 DEF Column!LowerBound
      <4> QED
        BY <1>2, <2>5, <4>1
    <3> QED
      BY <3>1, <3>2, <3>3
  <2> QED
    BY <2>8, <2>9
<1> QED
  BY <1>3, <1>4

(* An empty column keeps no offset.                                         *)
LEMMA NearInit == Init => Near(block.times)
<1> SUFFICES ASSUME Init PROVE Near(block.times)
  OBVIOUS
<1>1. block.times = [base |-> 0, narrow |-> <<>>, wide |-> <<>>]
  BY DEF Init, Empty, Column!EmptyColumn
<1> QED
  BY <1>1 DEF Near

(* Every step keeps the offsets as narrow.                                  *)
LEMMA NearNext == Kept /\ Near(block.times) /\ [Next]_vars => Near(block.times)'
<1> SUFFICES ASSUME Kept, Near(block.times), [Next]_vars PROVE Near(block.times)'
  OBVIOUS
<1>1. CASE \E change \in Samples[block.kind] : AppendChange(change[1], change[2])
  <2>1. PICK change \in Samples[block.kind] : AppendChange(change[1], change[2])
    BY <1>1
  <2> DEFINE valued == WithValue(block, change[2])
  <2>2. block' = [valued EXCEPT !.times = Column!Added(@, change[1])]
    BY <2>1 DEF AppendChange
  <2>3. valued = [x \in Shape |-> valued[x]] /\ valued.times = block.times
    BY ValueLeavesTimes
  <2>4. change[1] \in Int /\ block.times \in Columns
    <3>1. <<change[1], change[2]>> \in Changes
      BY DEF Kept, Changes
    <3>2. <<change[1], change[2]>>[1] \in Int
      BY <3>1, SamplesAssumption DEF SamplesAssumption, Changes
    <3> QED
      BY <3>2 DEF Kept, StandsFor
  <2> HIDE DEF valued
  <2>5. block'.times = Column!Added(block.times, change[1])
    BY <2>2, <2>3 DEF Shape
  <2>6. Near(Column!Added(block.times, change[1]))
    BY <2>4, AddedNear
  <2> QED
    BY <2>5, <2>6
<1>2. CASE UNCHANGED vars
  BY <1>2 DEF vars, Near
<1> QED
  BY <1>1, <1>2 DEF Next

(* While times do not decrease, a search in either form of the column finds *)
(* the place that it has in the list of times, for every time there is: an  *)
(* offset that 32 bits do not hold lies right of all.                       *)
THEOREM SearchesCorrect == Spec => []SearchesAgree
<1>1. Init => Near(block.times)
  BY NearInit
<1>2. Kept /\ Near(block.times) /\ [Next]_vars => Near(block.times)'
  BY NearNext
<1>3. Kept /\ [Next]_vars => Kept'
  BY KeptByNext
<1>4. Kept /\ Near(block.times) => SearchesAgree
  <2> SUFFICES ASSUME Kept, Near(block.times), Search!Ordered(Times), NEW t \in Probes
               PROVE  /\ Column!UpperBound(block.times, t) \in Search!UpperBounds(Times, t)
                      /\ Column!LowerBound(block.times, t) \in Search!LowerBounds(Times, t)
    BY DEF SearchesAgree
  <2>1. t \in Int
    BY SamplesAssumption DEF SamplesAssumption
  <2>2. Times \in Seq(Int) /\ StandsFor(block.times, Times)
    BY DEF Kept
  <2> QED
    BY <2>1, <2>2, SearchesFind
<1> QED
  BY KeptInit, <1>1, <1>2, <1>3, <1>4, PTL DEF Spec

-----------------------------------------------------------------------------
(* Places in a plane: the words of a slot lie one after another, and a bit  *)
(* of a value in the word that its number divided by K names.               *)
LEMMA SlotAfterSlot ==
  ASSUME NEW i \in Nat, NEW j \in Nat, NEW d \in Nat, i < j
  PROVE  i * d + d <= j * d
<1>1. PICK k \in Nat : j = i + 1 + k
  <2>1. j - i - 1 \in Nat
    OBVIOUS
  <2> QED
    BY <2>1
<1>2. j * d = i * d + d + k * d
  BY <1>1
<1>3. k * d \in Nat /\ i * d \in Nat
  OBVIOUS
<1> QED
  BY <1>2, <1>3

(* Quotient and remainder of what is put together from both.                *)
LEMMA DivMod ==
  ASSUME NEW q \in Nat, NEW d \in Nat \ {0}, NEW r \in 0 .. d - 1
  PROVE  (q * d + r) \div d = q /\ (q * d + r) % d = r
<1>1. PICK x \in Nat : x = q * d + r
  OBVIOUS
<1>2. PICK p \in Nat : p = x \div d
  OBVIOUS
<1>3. PICK s \in 0 .. d - 1 : s = x % d
  OBVIOUS
<1>4. x = p * d + s
  BY <1>2, <1>3
<1>5. ~(p < q)
  BY <1>1, <1>4, SlotAfterSlot
<1>6. ~(q < p)
  BY <1>1, <1>4, SlotAfterSlot
<1>7. p = q
  BY <1>5, <1>6
<1> QED
  BY <1>1, <1>2, <1>3, <1>4, <1>7

(* A value of some width takes as many words as hold its bits.              *)
LEMMA WordsAre ==
  ASSUME NEW width \in Nat
  PROVE  \E n \in Nat : /\ WordsFor(width) = n
                        /\ width = 0 => n = 0
                        /\ width > 0 => n > 0 /\ (n - 1) * K < width /\ width <= n * K
<1>1. K \in Nat \ {0}
  BY PlanesAssumption
<1>2. PICK x \in Nat : x = width + K - 1
  BY <1>1
<1>3. PICK n \in Nat : n = x \div K
  BY <1>1
<1>4. PICK r \in 0 .. K - 1 : r = x % K
  BY <1>1
<1>5. x = n * K + r
  BY <1>1, <1>3, <1>4
<1>6. WordsFor(width) = n
  BY <1>2, <1>3 DEF WordsFor
<1>7. CASE width = 0
  <2>1. ~(0 < n)
    <3>1. SUFFICES ASSUME 0 < n PROVE FALSE
      OBVIOUS
    <3>2. 0 * K + K <= n * K
      BY <1>1, <3>1, SlotAfterSlot
    <3> QED
      BY <1>1, <1>2, <1>5, <1>7, <3>2
  <2> QED
    BY <1>6, <1>7, <2>1
<1>8. CASE width > 0
  <2>1. n # 0
    BY <1>1, <1>2, <1>5, <1>8
  <2>2. (n - 1) * K = n * K - K
    BY <1>1
  <2> QED
    BY <1>1, <1>2, <1>5, <1>6, <1>8, <2>1, <2>2
<1> QED
  BY <1>7, <1>8

(* The word and the place of a bit.                                         *)
LEMMA PlaceOfBit ==
  ASSUME NEW width \in Nat, NEW bit \in Nat, bit < width
  PROVE  \E w \in 1 .. WordsFor(width) : \E c \in AllOnes :
           bit \div K + 1 = w /\ bit % K = c /\ (w - 1) * K + c = bit
<1>1. K \in Nat \ {0}
  BY PlanesAssumption
<1>2. PICK n \in Nat : WordsFor(width) = n /\ n > 0 /\ width <= n * K
  BY WordsAre
<1>3. PICK q \in Nat : q = bit \div K
  BY <1>1
<1>4. PICK c \in 0 .. K - 1 : c = bit % K
  BY <1>1
<1>5. bit = q * K + c
  BY <1>1, <1>3, <1>4
<1>6. q < n
  <2>1. SUFFICES ASSUME ~(q < n) PROVE FALSE
    OBVIOUS
  <2>2. n * K <= q * K
    <3>1. CASE n = q
      BY <1>1, <3>1
    <3>2. CASE n < q
      BY <1>1, <3>2, SlotAfterSlot
    <3> QED
      BY <2>1, <3>1, <3>2
  <2>3. n * K \in Nat /\ q * K \in Nat
    BY <1>1
  <2> QED
    BY <1>2, <1>5, <2>2, <2>3
<1>7. q + 1 \in 1 .. n /\ q + 1 - 1 = q
  BY <1>6
<1> QED
  BY <1>2, <1>3, <1>4, <1>5, <1>7 DEF AllOnes

(* Views as the samples are, and one plane of the slot that a view gets.    *)
Views == {v \in [width : Nat, aval : Seq(SUBSET AllOnes), bval : Seq(SUBSET AllOnes)] : IsValue("LOGIC", v)}

SlotOf(plane, v, width) ==
  IF WordsFor(width) = 0 THEN <<>>
  ELSE Masked(IF v.width >= width THEN Copied(plane, WordsFor(width))
              ELSE Filled(Copied(plane, WordsFor(width)), v.width), width)

(* Masking a plane takes away just the bits above the width.                *)
LEMMA MaskedBits ==
  ASSUME NEW width \in Nat, width > 0, NEW n \in Nat, n = WordsFor(width), NEW copy \in [1 .. n -> SUBSET AllOnes]
  PROVE  /\ Masked(copy, width) \in [1 .. n -> SUBSET AllOnes]
         /\ \A w \in 1 .. n : \A c \in AllOnes : c \in Masked(copy, width)[w] <=> c \in copy[w] /\ (w - 1) * K + c < width
<1>1. K \in Nat \ {0} /\ AllOnes = 0 .. K - 1
  BY PlanesAssumption DEF AllOnes
<1>2. n > 0 /\ (n - 1) * K < width /\ width <= n * K
  BY WordsAre
<1>3. copy \in [1 .. n -> SUBSET AllOnes] /\ Len(copy) = n
  BY FunctionIsSeq
<1>4. Masked(copy, width) = [w \in 1 .. n |-> IF w = n THEN copy[w] \cap LowMask(width % K) ELSE copy[w]]
  BY <1>3 DEF Masked
<1>5. ASSUME NEW w \in 1 .. n, NEW c \in AllOnes
      PROVE  c \in Masked(copy, width)[w] <=> c \in copy[w] /\ (w - 1) * K + c < width
  <2>1. CASE w < n
    <3>1. w - 1 \in Nat /\ n - 1 \in Nat /\ w - 1 < n - 1
      BY <2>1
    <3>2. (w - 1) * K + K <= (n - 1) * K
      BY <1>1, <3>1, SlotAfterSlot
    <3>3. (w - 1) * K \in Nat /\ (n - 1) * K \in Nat /\ c \in 0 .. K - 1
      BY <1>1, <3>1
    <3>4. (w - 1) * K + c < width
      BY <1>1, <1>2, <3>2, <3>3
    <3> QED
      BY <1>4, <2>1, <3>4
  <2>2. CASE w = n
    <3>0. PICK q \in Nat : q = n - 1
      BY <1>2
    <3>1. PICK p \in Nat : p = q * K /\ n * K = p + K
      <4>1. n = q + 1 /\ (q + 1) * K = q * K + K
        BY <1>1, <3>0
      <4>2. PICK p \in Nat : p = q * K
        BY <1>1
      <4> QED
        BY <4>1, <4>2
    <3>1a. p = (n - 1) * K
      BY <3>0, <3>1
    <3>2. PICK r \in 1 .. K : width = p + r
      <4>1. width - p \in 1 .. K
        BY <1>1, <1>2, <3>1, <3>1a
      <4> QED
        BY <3>1, <4>1
    <3>3. LowMask(width % K) = 0 .. r - 1
      <4>1. CASE r = K
        <5>1. width = n * K + 0 /\ 0 \in 0 .. K - 1
          BY <1>1, <3>1, <3>2, <4>1
        <5>2. width % K = 0
          BY <1>1, <5>1, DivMod
        <5> QED
          BY <1>1, <4>1, <5>2 DEF LowMask
      <4>2. CASE r # K
        <5>1. width = q * K + r /\ r \in 0 .. K - 1
          BY <1>1, <3>1, <3>2, <4>2
        <5>2. width % K = r
          BY <1>1, <5>1, DivMod
        <5> QED
          BY <5>2 DEF LowMask
      <4> QED
        BY <4>1, <4>2
    <3>4. c \in 0 .. r - 1 <=> (w - 1) * K + c < width
      <4>1. (w - 1) * K = p
        BY <2>2, <3>1a
      <4>2. c \in Int
        BY <1>1
      <4> QED
        BY <1>1, <3>2, <4>1, <4>2
    <3> QED
      BY <1>4, <2>2, <3>3, <3>4
  <2> QED
    BY <2>1, <2>2
<1>6. Masked(copy, width) \in [1 .. n -> SUBSET AllOnes]
  BY <1>3, <1>4
<1> QED
  BY <1>5, <1>6

(* A plane of a slot: what is copied or filled, with nothing above the      *)
(* width of the stream.                                                     *)
LEMMA SlotBits ==
  ASSUME NEW width \in Nat, NEW v, v.width \in Nat, NEW plane \in Seq(SUBSET AllOnes)
  PROVE  /\ SlotOf(plane, v, width) \in [1 .. WordsFor(width) -> SUBSET AllOnes]
         /\ \A w \in 1 .. WordsFor(width) : \A c \in AllOnes :
              c \in SlotOf(plane, v, width)[w] <=>
                /\ (w - 1) * K + c < width
                /\ \/ w <= Len(plane) /\ c \in plane[w]
                   \/ v.width < width /\ (w - 1) * K + c >= v.width
<1>1. K \in Nat \ {0} /\ AllOnes = 0 .. K - 1
  BY PlanesAssumption DEF AllOnes
<1>2. PICK n \in Nat : /\ WordsFor(width) = n
                       /\ width = 0 => n = 0
                       /\ width > 0 => n > 0 /\ (n - 1) * K < width /\ width <= n * K
  BY WordsAre
<1>3. CASE width = 0
  <2>1. SlotOf(plane, v, width) = <<>> /\ n = 0
    BY <1>2, <1>3 DEF SlotOf
  <2> QED
    BY <1>2, <2>1
<1>4. CASE width > 0
  <2> DEFINE word(w) == IF w <= Len(plane) THEN plane[w] ELSE {}
             above(w) == IF v.width < width THEN {bit \in AllOnes : (w - 1) * K + bit >= v.width} ELSE {}
             copy == [w \in 1 .. n |-> word(w) \cup above(w)]
  <2>1. SlotOf(plane, v, width) = Masked(copy, width)
    <3>1. CASE v.width >= width
      <4>1. Copied(plane, n) = copy
        BY <3>1 DEF Copied
      <4> QED
        BY <1>2, <1>4, <3>1, <4>1 DEF SlotOf
    <3>2. CASE v.width < width
      <4>1. Filled(Copied(plane, n), v.width) = copy
        BY <3>2 DEF Copied, Filled
      <4> QED
        BY <1>2, <1>4, <3>2, <4>1 DEF SlotOf
    <3> QED
      BY <3>1, <3>2
  <2>2. copy \in [1 .. n -> SUBSET AllOnes] /\ Len(copy) = n
    <3>1. \A w \in 1 .. n : word(w) \cup above(w) \in SUBSET AllOnes
      OBVIOUS
    <3>2. copy \in [1 .. n -> SUBSET AllOnes]
      BY <3>1
    <3> HIDE DEF copy
    <3> QED
      BY <3>2, FunctionIsSeq
  <2>3. \A w \in 1 .. n : \A c \in AllOnes :
          c \in copy[w] <=> \/ w <= Len(plane) /\ c \in plane[w]
                            \/ v.width < width /\ (w - 1) * K + c >= v.width
    OBVIOUS
  <2> HIDE DEF copy
  <2>4. /\ Masked(copy, width) \in [1 .. n -> SUBSET AllOnes]
        /\ \A w \in 1 .. n : \A c \in AllOnes : c \in Masked(copy, width)[w] <=> c \in copy[w] /\ (w - 1) * K + c < width
    BY <1>2, <1>4, <2>2, MaskedBits
  <2> QED
    BY <1>2, <2>1, <2>3, <2>4
<1> QED
  BY <1>3, <1>4

(* What a bit reads as, by the two planes.                                  *)
LEMMA BitIs ==
  ASSUME NEW v, NEW bit, NEW w, NEW c, bit \div K + 1 = w, bit % K = c, bit < v.width, ~(bit >= v.width)
  PROVE  BitAt(v, bit) = IF c \in v.aval[w]
                         THEN IF v.bval # <<>> /\ c \in v.bval[w] THEN "X" ELSE "1"
                         ELSE IF v.bval # <<>> /\ c \in v.bval[w] THEN "Z" ELSE "0"
BY DEF BitAt

(* A slot shows the value that was put into it, bit by bit: what a narrower *)
(* one did not write as X, what a wider one had above as nothing.           *)
LEMMA SlotShows ==
  ASSUME NEW width \in Nat, NEW v \in Views, NEW u,
         u.width = width,
         \A w \in 1 .. WordsFor(width) : u.aval[w] = SlotOf(v.aval, v, width)[w],
         \A w \in 1 .. WordsFor(width) :
           IF u.bval = <<>> THEN SlotOf(v.bval, v, width)[w] = {}
                            ELSE u.bval[w] = SlotOf(v.bval, v, width)[w],
         NEW bit \in 0 .. width - 1
  PROVE  BitAt(u, bit) = BitAt(v, bit)
<1>0. /\ v.width \in Nat /\ v.aval \in Seq(SUBSET AllOnes) /\ v.bval \in Seq(SUBSET AllOnes)
      /\ Len(v.aval) = WordsFor(v.width) /\ Len(v.bval) \in {0, WordsFor(v.width)}
  BY DEF Views, IsValue
<1>1. bit \in Nat /\ bit < width /\ ~(bit >= u.width)
  OBVIOUS
<1>2. PICK w \in 1 .. WordsFor(width), c \in AllOnes :
        bit \div K + 1 = w /\ bit % K = c /\ (w - 1) * K + c = bit
  BY <1>1, PlaceOfBit
<1> DEFINE ua == c \in u.aval[w]
           ub == u.bval # <<>> /\ c \in u.bval[w]
           va == c \in v.aval[w]
           vb == v.bval # <<>> /\ c \in v.bval[w]
<1>2a. /\ c \in SlotOf(v.aval, v, width)[w] <=>
           (w - 1) * K + c < width /\ ((w <= Len(v.aval) /\ c \in v.aval[w]) \/ (v.width < width /\ (w - 1) * K + c >= v.width))
       /\ c \in SlotOf(v.bval, v, width)[w] <=>
           (w - 1) * K + c < width /\ ((w <= Len(v.bval) /\ c \in v.bval[w]) \/ (v.width < width /\ (w - 1) * K + c >= v.width))
  BY <1>0, SlotBits
<1>2b. /\ c \in SlotOf(v.aval, v, width)[w] <=>
            (w <= Len(v.aval) /\ c \in v.aval[w]) \/ (v.width < width /\ bit >= v.width)
       /\ c \in SlotOf(v.bval, v, width)[w] <=>
            (w <= Len(v.bval) /\ c \in v.bval[w]) \/ (v.width < width /\ bit >= v.width)
  BY <1>1, <1>2, <1>2a
<1>3. ua <=> (w <= Len(v.aval) /\ va) \/ (v.width < width /\ bit >= v.width)
  BY <1>2b, Zenon
<1>4. ub <=> (w <= Len(v.bval) /\ c \in v.bval[w]) \/ (v.width < width /\ bit >= v.width)
  <2>1. CASE u.bval = <<>>
    BY <1>2b, <2>1, Zenon
  <2>2. CASE u.bval # <<>>
    BY <1>2b, <2>2, Zenon
  <2> QED
    BY <2>1, <2>2
<1>5. CASE bit >= v.width
  <2>1. v.width < width
    BY <1>0, <1>1, <1>5
  <2>2. ua /\ ub
    BY <1>3, <1>4, <1>5, <2>1
  <2> QED
    <3>1. BitAt(v, bit) = "X"
      <4>1. ~(bit < v.width)
        BY <1>0, <1>1, <1>5
      <4> QED
        BY <1>5, <4>1 DEF BitAt
    <3>2. BitAt(u, bit) = "X"
      <4>1. bit < u.width /\ ~(bit >= u.width) /\ c \in u.aval[w] /\ u.bval # <<>> /\ c \in u.bval[w]
        BY <1>1, <2>2
      <4> QED
        BY <1>2, <4>1, BitIs, Zenon
    <3> QED
      BY <3>1, <3>2
<1>6. CASE bit < v.width
  <2>1. ~(bit >= v.width)
    BY <1>0, <1>1, <1>6
  <2>2. w \in 1 .. WordsFor(v.width)
    BY <1>0, <1>1, <1>2, <1>6, PlaceOfBit
  <2>3. w <= Len(v.aval)
    BY <1>0, <2>2
  <2>4. v.bval # <<>> <=> w <= Len(v.bval)
    BY <1>0, <2>2
  <2>5. (ua <=> va) /\ (ub <=> vb)
    BY <1>3, <1>4, <2>1, <2>3, <2>4
  <2>6. BitAt(u, bit) = IF ua THEN IF ub THEN "X" ELSE "1" ELSE IF ub THEN "Z" ELSE "0"
    <3>1. bit < u.width /\ ~(bit >= u.width)
      BY <1>1
    <3> QED
      BY <1>2, <3>1, BitIs, Zenon
  <2>7. BitAt(v, bit) = IF va THEN IF vb THEN "X" ELSE "1" ELSE IF vb THEN "Z" ELSE "0"
    BY <1>2, <1>6, <2>1, BitIs, Zenon
  <2> HIDE DEF ua, ub, va, vb
  <2> QED
    BY <2>5, <2>6, <2>7
<1> QED
  BY <1>0, <1>1, <1>5, <1>6

(* The planes of a LOGIC column, slot by slot.                              *)
PlanesHold(aval, bval, width, values) ==
  LET n == WordsFor(width)
  IN  /\ aval \in Seq(SUBSET AllOnes) /\ Len(aval) = Len(values) * n
      /\ bval \in Seq(SUBSET AllOnes) /\ (bval # <<>> => Len(bval) = Len(aval))
      /\ \A i \in 1 .. Len(values) : \A w \in 1 .. n :
           /\ aval[(i - 1) * n + w] = SlotOf(values[i].aval, values[i], width)[w]
           /\ IF bval = <<>> THEN SlotOf(values[i].bval, values[i], width)[w] = {}
                             ELSE bval[(i - 1) * n + w] = SlotOf(values[i].bval, values[i], width)[w]

(* A list with another behind it.                                           *)
LEMMA Joined ==
  ASSUME NEW S, NEW list \in Seq(S), NEW tail \in Seq(S)
  PROVE  /\ list \o tail \in Seq(S) /\ Len(list \o tail) = Len(list) + Len(tail)
         /\ \A k \in 1 .. Len(list) : (list \o tail)[k] = list[k]
         /\ \A w \in 1 .. Len(tail) : (list \o tail)[Len(list) + w] = tail[w]
<1>1. PICK n \in Nat, m \in Nat : n = Len(list) /\ m = Len(tail)
  OBVIOUS
<1>2. PICK more : more = list \o tail
  OBVIOUS
<1>3. /\ more \in Seq(S) /\ Len(more) = n + m
      /\ \A i \in 1 .. n + m : more[i] = IF i <= n THEN list[i] ELSE tail[i - n]
  BY <1>1, <1>2, ConcatProperties
<1>4. \A k \in 1 .. n : more[k] = list[k]
  BY <1>3
<1>5. ASSUME NEW w \in 1 .. m
      PROVE  more[n + w] = tail[w]
  <2>1. n + w \in 1 .. n + m /\ ~(n + w <= n) /\ n + w - n = w
    OBVIOUS
  <2> QED
    BY <1>3, <2>1
<1> QED
  BY <1>1, <1>2, <1>3, <1>4, <1>5

(* The words of every slot lie in the plane.                                *)
LEMMA InSlots ==
  ASSUME NEW m \in Nat, NEW n \in Nat, NEW p, p = m * n
  PROVE  /\ p \in Nat /\ (m + 1) * n = p + n
         /\ \A i \in 1 .. m : \A w \in 1 .. n : (i - 1) * n + w \in 1 .. p
<1>1. p \in Nat /\ (m + 1) * n = p + n
  OBVIOUS
<1>2. ASSUME NEW i \in 1 .. m, NEW w \in 1 .. n
      PROVE  (i - 1) * n + w \in 1 .. p
  <2>1. i - 1 \in Nat /\ i - 1 < m
    OBVIOUS
  <2>2. (i - 1) * n + n <= p
    BY <2>1, SlotAfterSlot
  <2>3. PICK q \in Nat : q = (i - 1) * n
    BY <2>1
  <2> QED
    BY <1>1, <2>2, <2>3
<1> QED
  BY <1>1, <1>2

(* appendLogicValue() adds the slot of the value, and the second plane with *)
(* zeros for all slots before if that is the first to need it.              *)
LEMMA LogicAppended ==
  ASSUME NEW aval, NEW bval, NEW width \in Nat, NEW values \in Seq(Views), NEW v \in Views,
         PlanesHold(aval, bval, width, values)
  PROVE  PlanesHold(WithLogic([aval |-> aval, bval |-> bval], width, v).aval,
                    WithLogic([aval |-> aval, bval |-> bval], width, v).bval, width, Append(values, v))
<1>1. PICK n \in Nat : n = WordsFor(width)
  BY WordsAre
<1>2. PICK m \in Nat : m = Len(values)
  OBVIOUS
<1>3. /\ v.width \in Nat /\ v.aval \in Seq(SUBSET AllOnes) /\ v.bval \in Seq(SUBSET AllOnes)
  BY DEF Views
<1> DEFINE sa == SlotOf(v.aval, v, width)
           sb == SlotOf(v.bval, v, width)
           unfolded == bval # <<>> \/ NeedsPlane(width, v)
           before == bval \o Zeros(Len(aval) - Len(bval))
           all == WithLogic([aval |-> aval, bval |-> bval], width, v)
<1>4. /\ aval \in Seq(SUBSET AllOnes) /\ Len(aval) = m * n
      /\ bval \in Seq(SUBSET AllOnes) /\ (bval # <<>> => Len(bval) = m * n)
      /\ \A i \in 1 .. m : \A w \in 1 .. n :
           /\ aval[(i - 1) * n + w] = SlotOf(values[i].aval, values[i], width)[w]
           /\ IF bval = <<>> THEN SlotOf(values[i].bval, values[i], width)[w] = {}
                             ELSE bval[(i - 1) * n + w] = SlotOf(values[i].bval, values[i], width)[w]
  BY <1>1, <1>2 DEF PlanesHold
<1>5. all.aval = aval \o sa /\ all.bval = IF unfolded THEN before \o sb ELSE <<>>
  BY DEF WithLogic, SlotOf
<1>6. sa \in [1 .. n -> SUBSET AllOnes] /\ sb \in [1 .. n -> SUBSET AllOnes]
  BY <1>1, <1>3, SlotBits
<1>7. sa \in Seq(SUBSET AllOnes) /\ Len(sa) = n /\ sb \in Seq(SUBSET AllOnes) /\ Len(sb) = n
  <2> HIDE DEF sa, sb
  <2> QED
    BY <1>6, FunctionIsSeq
<1>8. /\ Append(values, v) \in Seq(Views) /\ Len(Append(values, v)) = m + 1
      /\ Append(values, v)[m + 1] = v /\ \A i \in 1 .. m : Append(values, v)[i] = values[i]
  BY <1>2
<1> DEFINE more == Append(values, v)
<1> HIDE DEF sa, sb, all, more
<1>9. /\ all.aval \in Seq(SUBSET AllOnes) /\ Len(all.aval) = (m + 1) * n
      /\ \A i \in 1 .. m : \A w \in 1 .. n : all.aval[(i - 1) * n + w] = aval[(i - 1) * n + w]
      /\ \A w \in 1 .. n : all.aval[m * n + w] = sa[w]
  <2>1. PICK p \in Nat : p = m * n
    OBVIOUS
  <2>2. aval \in Seq(SUBSET AllOnes) /\ Len(aval) = p /\ sa \in Seq(SUBSET AllOnes) /\ Len(sa) = n
    BY <1>4, <1>7, <2>1
  <2>3a. PICK after : after = aval \o sa
    OBVIOUS
  <2>3b. /\ after \in Seq(SUBSET AllOnes) /\ Len(after) = Len(aval) + Len(sa)
        /\ \A k \in 1 .. Len(aval) : after[k] = aval[k]
        /\ \A w \in 1 .. Len(sa) : after[Len(aval) + w] = sa[w]
    <3>1. PICK W : W = SUBSET AllOnes
      OBVIOUS
    <3>2. aval \in Seq(W) /\ sa \in Seq(W)
      BY <2>2, <3>1
    <3>3. /\ after \in Seq(W) /\ Len(after) = Len(aval) + Len(sa)
          /\ \A k \in 1 .. Len(aval) : after[k] = aval[k]
          /\ \A w \in 1 .. Len(sa) : after[Len(aval) + w] = sa[w]
      BY <2>3a, <3>2, Joined
    <3> QED
      BY <3>1, <3>3
  <2>3. /\ after \in Seq(SUBSET AllOnes) /\ after = aval \o sa /\ Len(after) = p + n
        /\ \A k \in 1 .. p : after[k] = aval[k]
        /\ \A w \in 1 .. n : after[p + w] = sa[w]
    BY <2>2, <2>3a, <2>3b
  <2>4. \A i \in 1 .. m : \A w \in 1 .. n : (i - 1) * n + w \in 1 .. p
    BY <2>1, InSlots
  <2>5. \A i \in 1 .. m : \A w \in 1 .. n : after[(i - 1) * n + w] = aval[(i - 1) * n + w]
    BY <2>3, <2>4, Zenon
  <2>6. (m + 1) * n = p + n
    BY <2>1, InSlots
  <2>7. all.aval = after
    BY <1>5, <2>3, Zenon
  <2> QED
    BY <2>1, <2>3, <2>5, <2>6, <2>7, Zenon
<1>10. \A i \in 1 .. m + 1 : \A w \in 1 .. n : all.aval[(i - 1) * n + w] = SlotOf(more[i].aval, more[i], width)[w]
  <2> TAKE i \in 1 .. m + 1
  <2> TAKE w \in 1 .. n
  <2>1. CASE i \in 1 .. m
    BY <1>4, <1>8, <1>9, <2>1 DEF more
  <2>2. CASE i = m + 1
    <3>1. i - 1 = m /\ more[i] = v
      BY <1>8, <2>2 DEF more
    <3> QED
      BY <1>9, <3>1 DEF sa
  <2> QED
    BY <2>1, <2>2
<1>11. CASE unfolded
  <2>1. /\ before \in Seq(SUBSET AllOnes) /\ Len(before) = m * n
        /\ \A i \in 1 .. m : \A w \in 1 .. n : before[(i - 1) * n + w] = SlotOf(values[i].bval, values[i], width)[w]
    <3>1. CASE bval # <<>>
      <4>1. before = bval
        <5>1. PICK p \in Nat : p = m * n
          OBVIOUS
        <5>2. Len(aval) = p /\ Len(bval) = p
          BY <1>4, <3>1, <5>1
        <5>3. Len(aval) - Len(bval) = 0
          BY <5>2
        <5>4. Zeros(0) = <<>>
          BY DEF Zeros
        <5>5. bval \in Seq(SUBSET AllOnes)
          BY <1>4
        <5>6. bval \o <<>> = bval
          BY <5>5
        <5> QED
          BY <5>3, <5>4, <5>6
      <4> QED
        <5>1. bval \in Seq(SUBSET AllOnes) /\ Len(bval) = m * n
          BY <1>4, <3>1
        <5>2. \A i \in 1 .. m : \A w \in 1 .. n : bval[(i - 1) * n + w] = SlotOf(values[i].bval, values[i], width)[w]
          BY <1>4, <3>1
        <5> QED
          BY <4>1, <5>1, <5>2, Zenon
    <3>2. CASE bval = <<>>
      <4>1. PICK p \in Nat : p = m * n
        OBVIOUS
      <4>2. Len(bval) = 0 /\ p - 0 = p
        BY <3>2, <4>1
      <4>3. Zeros(p) \in [1 .. p -> SUBSET AllOnes] /\ \A k \in 1 .. p : Zeros(p)[k] = {}
        BY DEF Zeros
      <4>4. Zeros(p) \in Seq(SUBSET AllOnes) /\ Len(Zeros(p)) = p
        BY <4>3, FunctionIsSeq
      <4>5. before = Zeros(p)
        <5>1. Len(aval) - Len(bval) = p
          BY <1>4, <4>1, <4>2
        <5>2. <<>> \o Zeros(p) = Zeros(p)
          BY <4>4
        <5> QED
          BY <3>2, <5>1, <5>2
      <4>6. ASSUME NEW i \in 1 .. m, NEW w \in 1 .. n
            PROVE  before[(i - 1) * n + w] = SlotOf(values[i].bval, values[i], width)[w]
        <5>1. i - 1 \in Nat /\ i - 1 < m
          OBVIOUS
        <5>2. (i - 1) * n + n <= p
          BY <4>1, <5>1, SlotAfterSlot
        <5>3. PICK q \in Nat : q = (i - 1) * n
          BY <5>1
        <5>4. q + w \in 1 .. p
          BY <5>2, <5>3
        <5>5. Zeros(p)[q + w] = {}
          BY <4>3, <5>4
        <5> QED
          BY <1>4, <3>2, <4>5, <5>3, <5>5
      <4> QED
        BY <4>1, <4>4, <4>5, <4>6
    <3> QED
      BY <3>1, <3>2
  <2> HIDE DEF before
  <2>2. /\ all.bval \in Seq(SUBSET AllOnes) /\ Len(all.bval) = (m + 1) * n
        /\ \A i \in 1 .. m : \A w \in 1 .. n : all.bval[(i - 1) * n + w] = before[(i - 1) * n + w]
        /\ \A w \in 1 .. n : all.bval[m * n + w] = sb[w]
    <3>1. PICK p \in Nat : p = m * n
      OBVIOUS
    <3>2. before \in Seq(SUBSET AllOnes) /\ Len(before) = p /\ sb \in Seq(SUBSET AllOnes) /\ Len(sb) = n
      BY <1>7, <2>1, <3>1
    <3>3a. PICK after : after = before \o sb
      OBVIOUS
    <3>3b. /\ after \in Seq(SUBSET AllOnes) /\ Len(after) = Len(before) + Len(sb)
          /\ \A k \in 1 .. Len(before) : after[k] = before[k]
          /\ \A w \in 1 .. Len(sb) : after[Len(before) + w] = sb[w]
      <4>1. PICK W : W = SUBSET AllOnes
        OBVIOUS
      <4>2. before \in Seq(W) /\ sb \in Seq(W)
        BY <3>2, <4>1
      <4>3. /\ after \in Seq(W) /\ Len(after) = Len(before) + Len(sb)
            /\ \A k \in 1 .. Len(before) : after[k] = before[k]
            /\ \A w \in 1 .. Len(sb) : after[Len(before) + w] = sb[w]
        BY <3>3a, <4>2, Joined
      <4> QED
        BY <4>1, <4>3
    <3>3. /\ after \in Seq(SUBSET AllOnes) /\ after = before \o sb /\ Len(after) = p + n
          /\ \A k \in 1 .. p : after[k] = before[k]
          /\ \A w \in 1 .. n : after[p + w] = sb[w]
      BY <3>2, <3>3a, <3>3b
    <3>4. \A i \in 1 .. m : \A w \in 1 .. n : (i - 1) * n + w \in 1 .. p
      BY <3>1, InSlots
    <3>5. \A i \in 1 .. m : \A w \in 1 .. n : after[(i - 1) * n + w] = before[(i - 1) * n + w]
      BY <3>3, <3>4, Zenon
    <3>6. (m + 1) * n = p + n
      BY <3>1, InSlots
    <3>7. all.bval = after
      BY <1>5, <1>11, <3>3, Zenon
    <3> QED
      BY <3>1, <3>3, <3>5, <3>6, <3>7, Zenon
  <2>3. \A i \in 1 .. m + 1 : \A w \in 1 .. n :
          all.bval[(i - 1) * n + w] = SlotOf(more[i].bval, more[i], width)[w] /\ all.bval # <<>>
    <3> TAKE i \in 1 .. m + 1
    <3> TAKE w \in 1 .. n
    <3>0. all.bval # <<>>
      <4>1. (m + 1) * n = m * n + n /\ m * n \in Nat
        OBVIOUS
      <4> QED
        BY <2>2, <4>1
    <3>1. CASE i \in 1 .. m
      BY <1>8, <2>1, <2>2, <3>0, <3>1 DEF more
    <3>2. CASE i = m + 1
      <4>1. i - 1 = m /\ more[i] = v
        BY <1>8, <3>2 DEF more
      <4> QED
        BY <2>2, <3>0, <4>1 DEF sb
    <3> QED
      BY <3>1, <3>2
  <2> QED
    <3> DEFINE a == all.aval
               b == all.bval
    <3>1. \A i \in 1 .. m + 1 : \A w \in 1 .. n :
             /\ a[(i - 1) * n + w] = SlotOf(more[i].aval, more[i], width)[w]
             /\ IF b = <<>> THEN SlotOf(more[i].bval, more[i], width)[w] = {}
                            ELSE b[(i - 1) * n + w] = SlotOf(more[i].bval, more[i], width)[w]
      BY <1>10, <2>3, Zenon
    <3>2. /\ a \in Seq(SUBSET AllOnes) /\ Len(a) = (m + 1) * n
          /\ b \in Seq(SUBSET AllOnes) /\ Len(b) = (m + 1) * n
      BY <1>9, <2>2, Zenon
    <3>3. Len(more) = m + 1
      BY <1>8 DEF more
    <3> HIDE DEF a, b
    <3>4. PlanesHold(a, b, width, more)
      BY <1>1, <3>1, <3>2, <3>3 DEF PlanesHold
    <3> QED
      BY <3>4 DEF a, b, more, all
<1>12. CASE ~unfolded
  <2>1. bval = <<>> /\ all.bval = <<>> /\ IsTwoState(v) /\ v.width >= width
    <3>1. ~(v.width < width) => v.width >= width
      BY <1>3
    <3> QED
      BY <1>5, <1>12, <3>1 DEF NeedsPlane
  <2>2. \A w \in 1 .. n : sb[w] = {}
    <3> TAKE w \in 1 .. n
    <3>1. \A c \in AllOnes : c \notin sb[w]
      <4>1. ~(v.width < width)
        BY <1>3, <2>1
      <4>2. \A k \in DOMAIN v.bval : v.bval[k] = {}
        BY <2>1 DEF IsTwoState
      <4>3. \A k \in 1 .. n : k <= Len(v.bval) => v.bval[k] = {}
        BY <1>3, <4>2
      <4> QED
        BY <1>1, <1>3, <4>1, <4>3, SlotBits DEF sb
    <3>2. sb[w] \in SUBSET AllOnes
      BY <1>6
    <3> QED
      BY <3>1, <3>2
  <2>3. \A i \in 1 .. m + 1 : \A w \in 1 .. n : SlotOf(more[i].bval, more[i], width)[w] = {}
    <3> TAKE i \in 1 .. m + 1
    <3> TAKE w \in 1 .. n
    <3>1. CASE i \in 1 .. m
      BY <1>4, <1>8, <2>1, <3>1 DEF more
    <3>2. CASE i = m + 1
      BY <1>8, <2>2, <3>2 DEF more, sb
    <3> QED
      BY <3>1, <3>2
  <2>4. <<>> \in Seq(SUBSET AllOnes)
    OBVIOUS
  <2> DEFINE a == all.aval
             b == all.bval
  <2>5. \A i \in 1 .. m + 1 : \A w \in 1 .. n :
           /\ a[(i - 1) * n + w] = SlotOf(more[i].aval, more[i], width)[w]
           /\ IF b = <<>> THEN SlotOf(more[i].bval, more[i], width)[w] = {}
                          ELSE b[(i - 1) * n + w] = SlotOf(more[i].bval, more[i], width)[w]
    BY <1>10, <2>1, <2>3, Zenon
  <2>6. a \in Seq(SUBSET AllOnes) /\ Len(a) = (m + 1) * n /\ b = <<>> /\ b \in Seq(SUBSET AllOnes)
    BY <1>9, <2>1, <2>4
  <2>7. Len(more) = m + 1
    BY <1>8 DEF more
  <2> HIDE DEF a, b
  <2>8. PlanesHold(a, b, width, more)
    BY <1>1, <2>5, <2>6, <2>7 DEF PlanesHold
  <2> QED
    BY <2>8 DEF a, b, more, all
<1> QED
  BY <1>11, <1>12

-----------------------------------------------------------------------------
(* The arena of a STRING column: each value between two offsets that follow *)
(* one another, as long as the offsets fit their width.                     *)
StringsHold(arena, offsets, values) ==
  /\ arena \in Seq(0 .. Byte - 1) /\ offsets \in Seq(Nat) /\ Len(offsets) = Len(values) + 1
  /\ Len(arena) < Half =>
       /\ offsets[Len(values) + 1] = Len(arena)
       /\ \A i \in 1 .. Len(values) + 1 : \A j \in 1 .. i : offsets[j] <= offsets[i]
       /\ \A i \in 1 .. Len(values) : values[i] = SubSeq(arena, offsets[i] + 1, offsets[i + 1])

(* A part of a sequence stays that part when more follows.                  *)
LEMMA PartOfLonger ==
  ASSUME NEW S, NEW list \in Seq(S), NEW tail \in Seq(S), NEW lo \in Nat, NEW hi \in Nat, hi <= Len(list)
  PROVE  SubSeq(list \o tail, lo + 1, hi) = SubSeq(list, lo + 1, hi)
<1>1. PICK more : more = list \o tail
  OBVIOUS
<1>2. \A k \in 1 .. Len(list) : more[k] = list[k]
  BY <1>1, Joined, Zenon
<1>3. \A k \in lo + 1 .. hi : list[k] \in S /\ more[k] = list[k]
  BY <1>2
<1>4. /\ SubSeq(list, lo + 1, hi) \in Seq(S)
      /\ Len(SubSeq(list, lo + 1, hi)) = IF lo + 1 <= hi THEN hi - (lo + 1) + 1 ELSE 0
      /\ \A k \in 1 .. hi - (lo + 1) + 1 : SubSeq(list, lo + 1, hi)[k] = list[lo + 1 + k - 1]
  BY <1>3, SubSeqProperties
<1>5. /\ SubSeq(more, lo + 1, hi) \in Seq(S)
      /\ Len(SubSeq(more, lo + 1, hi)) = IF lo + 1 <= hi THEN hi - (lo + 1) + 1 ELSE 0
      /\ \A k \in 1 .. hi - (lo + 1) + 1 : SubSeq(more, lo + 1, hi)[k] = more[lo + 1 + k - 1]
  BY <1>3, SubSeqProperties
<1>6. PICK a \in Seq(S), b \in Seq(S) : a = SubSeq(list, lo + 1, hi) /\ b = SubSeq(more, lo + 1, hi)
  BY <1>4, <1>5
<1>7. Len(a) = Len(b) /\ Len(a) = IF lo + 1 <= hi THEN hi - lo ELSE 0
  BY <1>4, <1>5, <1>6
<1>8. ASSUME NEW k \in 1 .. Len(a)
      PROVE  a[k] = b[k]
  <2>1. k \in 1 .. hi - (lo + 1) + 1 /\ lo + 1 + k - 1 \in 1 .. Len(list)
    BY <1>7
  <2>2. a[k] = list[lo + 1 + k - 1] /\ b[k] = more[lo + 1 + k - 1]
    BY <1>4, <1>5, <1>6, <2>1
  <2> QED
    BY <1>2, <2>1, <2>2
<1>9. a = b
  BY <1>7, <1>8, SeqEqual
<1> QED
  BY <1>1, <1>6, <1>9

(* What is appended lies behind the rest.                                   *)
LEMMA PartBehind ==
  ASSUME NEW S, NEW list \in Seq(S), NEW tail \in Seq(S)
  PROVE  SubSeq(list \o tail, Len(list) + 1, Len(list) + Len(tail)) = tail
<1>1. PICK n \in Nat, m \in Nat : n = Len(list) /\ m = Len(tail)
  OBVIOUS
<1>2. PICK more : more = list \o tail
  OBVIOUS
<1>3. more \in Seq(S) /\ Len(more) = n + m /\ \A k \in 1 .. m : more[n + k] = tail[k]
  BY <1>1, <1>2, Joined
<1>4. \A k \in n + 1 .. n + m : more[k] \in S
  BY <1>3
<1>5. /\ SubSeq(more, n + 1, n + m) \in Seq(S)
      /\ Len(SubSeq(more, n + 1, n + m)) = IF n + 1 <= n + m THEN n + m - (n + 1) + 1 ELSE 0
      /\ \A k \in 1 .. n + m - (n + 1) + 1 : SubSeq(more, n + 1, n + m)[k] = more[n + 1 + k - 1]
  BY <1>4, SubSeqProperties
<1>6. PICK a \in Seq(S) : a = SubSeq(more, n + 1, n + m)
  BY <1>5, Zenon
<1>7. Len(a) = m
  BY <1>5, <1>6
<1>8. ASSUME NEW k \in 1 .. m
      PROVE  a[k] = tail[k]
  <2>1. k \in 1 .. n + m - (n + 1) + 1 /\ n + 1 + k - 1 = n + k
    OBVIOUS
  <2> QED
    BY <1>3, <1>5, <1>6, <2>1
<1>9. a = tail
  BY <1>1, <1>7, <1>8, SeqEqual
<1> QED
  BY <1>1, <1>2, <1>6, <1>9

(* append() of a string adds its characters and where they end.             *)
LEMMA StringAppended ==
  ASSUME NEW arena, NEW offsets, NEW values, NEW V, values \in Seq(V), NEW v \in Seq(0 .. Byte - 1), v \in V,
         StringsHold(arena, offsets, values)
  PROVE  StringsHold(arena \o v, Append(offsets, (Len(arena) + Len(v)) % Half), Append(values, v))
<1> DEFINE Chars == 0 .. Byte - 1
<1>1. /\ arena \in Seq(Chars) /\ v \in Seq(Chars)
      /\ offsets \in Seq(Nat) /\ Len(offsets) = Len(values) + 1
      /\ Len(arena) < Half =>
           /\ offsets[Len(values) + 1] = Len(arena)
           /\ \A i \in 1 .. Len(values) + 1 : \A j \in 1 .. i : offsets[j] <= offsets[i]
           /\ \A i \in 1 .. Len(values) : values[i] = SubSeq(arena, offsets[i] + 1, offsets[i + 1])
  BY DEF StringsHold
<1> HIDE DEF Chars
<1>2. PICK n \in Nat, x \in Nat, y \in Nat : n = Len(values) /\ x = Len(arena) /\ y = Len(v)
  BY <1>1
<1>3. PICK h \in Nat \ {0} : h = Half
  BY ColumnAssumption
<1>4. PICK end \in Nat : end = (x + y) % h /\ (x + y < h => end = x + y)
  <2>1. PICK z \in Nat : z = x + y
    OBVIOUS
  <2>2. z % h \in Nat /\ (z < h => z % h = z)
    OBVIOUS
  <2> QED
    BY <2>1, <2>2
<1>5. PICK longer : longer \in Seq(Chars) /\ longer = arena \o v /\ Len(longer) = x + y
  <2>1. arena \o v \in Seq(Chars) /\ Len(arena \o v) = Len(arena) + Len(v)
    BY <1>1, Joined
  <2> QED
    BY <1>2, <2>1
<1>6. PICK ends : /\ ends \in Seq(Nat) /\ ends = Append(offsets, end) /\ Len(ends) = n + 2 /\ ends[n + 2] = end
                  /\ \A k \in 1 .. n + 1 : ends[k] = offsets[k]
  <2>1. Len(offsets) = n + 1 /\ offsets \in Seq(Nat)
    BY <1>1, <1>2
  <2>2. PICK ends : ends = Append(offsets, end)
    OBVIOUS
  <2>3. ends \in Seq(Nat) /\ Len(ends) = n + 1 + 1 /\ ends[n + 1 + 1] = end /\ \A k \in 1 .. n + 1 : ends[k] = offsets[k]
    BY <2>1, <2>2, AppendProperties
  <2>4. n + 1 + 1 = n + 2
    OBVIOUS
  <2> QED
    BY <2>2, <2>3, <2>4
<1>7. PICK more : more = Append(values, v)
  OBVIOUS
<1>8. Len(more) = n + 1 /\ more[n + 1] = v /\ \A k \in 1 .. n : more[k] = values[k]
  BY <1>2, <1>7
<1>9. ASSUME x + y < h
      PROVE  /\ ends[n + 2] = x + y
             /\ \A i \in 1 .. n + 2 : \A j \in 1 .. i : ends[j] <= ends[i]
             /\ \A i \in 1 .. n + 1 : more[i] = SubSeq(longer, ends[i] + 1, ends[i + 1])
  <2>1. x < h
    BY <1>9
  <2>2. /\ offsets[n + 1] = x
        /\ \A i \in 1 .. n + 1 : \A j \in 1 .. i : offsets[j] <= offsets[i]
        /\ \A i \in 1 .. n : values[i] = SubSeq(arena, offsets[i] + 1, offsets[i + 1])
    BY <1>1, <1>2, <1>3, <2>1
  <2>3. ends[n + 2] = x + y
    BY <1>4, <1>6, <1>9
  <2>4. ASSUME NEW i \in 1 .. n
        PROVE  more[i] = SubSeq(longer, ends[i] + 1, ends[i + 1])
    <3>1. i \in 1 .. n + 1 /\ i + 1 \in 1 .. n + 1
      OBVIOUS
    <3>2. PICK lo \in Nat, hi \in Nat : lo = offsets[i] /\ hi = offsets[i + 1]
      BY <1>1, <1>2, <3>1
    <3>3. ends[i] = lo /\ ends[i + 1] = hi
      BY <1>6, <3>1, <3>2
    <3>3a. hi <= x
      <4>1. n + 1 \in 1 .. n + 1 /\ i + 1 \in 1 .. n + 1
        OBVIOUS
      <4> QED
        BY <2>2, <3>2, <4>1
    <3>4. SubSeq(longer, lo + 1, hi) = SubSeq(arena, lo + 1, hi)
      BY <1>1, <1>2, <1>5, <3>3a, PartOfLonger
    <3>5. more[i] = SubSeq(arena, lo + 1, hi)
      BY <1>8, <2>2, <3>2
    <3> QED
      BY <3>3, <3>4, <3>5
  <2>5. more[n + 1] = SubSeq(longer, ends[n + 1] + 1, ends[n + 2])
    <3>1. SubSeq(longer, x + 1, x + y) = v
      BY <1>1, <1>2, <1>5, PartBehind
    <3>2. ends[n + 1] = x
      <4>1. n + 1 \in 1 .. n + 1
        OBVIOUS
      <4> QED
        BY <1>6, <2>2, <4>1
    <3> QED
      BY <1>8, <2>3, <3>1, <3>2
  <2>6. ASSUME NEW i \in 1 .. n + 1
        PROVE  more[i] = SubSeq(longer, ends[i] + 1, ends[i + 1])
    <3>1. CASE i \in 1 .. n
      BY <2>4, <3>1
    <3>2. CASE i = n + 1
      <4>1. i + 1 = n + 2
        BY <3>2
      <4> QED
        BY <2>3, <2>5, <3>2, <4>1
    <3> QED
      BY <3>1, <3>2
  <2>7. ASSUME NEW i \in 1 .. n + 2, NEW j \in 1 .. i
        PROVE  ends[j] <= ends[i]
    <3>1. CASE i \in 1 .. n + 1
      <4>1. j \in 1 .. n + 1
        BY <3>1
      <4>2. offsets[j] <= offsets[i] /\ ends[j] = offsets[j] /\ ends[i] = offsets[i]
        BY <1>6, <2>2, <3>1, <4>1
      <4> QED
        BY <4>2
    <3>2. CASE i = n + 2 /\ j \in 1 .. n + 1
      <4>1. n + 1 \in 1 .. n + 1 /\ j \in 1 .. n + 1
        BY <3>2
      <4>2. PICK o \in Nat : o = offsets[j] /\ ends[j] = o
        BY <1>1, <1>2, <1>6, <4>1
      <4>3. o <= x
        BY <2>2, <4>1, <4>2
      <4> QED
        BY <2>3, <3>2, <4>2, <4>3
    <3>3. CASE i = n + 2 /\ j = n + 2
      BY <2>3, <3>3
    <3> QED
      BY <3>1, <3>2, <3>3
  <2> QED
    BY <2>3, <2>6, <2>7
<1>10. StringsHold(longer, ends, more)
  <2>1. Len(more) + 1 = n + 2 /\ Len(more) = n + 1
    BY <1>8
  <2>2. longer \in Seq(0 .. Byte - 1)
    BY <1>5 DEF Chars
  <2> QED
    BY <1>3, <1>5, <1>6, <1>8, <1>9, <2>1, <2>2 DEF StringsHold
<1>11. longer = arena \o v /\ ends = Append(offsets, (Len(arena) + Len(v)) % Half) /\ more = Append(values, v)
  BY <1>2, <1>3, <1>4, <1>5, <1>6, <1>7
<1> QED
  BY <1>10, <1>11, Zenon

-----------------------------------------------------------------------------
(* What append() was given, in order, and the columns that hold it: those   *)
(* of the kind the values, the others nothing.                              *)
Values == [i \in DOMAIN history |-> history[i][2]]
GivenValues == {change[2] : change \in Changes}

Filed(b, values) ==
  /\ b.width \in Nat
  /\ IF b.kind = "LOGIC" THEN values \in Seq(Views) /\ PlanesHold(b.aval, b.bval, b.width, values)
                         ELSE b.aval = <<>> /\ b.bval = <<>>
  /\ IF b.kind = "REAL" THEN b.reals = values ELSE b.reals = <<>>
  /\ IF b.kind = "STRING" THEN StringsHold(b.arena, b.offsets, values) ELSE b.arena = <<>> /\ b.offsets = <<>>

(* A value goes to the columns of its kind, behind those before it.         *)
LEMMA ValueFiled ==
  ASSUME NEW b, b = [x \in Shape |-> b[x]], b.kind \in {"NONE", "LOGIC", "REAL", "STRING"},
         NEW V, NEW values \in Seq(V), NEW v \in V, IsValue(b.kind, v), Filed(b, values)
  PROVE  Filed(WithValue(b, v), Append(values, v)) /\ WithValue(b, v).kind = b.kind
<1>1. PICK more : more = Append(values, v)
  OBVIOUS
<1>2. PICK w : w = WithValue(b, v)
  OBVIOUS
<1>3. CASE b.kind = "NONE"
  <2>1. w = b
    BY <1>2, <1>3 DEF WithValue
  <2> QED
    BY <1>1, <1>2, <1>3, <2>1 DEF Filed
<1>4. CASE b.kind = "LOGIC"
  <2>1. PICK planes : planes = WithLogic([aval |-> b.aval, bval |-> b.bval], b.width, v)
    OBVIOUS
  <2>2. w = [b EXCEPT !.aval = planes.aval, !.bval = planes.bval]
    BY <1>2, <1>4, <2>1 DEF WithValue
  <2>3. /\ w.kind = "LOGIC" /\ w.width = b.width /\ w.aval = planes.aval /\ w.bval = planes.bval
        /\ w.reals = b.reals /\ w.arena = b.arena /\ w.offsets = b.offsets
    BY <1>4, <2>2 DEF Shape
  <2>4. v \in Views
    BY <1>4 DEF Views, IsValue
  <2>5. values \in Seq(Views) /\ PlanesHold(b.aval, b.bval, b.width, values) /\ b.width \in Nat
    BY <1>4 DEF Filed
  <2>6. PlanesHold(planes.aval, planes.bval, b.width, more)
    BY <1>1, <2>1, <2>4, <2>5, LogicAppended
  <2>7. more \in Seq(Views)
    BY <1>1, <2>4, <2>5, AppendProperties
  <2>8. b.reals = <<>> /\ b.arena = <<>> /\ b.offsets = <<>>
    BY <1>4 DEF Filed
  <2> QED
    BY <1>1, <1>2, <1>4, <2>3, <2>5, <2>6, <2>7, <2>8 DEF Filed
<1>5. CASE b.kind = "REAL"
  <2>1. w = [b EXCEPT !.reals = Append(@, v)]
    BY <1>2, <1>5 DEF WithValue
  <2>2. /\ w.kind = "REAL" /\ w.width = b.width /\ w.aval = b.aval /\ w.bval = b.bval
        /\ w.reals = Append(b.reals, v) /\ w.arena = b.arena /\ w.offsets = b.offsets
    BY <1>5, <2>1 DEF Shape
  <2>3. b.reals = values /\ b.aval = <<>> /\ b.bval = <<>> /\ b.arena = <<>> /\ b.offsets = <<>> /\ b.width \in Nat
    BY <1>5 DEF Filed
  <2> QED
    BY <1>1, <1>2, <1>5, <2>2, <2>3 DEF Filed
<1>6. CASE b.kind = "STRING"
  <2>1. PICK end : end = (Len(b.arena) + Len(v)) % Half
    OBVIOUS
  <2>2. w = [b EXCEPT !.arena = @ \o v, !.offsets = Append(@, end)]
    BY <1>2, <1>6, <2>1 DEF WithValue
  <2>3. /\ w.kind = "STRING" /\ w.width = b.width /\ w.aval = b.aval /\ w.bval = b.bval
        /\ w.reals = b.reals /\ w.arena = b.arena \o v /\ w.offsets = Append(b.offsets, end)
    BY <1>6, <2>2 DEF Shape
  <2>4. /\ StringsHold(b.arena, b.offsets, values)
        /\ b.reals = <<>> /\ b.aval = <<>> /\ b.bval = <<>> /\ b.width \in Nat
    BY <1>6 DEF Filed
  <2>5. v \in Seq(0 .. Byte - 1)
    BY <1>6 DEF IsValue
  <2>6. StringsHold(b.arena \o v, Append(b.offsets, end), more)
    BY <1>1, <2>1, <2>4, <2>5, StringAppended
  <2> QED
    BY <1>1, <1>2, <1>6, <2>3, <2>4, <2>6 DEF Filed
<1> QED
  BY <1>3, <1>4, <1>5, <1>6

(* The kind of a block is one of the four, and its samples are values of it. *)
LEMMA SamplesFit ==
  ASSUME Kept, NEW change \in Samples[block.kind]
  PROVE  /\ block.kind \in {"NONE", "LOGIC", "REAL", "STRING"}
         /\ IsValue(block.kind, change[2]) /\ <<change[1], change[2]>> \in Changes
<1>1. PICK s \in Streams : block.kind = s.kind
  BY DEF Kept
<1>2. s.kind \in DOMAIN KindCode /\ \A c \in Samples[s.kind] : IsValue(s.kind, c[2])
  BY SamplesAssumption DEF SamplesAssumption
<1>3. <<change[1], change[2]>> \in Changes
  BY <1>1 DEF Changes
<1> QED
  BY <1>1, <1>2, <1>3 DEF KindCode

(* Values of a longer history.                                              *)
LEMMA ValuesOfLonger ==
  ASSUME NEW t, NEW v, <<t, v>> \in Changes, history \in Seq(Changes), history' = Append(history, <<t, v>>)
  PROVE  /\ Values \in Seq(GivenValues) /\ Len(Values) = Len(history) /\ v \in GivenValues
         /\ Values' = Append(Values, v)
<1>1. PICK n \in Nat : n = Len(history)
  OBVIOUS
<1>2. \A i \in 1 .. n : history[i] \in Changes
  BY <1>1
<1>3. Values \in [1 .. n -> GivenValues]
  BY <1>1, <1>2 DEF Values, GivenValues
<1>4. v \in GivenValues
  BY DEF GivenValues
<1>5. Values \in Seq(GivenValues) /\ Len(Values) = n
  BY <1>3, FunctionIsSeq
<1>6. /\ Len(history') = n + 1 /\ history' \in Seq(Changes) /\ history'[n + 1] = <<t, v>>
      /\ \A i \in 1 .. n : history'[i] = history[i]
  BY <1>1, AppendProperties
<1>7. Values' = [i \in 1 .. n + 1 |-> history'[i][2]]
  BY <1>6 DEF Values
<1>8. PICK more : more = Append(Values, v)
  OBVIOUS
<1>9. /\ more \in Seq(GivenValues) /\ Len(more) = n + 1 /\ more[n + 1] = v
      /\ \A i \in 1 .. n : more[i] = Values[i]
  BY <1>4, <1>5, <1>8, AppendProperties
<1>10. ASSUME NEW i \in 1 .. n + 1
       PROVE  more[i] = history'[i][2]
  <2>0. i \in 1 .. n \/ i = n + 1
    OBVIOUS
  <2>1. CASE i \in 1 .. n
    <3>1. Values[i] = history[i][2]
      BY <1>1, <2>1 DEF Values
    <3> QED
      BY <1>6, <1>9, <2>1, <3>1
  <2>2. CASE i = n + 1
    BY <1>6, <1>9, <2>2
  <2> QED
    BY <2>0, <2>1, <2>2, Zenon
<1>11. more = [i \in 1 .. n + 1 |-> more[i]]
  BY <1>9
<1>12. more = Values'
  BY <1>7, <1>10, <1>11
<1> QED
  BY <1>1, <1>4, <1>5, <1>8, <1>12

(* An empty block holds no values.                                          *)
LEMMA FiledInit == Init => Filed(block, Values)
<1> SUFFICES ASSUME Init PROVE Filed(block, Values)
  OBVIOUS
<1>1. PICK s \in Streams : block = Empty(s.kind, s.width)
  BY DEF Init
<1>2. /\ block.kind = s.kind /\ block.width = IF s.kind = "LOGIC" THEN s.width ELSE 0
      /\ block.aval = <<>> /\ block.bval = <<>> /\ block.reals = <<>> /\ block.arena = <<>>
      /\ block.offsets = IF s.kind = "STRING" THEN <<0>> ELSE <<>>
  BY <1>1 DEF Empty
<1>3. Values = <<>>
  BY DEF Init, Values
<1>4. block.width \in Nat
  BY <1>2, SamplesAssumption DEF SamplesAssumption
<1>5. PlanesHold(<<>>, <<>>, block.width, <<>>)
  <2>1. PICK n \in Nat : WordsFor(block.width) = n
    BY <1>4, WordsAre
  <2>2. 0 * n = 0 /\ Len(<<>>) = 0 /\ <<>> \in Seq(SUBSET AllOnes)
    OBVIOUS
  <2> QED
    BY <2>1, <2>2 DEF PlanesHold
<1>6. s.kind = "STRING" => StringsHold(<<>>, block.offsets, <<>>)
  <2>1. <<>> \in Seq(0 .. Byte - 1) /\ Len(<<>>) = 0
    OBVIOUS
  <2>2. <<0>> \in Seq(Nat) /\ Len(<<0>>) = 1 /\ <<0>>[1] = 0
    OBVIOUS
  <2> QED
    BY <1>2, <2>1, <2>2 DEF StringsHold
<1>7. <<>> \in Seq(Views)
  OBVIOUS
<1> QED
  BY <1>2, <1>3, <1>4, <1>5, <1>6, <1>7 DEF Filed

(* Every step keeps the columns filed.                                      *)
LEMMA FiledNext == Kept /\ Filed(block, Values) /\ [Next]_vars => Filed(block', Values')
<1> SUFFICES ASSUME Kept, Filed(block, Values), [Next]_vars PROVE Filed(block', Values')
  OBVIOUS
<1>1. CASE \E change \in Samples[block.kind] : AppendChange(change[1], change[2])
  <2>1. PICK change \in Samples[block.kind] : AppendChange(change[1], change[2])
    BY <1>1
  <2>2. PICK t, v : t = change[1] /\ v = change[2]
    OBVIOUS
  <2>3. PICK valued : valued = WithValue(block, v)
    OBVIOUS
  <2>4. block' = [valued EXCEPT !.times = Column!Added(@, t)] /\ history' = Append(history, <<t, v>>)
    BY <2>1, <2>2, <2>3 DEF AppendChange
  <2>5. /\ block.kind \in {"NONE", "LOGIC", "REAL", "STRING"}
        /\ IsValue(block.kind, v) /\ <<t, v>> \in Changes
    BY <2>2, SamplesFit
  <2>6. valued = [x \in Shape |-> valued[x]]
    BY <2>3, ValueLeavesTimes
  <2>7. /\ block'.kind = valued.kind /\ block'.width = valued.width
        /\ block'.aval = valued.aval /\ block'.bval = valued.bval /\ block'.reals = valued.reals
        /\ block'.arena = valued.arena /\ block'.offsets = valued.offsets
    BY <2>4, <2>6 DEF Shape
  <2>8. history \in Seq(Changes) /\ block = [x \in Shape |-> block[x]]
    BY DEF Kept
  <2>9. Values \in Seq(GivenValues) /\ v \in GivenValues /\ Values' = Append(Values, v)
    BY <2>4, <2>5, <2>8, ValuesOfLonger
  <2>10. Filed(valued, Append(Values, v))
    BY <2>3, <2>5, <2>8, <2>9, ValueFiled
  <2> QED
    BY <2>7, <2>9, <2>10 DEF Filed
<1>2. CASE UNCHANGED vars
  <2>1. block' = block /\ history' = history
    BY <1>2 DEF vars
  <2>2. Values' = Values
    BY <2>1 DEF Values
  <2> QED
    BY <2>1, <2>2 DEF Filed
<1> QED
  BY <1>1, <1>2 DEF Next

(* A slot of a plane, as a view takes it.                                   *)
LEMMA SlotPart ==
  ASSUME NEW plane \in Seq(SUBSET AllOnes), NEW m \in Nat, NEW n \in Nat, Len(plane) = m * n, NEW i \in 1 .. m
  PROVE  /\ \A w \in 1 .. n : SubSeq(plane, (i - 1) * n + 1, (i - 1 + 1) * n)[w] = plane[(i - 1) * n + w]
         /\ n > 0 => SubSeq(plane, (i - 1) * n + 1, (i - 1 + 1) * n) # <<>>
<1>1. PICK p \in Nat : p = m * n /\ p = Len(plane)
  OBVIOUS
<1>2. i - 1 \in Nat
  OBVIOUS
<1>3. PICK q \in Nat : q = (i - 1) * n /\ (i - 1 + 1) * n = q + n
  BY <1>2
<1>4. \A w \in 1 .. n : q + w \in 1 .. p
  BY <1>1, <1>3, InSlots
<1>5. \A k \in q + 1 .. q + n : plane[k] \in SUBSET AllOnes
  <2> SUFFICES ASSUME NEW k \in q + 1 .. q + n PROVE plane[k] \in SUBSET AllOnes
    OBVIOUS
  <2>1. k - q \in 1 .. n /\ q + (k - q) = k
    OBVIOUS
  <2>2. k \in 1 .. p
    BY <1>4, <2>1
  <2> QED
    BY <1>1, <2>2
<1>6. PICK part : part = SubSeq(plane, q + 1, q + n)
  OBVIOUS
<1>7. /\ part \in Seq(SUBSET AllOnes)
      /\ Len(part) = IF q + 1 <= q + n THEN q + n - (q + 1) + 1 ELSE 0
      /\ \A k \in 1 .. q + n - (q + 1) + 1 : part[k] = plane[q + 1 + k - 1]
  <2>1. PICK W : W = SUBSET AllOnes
    OBVIOUS
  <2>2. \A k \in q + 1 .. q + n : plane[k] \in W
    BY <1>5, <2>1
  <2> QED
    BY <1>6, <2>1, <2>2, SubSeqProperties
<1>8. ASSUME NEW w \in 1 .. n
      PROVE  part[w] = plane[q + w]
  <2>1. w \in 1 .. q + n - (q + 1) + 1 /\ q + 1 + w - 1 = q + w
    OBVIOUS
  <2> QED
    BY <1>7, <2>1
<1>9. n > 0 => part # <<>>
  BY <1>7
<1> QED
  BY <1>3, <1>6, <1>8, <1>9

(* A slot read back shows the value it was filed for.                       *)
LEMMA LogicReads ==
  ASSUME NEW aval, NEW bval, NEW width \in Nat, NEW values \in Seq(Views), PlanesHold(aval, bval, width, values),
         NEW i \in 1 .. Len(values), NEW bit \in 0 .. width - 1
  PROVE  BitAt(SlotAt([aval |-> aval, bval |-> bval], width, i - 1), bit) = BitAt(values[i], bit)
<1>1. PICK n \in Nat : n = WordsFor(width) /\ n > 0
  <2>1. width > 0
    OBVIOUS
  <2> QED
    BY <2>1, WordsAre
<1>2. PICK m \in Nat : m = Len(values) /\ i \in 1 .. m
  OBVIOUS
<1>3. /\ aval \in Seq(SUBSET AllOnes) /\ Len(aval) = m * n
      /\ bval \in Seq(SUBSET AllOnes) /\ (bval # <<>> => Len(bval) = m * n)
      /\ \A w \in 1 .. n :
           /\ aval[(i - 1) * n + w] = SlotOf(values[i].aval, values[i], width)[w]
           /\ IF bval = <<>> THEN SlotOf(values[i].bval, values[i], width)[w] = {}
                             ELSE bval[(i - 1) * n + w] = SlotOf(values[i].bval, values[i], width)[w]
  BY <1>1, <1>2 DEF PlanesHold
<1>4. PICK v \in Views : v = values[i]
  BY <1>2
<1>5. PICK u : u = SlotAt([aval |-> aval, bval |-> bval], width, i - 1)
  OBVIOUS
<1>6. /\ u.width = width
      /\ u.aval = IF aval = <<>> THEN <<>> ELSE SubSeq(aval, (i - 1) * n + 1, (i - 1 + 1) * n)
      /\ u.bval = IF bval = <<>> THEN <<>> ELSE SubSeq(bval, (i - 1) * n + 1, (i - 1 + 1) * n)
  BY <1>1, <1>5 DEF SlotAt
<1>7. aval # <<>>
  <2>1. SUFFICES ASSUME aval = <<>> PROVE FALSE
    OBVIOUS
  <2>2. m * n = 0
    BY <1>3, <2>1
  <2>3. 0 * n + n <= m * n
    BY <1>2, SlotAfterSlot
  <2> QED
    BY <1>1, <2>2, <2>3
<1>8. \A w \in 1 .. n : SubSeq(aval, (i - 1) * n + 1, (i - 1 + 1) * n)[w] = aval[(i - 1) * n + w]
  BY <1>2, <1>3, SlotPart
<1>9. bval # <<>> =>
        /\ \A w \in 1 .. n : SubSeq(bval, (i - 1) * n + 1, (i - 1 + 1) * n)[w] = bval[(i - 1) * n + w]
        /\ SubSeq(bval, (i - 1) * n + 1, (i - 1 + 1) * n) # <<>>
  <2> SUFFICES ASSUME bval # <<>>
               PROVE  /\ \A w \in 1 .. n : SubSeq(bval, (i - 1) * n + 1, (i - 1 + 1) * n)[w] = bval[(i - 1) * n + w]
                      /\ SubSeq(bval, (i - 1) * n + 1, (i - 1 + 1) * n) # <<>>
    OBVIOUS
  <2>1. bval \in Seq(SUBSET AllOnes) /\ Len(bval) = m * n
    BY <1>3
  <2> QED
    BY <1>1, <1>2, <2>1, SlotPart, ZenonT(60)
<1>10. \A w \in 1 .. WordsFor(width) : u.aval[w] = SlotOf(v.aval, v, width)[w]
  <2> SUFFICES ASSUME NEW w \in 1 .. n PROVE u.aval[w] = SlotOf(v.aval, v, width)[w]
    BY <1>1
  <2>1. u.aval = SubSeq(aval, (i - 1) * n + 1, (i - 1 + 1) * n)
    BY <1>6, <1>7, Zenon
  <2>2. u.aval[w] = aval[(i - 1) * n + w]
    BY <1>8, <2>1, Zenon
  <2> QED
    BY <1>3, <1>4, <2>2, Zenon
<1>11. \A w \in 1 .. WordsFor(width) :
         IF u.bval = <<>> THEN SlotOf(v.bval, v, width)[w] = {}
                          ELSE u.bval[w] = SlotOf(v.bval, v, width)[w]
  <2> SUFFICES ASSUME NEW w \in 1 .. n
               PROVE  IF u.bval = <<>> THEN SlotOf(v.bval, v, width)[w] = {}
                                       ELSE u.bval[w] = SlotOf(v.bval, v, width)[w]
    BY <1>1
  <2>1. CASE bval = <<>>
    BY <1>3, <1>4, <1>6, <2>1, Zenon
  <2>2. CASE bval # <<>>
    <3>1. u.bval = SubSeq(bval, (i - 1) * n + 1, (i - 1 + 1) * n)
      BY <1>6, <2>2, Zenon
    <3>2. u.bval # <<>> /\ u.bval[w] = bval[(i - 1) * n + w]
      BY <1>9, <2>2, <3>1, Zenon
    <3> QED
      BY <1>3, <1>4, <2>2, <3>2, Zenon
  <2> QED
    BY <2>1, <2>2
<1>12. BitAt(u, bit) = BitAt(v, bit)
  BY <1>6, <1>10, <1>11, SlotShows
<1> QED
  BY <1>4, <1>5, <1>12

(* A value that a block of the stream's kind and width holds shows what it  *)
(* was filed for.                                                           *)
LEMMA ValueReads ==
  ASSUME NEW b, b.kind \in {"NONE", "LOGIC", "REAL", "STRING"}, b.kind = block.kind, b.width = block.width,
         NEW V, NEW values \in Seq(V), Filed(b, values), Len(b.arena) < Half, NEW i \in 1 .. Len(values)
  PROVE  Shown(ValueAt(b, i - 1)) = IF block.kind = "NONE" THEN <<>> ELSE Shown(values[i])
<1>1. CASE b.kind = "NONE"
  BY <1>1 DEF ValueAt, Shown
<1>2. CASE b.kind = "LOGIC"
  <2>1. PICK u, v : u = ValueAt(b, i - 1) /\ v = values[i]
    OBVIOUS
  <2>2. u = SlotAt([aval |-> b.aval, bval |-> b.bval], b.width, i - 1)
    BY <1>2, <2>1 DEF ValueAt
  <2>3. values \in Seq(Views) /\ PlanesHold(b.aval, b.bval, b.width, values) /\ b.width \in Nat
    BY <1>2 DEF Filed
  <2>4. \A bit \in 0 .. b.width - 1 : BitAt(u, bit) = BitAt(v, bit)
    <3> SUFFICES ASSUME NEW bit \in 0 .. b.width - 1 PROVE BitAt(u, bit) = BitAt(v, bit)
      OBVIOUS
    <3>1. BitAt(SlotAt([aval |-> b.aval, bval |-> b.bval], b.width, i - 1), bit) = BitAt(values[i], bit)
      BY <2>3, LogicReads
    <3> QED
      BY <2>1, <2>2, <3>1
  <2>5. [bit \in 0 .. b.width - 1 |-> BitAt(u, bit)] = [bit \in 0 .. b.width - 1 |-> BitAt(v, bit)]
    BY <2>4, Zenon
  <2> QED
    BY <1>2, <2>1, <2>5 DEF Shown
<1>3. CASE b.kind = "REAL"
  <2>1. ValueAt(b, i - 1) = b.reals[i]
    BY <1>3 DEF ValueAt
  <2>2. b.reals = values
    BY <1>3 DEF Filed
  <2> QED
    BY <1>3, <2>1, <2>2 DEF Shown
<1>4. CASE b.kind = "STRING"
  <2>1. i - 1 + 1 = i /\ i - 1 + 2 = i + 1
    OBVIOUS
  <2>2. ValueAt(b, i - 1) = SubSeq(b.arena, b.offsets[i] + 1, b.offsets[i + 1])
    BY <1>4, <2>1 DEF ValueAt
  <2>3. StringsHold(b.arena, b.offsets, values)
    BY <1>4 DEF Filed
  <2>4. values[i] = SubSeq(b.arena, b.offsets[i] + 1, b.offsets[i + 1])
    BY <2>3 DEF StringsHold
  <2> QED
    BY <1>4, <2>2, <2>4 DEF Shown
<1> QED
  BY <1>1, <1>2, <1>3, <1>4

(* The size of the history, of its values and of a column for their times.  *)
LEMMA Sizes ==
  ASSUME Kept
  PROVE  \E n \in Nat : /\ n = Len(history) /\ DOMAIN history = 1 .. n
                        /\ Values \in Seq(GivenValues) /\ Len(Values) = n /\ Times \in Seq(Int) /\ Len(Times) = n
                        /\ \A i \in 1 .. n : Values[i] = history[i][2] /\ Times[i] = history[i][1]
<1>1. PICK n \in Nat : n = Len(history) /\ DOMAIN history = 1 .. n /\ \A i \in 1 .. n : history[i] \in Changes
  BY DEF Kept
<1>2. Values \in [1 .. n -> GivenValues]
  BY <1>1 DEF Values, GivenValues
<1>3. Values \in Seq(GivenValues) /\ Len(Values) = n
  BY <1>2, FunctionIsSeq
<1>4. Times \in Seq(Int) /\ Len(Times) = n
  BY <1>1 DEF Kept, Times
<1>5. \A i \in 1 .. n : Values[i] = history[i][2] /\ Times[i] = history[i][1]
  BY <1>1 DEF Values, Times
<1> QED
  BY <1>1, <1>3, <1>4, <1>5

(* A column has as many entries as it stands for times.                     *)
LEMMA ColumnSize ==
  ASSUME NEW c, NEW times \in Seq(Int), StandsFor(c, times)
  PROVE  Column!Size(c) = Len(times)
BY DEF StandsFor, Column!Size, Column!IsWide

(* What the columns hold reads back as it was given.                        *)
LEMMA FiledReads == Kept /\ Filed(block, Values) /\ Len(block.arena) < Half => ValuesExact
<1> SUFFICES ASSUME Kept, Filed(block, Values), Len(block.arena) < Half PROVE ValuesExact
  OBVIOUS
<1>1. PICK n \in Nat : /\ DOMAIN history = 1 .. n /\ Values \in Seq(GivenValues) /\ Len(Values) = n
                       /\ Times \in Seq(Int) /\ Len(Times) = n /\ \A i \in 1 .. n : Values[i] = history[i][2]
  BY Sizes
<1>2. Count(block) = n
  BY <1>1, ColumnSize DEF Count, Kept
<1>3. block.kind \in {"NONE", "LOGIC", "REAL", "STRING"}
  BY SamplesAssumption DEF Kept, SamplesAssumption, KindCode
<1>4. ASSUME NEW i \in 1 .. n
      PROVE  Shown(ValueAt(block, i - 1)) = IF block.kind = "NONE" THEN <<>> ELSE Shown(history[i][2])
  <2>1. PICK b, V, values : b = block /\ V = GivenValues /\ values = Values
    OBVIOUS
  <2>2. /\ b.kind \in {"NONE", "LOGIC", "REAL", "STRING"} /\ b.kind = block.kind /\ b.width = block.width
        /\ values \in Seq(V) /\ Filed(b, values) /\ Len(b.arena) < Half /\ i \in 1 .. Len(values)
    BY <1>1, <1>3, <2>1
  <2>3. Shown(ValueAt(b, i - 1)) = IF block.kind = "NONE" THEN <<>> ELSE Shown(values[i])
    BY <2>2, ValueReads, SMTT(30)
  <2> QED
    BY <1>1, <2>1, <2>3
<1>5. /\ ShownBy(block) = [i \in 1 .. n |-> Shown(ValueAt(block, i - 1))]
      /\ Given = [i \in 1 .. n |-> IF block.kind = "NONE" THEN <<>> ELSE Shown(history[i][2])]
  BY <1>1, <1>2 DEF ShownBy, Given
<1> QED
  BY <1>4, <1>5, Zenon DEF ValuesExact

(* Columns filed for their values have the lengths they should and no bit   *)
(* above the width.                                                         *)
LEMMA FiledClean == Kept /\ Filed(block, Values) => TypeOK /\ PlanesClean
<1> SUFFICES ASSUME Kept, Filed(block, Values) PROVE TypeOK /\ PlanesClean
  OBVIOUS
<1>1. PICK n \in Nat : n = Len(history) /\ DOMAIN history = 1 .. n
  BY DEF Kept
<1>2. Len(Values) = n
  <2>1. Values = [k \in 1 .. n |-> history[k][2]]
    BY <1>1 DEF Values
  <2> QED
    BY <2>1
<1>3. block.kind \in {"NONE", "LOGIC", "REAL", "STRING"}
  BY SamplesAssumption DEF Kept, SamplesAssumption, KindCode
<1>4. block.width \in Nat
  BY DEF Filed
<1>5. PICK d \in Nat : d = WordsFor(block.width)
  BY <1>4, WordsAre
<1>6. TypeOK
  <2>1. block.kind \in DOMAIN KindCode
    BY <1>3 DEF KindCode
  <2>2. block.times.narrow = <<>> \/ block.times.wide = <<>>
    BY DEF Kept, StandsFor
  <2>3. /\ Len(block.aval) = IF block.kind = "LOGIC" THEN n * d ELSE 0
        /\ block.bval # <<>> => Len(block.bval) = Len(block.aval)
        /\ \A w \in DOMAIN block.aval : block.aval[w] \subseteq AllOnes
    <3>1. CASE block.kind = "LOGIC"
      <4>1. /\ block.aval \in Seq(SUBSET AllOnes) /\ Len(block.aval) = n * d
            /\ (block.bval # <<>> => Len(block.bval) = Len(block.aval))
        BY <1>2, <1>5, <3>1 DEF Filed, PlanesHold
      <4> QED
        BY <3>1, <4>1
    <3>2. CASE block.kind # "LOGIC"
      BY <3>2 DEF Filed
    <3> QED
      BY <3>1, <3>2
  <2>4. Len(block.reals) = IF block.kind = "REAL" THEN n ELSE 0
    BY <1>2 DEF Filed
  <2>5. block.kind = "STRING" => Len(block.offsets) = n + 1
    BY <1>2 DEF Filed, StringsHold
  <2> QED
    BY <1>1, <1>5, <2>1, <2>2, <2>3, <2>4, <2>5 DEF TypeOK
<1>7. PlanesClean
  <2>1. CASE block.kind # "LOGIC"
    BY <2>1 DEF PlanesClean, Filed
  <2>2. CASE block.kind = "LOGIC"
    <3>1. /\ Values \in Seq(Views)
          /\ block.aval \in Seq(SUBSET AllOnes) /\ Len(block.aval) = n * d
          /\ block.bval \in Seq(SUBSET AllOnes) /\ (block.bval # <<>> => Len(block.bval) = n * d)
          /\ \A i \in 1 .. n : \A w \in 1 .. d :
               /\ block.aval[(i - 1) * d + w] = SlotOf(Values[i].aval, Values[i], block.width)[w]
               /\ IF block.bval = <<>> THEN SlotOf(Values[i].bval, Values[i], block.width)[w] = {}
                    ELSE block.bval[(i - 1) * d + w] = SlotOf(Values[i].bval, Values[i], block.width)[w]
      BY <1>2, <1>5, <2>2 DEF Filed, PlanesHold
    <3>2. ASSUME NEW k \in 1 .. n * d
          PROVE  \E i \in 1 .. n, w \in 1 .. d : k = (i - 1) * d + w /\ (k - 1) % d = w - 1
      <4>1. d # 0
        <5>1. d = 0 => n * d = 0
          OBVIOUS
        <5> QED
          BY <5>1
      <4>2. PICK p \in Nat : p = n * d
        OBVIOUS
      <4>3. PICK x \in Nat : x = k - 1 /\ x < p
        BY <4>2
      <4>4. PICK q \in Nat : q = x \div d
        BY <4>1
      <4>5. PICK r \in 0 .. d - 1 : r = x % d
        BY <4>1
      <4>6. x = q * d + r
        BY <4>1, <4>4, <4>5
      <4>7. q < n
        <5>1. SUFFICES ASSUME ~(q < n) PROVE FALSE
          OBVIOUS
        <5>2. p <= q * d
          <6>1. CASE n = q
            BY <4>2, <6>1
          <6>2. CASE n < q
            BY <4>2, <6>2, SlotAfterSlot
          <6> QED
            BY <5>1, <6>1, <6>2
        <5>3. PICK y \in Nat : y = q * d
          OBVIOUS
        <5> QED
          BY <4>3, <4>6, <5>2, <5>3
      <4>8. q + 1 \in 1 .. n /\ r + 1 \in 1 .. d /\ q + 1 - 1 = q
        BY <4>5, <4>7
      <4>9. k = q * d + (r + 1) /\ (k - 1) % d = r + 1 - 1
        <5>1. PICK y \in Nat : y = q * d
          OBVIOUS
        <5>2. k = y + (r + 1)
          BY <4>3, <4>6, <5>1
        <5> QED
          BY <4>3, <4>5, <5>1, <5>2
      <4>10. PICK i, w : i = q + 1 /\ w = r + 1
        OBVIOUS
      <4>11. k = (i - 1) * d + w /\ (k - 1) % d = w - 1 /\ i \in 1 .. n /\ w \in 1 .. d
        BY <4>8, <4>9, <4>10
      <4> QED
        BY <4>11
    <3>3. ASSUME NEW i \in 1 .. n, NEW w \in 1 .. d, NEW c
          PROVE  /\ c \in SlotOf(Values[i].aval, Values[i], block.width)[w] => (w - 1) * K + c < block.width
                 /\ c \in SlotOf(Values[i].bval, Values[i], block.width)[w] => (w - 1) * K + c < block.width
      <4>1. PICK v \in Views : v = Values[i]
        BY <1>2, <3>1
      <4>2. v.width \in Nat /\ v.aval \in Seq(SUBSET AllOnes) /\ v.bval \in Seq(SUBSET AllOnes)
        BY <4>1 DEF Views
      <4>3. /\ SlotOf(v.aval, v, block.width) \in [1 .. d -> SUBSET AllOnes]
            /\ \A e \in AllOnes : e \in SlotOf(v.aval, v, block.width)[w] => (w - 1) * K + e < block.width
        BY <1>4, <1>5, <4>2, SlotBits
      <4>4. /\ SlotOf(v.bval, v, block.width) \in [1 .. d -> SUBSET AllOnes]
            /\ \A e \in AllOnes : e \in SlotOf(v.bval, v, block.width)[w] => (w - 1) * K + e < block.width
        BY <1>4, <1>5, <4>2, SlotBits
      <4>5. SlotOf(v.aval, v, block.width)[w] \in SUBSET AllOnes /\ SlotOf(v.bval, v, block.width)[w] \in SUBSET AllOnes
        BY <4>3, <4>4, Zenon
      <4> QED
        BY <4>1, <4>3, <4>4, <4>5, Zenon
    <3>4. ASSUME NEW k \in DOMAIN block.aval, NEW c \in block.aval[k]
          PROVE  ((k - 1) % d) * K + c < block.width
      <4>1. k \in 1 .. n * d
        BY <3>1
      <4>2. PICK i \in 1 .. n, w \in 1 .. d : k = (i - 1) * d + w /\ (k - 1) % d = w - 1
        BY <3>2, <4>1
      <4>3. block.aval[k] = SlotOf(Values[i].aval, Values[i], block.width)[w]
        BY <3>1, <4>2, Zenon
      <4>4. (w - 1) * K + c < block.width
        BY <3>3, <3>4, <4>3, Zenon
      <4> QED
        BY <4>2, <4>4, Zenon
    <3>5. ASSUME NEW k \in DOMAIN block.bval, NEW c \in block.bval[k]
          PROVE  ((k - 1) % d) * K + c < block.width
      <4>0. block.bval # <<>>
        BY <3>1, <3>5
      <4>1. k \in 1 .. n * d
        BY <3>1, <4>0
      <4>2. PICK i \in 1 .. n, w \in 1 .. d : k = (i - 1) * d + w /\ (k - 1) % d = w - 1
        BY <3>2, <4>1
      <4>3. block.bval[k] = SlotOf(Values[i].bval, Values[i], block.width)[w]
        BY <3>1, <4>0, <4>2, Zenon
      <4>4. (w - 1) * K + c < block.width
        BY <3>3, <3>5, <4>3, Zenon
      <4> QED
        BY <4>2, <4>4, Zenon
    <3> QED
      BY <1>5, <3>4, <3>5, Zenon DEF PlanesClean
  <2> QED
    BY <2>1, <2>2
<1> QED
  BY <1>6, <1>7

(* Columns hold what was appended, bit by bit and character by character,   *)
(* whatever was appended before or after it, with nothing above the width   *)
(* of a stream: for values of any width and any number of changes, as long  *)
(* as the characters fit the 32 bits of an offset, which append() does not  *)
(* check (decoded_block.cpp:53).  The lengths and the clean words need no   *)
(* such limit.                                                              *)
THEOREM ColumnsCorrect == Spec => [](/\ TypeOK /\ PlanesClean
                                     /\ Len(block.arena) < Half => ColumnsExact)
<1> DEFINE Inv == Kept /\ Filed(block, Values)
<1>1. Init => Inv
  BY KeptInit, FiledInit
<1>2. Inv /\ [Next]_vars => Inv'
  <2> SUFFICES ASSUME Inv, [Next]_vars PROVE Inv'
    OBVIOUS
  <2>1. Kept'
    BY KeptByNext
  <2>2. Filed(block', Values')
    BY FiledNext
  <2>3. Filed(block, Values)'
    BY <2>2
  <2> QED
    BY <2>1, <2>3
<1>3. Inv => /\ TypeOK /\ PlanesClean
             /\ Len(block.arena) < Half => ColumnsExact
  BY FiledReads, FiledClean DEF ColumnsExact
<1> QED
  BY <1>1, <1>2, <1>3, PTL DEF Spec

-----------------------------------------------------------------------------
(* A column keeps its form when a time is appended.                         *)
LEMMA AddedType == ASSUME NEW c \in Columns, NEW t \in Int PROVE Column!Added(c, t) \in Columns
<1>1. /\ c.base \in Int /\ c.narrow \in Seq(Int) /\ c.wide \in Seq(Int)
      /\ c = [base |-> c.base, narrow |-> c.narrow, wide |-> c.wide]
  BY DEF Columns
<1>2. PICK off \in Int : off = Column!OffsetFromBase(c, t)
  BY <1>1, ColumnAssumption DEF Column!OffsetFromBase
<1>3. PICK absolute \in Seq(Int) : absolute = [i \in DOMAIN c.narrow |-> c.base + c.narrow[i]]
  <2>1. PICK narrow \in Seq(Int), base \in Int : narrow = c.narrow /\ base = c.base
    BY <1>1
  <2>2. PICK m \in Nat : m = Len(narrow) /\ DOMAIN narrow = 1 .. m /\ \A i \in 1 .. m : narrow[i] \in Int
    OBVIOUS
  <2>3. [i \in 1 .. m |-> base + narrow[i]] \in [1 .. m -> Int]
    BY <2>2
  <2>4. [i \in 1 .. m |-> base + narrow[i]] \in Seq(Int)
    BY <2>3, FunctionIsSeq
  <2> QED
    BY <2>1, <2>2, <2>4
<1>4. <<>> \in Seq(Int) /\ <<0>> \in Seq(Int)
  OBVIOUS
<1>5. CASE Column!IsWide(c)
  <2>1. Column!Added(c, t) = [c EXCEPT !.wide = Append(@, t)]
    BY <1>5 DEF Column!Added
  <2>2. Append(c.wide, t) \in Seq(Int)
    BY <1>1
  <2> QED
    BY <1>1, <2>1, <2>2 DEF Columns
<1>6. CASE ~Column!IsWide(c) /\ c.narrow = <<>>
  <2>1. Column!Added(c, t) = [c EXCEPT !.base = t, !.narrow = <<0>>]
    BY <1>6 DEF Column!Added
  <2> QED
    BY <1>1, <1>4, <2>1 DEF Columns
<1>7. CASE ~Column!IsWide(c) /\ c.narrow # <<>> /\ (t < c.base \/ Column!OffsetFromBase(c, t) > Column!MaxNarrow)
  <2>1. Column!Added(c, t) = [Column!Promoted(c) EXCEPT !.wide = Append(@, t)]
    BY <1>7 DEF Column!Added
  <2>2. Column!Promoted(c) = [c EXCEPT !.wide = absolute, !.narrow = <<>>]
    BY <1>3 DEF Column!Promoted
  <2>3. PICK p : p = Column!Promoted(c)
    OBVIOUS
  <2>4. p \in Columns /\ p.wide = absolute
    BY <1>1, <1>4, <2>2, <2>3 DEF Columns
  <2>5. Append(absolute, t) \in Seq(Int)
    OBVIOUS
  <2>6. Column!Added(c, t) = [p EXCEPT !.wide = Append(absolute, t)]
    BY <2>1, <2>3, <2>4
  <2> QED
    BY <2>4, <2>5, <2>6 DEF Columns
<1>8. CASE ~Column!IsWide(c) /\ c.narrow # <<>> /\ ~(t < c.base \/ Column!OffsetFromBase(c, t) > Column!MaxNarrow)
  <2>1. Column!Added(c, t) = [c EXCEPT !.narrow = Append(@, off)]
    BY <1>2, <1>8 DEF Column!Added
  <2>2. Append(c.narrow, off) \in Seq(Int)
    BY <1>1
  <2> QED
    BY <1>1, <2>1, <2>2 DEF Columns
<1> QED
  BY <1>5, <1>6, <1>7, <1>8

(* slice() appends the times one after another.                             *)
LEMMA ColumnSteps ==
  ASSUME NEW times \in Seq(Int), NEW m \in Nat, m = Len(times)
  PROVE  \E g \in [0 .. m -> Columns] :
           /\ g[0] = Column!EmptyColumn
           /\ \A k \in 1 .. m : g[k] = Column!Added(g[k - 1], times[k])
           /\ Column!ColumnOf(times) = g[m]
<1> DEFINE F == [p \in Columns \X (1 .. m) |-> Column!Added(p[1], times[p[2]])]
           Folds(it) == it = [s \in SUBSET (1 .. m) |->
                                IF s = {} THEN Column!EmptyColumn
                                ELSE Column!Added(it[s \ {Max(s)}], times[Max(s)])]
<1>1. DOMAIN times = 1 .. m /\ \A k \in 1 .. m : times[k] \in Int
  OBVIOUS
<1>2. F \in [Columns \X (1 .. m) -> Columns]
  BY <1>1, AddedType
<1>3. Column!EmptyColumn \in Columns
  <2>1. <<>> \in Seq(Int)
    OBVIOUS
  <2> QED
    BY <2>1 DEF Column!EmptyColumn, Columns
<1>4. PICK it \in [SUBSET (1 .. m) -> Columns] :
        \A T \in SUBSET (1 .. m) :
          it[T] = IF T = {} THEN Column!EmptyColumn ELSE F[<<it[T \ {Max(T)}], Max(T)>>]
  <2>1. PICK base : base = Column!EmptyColumn
    OBVIOUS
  <2>2. base \in Columns
    BY <1>3, <2>1
  <2> HIDE DEF F
  <2>3. PICK it \in [SUBSET (1 .. m) -> Columns] : IsFold(it, F, base, m)
    BY <1>2, <2>2, FoldExists
  <2> QED
    BY <2>1, <2>3 DEF IsFold
<1>5. ASSUME NEW T \in SUBSET (1 .. m), T # {}
      PROVE  it[T] = Column!Added(it[T \ {Max(T)}], times[Max(T)])
  <2>1. Max(T) \in 1 .. m /\ T \ {Max(T)} \in SUBSET (1 .. m)
    BY <1>5, LastPlace
  <2>2. it[T \ {Max(T)}] \in Columns
    BY <2>1
  <2> QED
    BY <1>4, <1>5, <2>1, <2>2
<1>6. Folds(it)
  BY <1>4, <1>5
<1>7. PICK fold : Folds(fold) /\ Column!ColumnOf(times) = fold[1 .. m]
  <2> DEFINE fold == CHOOSE f : Folds(f)
  <2>1. Folds(fold)
    BY <1>6
  <2>2. \A S : Column!Max(S) = Max(S)
    BY DEF Column!Max, Max
  <2>3. Column!ColumnOf(times) = fold[1 .. m]
    BY <1>1, <2>2 DEF Column!ColumnOf, Column!FoldLeft, Column!MapThenFoldSet
  <2> QED
    BY <2>1, <2>3
<1> DEFINE g == [k \in 0 .. m |-> fold[1 .. k]]
<1>8. g[0] = Column!EmptyColumn
  <2>1. 1 .. 0 = {} /\ {} \in SUBSET (1 .. m) /\ 0 \in 0 .. m
    OBVIOUS
  <2>2. fold[{}] = Column!EmptyColumn
    BY <1>7, <2>1
  <2> QED
    BY <2>1, <2>2
<1>9. ASSUME NEW k \in 1 .. m
      PROVE  g[k] = Column!Added(g[k - 1], times[k])
  <2>1. /\ 1 .. k \in SUBSET (1 .. m) /\ 1 .. k # {} /\ k \in 0 .. m /\ k - 1 \in 0 .. m
        /\ Max(1 .. k) = k /\ (1 .. k) \ {k} = 1 .. k - 1
    BY LastPlace
  <2>2. fold[1 .. k] = Column!Added(fold[1 .. k - 1], times[k])
    BY <1>7, <2>1
  <2> QED
    BY <2>1, <2>2
<1>10. ASSUME NEW k \in 0 .. m
       PROVE  g[k] \in Columns
  <2> DEFINE T == {i \in 0 .. m : g[i] \in Columns}
  <2>1. 0 \in T
    BY <1>3, <1>8
  <2>2. ASSUME NEW i \in T, i < m
        PROVE  i + 1 \in T
    <3>1. i + 1 \in 1 .. m /\ i + 1 \in 0 .. m /\ i + 1 - 1 = i /\ g[i] \in Columns
      BY <2>2
    <3> HIDE DEF g
    <3>2. PICK j \in 1 .. m : j = i + 1 /\ j - 1 = i
      BY <3>1
    <3>3. g[j] = Column!Added(g[i], times[j])
      BY <1>9, <3>2
    <3>4. g[j] \in Columns
      BY <1>1, <3>1, <3>3, AddedType
    <3> QED
      BY <3>1, <3>2, <3>4
  <2>3. T = 0 .. m
    <3>1. T \in SUBSET (0 .. m)
      OBVIOUS
    <3> HIDE DEF T
    <3> QED
      BY <2>1, <2>2, <3>1, UptoInduction
  <2> QED
    BY <2>3
<1>11. g \in [0 .. m -> Columns] /\ Column!ColumnOf(times) = g[m]
  <2>1. m \in 0 .. m
    OBVIOUS
  <2>2. g = [k \in 0 .. m |-> g[k]] /\ g[m] = fold[1 .. m]
    BY <2>1
  <2> HIDE DEF g
  <2> QED
    BY <1>7, <1>10, <2>2
<1> HIDE DEF g
<1> QED
  BY <1>8, <1>9, <1>11

(* A column filled anew stands for the times it was filled with, and is in  *)
(* the narrow form when they are ordered and near the first.                *)
LEMMA ColumnStands ==
  ASSUME NEW times \in Seq(Int)
  PROVE  /\ StandsFor(Column!ColumnOf(times), times)
         /\ (\A k \in 1 .. Len(times) : times[1] <= times[k] /\ times[k] - times[1] <= Column!MaxNarrow)
              => Column!ColumnOf(times).wide = <<>>
<1>1. PICK m \in Nat : m = Len(times)
  OBVIOUS
<1>2. \A k \in 1 .. m : times[k] \in Int
  BY <1>1
<1>3. PICK g \in [0 .. m -> Columns] :
        /\ g[0] = Column!EmptyColumn
        /\ \A k \in 1 .. m : g[k] = Column!Added(g[k - 1], times[k])
        /\ Column!ColumnOf(times) = g[m]
  BY <1>1, ColumnSteps
<1> DEFINE Prefix(k) == [i \in 1 .. k |-> times[i]]
           Close == \A k \in 1 .. m : times[1] <= times[k] /\ times[k] - times[1] <= Column!MaxNarrow
           Narrow(c, k) == Close => c.wide = <<>> /\ (k > 0 => c.base = times[1])
           T == {k \in 0 .. m : StandsFor(g[k], Prefix(k)) /\ Narrow(g[k], k)}
<1>4. ASSUME NEW k \in 0 .. m
      PROVE  Prefix(k) \in Seq(Int) /\ Len(Prefix(k)) = k
  <2>1. Prefix(k) \in [1 .. k -> Int]
    BY <1>2
  <2> HIDE DEF Prefix
  <2> QED
    BY <2>1, FunctionIsSeq
<1>5. 0 \in T
  <2>1. g[0] = [base |-> 0, narrow |-> <<>>, wide |-> <<>>] /\ g[0] \in Columns
    BY <1>3 DEF Column!EmptyColumn
  <2>2. Prefix(0) = <<>> /\ Len(<<>>) = 0
    OBVIOUS
  <2>3. StandsFor(g[0], Prefix(0))
    <3> HIDE DEF Prefix
    <3> QED
      BY <2>1, <2>2 DEF StandsFor
  <2>4. Narrow(g[0], 0)
    BY <2>1
  <2> HIDE DEF Prefix, Narrow
  <2> QED
    BY <2>3, <2>4
<1>6. ASSUME NEW k \in T, k < m
      PROVE  k + 1 \in T
  <2>1. k \in 0 .. m /\ StandsFor(g[k], Prefix(k)) /\ Narrow(g[k], k)
    OBVIOUS
  <2>2. PICK j \in 1 .. m : j = k + 1 /\ j - 1 = k
    BY <1>6, <2>1
  <2>3. PICK t \in Int : t = times[j]
    BY <1>2
  <2>4. PICK c \in Columns : c = g[k] /\ g[j] = Column!Added(c, t)
    BY <1>3, <2>1, <2>2, <2>3
  <2>5. PICK old \in Seq(Int) : old = Prefix(k) /\ Len(old) = k
    BY <1>4, <2>1
  <2>6. Prefix(j) = Append(old, t)
    <3>1. PICK more : more = Append(old, t)
      OBVIOUS
    <3>2. more \in Seq(Int) /\ Len(more) = k + 1 /\ more[k + 1] = t /\ \A i \in 1 .. k : more[i] = old[i]
      BY <2>5, <3>1, AppendProperties
    <3>3. Prefix(j) \in Seq(Int) /\ Len(Prefix(j)) = j
      <4>1. j \in 0 .. m
        OBVIOUS
      <4> HIDE DEF Prefix
      <4> QED
        BY <1>4, <4>1
    <3>4. ASSUME NEW i \in 1 .. j
          PROVE  Prefix(j)[i] = more[i]
      <4>1. Prefix(j)[i] = times[i]
        OBVIOUS
      <4>2. CASE i = j
        BY <2>2, <2>3, <3>2, <4>1, <4>2
      <4>3. CASE i # j
        <5>1. i \in 1 .. k
          BY <2>1, <2>2, <4>3
        <5>2. old[i] = times[i]
          BY <2>5, <5>1
        <5> QED
          BY <3>2, <4>1, <5>1, <5>2
      <4> QED
        BY <4>2, <4>3
    <3> HIDE DEF Prefix
    <3>5. Prefix(j) = more
      BY <2>2, <3>2, <3>3, <3>4, SeqEqual
    <3> QED
      BY <3>1, <3>5
  <2>7. StandsFor(g[j], Prefix(j))
    <3>1. StandsFor(c, old)
      BY <2>1, <2>4, <2>5
    <3>2. StandsFor(Column!Added(c, t), Append(old, t))
      BY <3>1, AddedStandsFor
    <3> HIDE DEF Prefix
    <3> QED
      BY <2>4, <2>6, <3>2
  <2>8. Narrow(g[j], j)
    <3> SUFFICES ASSUME Close PROVE g[j].wide = <<>> /\ g[j].base = times[1]
      OBVIOUS
    <3>1. /\ c.wide = <<>> /\ ~Column!IsWide(c) /\ (k > 0 => c.base = times[1])
          /\ c.base \in Int
      BY <2>1, <2>4 DEF Column!IsWide, Columns
    <3>2. Len(c.narrow) = k
      <4>1. StandsFor(c, old)
        BY <2>1, <2>4, <2>5
      <4> QED
        BY <2>5, <3>1, <4>1 DEF StandsFor
    <3>3. CASE c.narrow = <<>>
      <4>1. Column!Added(c, t) = [c EXCEPT !.base = t, !.narrow = <<0>>]
        BY <3>1, <3>3 DEF Column!Added
      <4>2. k = 0 /\ j = 1
        BY <2>1, <2>2, <3>2, <3>3
      <4> QED
        BY <2>3, <2>4, <3>1, <4>1, <4>2 DEF Columns
    <3>4. CASE c.narrow # <<>>
      <4>1. k > 0
        <5>1. c.narrow \in Seq(Int)
          BY DEF Columns
        <5> QED
          BY <2>1, <3>2, <3>4, <5>1
      <4>2. PICK b \in Int : b = c.base /\ b = times[1]
        BY <3>1, <4>1
      <4>3. b <= t /\ t - b <= Column!MaxNarrow
        BY <2>3, <4>2
      <4>4. Column!OffsetFromBase(c, t) = t - b
        BY <4>2, <4>3 DEF Column!OffsetFromBase
      <4>5. ~(t < c.base \/ Column!OffsetFromBase(c, t) > Column!MaxNarrow)
        BY <4>2, <4>3, <4>4, WidestOffset
      <4>6. Column!Added(c, t) = [c EXCEPT !.narrow = Append(@, t - b)]
        BY <3>1, <3>4, <4>4, <4>5 DEF Column!Added
      <4> QED
        BY <2>4, <3>1, <4>2, <4>6 DEF Columns
    <3> QED
      BY <3>3, <3>4
  <2> HIDE DEF Prefix, Narrow
  <2>9. j \in 0 .. m
    OBVIOUS
  <2>10. j \in T
    BY <2>7, <2>8, <2>9
  <2> QED
    BY <2>2, <2>10
<1>7. T = 0 .. m
  <2>1. T \in SUBSET (0 .. m)
    OBVIOUS
  <2> HIDE DEF T
  <2> QED
    BY <1>5, <1>6, <2>1, UptoInduction
<1>8. StandsFor(g[m], Prefix(m)) /\ Narrow(g[m], m)
  <2>1. m \in T
    <3> HIDE DEF T
    <3> QED
      BY <1>7
  <2> HIDE DEF Prefix, Narrow
  <2> QED
    BY <2>1
<1>9. Prefix(m) = times
  BY <1>1
<1>10. Close => g[m].wide = <<>>
  BY <1>8
<1> QED
  BY <1>1, <1>3, <1>8, <1>9, <1>10

-----------------------------------------------------------------------------
(* A part of a list, from lo to hi.                                         *)
LEMMA PartIs ==
  ASSUME NEW S, NEW list \in Seq(S), NEW lo \in Nat, NEW hi \in Nat, lo <= hi, hi <= Len(list)
  PROVE  /\ SubSeq(list, lo + 1, hi) \in Seq(S) /\ Len(SubSeq(list, lo + 1, hi)) = hi - lo
         /\ \A k \in 1 .. hi - lo : SubSeq(list, lo + 1, hi)[k] = list[lo + k]
<1>1. \A k \in lo + 1 .. hi : list[k] \in S
  OBVIOUS
<1>2. PICK part : part = SubSeq(list, lo + 1, hi)
  OBVIOUS
<1>3. /\ part \in Seq(S)
      /\ Len(part) = IF lo + 1 <= hi THEN hi - (lo + 1) + 1 ELSE 0
      /\ \A k \in 1 .. hi - (lo + 1) + 1 : part[k] = list[lo + 1 + k - 1]
  BY <1>1, <1>2, SubSeqProperties
<1>4. Len(part) = hi - lo
  BY <1>3
<1>5. ASSUME NEW k \in 1 .. hi - lo
      PROVE  part[k] = list[lo + k]
  <2>1. k \in 1 .. hi - (lo + 1) + 1 /\ lo + 1 + k - 1 = lo + k
    OBVIOUS
  <2> QED
    BY <1>3, <2>1
<1> QED
  BY <1>2, <1>3, <1>4, <1>5

(* d slots of n words, those of a plane from its slot lo.                   *)
SlotsOf(part, plane, n, lo, d) ==
  \A i \in 1 .. d : \A w \in 1 .. n : part[(i - 1) * n + w] = plane[(lo + i - 1) * n + w]
IsSlots(part, plane, S, n, lo, d) ==
  part \in Seq(S) /\ Len(part) = d * n /\ Len(part) <= Len(plane) /\ SlotsOf(part, plane, n, lo, d)

(* The words of some slots, taken together.                                 *)
LEMMA SlotsPart ==
  ASSUME NEW W, NEW plane \in Seq(W), NEW m \in Nat, NEW n \in Nat, Len(plane) = m * n,
         NEW lo \in Nat, NEW hi \in Nat, NEW d \in Nat, hi = lo + d, hi <= m,
         NEW part, part = SubSeq(plane, lo * n + 1, hi * n)
  PROVE  IsSlots(part, plane, W, n, lo, d)
<1>2. PICK e \in Nat : m = hi + e
  <2>1. m - hi \in Nat
    OBVIOUS
  <2> QED
    BY <2>1
<1>3. PICK x \in Nat, y \in Nat, z \in Nat : x = lo * n /\ y = d * n /\ z = e * n
  OBVIOUS
<1>4. hi * n = x + y
  <2>1. (lo + d) * n = lo * n + d * n
    OBVIOUS
  <2> QED
    BY <1>3, <2>1
<1>5. m * n = x + y + z
  <2>1. (hi + e) * n = hi * n + e * n
    OBVIOUS
  <2> QED
    BY <1>2, <1>3, <1>4, <2>1
<1>6. PICK h \in Nat : h = x + y
  OBVIOUS
<1>7. x <= h /\ h <= Len(plane) /\ h - x = y
  BY <1>5, <1>6
<1>8. part = SubSeq(plane, x + 1, h)
  BY <1>3, <1>4, <1>6
<1>9. part \in Seq(W) /\ Len(part) = y /\ \A k \in 1 .. y : part[k] = plane[x + k]
  <2>1. /\ SubSeq(plane, x + 1, h) \in Seq(W) /\ Len(SubSeq(plane, x + 1, h)) = h - x
        /\ \A k \in 1 .. h - x : SubSeq(plane, x + 1, h)[k] = plane[x + k]
    BY <1>7, PartIs
  <2> QED
    BY <1>7, <1>8, <2>1
<1>10. ASSUME NEW i \in 1 .. d, NEW w \in 1 .. n
       PROVE  part[(i - 1) * n + w] = plane[(lo + i - 1) * n + w]
  <2>1. i \in 1 .. d
    OBVIOUS
  <2>2. (i - 1) * n + w \in 1 .. y
    BY <1>3, <2>1, InSlots
  <2>3. PICK j \in Nat : j = i - 1 /\ lo + i - 1 = lo + j
    BY <2>1
  <2>4. PICK q \in Nat : q = j * n
    OBVIOUS
  <2>5. (lo + j) * n = x + q
    <3>1. (lo + j) * n = lo * n + j * n
      OBVIOUS
    <3> QED
      BY <1>3, <2>4, <3>1
  <2>6. part[q + w] = plane[x + (q + w)]
    BY <1>9, <2>2, <2>3, <2>4
  <2>7. x + (q + w) = x + q + w
    BY <1>3
  <2> QED
    BY <2>3, <2>4, <2>5, <2>6, <2>7
<1>11. Len(part) <= Len(plane)
  BY <1>5, <1>9
<1> QED
  BY <1>3, <1>9, <1>10, <1>11 DEF SlotsOf, IsSlots

(* A plane of a slice, whose slots have n words each.                       *)
CutPlane(plane, n, lo, hi) == IF plane = <<>> THEN <<>> ELSE SubSeq(plane, lo * n + 1, hi * n)

(* The planes of some slots hold the values of those slots.                 *)
LEMMA PlanesPart ==
  ASSUME NEW aval, NEW bval, NEW width \in Nat, NEW values \in Seq(Views), PlanesHold(aval, bval, width, values),
         NEW lo \in 0 .. Len(values), NEW hi \in lo .. Len(values),
         NEW n \in Nat, n = WordsFor(width)
  PROVE  /\ PlanesHold(CutPlane(aval, n, lo, hi), CutPlane(bval, n, lo, hi), width, SubSeq(values, lo + 1, hi))
         /\ Len(CutPlane(aval, n, lo, hi)) <= Len(aval) /\ Len(CutPlane(bval, n, lo, hi)) <= Len(bval)
<1> DEFINE cut(plane) == CutPlane(plane, n, lo, hi)
<1>1. n = WordsFor(width)
  OBVIOUS
<1>0. PICK d \in Nat : d = hi - lo /\ hi = lo + d
  <2>1. hi - lo \in Nat
    OBVIOUS
  <2> QED
    BY <2>1
<1>2. PICK m \in Nat : m = Len(values) /\ lo \in 0 .. m /\ hi \in lo .. m
  OBVIOUS
<1>3. /\ aval \in Seq(SUBSET AllOnes) /\ Len(aval) = m * n
      /\ bval \in Seq(SUBSET AllOnes) /\ (bval # <<>> => Len(bval) = m * n)
      /\ \A i \in 1 .. m : \A w \in 1 .. n :
           /\ aval[(i - 1) * n + w] = SlotOf(values[i].aval, values[i], width)[w]
           /\ IF bval = <<>> THEN SlotOf(values[i].bval, values[i], width)[w] = {}
                             ELSE bval[(i - 1) * n + w] = SlotOf(values[i].bval, values[i], width)[w]
  <2>1. /\ aval \in Seq(SUBSET AllOnes) /\ Len(aval) = m * n
        /\ bval \in Seq(SUBSET AllOnes) /\ (bval # <<>> => Len(bval) = m * n)
    BY <1>1, <1>2 DEF PlanesHold
  <2>2. ASSUME NEW i \in 1 .. m, NEW w \in 1 .. n
        PROVE  /\ aval[(i - 1) * n + w] = SlotOf(values[i].aval, values[i], width)[w]
               /\ IF bval = <<>> THEN SlotOf(values[i].bval, values[i], width)[w] = {}
                                 ELSE bval[(i - 1) * n + w] = SlotOf(values[i].bval, values[i], width)[w]
    BY <1>1, <1>2 DEF PlanesHold
  <2> QED
    BY <2>1, <2>2
<1>4. PICK part \in Seq(Views) : /\ part = SubSeq(values, lo + 1, hi) /\ Len(part) = d
                                 /\ \A i \in 1 .. d : part[i] = values[lo + i]
  <2>1. lo \in Nat /\ hi \in Nat /\ lo <= hi /\ hi <= Len(values)
    BY <1>2
  <2>2. PICK V : V = Views
    OBVIOUS
  <2>3. values \in Seq(V)
    BY <2>2
  <2>4. /\ SubSeq(values, lo + 1, hi) \in Seq(V) /\ Len(SubSeq(values, lo + 1, hi)) = hi - lo
        /\ \A i \in 1 .. hi - lo : SubSeq(values, lo + 1, hi)[i] = values[lo + i]
    BY <2>1, <2>3, PartIs
  <2> QED
    BY <1>0, <2>2, <2>4
<1>5. ASSUME NEW plane \in Seq(SUBSET AllOnes), Len(plane) = m * n
      PROVE  /\ cut(plane) \in Seq(SUBSET AllOnes) /\ Len(cut(plane)) = d * n /\ Len(cut(plane)) <= Len(plane)
             /\ SlotsOf(cut(plane), plane, n, lo, d)
  <2>1. PICK W : W = SUBSET AllOnes
    OBVIOUS
  <2>2. PICK sub : sub = SubSeq(plane, lo * n + 1, hi * n)
    OBVIOUS
  <2>3. /\ sub \in Seq(W) /\ Len(sub) = d * n /\ Len(sub) <= Len(plane)
        /\ SlotsOf(sub, plane, n, lo, d)
    <3>1. plane \in Seq(W) /\ Len(plane) = m * n /\ n \in Nat
      BY <1>1, <1>5, <2>1
    <3>2. lo \in Nat /\ hi \in Nat /\ hi <= m
      BY <1>2
    <3>3. plane \in Seq(W) /\ Len(plane) = m * n /\ hi = lo + d /\ sub = SubSeq(plane, lo * n + 1, hi * n)
      BY <1>0, <2>2, <3>1
    <3> HIDE DEF cut
    <3>4. IsSlots(sub, plane, W, n, lo, d)
      BY <3>2, <3>3, SlotsPart, Zenon
    <3> QED
      BY <3>4, Zenon DEF IsSlots
  <2>4. cut(plane) = sub
    <3>1. CASE plane # <<>>
      BY <2>2, <3>1 DEF CutPlane
    <3>2. CASE plane = <<>>
      <4>1. cut(plane) = <<>> /\ Len(plane) = 0
        BY <3>2 DEF CutPlane
      <4>2. PICK y \in Nat : y = Len(sub)
        BY <2>3
      <4>3. y = 0
        BY <2>3, <4>1, <4>2
      <4> QED
        BY <2>3, <4>1, <4>2, <4>3
    <3> QED
      BY <3>1, <3>2
  <2> QED
    BY <2>1, <2>3, <2>4
<1> HIDE DEF cut
<1>6. PICK a : /\ a = cut(aval) /\ a \in Seq(SUBSET AllOnes) /\ Len(a) = d * n /\ Len(a) <= Len(aval)
               /\ SlotsOf(a, aval, n, lo, d)
  <2>1. aval \in Seq(SUBSET AllOnes) /\ Len(aval) = m * n
    BY <1>3
  <2> QED
    BY <1>5, <2>1
<1>7. PICK b : b = cut(bval)
  OBVIOUS
<1>8. CASE bval = <<>>
  <2>1. b = <<>> /\ Len(b) <= Len(bval) /\ b \in Seq(SUBSET AllOnes)
    <3>1. b = <<>>
      BY <1>7, <1>8 DEF cut, CutPlane
    <3> QED
      BY <1>3, <1>8, <3>1
  <2>2. ASSUME NEW i \in 1 .. d, NEW w \in 1 .. n
        PROVE  /\ a[(i - 1) * n + w] = SlotOf(part[i].aval, part[i], width)[w]
               /\ SlotOf(part[i].bval, part[i], width)[w] = {}
    <3>1. PICK k \in 1 .. m : k = lo + i /\ k - 1 = lo + i - 1
      BY <1>0, <1>2
    <3>2. part[i] = values[k] /\ a[(i - 1) * n + w] = aval[(k - 1) * n + w]
      BY <1>4, <1>6, <3>1 DEF SlotsOf
    <3> QED
      BY <1>3, <1>8, <3>2
  <2>3. PlanesHold(a, b, width, part)
    <3>1. /\ a \in Seq(SUBSET AllOnes) /\ Len(a) = Len(part) * WordsFor(width)
          /\ b \in Seq(SUBSET AllOnes) /\ (b # <<>> => Len(b) = Len(a))
      BY <1>1, <1>4, <1>6, <2>1
    <3> DEFINE holds(i, w) ==
                 /\ a[(i - 1) * WordsFor(width) + w] = SlotOf(part[i].aval, part[i], width)[w]
                 /\ IF b = <<>> THEN SlotOf(part[i].bval, part[i], width)[w] = {}
                                ELSE b[(i - 1) * WordsFor(width) + w] = SlotOf(part[i].bval, part[i], width)[w]
    <3>2. WordsFor(width) = n /\ Len(part) = d
      BY <1>1, <1>4
    <3>3. ASSUME NEW i \in 1 .. d, NEW w \in 1 .. n PROVE holds(i, w)
      <4>1. a[(i - 1) * n + w] = SlotOf(part[i].aval, part[i], width)[w]
        BY <2>2
      <4>2. SlotOf(part[i].bval, part[i], width)[w] = {} /\ b = <<>>
        BY <2>1, <2>2
      <4> QED
        BY <3>2, <4>1, <4>2
    <3> HIDE DEF holds
    <3>4. \A i \in 1 .. Len(part) : \A w \in 1 .. WordsFor(width) : holds(i, w)
      BY <3>2, <3>3
    <3> QED
      BY <3>1, <3>4, Zenon DEF PlanesHold, holds
  <2> QED
    BY <1>4, <1>6, <1>7, <2>1, <2>3 DEF cut
<1>9. CASE bval # <<>>
  <2>1. /\ b \in Seq(SUBSET AllOnes) /\ Len(b) = d * n /\ Len(b) <= Len(bval)
        /\ SlotsOf(b, bval, n, lo, d)
    BY <1>3, <1>5, <1>7, <1>9
  <2>2. ASSUME NEW i \in 1 .. d, NEW w \in 1 .. n
        PROVE  /\ a[(i - 1) * n + w] = SlotOf(part[i].aval, part[i], width)[w]
               /\ IF b = <<>> THEN SlotOf(part[i].bval, part[i], width)[w] = {}
                              ELSE b[(i - 1) * n + w] = SlotOf(part[i].bval, part[i], width)[w]
    <3>1. PICK k \in 1 .. m : k = lo + i /\ k - 1 = lo + i - 1
      BY <1>0, <1>2
    <3>2. /\ part[i] = values[k] /\ a[(i - 1) * n + w] = aval[(k - 1) * n + w]
          /\ b[(i - 1) * n + w] = bval[(k - 1) * n + w]
      <4>1. part[i] = values[k]
        BY <1>4, <3>1
      <4>2. a[(i - 1) * n + w] = aval[(k - 1) * n + w]
        BY <1>6, <3>1 DEF SlotsOf
      <4>3. b[(i - 1) * n + w] = bval[(k - 1) * n + w]
        BY <2>1, <3>1 DEF SlotsOf
      <4> QED
        BY <4>1, <4>2, <4>3
    <3>3. b # <<>>
      <4>2. PICK y : y = d * n
        OBVIOUS
      <4>3. (i - 1) * n + w \in 1 .. y
        BY <4>2, InSlots
      <4>4. Len(b) = y
        BY <2>1, <4>2
      <4> QED
        BY <4>3, <4>4
    <3> QED
      BY <1>3, <1>9, <3>2, <3>3
  <2>3. PlanesHold(a, b, width, part)
    <3>1. /\ a \in Seq(SUBSET AllOnes) /\ Len(a) = Len(part) * WordsFor(width)
          /\ b \in Seq(SUBSET AllOnes) /\ (b # <<>> => Len(b) = Len(a))
      BY <1>1, <1>4, <1>6, <2>1
    <3> DEFINE holds(i, w) ==
                 /\ a[(i - 1) * WordsFor(width) + w] = SlotOf(part[i].aval, part[i], width)[w]
                 /\ IF b = <<>> THEN SlotOf(part[i].bval, part[i], width)[w] = {}
                                ELSE b[(i - 1) * WordsFor(width) + w] = SlotOf(part[i].bval, part[i], width)[w]
    <3>2. WordsFor(width) = n /\ Len(part) = d
      BY <1>1, <1>4
    <3>3. ASSUME NEW i \in 1 .. d, NEW w \in 1 .. n PROVE holds(i, w)
      BY <2>1, <2>2, <3>2
    <3> HIDE DEF holds
    <3>4. \A i \in 1 .. Len(part) : \A w \in 1 .. WordsFor(width) : holds(i, w)
      BY <3>2, <3>3
    <3> QED
      BY <3>1, <3>4, Zenon DEF PlanesHold, holds
  <2> QED
    BY <1>4, <1>6, <1>7, <2>1, <2>3 DEF cut
<1> QED
  BY <1>8, <1>9 DEF cut

(* Part of a part.                                                          *)
LEMMA PartOfPart ==
  ASSUME NEW S, NEW list \in Seq(S), NEW lo \in Nat, NEW hi \in Nat, lo <= hi, hi <= Len(list),
         NEW a \in Nat, NEW b \in Nat, a <= b, lo + b <= hi
  PROVE  SubSeq(SubSeq(list, lo + 1, hi), a + 1, b) = SubSeq(list, lo + a + 1, lo + b)
<1>1. PICK part \in Seq(S) : /\ part = SubSeq(list, lo + 1, hi) /\ Len(part) = hi - lo
                             /\ \A k \in 1 .. hi - lo : part[k] = list[lo + k]
  <2>1. /\ SubSeq(list, lo + 1, hi) \in Seq(S) /\ Len(SubSeq(list, lo + 1, hi)) = hi - lo
        /\ \A k \in 1 .. hi - lo : SubSeq(list, lo + 1, hi)[k] = list[lo + k]
    BY PartIs
  <2> QED
    BY <2>1
<1>2. PICK x \in Seq(S) : /\ x = SubSeq(part, a + 1, b) /\ Len(x) = b - a
                          /\ \A k \in 1 .. b - a : x[k] = part[a + k]
  <2>1. b <= Len(part)
    BY <1>1
  <2>2. /\ SubSeq(part, a + 1, b) \in Seq(S) /\ Len(SubSeq(part, a + 1, b)) = b - a
        /\ \A k \in 1 .. b - a : SubSeq(part, a + 1, b)[k] = part[a + k]
    BY <2>1, PartIs
  <2> QED
    BY <2>2
<1>3. PICK y \in Seq(S) : /\ y = SubSeq(list, lo + a + 1, lo + b) /\ Len(y) = b - a
                          /\ \A k \in 1 .. b - a : y[k] = list[lo + a + k]
  <2>1. PICK u \in Nat, v \in Nat : u = lo + a /\ v = lo + b /\ u <= v /\ v - u = b - a
    OBVIOUS
  <2>2. v <= Len(list)
    <3>1. PICK z \in Nat : z = Len(list)
      OBVIOUS
    <3> QED
      BY <2>1, <3>1
  <2>3. /\ SubSeq(list, u + 1, v) \in Seq(S) /\ Len(SubSeq(list, u + 1, v)) = v - u
        /\ \A k \in 1 .. v - u : SubSeq(list, u + 1, v)[k] = list[u + k]
    BY <2>1, <2>2, PartIs
  <2> QED
    BY <2>1, <2>3
<1>4. ASSUME NEW k \in 1 .. b - a
      PROVE  x[k] = y[k]
  <2>1. a + k \in 1 .. hi - lo /\ lo + (a + k) = lo + a + k
    OBVIOUS
  <2> QED
    BY <1>1, <1>2, <1>3, <2>1
<1>5. x = y
  BY <1>2, <1>3, <1>4, SeqEqual
<1> QED
  BY <1>1, <1>2, <1>3, <1>5

(* Strings of a slice lie in the part of the arena between the first of     *)
(* their offsets and the last.                                              *)
LEMMA StringsPart ==
  ASSUME NEW arena, NEW offsets, NEW V, NEW values \in Seq(V), StringsHold(arena, offsets, values), Len(arena) < Half,
         NEW lo \in 0 .. Len(values), NEW hi \in lo .. Len(values)
  PROVE  /\ StringsHold(ArenaPart(arena, offsets, lo, hi), Rebased(offsets, lo, hi), SubSeq(values, lo + 1, hi))
         /\ Len(ArenaPart(arena, offsets, lo, hi)) <= Len(arena)
         /\ Len(Rebased(offsets, lo, hi)) <= Len(offsets)
<1> DEFINE Chars == 0 .. Byte - 1
<1>1. PICK n \in Nat : n = Len(values) /\ lo \in 0 .. n /\ hi \in lo .. n
  OBVIOUS
<1>2. PICK d \in Nat : d = hi - lo /\ hi = lo + d /\ hi - lo + 1 = d + 1
  <2>1. hi - lo \in Nat
    OBVIOUS
  <2> QED
    BY <2>1
<1>3. /\ arena \in Seq(Chars) /\ offsets \in Seq(Nat) /\ Len(offsets) = n + 1
      /\ offsets[n + 1] = Len(arena)
      /\ \A i \in 1 .. n + 1 : \A j \in 1 .. i : offsets[j] <= offsets[i]
      /\ \A i \in 1 .. n : values[i] = SubSeq(arena, offsets[i] + 1, offsets[i + 1])
  BY <1>1 DEF StringsHold
<1>3a. \A i \in 1 .. n + 1 : \A j \in 1 .. i : offsets[j] <= offsets[i]
  BY <1>3
<1> HIDE DEF Chars
<1>4. PICK size \in Nat : size = Len(arena)
  BY <1>3
<1>5. \A i \in 1 .. n + 1 : offsets[i] \in Nat /\ offsets[i] <= size
  <2> SUFFICES ASSUME NEW i \in 1 .. n + 1 PROVE offsets[i] \in Nat /\ offsets[i] <= size
    OBVIOUS
  <2>1. n + 1 \in 1 .. n + 1
    OBVIOUS
  <2>2. offsets[i] <= offsets[n + 1]
    BY <1>3, <2>1
  <2> QED
    BY <1>3, <1>4, <2>2
<1>6. PICK from \in Nat, to \in Nat : from = offsets[lo + 1] /\ to = offsets[hi + 1] /\ from <= to /\ to <= size
  <2>1. lo + 1 \in 1 .. hi + 1 /\ hi + 1 \in 1 .. n + 1 /\ lo + 1 \in 1 .. n + 1
    BY <1>1
  <2> QED
    BY <1>3, <1>5, <2>1
<1>7. PICK chars \in Seq(Chars) : /\ chars = SubSeq(arena, from + 1, to) /\ Len(chars) = to - from
  <2>1. /\ SubSeq(arena, from + 1, to) \in Seq(Chars) /\ Len(SubSeq(arena, from + 1, to)) = to - from
        /\ \A k \in 1 .. to - from : SubSeq(arena, from + 1, to)[k] = arena[from + k]
    <3>1. arena \in Seq(Chars) /\ from <= to /\ to <= Len(arena)
      BY <1>3, <1>4, <1>6
    <3> QED
      BY <3>1, PartIs
  <2> QED
    BY <2>1
<1>8. chars = ArenaPart(arena, offsets, lo, hi)
  BY <1>6, <1>7 DEF ArenaPart
<1>9. PICK starts : starts = Rebased(offsets, lo, hi)
  OBVIOUS
<1>10. ASSUME NEW k \in 1 .. d + 1
       PROVE  /\ lo + k \in 1 .. n + 1 /\ starts[k] = offsets[lo + k] - from /\ starts[k] \in Nat
              /\ offsets[lo + k] = from + starts[k] /\ from + starts[k] <= to
  <2>1. lo + k \in 1 .. n + 1 /\ lo + 1 \in 1 .. lo + k /\ lo + k \in 1 .. hi + 1 /\ hi + 1 \in 1 .. n + 1
    BY <1>1, <1>2
  <2>2. PICK o \in Nat : o = offsets[lo + k] /\ from <= o /\ o <= to
    BY <1>3, <1>5, <1>6, <2>1
  <2>3. starts[k] = o - from
    BY <1>2, <1>6, <1>9, <2>2 DEF Rebased
  <2> QED
    BY <2>1, <2>2, <2>3
<1>11. starts \in Seq(Nat) /\ Len(starts) = d + 1
  <2>1. starts = [k \in 1 .. d + 1 |-> starts[k]]
    BY <1>2, <1>9 DEF Rebased
  <2>2. starts \in [1 .. d + 1 -> Nat]
    BY <1>10, <2>1
  <2> QED
    BY <2>2, FunctionIsSeq
<1>12. PICK part \in Seq(V) : /\ part = SubSeq(values, lo + 1, hi) /\ Len(part) = d
                              /\ \A i \in 1 .. d : part[i] = values[lo + i]
  <2>1. lo \in Nat /\ hi \in Nat /\ lo <= hi /\ hi <= Len(values)
    BY <1>1
  <2>2. /\ SubSeq(values, lo + 1, hi) \in Seq(V) /\ Len(SubSeq(values, lo + 1, hi)) = hi - lo
        /\ \A i \in 1 .. hi - lo : SubSeq(values, lo + 1, hi)[i] = values[lo + i]
    BY <2>1, PartIs
  <2> QED
    BY <1>2, <2>2
<1>13. starts[d + 1] = Len(chars)
  <2>1. d + 1 \in 1 .. d + 1 /\ lo + (d + 1) = hi + 1
    BY <1>2
  <2>2. starts[d + 1] = offsets[hi + 1] - from
    BY <1>10, <2>1
  <2> QED
    BY <1>6, <1>7, <2>2
<1>14. ASSUME NEW i \in 1 .. d + 1, NEW j \in 1 .. i
       PROVE  starts[j] <= starts[i]
  <2>1. j \in 1 .. d + 1 /\ lo + j \in 1 .. lo + i
    OBVIOUS
  <2>2. lo + i \in 1 .. n + 1
    BY <1>10
  <2>3. offsets[lo + j] <= offsets[lo + i]
    <3>1. PICK p, q : p = lo + i /\ q = lo + j
      OBVIOUS
    <3>2. p \in 1 .. n + 1 /\ q \in 1 .. p
      BY <2>1, <2>2, <3>1
    <3>3. offsets[q] <= offsets[p]
      BY <1>3a, <3>2
    <3> QED
      BY <3>1, <3>3
  <2>4. PICK x \in Nat, y \in Nat : x = starts[j] /\ y = starts[i] /\ from + x <= from + y
    <3>1. starts[i] \in Nat /\ offsets[lo + i] = from + starts[i]
      BY <1>10
    <3>2. starts[j] \in Nat /\ offsets[lo + j] = from + starts[j]
      BY <1>10, <2>1
    <3> QED
      BY <2>3, <3>1, <3>2
  <2> QED
    BY <2>4
<1>15. ASSUME NEW i \in 1 .. d
       PROVE  part[i] = SubSeq(chars, starts[i] + 1, starts[i + 1])
  <2>1. i \in 1 .. d + 1 /\ i + 1 \in 1 .. d + 1 /\ i \in 1 .. i + 1 /\ lo + i + 1 = lo + (i + 1)
    OBVIOUS
  <2>2. PICK a \in Nat, b \in Nat : a = starts[i] /\ b = starts[i + 1]
    BY <1>10, <2>1
  <2>3. a <= b
    <3>1. starts[i] <= starts[i + 1]
      BY <1>14, <2>1
    <3> QED
      BY <2>2, <3>1
  <2>4. /\ offsets[lo + i] = from + a /\ offsets[lo + i + 1] = from + b /\ from + b <= to /\ lo + i \in 1 .. n
    <3>1. offsets[lo + i] = from + starts[i]
      BY <1>10, <2>1
    <3>2. offsets[lo + (i + 1)] = from + starts[i + 1] /\ from + starts[i + 1] <= to
      BY <1>10, <2>1
    <3>3. lo + i \in 1 .. n
      BY <1>1, <1>2
    <3> QED
      BY <2>1, <2>2, <3>1, <3>2, <3>3
  <2>5. values[lo + i] = SubSeq(arena, from + a + 1, from + b)
    BY <1>3, <2>4
  <2>6. SubSeq(SubSeq(arena, from + 1, to), a + 1, b) = SubSeq(arena, from + a + 1, from + b)
    <3>1. arena \in Seq(Chars) /\ from <= to /\ to <= Len(arena)
      BY <1>3, <1>4, <1>6
    <3> QED
      BY <2>3, <2>4, <3>1, PartOfPart, SMTT(30)
  <2> QED
    BY <1>7, <1>12, <2>2, <2>5, <2>6
<1>16. StringsHold(chars, starts, part)
  <2>1. chars \in Seq(0 .. Byte - 1)
    BY DEF Chars
  <2> QED
    BY <1>11, <1>12, <1>13, <1>14, <1>15, <2>1 DEF StringsHold
<1>17. Len(chars) <= Len(arena) /\ Len(starts) <= Len(offsets)
  <2>1. d + 1 <= n + 1
    BY <1>1, <1>2
  <2>2. to - from <= size
    BY <1>6
  <2> QED
    BY <1>3, <1>4, <1>7, <1>11, <2>1, <2>2
<1> QED
  BY <1>8, <1>9, <1>12, <1>16, <1>17

(* No column of p is longer than that of b.                                 *)
NoLonger(p, b) ==
  \A column \in {"aval", "bval", "reals", "arena", "offsets"} :
    Len(p[column]) \in Nat /\ Len(b[column]) \in Nat /\ Len(p[column]) <= Len(b[column])

(* What a slice has of its block besides the columns of values.             *)
HeadOfSlice(p, b, lo, hi) ==
  p.kind = b.kind /\ p.width = b.width /\ p.times = Column!ColumnSlice(b.times, lo, hi)

(* A slice is filed for its part of the values, in columns no longer.       *)
LEMMA SliceFiled ==
  ASSUME NEW b, b = [x \in Shape |-> b[x]], b.kind \in {"NONE", "LOGIC", "REAL", "STRING"}, Len(b.arena) < Half,
         NEW V, NEW values \in Seq(V), Filed(b, values),
         NEW lo \in 0 .. Len(values), NEW hi \in lo .. Len(values), NEW p, p = Slice(b, lo, hi)
  PROVE  Filed(p, SubSeq(values, lo + 1, hi)) /\ NoLonger(p, b) /\ HeadOfSlice(p, b, lo, hi)
<1>1. PICK cut : cut = [b EXCEPT !.times = Column!ColumnSlice(@, lo, hi)]
  OBVIOUS
<1>2. /\ cut = [x \in Shape |-> cut[x]] /\ cut.times = Column!ColumnSlice(b.times, lo, hi)
      /\ cut.kind = b.kind /\ cut.width = b.width /\ cut.aval = b.aval /\ cut.bval = b.bval
      /\ cut.reals = b.reals /\ cut.arena = b.arena /\ cut.offsets = b.offsets
  BY <1>1 DEF Shape
<1>3. PICK part : part = SubSeq(values, lo + 1, hi)
  OBVIOUS
<1>4. part \in Seq(V) /\ Len(part) <= Len(values)
  <2>1. lo \in Nat /\ hi \in Nat /\ lo <= hi /\ hi <= Len(values)
    OBVIOUS
  <2>2. SubSeq(values, lo + 1, hi) \in Seq(V) /\ Len(SubSeq(values, lo + 1, hi)) = hi - lo
    BY <2>1, PartIs
  <2>3. PICK n \in Nat : n = Len(values)
    OBVIOUS
  <2> QED
    BY <1>3, <2>1, <2>2, <2>3
<1>5. Len(<<>>) \in Nat /\ Len(<<>>) <= Len(<<>>)
  OBVIOUS
<1>6. CASE b.kind = "NONE"
  <2>1. p = cut
    BY <1>1, <1>6 DEF Slice
  <2>2. b.aval = <<>> /\ b.bval = <<>> /\ b.reals = <<>> /\ b.arena = <<>> /\ b.offsets = <<>> /\ b.width \in Nat
    BY <1>6 DEF Filed
  <2>3. Filed(p, part)
    BY <1>2, <1>6, <2>1, <2>2 DEF Filed
  <2>4. NoLonger(p, b)
    BY <1>2, <1>5, <2>1, <2>2 DEF NoLonger
  <2> QED
    BY <1>2, <1>3, <2>1, <2>3, <2>4 DEF HeadOfSlice
<1>7. CASE b.kind = "LOGIC"
  <2>1. /\ values \in Seq(Views) /\ PlanesHold(b.aval, b.bval, b.width, values) /\ b.width \in Nat
        /\ b.reals = <<>> /\ b.arena = <<>> /\ b.offsets = <<>>
    BY <1>7 DEF Filed
  <2>2. PICK n \in Nat : n = WordsFor(b.width)
    BY <2>1, WordsAre
  <2>3. PICK aval, bval : aval = CutPlane(b.aval, n, lo, hi) /\ bval = CutPlane(b.bval, n, lo, hi)
    OBVIOUS
  <2>4. p = [cut EXCEPT !.aval = aval, !.bval = bval]
    BY <1>1, <1>2, <1>7, <2>2, <2>3 DEF Slice, CutPlane
  <2>5. /\ p.kind = "LOGIC" /\ p.width = b.width /\ p.times = cut.times /\ p.aval = aval /\ p.bval = bval
        /\ p.reals = b.reals /\ p.arena = b.arena /\ p.offsets = b.offsets
    BY <1>2, <1>7, <2>4 DEF Shape
  <2>6. PlanesHold(aval, bval, b.width, part)
    BY <1>3, <2>1, <2>2, <2>3, PlanesPart, ZenonT(30)
  <2>7. Len(aval) <= Len(b.aval)
    BY <2>1, <2>2, <2>3, PlanesPart, ZenonT(30)
  <2>8. Len(bval) <= Len(b.bval)
    BY <2>1, <2>2, <2>3, PlanesPart, ZenonT(30)
  <2>9. /\ b.aval \in Seq(SUBSET AllOnes) /\ b.bval \in Seq(SUBSET AllOnes)
        /\ aval \in Seq(SUBSET AllOnes) /\ bval \in Seq(SUBSET AllOnes)
    BY <2>1, <2>6 DEF PlanesHold
  <2>10. Len(aval) \in Nat /\ Len(bval) \in Nat /\ Len(b.aval) \in Nat /\ Len(b.bval) \in Nat
    BY <2>9, LenProperties
  <2>11. part \in Seq(Views)
    <3>1. PICK W : W = Views
      OBVIOUS
    <3>2. values \in Seq(W) /\ lo \in Nat /\ hi \in Nat /\ lo <= hi /\ hi <= Len(values)
      BY <2>1, <3>1
    <3>3. SubSeq(values, lo + 1, hi) \in Seq(W)
      BY <3>2, PartIs
    <3> QED
      BY <1>3, <3>1, <3>3
  <2>12. Filed(p, part)
    BY <2>1, <2>5, <2>6, <2>11 DEF Filed
  <2>13. NoLonger(p, b)
    BY <1>5, <2>1, <2>5, <2>7, <2>8, <2>10 DEF NoLonger
  <2> QED
    BY <1>2, <1>3, <1>7, <2>5, <2>12, <2>13 DEF HeadOfSlice
<1>8. CASE b.kind = "REAL"
  <2>1. /\ b.reals = values /\ b.width \in Nat
        /\ b.aval = <<>> /\ b.bval = <<>> /\ b.arena = <<>> /\ b.offsets = <<>>
    BY <1>8 DEF Filed
  <2>2. p = [cut EXCEPT !.reals = part]
    BY <1>1, <1>2, <1>3, <1>8, <2>1 DEF Slice
  <2>3. /\ p.kind = "REAL" /\ p.width = b.width /\ p.times = cut.times /\ p.aval = b.aval /\ p.bval = b.bval
        /\ p.reals = part /\ p.arena = b.arena /\ p.offsets = b.offsets
    BY <1>2, <1>8, <2>2 DEF Shape
  <2>4. Len(part) \in Nat /\ Len(values) \in Nat
    BY <1>4
  <2>5. Filed(p, part)
    BY <2>1, <2>3 DEF Filed
  <2>6. NoLonger(p, b)
    BY <1>4, <1>5, <2>1, <2>3, <2>4 DEF NoLonger
  <2> QED
    BY <1>2, <1>3, <1>8, <2>3, <2>5, <2>6 DEF HeadOfSlice
<1>9. CASE b.kind = "STRING"
  <2>1. /\ StringsHold(b.arena, b.offsets, values) /\ b.width \in Nat
        /\ b.aval = <<>> /\ b.bval = <<>> /\ b.reals = <<>>
    BY <1>9 DEF Filed
  <2>2. PICK arena, offsets : arena = ArenaPart(b.arena, b.offsets, lo, hi) /\ offsets = Rebased(b.offsets, lo, hi)
    OBVIOUS
  <2>3. p = [cut EXCEPT !.arena = arena, !.offsets = offsets]
    BY <1>1, <1>2, <1>9, <2>2 DEF Slice
  <2>4. /\ p.kind = "STRING" /\ p.width = b.width /\ p.times = cut.times /\ p.aval = b.aval /\ p.bval = b.bval
        /\ p.reals = b.reals /\ p.arena = arena /\ p.offsets = offsets
    BY <1>2, <1>9, <2>3 DEF Shape
  <2>5. StringsHold(arena, offsets, part)
    BY <1>3, <2>1, <2>2, StringsPart, ZenonT(30)
  <2>6. Len(arena) <= Len(b.arena)
    BY <2>1, <2>2, StringsPart, ZenonT(30)
  <2>7. Len(offsets) <= Len(b.offsets)
    BY <2>1, <2>2, StringsPart, ZenonT(30)
  <2>8. Len(arena) \in Nat /\ Len(offsets) \in Nat /\ Len(b.arena) \in Nat /\ Len(b.offsets) \in Nat
    BY <2>1, <2>5 DEF StringsHold
  <2>9. Filed(p, part)
    BY <2>1, <2>4, <2>5 DEF Filed
  <2>10. NoLonger(p, b)
    BY <1>5, <2>1, <2>4, <2>6, <2>7, <2>8 DEF NoLonger
  <2> QED
    BY <1>2, <1>3, <1>9, <2>4, <2>9, <2>10 DEF HeadOfSlice
<1> QED
  BY <1>6, <1>7, <1>8, <1>9

(* A part of a product is no larger.                                        *)
LEMMA NoLarger ==
  ASSUME NEW x \in Nat, NEW y \in Nat, x <= y, NEW d \in Nat
  PROVE  x * d \in Nat /\ y * d \in Nat /\ x * d <= y * d
<1>1. PICK k \in Nat : y = x + k
  <2>1. y - x \in Nat
    OBVIOUS
  <2> QED
    BY <2>1
<1>2. y * d = x * d + k * d
  BY <1>1
<1>3. k * d \in Nat /\ x * d \in Nat
  OBVIOUS
<1> QED
  BY <1>2, <1>3

(* What a column of n times takes, by its form.                             *)
BytesFor(c, n, h, w) == IF c.wide = <<>> THEN n * h ELSE n * w

(* The bytes of the entries of a column.                                    *)
LEMMA BytesOfColumn ==
  ASSUME NEW c, NEW times, StandsFor(c, times), NEW n \in Nat, n = Len(times), NEW h \in Nat, NEW w \in Nat
  PROVE  Column!ColumnBytes(c, h, w) = BytesFor(c, n, h, w)
<1>1. c.narrow = <<>> \/ c.wide = <<>>
  BY DEF StandsFor
<1>2. Column!ColumnBytes(c, h, w) = h * Len(c.narrow) + w * Len(c.wide)
  BY DEF Column!ColumnBytes
<1>3. Len(<<>>) = 0
  OBVIOUS
<1>4. CASE c.wide = <<>>
  <2>1. Len(c.narrow) = n
    BY <1>4 DEF StandsFor
  <2>2. h * n + w * 0 = n * h
    OBVIOUS
  <2> QED
    BY <1>2, <1>3, <1>4, <2>1, <2>2 DEF BytesFor
<1>5. CASE c.wide # <<>>
  <2>1. Len(c.wide) = n /\ c.narrow = <<>>
    BY <1>1, <1>5 DEF StandsFor
  <2>2. h * 0 + w * n = n * w
    OBVIOUS
  <2> QED
    BY <1>2, <1>3, <1>5, <2>1, <2>2 DEF BytesFor
<1> QED
  BY <1>4, <1>5

(* A slice of ordered times takes no more bytes: that of a narrow column is *)
(* narrow.                                                                  *)
LEMMA SliceOfTimes ==
  ASSUME NEW c, NEW times \in Seq(Int), StandsFor(c, times), Near(c), Search!Ordered(times),
         NEW lo \in Nat, NEW hi \in Nat, lo <= hi, hi <= Len(times), NEW h \in Nat, NEW w \in Nat, h <= w
  PROVE  /\ Column!ColumnBytes(Column!ColumnSlice(c, lo, hi), h, w) \in Nat
         /\ Column!ColumnBytes(c, h, w) \in Nat
         /\ Column!ColumnBytes(Column!ColumnSlice(c, lo, hi), h, w) <= Column!ColumnBytes(c, h, w)
<1>1. PICK n \in Nat, d \in Nat : n = Len(times) /\ d = hi - lo /\ d <= n
  <2>1. PICK n \in Nat : n = Len(times)
    OBVIOUS
  <2>2. hi - lo \in Nat /\ hi - lo <= n
    BY <2>1
  <2> QED
    BY <2>1, <2>2
<1>2. \A k \in 1 .. n : times[k] \in Int
  BY <1>1
<1>3. PICK sub \in Seq(Int) : /\ sub = SubSeq(times, lo + 1, hi) /\ Len(sub) = d
                              /\ \A k \in 1 .. d : sub[k] = times[lo + k]
  <2>1. /\ SubSeq(times, lo + 1, hi) \in Seq(Int) /\ Len(SubSeq(times, lo + 1, hi)) = hi - lo
        /\ \A k \in 1 .. hi - lo : SubSeq(times, lo + 1, hi)[k] = times[lo + k]
    BY PartIs
  <2> QED
    BY <1>1, <2>1
<1>4. PICK part : part = Column!ColumnSlice(c, lo, hi)
  OBVIOUS
<1>5. part = Column!ColumnOf(sub)
  <2>1. Column!TimesOf(c) = times
    BY StandsForIsExact
  <2> QED
    BY <1>3, <1>4, <2>1 DEF Column!ColumnSlice
<1>6. StandsFor(part, sub)
  BY <1>5, ColumnStands
<1>7. c.wide = <<>> => part.wide = <<>>
  <2> SUFFICES ASSUME c.wide = <<>> PROVE part.wide = <<>>
    OBVIOUS
  <2>1. PICK base \in Int, widest \in Nat : base = c.base /\ widest = Column!MaxNarrow
    BY ColumnAssumption DEF ColumnAssumption, Column!MaxNarrow, StandsFor, Columns
  <2>2. ASSUME NEW k \in 1 .. n
        PROVE  base <= times[k] /\ times[k] <= base + widest
    <3>1. c.narrow \in Seq(Int) /\ Len(c.narrow) = n /\ base + c.narrow[k] = times[k]
      BY <1>1, <2>1 DEF StandsFor, Columns
    <3>2. PICK off \in Int : off = c.narrow[k]
      BY <3>1
    <3>3. 0 <= off /\ off <= widest
      BY <2>1, <3>1, <3>2 DEF Near
    <3> QED
      BY <2>1, <3>1, <3>2, <3>3
  <2>3. ASSUME NEW k \in 1 .. d
        PROVE  sub[1] <= sub[k] /\ sub[k] - sub[1] <= Column!MaxNarrow
    <3>1. /\ 1 \in 1 .. d /\ lo + 1 \in 1 .. n /\ lo + k \in 1 .. n /\ lo + 1 \in 1 .. lo + k
      BY <1>1
    <3>2. PICK a \in Int, b \in Int : a = times[lo + 1] /\ b = times[lo + k] /\ sub[1] = a /\ sub[k] = b
      BY <1>2, <1>3, <3>1
    <3>3. a <= b
      BY <1>1, <3>1, <3>2, OrderedThroughout
    <3>4. base <= a /\ b <= base + widest
      <4>1. base <= times[lo + 1] /\ times[lo + k] <= base + widest
        BY <2>2, <3>1
      <4> QED
        BY <3>2, <4>1
    <3>5. b - a <= widest
      BY <3>2, <3>4
    <3> QED
      BY <2>1, <3>2, <3>3, <3>5
  <2> QED
    BY <1>3, <1>5, <2>3, ColumnStands
<1>8. PICK x \in Nat, y \in Nat : /\ x = Column!ColumnBytes(part, h, w) /\ x = IF part.wide = <<>> THEN d * h ELSE d * w
                                  /\ y = Column!ColumnBytes(c, h, w) /\ y = IF c.wide = <<>> THEN n * h ELSE n * w
  <2>1. Column!ColumnBytes(part, h, w) = IF part.wide = <<>> THEN d * h ELSE d * w
    <3>1. d = Len(sub) /\ StandsFor(part, sub)
      BY <1>3, <1>6
    <3>2. Column!ColumnBytes(part, h, w) = BytesFor(part, d, h, w)
      BY <3>1, BytesOfColumn
    <3> QED
      BY <3>2 DEF BytesFor
  <2>2. Column!ColumnBytes(c, h, w) = IF c.wide = <<>> THEN n * h ELSE n * w
    <3>1. n = Len(times) /\ StandsFor(c, times)
      BY <1>1
    <3>2. Column!ColumnBytes(c, h, w) = BytesFor(c, n, h, w)
      BY <3>1, BytesOfColumn
    <3> QED
      BY <3>2 DEF BytesFor
  <2>3. d * h \in Nat /\ d * w \in Nat /\ n * h \in Nat /\ n * w \in Nat
    OBVIOUS
  <2> QED
    BY <2>1, <2>2, <2>3
<1>9. /\ d * h \in Nat /\ d * w \in Nat /\ n * h \in Nat /\ n * w \in Nat
      /\ d * h <= n * h /\ d * w <= n * w
  BY <1>1, NoLarger
<1>10. d * h <= d * w
  <2>1. h * d <= w * d
    BY NoLarger
  <2>2. h * d = d * h /\ w * d = d * w
    OBVIOUS
  <2> QED
    BY <2>1, <2>2
<1>11. x <= y
  <2>1. PICK dh \in Nat, dw \in Nat, nh \in Nat, nw \in Nat : dh = d * h /\ dw = d * w /\ nh = n * h /\ nw = n * w
    BY <1>9
  <2>2. dh <= nh /\ dw <= nw /\ dh <= dw
    BY <1>9, <1>10, <2>1
  <2>3. x = (IF part.wide = <<>> THEN dh ELSE dw) /\ y = IF c.wide = <<>> THEN nh ELSE nw
    BY <1>8, <2>1
  <2> QED
    BY <1>7, <2>2, <2>3
<1> QED
  BY <1>4, <1>8, <1>11

(* A slice with no column longer takes no more bytes.                       *)
LEMMA SliceBytes ==
  ASSUME NEW b, NEW p, NoLonger(p, b),
         Column!ColumnBytes(p.times, HalfBytes, WordBytes) \in Nat, Column!ColumnBytes(b.times, HalfBytes, WordBytes) \in Nat,
         Column!ColumnBytes(p.times, HalfBytes, WordBytes) <= Column!ColumnBytes(b.times, HalfBytes, WordBytes)
  PROVE  PayloadBytes(p) <= PayloadBytes(b)
<1>1. PICK h \in Nat, w \in Nat : h = HalfBytes /\ w = WordBytes
  BY WidthsAssumption
<1>2. PICK x \in Nat, y \in Nat : /\ x = Column!ColumnBytes(p.times, HalfBytes, WordBytes)
                                  /\ y = Column!ColumnBytes(b.times, HalfBytes, WordBytes) /\ x <= y
  OBVIOUS
<1>3. PICK pa \in Nat, pb \in Nat, pr \in Nat, pc \in Nat, po \in Nat :
        pa = Len(p.aval) /\ pb = Len(p.bval) /\ pr = Len(p.reals) /\ pc = Len(p.arena) /\ po = Len(p.offsets)
  BY DEF NoLonger
<1>4. PICK ba \in Nat, bb \in Nat, br \in Nat, bc \in Nat, bo \in Nat :
        ba = Len(b.aval) /\ bb = Len(b.bval) /\ br = Len(b.reals) /\ bc = Len(b.arena) /\ bo = Len(b.offsets)
  BY DEF NoLonger
<1>5. pa <= ba /\ pb <= bb /\ pr <= br /\ pc <= bc /\ po <= bo
  BY <1>3, <1>4 DEF NoLonger
<1>6. PICK ps \in Nat, bs \in Nat : ps = pa + pb + pr /\ bs = ba + bb + br /\ ps <= bs
  BY <1>5
<1>7. ps * w \in Nat /\ bs * w \in Nat /\ ps * w <= bs * w
  BY <1>6, NoLarger
<1>8. po * h \in Nat /\ bo * h \in Nat /\ po * h <= bo * h
  BY <1>5, NoLarger
<1>9. PICK pw \in Nat, bw \in Nat, ph \in Nat, bh \in Nat : pw = ps * w /\ bw = bs * w /\ ph = po * h /\ bh = bo * h
  BY <1>7, <1>8
<1>10. PayloadBytes(p) = x + pw + pc + ph
  BY <1>1, <1>2, <1>3, <1>6, <1>9 DEF PayloadBytes
<1>11. PayloadBytes(b) = y + bw + bc + bh
  BY <1>1, <1>2, <1>4, <1>6, <1>9 DEF PayloadBytes
<1>12. pw <= bw /\ ph <= bh
  BY <1>7, <1>8, <1>9
<1> QED
  BY <1>2, <1>5, <1>10, <1>11, <1>12

(* Every slice of a block has its part of the times and of what was given.  *)
LEMMA SlicesRead == Kept /\ Near(block.times) /\ Filed(block, Values) /\ Len(block.arena) < Half => SlicesExact
<1> SUFFICES ASSUME Kept, Near(block.times), Filed(block, Values), Len(block.arena) < Half,
                    NEW lo \in 0 .. Len(history), NEW hi \in lo .. Len(history), NEW p, p = Slice(block, lo, hi)
             PROVE  /\ Column!TimesOf(p.times) = SubSeq(Times, lo + 1, hi)
                    /\ ShownBy(p) = SubSeq(Given, lo + 1, hi)
                    /\ Search!Ordered(Times) => PayloadBytes(p) <= PayloadBytes(block)
  BY DEF SlicesExact
<1>1. PICK n \in Nat : /\ n = Len(history) /\ DOMAIN history = 1 .. n
                       /\ Values \in Seq(GivenValues) /\ Len(Values) = n /\ Times \in Seq(Int) /\ Len(Times) = n
                       /\ \A i \in 1 .. n : Values[i] = history[i][2]
  BY Sizes
<1>2. /\ lo \in 0 .. n /\ hi \in lo .. n /\ lo \in Nat /\ hi \in Nat /\ lo <= hi /\ hi <= n
  BY <1>1
<1>3. PICK d \in Nat : d = hi - lo /\ \A i \in 1 .. d : lo + i \in 1 .. n
  <2>1. hi - lo \in Nat /\ \A i \in 1 .. hi - lo : lo + i \in 1 .. n
    BY <1>2
  <2> QED
    BY <2>1
<1>4. block.kind \in {"NONE", "LOGIC", "REAL", "STRING"} /\ block = [x \in Shape |-> block[x]]
  BY SamplesAssumption DEF Kept, SamplesAssumption, KindCode
<1>5. PICK times : times = SubSeq(Times, lo + 1, hi) /\ times \in Seq(Int) /\ Len(times) = d
  <2>1. SubSeq(Times, lo + 1, hi) \in Seq(Int) /\ Len(SubSeq(Times, lo + 1, hi)) = hi - lo
    BY <1>1, <1>2, PartIs
  <2> QED
    BY <1>3, <2>1
<1>6. PICK V, all, part : /\ V = GivenValues /\ all = Values /\ all \in Seq(V) /\ Len(all) = n /\ Filed(block, all)
                          /\ part = SubSeq(all, lo + 1, hi)
  BY <1>1
<1>7. part \in Seq(V) /\ Len(part) = d /\ \A i \in 1 .. d : part[i] = all[lo + i]
  <2>1. /\ SubSeq(all, lo + 1, hi) \in Seq(V) /\ Len(SubSeq(all, lo + 1, hi)) = hi - lo
        /\ \A i \in 1 .. hi - lo : SubSeq(all, lo + 1, hi)[i] = all[lo + i]
    BY <1>2, <1>6, PartIs
  <2> QED
    BY <1>3, <1>6, <2>1
<1>8. PICK b : /\ b = block /\ b = [x \in Shape |-> b[x]] /\ b.kind \in {"NONE", "LOGIC", "REAL", "STRING"}
               /\ Len(b.arena) < Half /\ Filed(b, all) /\ p = Slice(b, lo, hi)
  BY <1>4, <1>6
<1>9. lo \in 0 .. Len(all) /\ hi \in lo .. Len(all)
  BY <1>2, <1>6
<1>10. Filed(p, part)
  BY <1>6, <1>8, <1>9, SliceFiled, ZenonT(30)
<1>11. NoLonger(p, b)
  BY <1>6, <1>8, <1>9, SliceFiled, ZenonT(30)
<1>12. p.kind = b.kind /\ p.width = b.width /\ p.times = Column!ColumnSlice(b.times, lo, hi)
  <2>1. HeadOfSlice(p, b, lo, hi)
    BY <1>6, <1>8, <1>9, SliceFiled, ZenonT(30)
  <2> QED
    BY <2>1 DEF HeadOfSlice
<1>13. Column!TimesOf(block.times) = Times /\ StandsFor(block.times, Times)
  BY <1>1, StandsForIsExact DEF Kept
<1>14. p.times = Column!ColumnOf(times)
  BY <1>5, <1>8, <1>12, <1>13 DEF Column!ColumnSlice
<1>15. StandsFor(p.times, times)
  BY <1>5, <1>14, ColumnStands
<1>16. Column!TimesOf(p.times) = SubSeq(Times, lo + 1, hi)
  BY <1>5, <1>15, StandsForIsExact
<1>17. Count(p) = d
  BY <1>5, <1>15, ColumnSize DEF Count
<1>18. Len(p.arena) < Half
  <2>1. Len(p.arena) \in Nat /\ Len(b.arena) \in Nat /\ Len(p.arena) <= Len(b.arena)
    BY <1>11 DEF NoLonger
  <2> QED
    BY <1>8, <2>1, ColumnAssumption
<1>19. ASSUME NEW i \in 1 .. d
       PROVE  Shown(ValueAt(p, i - 1)) = IF block.kind = "NONE" THEN <<>> ELSE Shown(part[i])
  <2>1. /\ p.kind \in {"NONE", "LOGIC", "REAL", "STRING"} /\ p.kind = block.kind /\ p.width = block.width
        /\ part \in Seq(V) /\ Filed(p, part) /\ Len(p.arena) < Half /\ i \in 1 .. Len(part)
    BY <1>7, <1>8, <1>10, <1>12, <1>18
  <2> QED
    BY <2>1, ValueReads, SMTT(30)
<1>20. ShownBy(p) = SubSeq(Given, lo + 1, hi)
  <2> DEFINE Shows(i) == IF block.kind = "NONE" THEN <<>> ELSE Shown(history[i][2])
             All == {Shows(i) : i \in 1 .. n}
  <2>1. PICK given, G : given = [i \in 1 .. n |-> Shows(i)] /\ given = Given /\ G = All
    BY <1>1 DEF Given
  <2>2. given \in [1 .. n -> G]
    BY <2>1
  <2>3. given \in Seq(G) /\ Len(given) = n
    BY <2>2, FunctionIsSeq
  <2>4. PICK cut : cut = SubSeq(given, lo + 1, hi) /\ Len(cut) = d /\ cut \in Seq(G)
                   /\ \A i \in 1 .. d : cut[i] = given[lo + i]
    <3>1. /\ SubSeq(given, lo + 1, hi) \in Seq(G) /\ Len(SubSeq(given, lo + 1, hi)) = hi - lo
          /\ \A i \in 1 .. hi - lo : SubSeq(given, lo + 1, hi)[i] = given[lo + i]
      BY <1>2, <2>3, PartIs
    <3> QED
      BY <1>3, <3>1
  <2>5. ASSUME NEW i \in 1 .. d
        PROVE  cut[i] = Shown(ValueAt(p, i - 1))
    <3>1. PICK k \in 1 .. n : k = lo + i
      BY <1>3
    <3>2. part[i] = history[k][2]
      BY <1>1, <1>6, <1>7, <3>1
    <3>3. cut[i] = Shows(k)
      BY <2>1, <2>4, <3>1
    <3> QED
      BY <1>19, <3>2, <3>3
  <2>6. cut = [i \in 1 .. d |-> cut[i]]
    BY <2>4
  <2>7. ShownBy(p) = [i \in 1 .. d |-> Shown(ValueAt(p, i - 1))]
    BY <1>17 DEF ShownBy
  <2>8. ShownBy(p) = cut
    BY <2>5, <2>6, <2>7, Zenon
  <2> QED
    BY <2>1, <2>4, <2>8
<1>21. ASSUME Search!Ordered(Times)
       PROVE  PayloadBytes(p) <= PayloadBytes(block)
  <2>1. PICK h \in Nat, w \in Nat : h = HalfBytes /\ w = WordBytes /\ h <= w
    BY WidthsAssumption
  <2>1a. PICK c, list : c = b.times /\ list = Times
    OBVIOUS
  <2>2. c = b.times /\ list \in Seq(Int) /\ StandsFor(c, list) /\ Near(c) /\ Search!Ordered(list) /\ Len(list) = n
    BY <1>1, <1>8, <1>13, <1>21, <2>1a
  <2>3. hi <= Len(list)
    BY <1>2, <2>2
  <2>4. /\ Column!ColumnBytes(Column!ColumnSlice(c, lo, hi), h, w) \in Nat
        /\ Column!ColumnBytes(c, h, w) \in Nat
        /\ Column!ColumnBytes(Column!ColumnSlice(c, lo, hi), h, w) <= Column!ColumnBytes(c, h, w)
    BY <1>2, <2>1, <2>2, <2>3, SliceOfTimes
  <2>5. PayloadBytes(p) <= PayloadBytes(b)
    BY <1>11, <1>12, <2>1, <2>2, <2>4, SliceBytes
  <2> QED
    BY <1>8, <2>5
<1> QED
  BY <1>16, <1>20, <1>21

-----------------------------------------------------------------------------
(* The smaller of two numbers.                                              *)
LEMMA SmallerOf ==
  ASSUME NEW a \in Nat, NEW b \in Nat
  PROVE  Min({a, b}) = IF a <= b THEN a ELSE b
<1>1. PICK m : m = Min({a, b})
  OBVIOUS
<1>2. m = CHOOSE x \in {a, b} : \A y \in {a, b} : x <= y
  BY <1>1 DEF Min
<1>3. \E x \in {a, b} : \A y \in {a, b} : x <= y
  <2>1. CASE a <= b
    BY <2>1
  <2>2. CASE ~(a <= b)
    BY <2>2
  <2> QED
    BY <2>1, <2>2
<1>4. m \in {a, b} /\ \A y \in {a, b} : m <= y
  BY <1>2, <1>3
<1>5. m \in {a, b} /\ m <= a /\ m <= b
  BY <1>4
<1> QED
  BY <1>1, <1>5

(* Of a slice from `offset', a word takes the bits at its place: those of   *)
(* two neighbours of the source.                                            *)
LEMMA ShiftedBits ==
  ASSUME NEW plane \in Seq(SUBSET AllOnes), NEW offset \in Nat, NEW w \in Nat, NEW c \in AllOnes,
         NEW at \in Nat, at = offset + w * K + c
  PROVE  c \in Shifted(plane, offset, w) <=> at % K \in PlaneWord(plane, at \div K)
<1>1. K \in Nat \ {0} /\ AllOnes = 0 .. K - 1 /\ c \in 0 .. K - 1
  BY PlanesAssumption DEF AllOnes
<1>1a. K \in Nat \ {0}
  BY <1>1
<1>2. PICK q \in Nat : q = offset \div K
  BY <1>1a
<1>3. PICK s \in 0 .. K - 1 : s = offset % K
  BY <1>1a
<1>4. offset = q * K + s
  BY <1>1, <1>2, <1>3
<1>5. PICK first \in Nat : first = q + w
  OBVIOUS
<1>6. at = first * K + (s + c)
  <2>1. (q + w) * K = q * K + w * K
    BY <1>1
  <2>2. PICK x \in Nat, y \in Nat : x = q * K /\ y = w * K
    BY <1>1
  <2>3. first * K = x + y
    BY <1>5, <2>1, <2>2
  <2>4. at = x + s + y + c
    BY <1>4, <2>2
  <2> QED
    BY <1>1, <2>2, <2>3, <2>4
<1>7. PICK low, high : low = PlaneWord(plane, first) /\ high = PlaneWord(plane, first + 1)
  OBVIOUS
<1>8. \A x \in Nat : PlaneWord(plane, x) \in SUBSET AllOnes
  <2> SUFFICES ASSUME NEW x \in Nat PROVE PlaneWord(plane, x) \in SUBSET AllOnes
    OBVIOUS
  <2>1. CASE x < Len(plane)
    <3>1. x + 1 \in 1 .. Len(plane)
      BY <2>1
    <3>2. plane[x + 1] \in SUBSET AllOnes
      BY <3>1
    <3> QED
      BY <2>1, <3>2 DEF PlaneWord
  <2>2. CASE ~(x < Len(plane))
    BY <2>2 DEF PlaneWord
  <2> QED
    BY <2>1, <2>2
<1>9. low \in SUBSET (0 .. K - 1) /\ high \in SUBSET (0 .. K - 1)
  <2>1. first \in Nat /\ first + 1 \in Nat
    OBVIOUS
  <2> QED
    BY <1>1, <1>7, <1>8, <2>1
<1>10. Shifted(plane, offset, w) =
         {bit - s : bit \in {e \in low : e >= s}} \cup {bit + K - s : bit \in {e \in high : e < s}}
  <2>1. (offset \div K + w) = first /\ (offset \div K + w) + 1 = first + 1
    BY <1>2, <1>5
  <2> QED
    BY <1>3, <1>7, <2>1 DEF Shifted
<1>11. c \in Shifted(plane, offset, w) <=> \/ \E bit \in low : bit >= s /\ c = bit - s
                                           \/ \E bit \in high : bit < s /\ c = bit + K - s
  BY <1>10
<1>12. CASE s + c < K
  <2>1. s + c \in 0 .. K - 1
    BY <1>1, <1>12
  <2>2. at \div K = first /\ at % K = s + c
    <3>1. PICK r \in 0 .. K - 1 : r = s + c
      BY <2>1
    <3>2. at = first * K + r
      BY <1>6, <3>1
    <3>3. (first * K + r) \div K = first /\ (first * K + r) % K = r
      BY <1>1, DivMod
    <3> QED
      BY <3>1, <3>2, <3>3
  <2>3. ~\E bit \in high : bit < s /\ c = bit + K - s
    BY <1>1, <1>9, <1>12
  <2>4. (\E bit \in low : bit >= s /\ c = bit - s) <=> s + c \in low
    <3>1. ASSUME NEW bit \in low, bit >= s, c = bit - s
          PROVE  s + c \in low
      <4>1. bit \in 0 .. K - 1
        BY <1>9
      <4>2. s + c = bit
        BY <1>1, <3>1, <4>1
      <4> QED
        BY <4>2
    <3>2. ASSUME s + c \in low
          PROVE  \E bit \in low : bit >= s /\ c = bit - s
      <4>1. PICK bit \in 0 .. K - 1 : bit = s + c
        BY <2>1
      <4>2. bit \in low /\ bit >= s /\ c = bit - s
        BY <1>1, <3>2, <4>1
      <4> QED
        BY <4>2
    <3> QED
      BY <3>1, <3>2
  <2> QED
    BY <1>7, <1>11, <2>2, <2>3, <2>4
<1>13. CASE ~(s + c < K)
  <2>1. PICK r \in 0 .. K - 1 : r = s + c - K /\ r < s /\ s + c = K + r
    <3>1. s + c - K \in 0 .. K - 1 /\ s + c - K < s /\ s + c = K + (s + c - K)
      BY <1>1, <1>13
    <3> QED
      BY <3>1
  <2>2. at = (first + 1) * K + r /\ first + 1 \in Nat
    <3>1. (first + 1) * K = first * K + K
      BY <1>1
    <3>2. PICK x \in Nat : x = first * K
      BY <1>1
    <3> QED
      BY <1>1, <1>6, <2>1, <3>1, <3>2
  <2>3. at \div K = first + 1 /\ at % K = r
    <3>1. PICK f \in Nat : f = first + 1
      OBVIOUS
    <3>2. at = f * K + r
      BY <2>2, <3>1
    <3>3. (f * K + r) \div K = f /\ (f * K + r) % K = r
      BY <1>1, DivMod
    <3> QED
      BY <3>1, <3>2, <3>3
  <2>4. ~\E bit \in low : bit >= s /\ c = bit - s
    BY <1>1, <1>9, <1>13
  <2>5. (\E bit \in high : bit < s /\ c = bit + K - s) <=> r \in high
    <3>1. ASSUME NEW bit \in high, bit < s, c = bit + K - s
          PROVE  r \in high
      <4>1. bit \in 0 .. K - 1
        BY <1>9
      <4>2. r = bit
        BY <1>1, <2>1, <3>1, <4>1
      <4> QED
        BY <4>2
    <3>2. ASSUME r \in high
          PROVE  \E bit \in high : bit < s /\ c = bit + K - s
      <4>1. r < s /\ c = r + K - s
        BY <1>1, <2>1
      <4> QED
        BY <3>2, <4>1
    <3> QED
      BY <3>1, <3>2
  <2> QED
    BY <1>7, <1>11, <2>3, <2>4, <2>5
<1> QED
  BY <1>12, <1>13

(* A word of a slice is a word.                                             *)
LEMMA ShiftedWord ==
  ASSUME NEW plane \in Seq(SUBSET AllOnes), NEW offset \in Nat, NEW w \in Nat
  PROVE  Shifted(plane, offset, w) \in SUBSET AllOnes
<1>1. K \in Nat \ {0} /\ AllOnes = 0 .. K - 1
  BY PlanesAssumption DEF AllOnes
<1>1a. K \in Nat \ {0}
  BY <1>1
<1>1b. PICK q \in Nat : q = offset \div K
  BY <1>1a
<1>2. PICK first \in Nat : first = offset \div K + w
  BY <1>1b
<1>3. PICK s \in 0 .. K - 1 : s = offset % K
  BY <1>1
<1>4. \A x \in Nat : PlaneWord(plane, x) \in SUBSET AllOnes
  <2> SUFFICES ASSUME NEW x \in Nat PROVE PlaneWord(plane, x) \in SUBSET AllOnes
    OBVIOUS
  <2>1. CASE x < Len(plane)
    <3>1. x + 1 \in 1 .. Len(plane)
      BY <2>1
    <3>2. plane[x + 1] \in SUBSET AllOnes
      BY <3>1
    <3> QED
      BY <2>1, <3>2 DEF PlaneWord
  <2>2. CASE ~(x < Len(plane))
    BY <2>2 DEF PlaneWord
  <2> QED
    BY <2>1, <2>2
<1>5. PICK low, high : low = PlaneWord(plane, first) /\ high = PlaneWord(plane, first + 1)
  OBVIOUS
<1>6. low \in SUBSET (0 .. K - 1) /\ high \in SUBSET (0 .. K - 1)
  <2>1. first + 1 \in Nat
    OBVIOUS
  <2> QED
    BY <1>1, <1>4, <1>5, <2>1
<1>7. Shifted(plane, offset, w) =
         {bit - s : bit \in {e \in low : e >= s}} \cup {bit + K - s : bit \in {e \in high : e < s}}
  BY <1>2, <1>3, <1>5 DEF Shifted
<1>8. \A bit \in low : bit >= s => bit - s \in 0 .. K - 1
  BY <1>1, <1>6
<1>9. \A bit \in high : bit < s => bit + K - s \in 0 .. K - 1
  <2> SUFFICES ASSUME NEW bit \in high, bit < s PROVE bit + K - s \in 0 .. K - 1
    OBVIOUS
  <2>1. bit \in 0 .. K - 1
    BY <1>6
  <2> QED
    BY <1>1, <2>1
<1> QED
  BY <1>1, <1>7, <1>8, <1>9

(* The plane that fromSlice() makes of a plane of the source.               *)
PlaneOfSlice(plane, offset, width, n, have) ==
  Masked(Filled([x \in 1 .. n |-> Shifted(plane, offset, x - 1)], have), width)

(* A plane of a slice has the bits of the source at their places, and every *)
(* bit from `have' on.                                                      *)
LEMMA SlicedBits ==
  ASSUME NEW plane \in Seq(SUBSET AllOnes), NEW offset \in Nat, NEW width \in Nat, width > 0,
         NEW n \in Nat, n = WordsFor(width), NEW have \in Nat,
         NEW w \in 1 .. n, NEW c \in AllOnes, (w - 1) * K + c < width,
         NEW at \in Nat, at = offset + (w - 1) * K + c
  PROVE  c \in PlaneOfSlice(plane, offset, width, n, have)[w]
           <=> (at % K \in PlaneWord(plane, at \div K) \/ (w - 1) * K + c >= have)
<1> DEFINE shifted == [x \in 1 .. n |-> Shifted(plane, offset, x - 1)]
           copy == Filled(shifted, have)
<1>1. \A x \in 1 .. n : Shifted(plane, offset, x - 1) \in SUBSET AllOnes
  <2> SUFFICES ASSUME NEW x \in 1 .. n PROVE Shifted(plane, offset, x - 1) \in SUBSET AllOnes
    OBVIOUS
  <2>1. x - 1 \in Nat
    OBVIOUS
  <2> QED
    BY <2>1, ShiftedWord
<1>2. copy = [x \in 1 .. n |-> Shifted(plane, offset, x - 1) \cup {bit \in AllOnes : (x - 1) * K + bit >= have}]
  BY DEF Filled
<1>3. copy \in [1 .. n -> SUBSET AllOnes]
  BY <1>1, <1>2
<1>4. copy[w] = Shifted(plane, offset, w - 1) \cup {bit \in AllOnes : (w - 1) * K + bit >= have}
  BY <1>2
<1> HIDE DEF copy
<1>5. c \in Masked(copy, width)[w] <=> (c \in copy[w] /\ (w - 1) * K + c < width)
  BY <1>3, MaskedBits
<1>6. PICK u \in Nat : u = w - 1
  OBVIOUS
<1>7. at = offset + u * K + c
  BY <1>6
<1>8. c \in Shifted(plane, offset, u) <=> at % K \in PlaneWord(plane, at \div K)
  BY <1>7, ShiftedBits
<1>9. c \in copy[w] <=> (at % K \in PlaneWord(plane, at \div K) \/ (w - 1) * K + c >= have)
  BY <1>4, <1>6, <1>8
<1>10. c \in Masked(copy, width)[w] <=> (at % K \in PlaneWord(plane, at \div K) \/ (w - 1) * K + c >= have)
  BY <1>5, <1>9
<1> QED
  BY <1>10 DEF copy, PlaneOfSlice

(* A slice of a value has the bits at its place, and X past the end of the  *)
(* source.                                                                  *)
LEMMA SliceOfView ==
  ASSUME NEW v \in Views, NEW offset \in Nat, NEW width \in Nat, NEW bit \in 0 .. width - 1
  PROVE  BitAt(FromSlice(v, offset, width), bit) = BitAt(v, offset + bit)
<1>1. K \in Nat \ {0} /\ AllOnes = 0 .. K - 1
  BY PlanesAssumption DEF AllOnes
<1>2. /\ v.width \in Nat /\ v.aval \in Seq(SUBSET AllOnes) /\ v.bval \in Seq(SUBSET AllOnes)
      /\ Len(v.aval) = WordsFor(v.width) /\ Len(v.bval) \in {0, WordsFor(v.width)}
  BY DEF Views, IsValue
<1>3. width > 0 /\ bit \in Nat /\ bit < width
  OBVIOUS
<1>4. PICK n \in Nat : WordsFor(width) = n /\ n > 0
  BY <1>3, WordsAre
<1>5. PICK w \in 1 .. n, c \in AllOnes : bit \div K + 1 = w /\ bit % K = c /\ (w - 1) * K + c = bit
  BY <1>3, <1>4, PlaceOfBit
<1>6. PICK at \in Nat : at = offset + bit
  BY <1>3
<1>7. PICK have : have = IF offset < v.width THEN Min({width, v.width - offset}) ELSE 0
  OBVIOUS
<1>8. have \in Nat /\ (at < v.width => bit < have) /\ (~(at < v.width) => bit >= have)
  <2>1. CASE offset < v.width
    <3>1. PICK left \in Nat : left = v.width - offset
      <4>1. v.width - offset \in Nat
        BY <1>2, <2>1
      <4> QED
        BY <4>1
    <3>2. have = IF width <= left THEN width ELSE left
      BY <1>7, <2>1, <3>1, SmallerOf
    <3> QED
      BY <1>2, <1>3, <1>6, <3>1, <3>2
  <2>2. CASE ~(offset < v.width)
    BY <1>2, <1>3, <1>6, <1>7, <2>2
  <2> QED
    BY <2>1, <2>2
<1>9. PICK a, b : /\ a = PlaneOfSlice(v.aval, offset, width, n, have)
                  /\ b = PlaneOfSlice(v.bval, offset, width, n, have)
  OBVIOUS
<1>10. PICK part : part = FromSlice(v, offset, width)
  OBVIOUS
<1>11. part.width = width /\ part.aval = a /\ part.bval = b
  BY <1>3, <1>4, <1>7, <1>9, <1>10 DEF FromSlice, PlaneOfSlice
<1>12. at = offset + (w - 1) * K + c /\ (w - 1) * K + c < width
  <2>1. PICK x \in Nat : x = (w - 1) * K
    BY <1>1
  <2> QED
    BY <1>1, <1>3, <1>5, <1>6, <2>1
<1>13. c \in a[w] <=> (at % K \in PlaneWord(v.aval, at \div K) \/ bit >= have)
  <2>1. PICK plane : plane = v.aval
    OBVIOUS
  <2>2. plane \in Seq(SUBSET AllOnes) /\ width > 0 /\ n = WordsFor(width) /\ have \in Nat
    BY <1>2, <1>3, <1>4, <1>8, <2>1
  <2>3. c \in PlaneOfSlice(plane, offset, width, n, have)[w]
           <=> (at % K \in PlaneWord(plane, at \div K) \/ (w - 1) * K + c >= have)
    BY <1>12, <2>2, SlicedBits, ZenonT(30)
  <2> QED
    BY <1>5, <1>9, <2>1, <2>3
<1>14. c \in b[w] <=> (at % K \in PlaneWord(v.bval, at \div K) \/ bit >= have)
  <2>1. PICK plane : plane = v.bval
    OBVIOUS
  <2>2. plane \in Seq(SUBSET AllOnes) /\ width > 0 /\ n = WordsFor(width) /\ have \in Nat
    BY <1>2, <1>3, <1>4, <1>8, <2>1
  <2>3. c \in PlaneOfSlice(plane, offset, width, n, have)[w]
           <=> (at % K \in PlaneWord(plane, at \div K) \/ (w - 1) * K + c >= have)
    BY <1>12, <2>2, SlicedBits, ZenonT(30)
  <2> QED
    BY <1>5, <1>9, <2>1, <2>3
<1>15. b # <<>>
  <2>2. DOMAIN b = 1 .. n
    <3>1. DOMAIN Filled([x \in 1 .. n |-> Shifted(v.bval, offset, x - 1)], have) = 1 .. n
      BY DEF Filled
    <3> QED
      BY <1>9, <3>1 DEF Masked, PlaneOfSlice
  <2> QED
    BY <1>4, <2>2
<1>16. BitAt(part, bit) = IF c \in a[w] THEN IF c \in b[w] THEN "X" ELSE "1"
                                        ELSE IF c \in b[w] THEN "Z" ELSE "0"
  <2>1. bit < part.width /\ ~(bit >= part.width)
    BY <1>3, <1>11
  <2>2. BitAt(part, bit) = IF c \in part.aval[w]
                           THEN IF part.bval # <<>> /\ c \in part.bval[w] THEN "X" ELSE "1"
                           ELSE IF part.bval # <<>> /\ c \in part.bval[w] THEN "Z" ELSE "0"
    BY <1>5, <2>1, BitIs
  <2> QED
    BY <1>11, <1>15, <2>2
<1>17. CASE ~(at < v.width)
  <2>1. BitAt(part, bit) = "X"
    BY <1>8, <1>13, <1>14, <1>16, <1>17
  <2>2. at >= v.width
    BY <1>2, <1>17
  <2>3. BitAt(v, at) = "X"
    BY <2>2, <1>2, <1>17 DEF BitAt
  <2> QED
    BY <1>6, <1>10, <2>1, <2>3
<1>18. CASE at < v.width
  <2>1. PICK y \in 1 .. WordsFor(v.width), d \in AllOnes : at \div K + 1 = y /\ at % K = d
    BY <1>2, <1>18, PlaceOfBit
  <2>2. ~(bit >= have)
    BY <1>3, <1>8, <1>18
  <2>3. at \div K = y - 1 /\ y \in Nat /\ WordsFor(v.width) \in Nat /\ y <= WordsFor(v.width)
    <3>1. PICK m \in Nat : WordsFor(v.width) = m
      BY <1>2, WordsAre
    <3>2. PICK q \in Nat : q = at \div K
      BY <1>1
    <3> QED
      BY <2>1, <3>1, <3>2
  <2>4. PlaneWord(v.aval, at \div K) = v.aval[y]
    BY <1>2, <2>3 DEF PlaneWord
  <2>5. PlaneWord(v.bval, at \div K) = IF v.bval # <<>> THEN v.bval[y] ELSE {}
    <3>1. CASE v.bval = <<>>
      <4>1. Len(v.bval) = 0
        BY <3>1
      <4> QED
        BY <2>3, <3>1, <4>1 DEF PlaneWord
    <3>2. CASE v.bval # <<>>
      <4>1. Len(v.bval) # 0
        BY <1>2, <3>2, EmptySeq
      <4>2. Len(v.bval) = WordsFor(v.width)
        BY <1>2, <4>1
      <4> QED
        BY <2>3, <3>2, <4>2 DEF PlaneWord
    <3> QED
      BY <3>1, <3>2
  <2>6. BitAt(v, at) = IF d \in v.aval[y]
                       THEN IF v.bval # <<>> /\ d \in v.bval[y] THEN "X" ELSE "1"
                       ELSE IF v.bval # <<>> /\ d \in v.bval[y] THEN "Z" ELSE "0"
    <3>1. ~(at >= v.width)
      BY <1>2, <1>18
    <3> QED
      BY <1>18, <2>1, <3>1, BitIs
  <2>7. c \in a[w] <=> d \in v.aval[y]
    BY <1>13, <2>1, <2>2, <2>4
  <2>8. c \in b[w] <=> (v.bval # <<>> /\ d \in v.bval[y])
    BY <1>14, <2>1, <2>2, <2>5
  <2>9. BitAt(part, bit) = BitAt(v, at)
    BY <1>16, <2>6, <2>7, <2>8
  <2> QED
    BY <1>6, <1>10, <2>9
<1> QED
  BY <1>17, <1>18

(* Slices of a value show its bits.                                         *)
LEMMA ValuesSliced == Kept /\ Filed(block, Values) => SlicesOfValues
<1> SUFFICES ASSUME Kept, Filed(block, Values), block.kind = "LOGIC", history # <<>> PROVE SlicesOfValues
  BY Zenon DEF SlicesOfValues
<1>1. PICK n \in Nat : n = Len(history)
  BY DEF Kept
<1>2. n > 0 /\ n \in 1 .. n
  <2>1. history \in Seq(Changes)
    BY DEF Kept
  <2>2. n # 0
    BY <1>1, <2>1, EmptySeq
  <2> QED
    BY <2>2
<1>3. Last(history) = history[n]
  BY <1>1 DEF Last
<1>4. Values \in Seq(Views)
  BY DEF Filed
<1>5. Values = [i \in 1 .. n |-> history[i][2]]
  <2>1. DOMAIN history = 1 .. n
    BY <1>1 DEF Kept
  <2> QED
    BY <2>1 DEF Values
<1>6. Values[n] = history[n][2] /\ Values[n] \in Views
  <2>1. Values[n] = history[n][2]
    BY <1>2, <1>5
  <2>2. PICK list \in Seq(Views) : list = Values
    BY <1>4
  <2>3. DOMAIN list = 1 .. n
    BY <1>5, <2>2
  <2>4. Len(list) = n
    BY <2>3
  <2>5. list[n] \in Views
    BY <1>2, <2>4
  <2> QED
    BY <2>1, <2>2, <2>5
<1>7. K \in Nat
  BY PlanesAssumption
<1>8. PICK v \in Views : v = Last(history)[2]
  BY <1>3, <1>6
<1>9. ASSUME NEW offset \in 0 .. K + 1, NEW width \in 0 .. K + 2, NEW bit \in 0 .. width - 1
      PROVE  BitAt(FromSlice(v, offset, width), bit) = BitAt(v, offset + bit)
  <2>1. offset \in Nat /\ width \in Nat
    BY <1>7
  <2> QED
    BY <2>1, SliceOfView
<1> QED
  BY <1>8, <1>9, Zenon DEF SlicesOfValues

(* Every slice of a block is a block with exactly its part of the changes   *)
(* that takes no more bytes while times do not decrease, and every slice of *)
(* a value has the bits at its place: for any widths, values and number of  *)
(* changes, as long as the characters fit the 32 bits of an offset.         *)
THEOREM PartsCorrect == Spec => [](Len(block.arena) < Half => PartsExact)
<1> DEFINE Inv == Kept /\ Near(block.times) /\ Filed(block, Values)
<1>1. Init => Inv
  BY KeptInit, NearInit, FiledInit
<1>2. Inv /\ [Next]_vars => Inv'
  <2> SUFFICES ASSUME Inv, [Next]_vars PROVE Inv'
    OBVIOUS
  <2>1. Kept'
    BY KeptByNext
  <2>2. Near(block.times)'
    BY NearNext
  <2>3. Filed(block', Values')
    BY FiledNext
  <2>4. Filed(block, Values)'
    BY <2>3
  <2> QED
    BY <2>1, <2>2, <2>4
<1>3. Inv => (Len(block.arena) < Half => PartsExact)
  BY SlicesRead, ValuesSliced DEF PartsExact
<1> QED
  BY <1>1, <1>2, <1>3, PTL DEF Spec
=============================================================================
