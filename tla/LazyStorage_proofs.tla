------------------------- MODULE LazyStorage_proofs -------------------------
(***************************************************************************)
(* Theorems about LazyStorage, for any index, cache size and number of     *)
(* instances.                                                              *)
(***************************************************************************)
EXTENDS LazyRefinement, SequenceTheorems, DataInduction, TLAPS

(* What holds at every step of every instance: the blocks a call still has  *)
(* to visit exist; every cached block has the content its key stands for;   *)
(* the handle stands at the wanted block until it is read; and the block at *)
(* the front is the wanted one from its insertion to its use.               *)
GetStages == {"look", "read", "evict", "use"}
Places == {v \in Visit : v[2] \in DOMAIN index[v[1]]}
RefAt(v) == index[v[1]][v[2]]
KeyAt(v) == Key(v[1], RefAt(v))

Shapes ==
  /\ index \in Layouts
  /\ lru \in [Instances -> Seq(Entry)]
  /\ call \in [Instances -> Call]
  /\ position = [i \in Instances |-> position[i]]
  /\ view = [i \in Instances |-> view[i]]

Planned(i) ==
  /\ call[i].todo \in Seq(Places)
  /\ call[i].stage \in GetStages => call[i].todo # <<>>

Holds(entry) == \E v \in Places : entry.key = KeyAt(v) /\ entry.block = Content(RefAt(v))

CacheRight(i) == \A k \in DOMAIN lru[i] : Holds(lru[i][k])

SeekRight(i) == call[i].stage = "read" => position[i] = Wanted(i).offset

FrontRight(i) ==
  call[i].stage \in {"evict", "use"} =>
    /\ lru[i] # <<>>
    /\ lru[i][1].key = WantedKey(i)
    /\ lru[i][1].block = Content(Wanted(i))

Within(change, block) == change \in block.first .. block.first + Len(block.times) - 1

ViewRight(i) ==
  view[i] # NoView =>
    /\ call[i].stage \notin GetStages \cup {"release"}
    /\ \E k \in DOMAIN lru[i] :
         lru[i][k].key = view[i].key /\ Within(view[i].change, lru[i][k].block)

Right(i) == Planned(i) /\ CacheRight(i) /\ SeekRight(i) /\ FrontRight(i) /\ ViewRight(i)

Inv == Shapes /\ \A i \in Instances : Right(i)

----------------------------------------------------------------------------
(* A sequence without its k-th element.                                     *)
Without(r, s, k) ==
  /\ Len(r) = Len(s) - 1
  /\ \A j \in 1 .. Len(s) - 1 : r[j] = IF j <= k - 1 THEN s[j] ELSE s[j + 1]

(* Sequences: what moving, removing and cutting off an element leaves.      *)
LEMMA RemovedElement ==
  ASSUME NEW S, NEW s \in Seq(S), NEW k \in DOMAIN s
  PROVE  /\ RemoveAt(s, k) \in Seq(S)
         /\ \A j \in DOMAIN RemoveAt(s, k) : \E m \in DOMAIN s : RemoveAt(s, k)[j] = s[m]
         /\ Without(RemoveAt(s, k), s, k)
<1> DEFINE a == SubSeq(s, 1, k - 1)
           b == SubSeq(s, k + 1, Len(s))
<1>1. k \in 1 .. Len(s) /\ Len(s) \in Nat
  OBVIOUS
<1>2. \A i \in 1 .. Len(s) : s[i] \in S
  OBVIOUS
<1>3. /\ a \in Seq(S) /\ Len(a) = k - 1
      /\ \A i \in 1 .. k - 1 : a[i] = s[i]
  <2>1. \A i \in 1 .. k - 1 : s[i] \in S
    BY <1>1, <1>2
  <2> QED
    BY <1>1, <2>1, SubSeqProperties
<1>4. /\ b \in Seq(S) /\ Len(b) = Len(s) - k
      /\ \A i \in 1 .. Len(s) - k : b[i] = s[k + i]
  <2>1. \A i \in k + 1 .. Len(s) : s[i] \in S
    BY <1>1, <1>2
  <2> QED
    BY <1>1, <2>1, SubSeqProperties
<1>5. /\ a \o b \in Seq(S) /\ Len(a \o b) = Len(s) - 1
      /\ \A j \in 1 .. Len(s) - 1 : (a \o b)[j] = IF j <= k - 1 THEN a[j] ELSE b[j - (k - 1)]
  <2> HIDE DEF a, b
  <2> QED
    BY <1>1, <1>3, <1>4, ConcatProperties
<1>6. \A j \in 1 .. Len(s) - 1 : (a \o b)[j] = IF j <= k - 1 THEN s[j] ELSE s[j + 1]
  <2> HIDE DEF a, b
  <2> QED
    BY <1>1, <1>3, <1>4, <1>5, SMTT(30)
<1>7. PICK r \in Seq(S) :
        /\ r = a \o b /\ Len(r) = Len(s) - 1
        /\ \A j \in 1 .. Len(s) - 1 : r[j] = IF j <= k - 1 THEN s[j] ELSE s[j + 1]
  BY <1>5, <1>6
<1>8. \A j \in DOMAIN r : \E m \in DOMAIN s : r[j] = s[m]
  <2> SUFFICES ASSUME NEW j \in DOMAIN r
               PROVE  \E m \in DOMAIN s : r[j] = s[m]
    OBVIOUS
  <2> HIDE DEF a, b
  <2>1. j \in 1 .. Len(s) - 1 /\ j \in DOMAIN s /\ j + 1 \in DOMAIN s
    BY <1>1, <1>7
  <2>2. r[j] = s[j] \/ r[j] = s[j + 1]
    BY <1>7, <2>1
  <2> QED
    BY <2>1, <2>2
<1> QED
  BY <1>7, <1>8 DEF RemoveAt, Without

(* A list with an entry pushed to its front.                              *)
LEMMA PushedFront ==
  ASSUME NEW S, NEW s \in Seq(S), NEW e \in S
  PROVE  /\ <<e>> \o s \in Seq(S)
         /\ <<e>> \o s # <<>>
         /\ (<<e>> \o s)[1] = e
         /\ \A j \in DOMAIN (<<e>> \o s) :
              (<<e>> \o s)[j] = e \/ \E m \in DOMAIN s : (<<e>> \o s)[j] = s[m]
         /\ Without(s, <<e>> \o s, 1)
<1>1. <<e>> \in Seq(S) /\ Len(<<e>>) = 1 /\ <<e>>[1] = e
  OBVIOUS
<1>2. /\ <<e>> \o s \in Seq(S)
      /\ Len(<<e>> \o s) = 1 + Len(s)
      /\ \A j \in 1 .. 1 + Len(s) : (<<e>> \o s)[j] = IF j <= 1 THEN <<e>>[j] ELSE s[j - 1]
  BY <1>1, ConcatProperties
<1>3. \A j \in 1 .. 1 + Len(s) : j <= 1 \/ j - 1 \in DOMAIN s
  OBVIOUS
<1>4. \A j \in 1 .. Len(s) : (<<e>> \o s)[j + 1] = s[j]
  <2> SUFFICES ASSUME NEW j \in 1 .. Len(s)
               PROVE  (<<e>> \o s)[j + 1] = s[j]
    OBVIOUS
  <2>1. j + 1 \in 1 .. 1 + Len(s) /\ ~(j + 1 <= 1) /\ j + 1 - 1 = j
    OBVIOUS
  <2> QED
    BY <1>2, <2>1
<1>5. Without(s, <<e>> \o s, 1)
  BY <1>2, <1>4 DEF Without
<1> QED
  BY <1>1, <1>2, <1>3, <1>5

(* A list without its last entry.                                         *)
LEMMA CutLast ==
  ASSUME NEW S, NEW s \in Seq(S), Len(s) > 1
  PROVE  /\ Front(s) \in Seq(S) /\ Front(s) # <<>>
         /\ DOMAIN Front(s) \subseteq DOMAIN s
         /\ \A j \in DOMAIN Front(s) : Front(s)[j] = s[j]
         /\ 1 \in DOMAIN Front(s)
         /\ Without(Front(s), s, Len(s))
<1>1. \A j \in 1 .. Len(s) - 1 : s[j] \in S
  OBVIOUS
<1>2. /\ Front(s) \in Seq(S) /\ Len(Front(s)) = Len(s) - 1
      /\ \A j \in 1 .. Len(s) - 1 : Front(s)[j] = s[j]
  BY <1>1, SubSeqProperties DEF Front
<1> QED
  BY <1>2 DEF Without

(* A list of several entries without its first is one.                    *)
LEMMA TailOfLonger ==
  ASSUME NEW S, NEW s \in Seq(S), Len(s) > 1
  PROVE  Tail(s) \in Seq(S) /\ Tail(s) # <<>>
<1>1. s # <<>>
  OBVIOUS
<1>2. PICK t \in Seq(S) : t = Tail(s) /\ Len(t) = Len(s) - 1
  BY <1>1, HeadTailProperties
<1>3. t # <<>>
  BY <1>2
<1> QED
  BY <1>2, <1>3

----------------------------------------------------------------------------
(* A block that exists is a BlockRef with a content.                        *)
LEMMA PlaceType ==
  ASSUME index \in Layouts, NEW v \in Places
  PROVE  /\ v = <<v[1], v[2]>> /\ v[1] \in Streams /\ v[2] \in DOMAIN index[v[1]]
         /\ RefAt(v) \in Ref
         /\ KeyAt(v) \in Streams \X Nat \X Nat
         /\ Content(RefAt(v)) \in Block
<1>1. v = <<v[1], v[2]>> /\ v[1] \in Streams /\ v[2] \in DOMAIN index[v[1]]
  BY DEF Places, Visit
<1>2. index[v[1]] \in Seq(Ref)
  BY <1>1, LayoutsAssumption
<1>3. RefAt(v) \in Ref
  BY <1>1, <1>2 DEF RefAt
<1> QED
  BY <1>1, <1>3 DEF KeyAt, Key, Content, Ref, Block

(* BlockKey names one block: offset and cookie tell the blocks of a stream  *)
(* apart, the stream those of different streams.                            *)
LEMMA KeyNamesBlock ==
  ASSUME index \in Layouts, NEW v \in Places, NEW w \in Places, KeyAt(v) = KeyAt(w)
  PROVE  v = w
<1>1. /\ v = <<v[1], v[2]>> /\ w = <<w[1], w[2]>> /\ v[1] \in Streams
      /\ v[2] \in DOMAIN index[v[1]] /\ w[2] \in DOMAIN index[w[1]]
  BY PlaceType
<1>2. /\ v[1] = w[1] /\ RefAt(v).offset = RefAt(w).offset
      /\ RefAt(v).cookie = RefAt(w).cookie
  BY DEF KeyAt, Key
<1>3. Searchable(index[v[1]]) /\ index[v[1]] \in Seq(Ref)
  BY <1>1, LayoutsAssumption
<1>4. \A b \in DOMAIN index[v[1]] : \A a \in 1 .. b - 1 :
        <<index[v[1]][a].offset, index[v[1]][a].cookie>>
          # <<index[v[1]][b].offset, index[v[1]][b].cookie>>
  BY <1>3 DEF Searchable
<1>5. v[2] \in Nat \ {0} /\ w[2] \in Nat \ {0}
  BY DEF Places, Visit
<1>6. ~(v[2] < w[2])
  <2> SUFFICES ASSUME v[2] < w[2] PROVE FALSE
    OBVIOUS
  <2>1. v[2] \in 1 .. w[2] - 1 /\ w[2] \in DOMAIN index[v[1]]
    BY <1>1, <1>2, <1>5
  <2> QED
    BY <1>2, <1>4, <2>1 DEF RefAt
<1>7. ~(w[2] < v[2])
  <2> SUFFICES ASSUME w[2] < v[2] PROVE FALSE
    OBVIOUS
  <2>1. w[2] \in 1 .. v[2] - 1
    BY <1>5
  <2> QED
    BY <1>1, <1>2, <1>4, <2>1 DEF RefAt
<1> QED
  BY <1>1, <1>2, <1>5, <1>6, <1>7

(* With the handle at the offset of a block, decode() gives that block.     *)
LEMMA DecodesWanted ==
  ASSUME index \in Layouts, NEW v \in Places,
         NEW block \in DecodedAt(RefAt(v).offset, v[1], RefAt(v).cookie)
  PROVE  block = Content(RefAt(v))
<1> DEFINE at == {ref \in Range(index[v[1]]) : ref.offset = RefAt(v).offset}
           mine == {ref \in at : ref.cookie = RefAt(v).cookie}
<1>1. v[1] \in Streams /\ v[2] \in DOMAIN index[v[1]] /\ v = <<v[1], v[2]>>
  BY PlaceType
<1>2. RefAt(v) \in mine
  BY <1>1 DEF RefAt, Range
<1>3. ASSUME NEW ref \in mine
      PROVE  ref = RefAt(v)
  <2>1. PICK b \in DOMAIN index[v[1]] : ref = index[v[1]][b]
    BY DEF Range
  <2> DEFINE w == <<v[1], b>>
  <2>2. index[v[1]] \in Seq(Ref)
    BY <1>1, LayoutsAssumption
  <2>3. w \in Places
    BY <1>1, <2>1, <2>2 DEF Places, Visit
  <2>4. RefAt(w) = ref /\ w[1] = v[1]
    BY <2>1 DEF RefAt
  <2>5. KeyAt(w) = KeyAt(v)
    BY <1>3, <2>4 DEF KeyAt, Key
  <2> QED
    BY <2>3, <2>4, <2>5, KeyNamesBlock
<1>4. block \in {Content(ref) : ref \in mine}
  BY <1>2 DEF DecodedAt
<1> QED
  BY <1>3, <1>4

(* The blocks a call plans to visit exist.                                  *)
LEMMA UpIsPlaced ==
  ASSUME index \in Layouts, NEW s \in Streams,
         NEW from \in Nat \ {0}, NEW to \in 0 .. Len(index[s])
  PROVE  Up(s, from, to) \in Seq(Places)
<1>1. index[s] \in Seq(Ref)
  BY LayoutsAssumption
<1>2. \A k \in 1 .. to - from + 1 : <<s, from + k - 1>> \in Places
  BY <1>1 DEF Places, Visit
<1>3. CASE to - from + 1 \in Nat
  <2>1. PICK n \in Nat : n = to - from + 1
    BY <1>3
  <2>2. Up(s, from, to) \in [1 .. n -> Places]
    BY <1>2, <2>1 DEF Up
  <2> QED
    BY <2>2
<1>4. CASE ~(to - from + 1 \in Nat)
  BY <1>1, <1>4 DEF Up
<1> QED
  BY <1>3, <1>4

(* A way down visits blocks that exist.                                   *)
LEMMA DownIsPlaced ==
  ASSUME index \in Layouts, NEW s \in Streams,
         NEW from \in 0 .. Len(index[s]), NEW to \in Nat \ {0}
  PROVE  Down(s, from, to) \in Seq(Places)
<1>1. index[s] \in Seq(Ref)
  BY LayoutsAssumption
<1>2. \A k \in 1 .. from - to + 1 : <<s, from - k + 1>> \in Places
  BY <1>1 DEF Places, Visit
<1>3. CASE from - to + 1 \in Nat
  BY <1>2, <1>3 DEF Down
<1>4. CASE ~(from - to + 1 \in Nat)
  BY <1>1, <1>4 DEF Down
<1> QED
  BY <1>3, <1>4

(* What a lookup plans to visit are blocks that exist.                    *)
LEMMA PlanIsPlaced ==
  ASSUME index \in Layouts, NEW s \in Streams, NEW t, NEW op \in Lookups,
         NEW plan \in Plans(op, s, t)
  PROVE  plan \in Seq(Places)
<1>1. index[s] \in Seq(Ref) /\ Len(Begins(s)) = Len(index[s]) /\ Len(Ends(s)) = Len(index[s])
  BY LayoutsAssumption DEF Begins, Ends
<1>2. CASE op = "valueAt"
  BY <1>1, <1>2, DownIsPlaced DEF Plans, UpperBounds, AtLeast
<1>3. CASE op = "nextChange"
  <2>1. PICK u \in UpperBounds(Ends(s), t) : plan = Up(s, u + 1, Len(index[s]))
    BY <1>3 DEF Plans
  <2>2. u + 1 \in Nat \ {0} /\ Len(index[s]) \in 0 .. Len(index[s])
    BY <1>1, <2>1 DEF UpperBounds
  <2> QED
    BY <2>1, <2>2, UpIsPlaced
<1>4. CASE op = "prevChange"
  BY <1>1, <1>4, DownIsPlaced DEF Plans, LowerBounds
<1> QED
  BY <1>2, <1>3, <1>4 DEF Lookups

(* So are the blocks of a window.                                         *)
LEMMA WindowIsPlaced ==
  ASSUME index \in Layouts, NEW s \in Streams, NEW range, NEW m \in BlocksIn(s, range)
  PROVE  Up(s, m[1], m[2]) \in Seq(Places)
<1>1. index[s] \in Seq(Ref) /\ Len(Begins(s)) = Len(index[s]) /\ Len(Ends(s)) = Len(index[s])
  BY LayoutsAssumption DEF Begins, Ends
<1>2. m[1] \in Nat \ {0} /\ m[2] \in 0 .. Len(index[s])
  BY <1>1 DEF BlocksIn, UpperBounds, LowerBounds, AtLeast
<1> QED
  BY <1>2, UpIsPlaced

----------------------------------------------------------------------------
(* An instance changes its own state only: a second instance never sees a   *)
(* step of the first, whichever steps interleave.                           *)
Kept(i) ==
  /\ index' = index
  /\ lru' = [lru EXCEPT ![i] = lru'[i]]
  /\ call' = [call EXCEPT ![i] = call'[i]]
  /\ position' = [position EXCEPT ![i] = position'[i]]
  /\ view' = [view EXCEPT ![i] = view'[i]]
  /\ lru'[i] \in Seq(Entry)
  /\ call'[i] \in Call
  /\ Right(i)'

(* A step of one instance that keeps what is said of it keeps the         *)
(* invariant.                                                             *)
LEMMA KeptIsEnough ==
  ASSUME Inv, NEW i \in Instances, Kept(i)
  PROVE  Inv'
<1>1. Shapes'
  BY DEF Inv, Shapes, Kept
<1>2. ASSUME NEW j \in Instances
      PROVE  Right(j)'
  <2>1. CASE j = i
    BY <2>1 DEF Kept
  <2>2. CASE j # i
    <3>1. /\ index' = index /\ lru'[j] = lru[j] /\ call'[j] = call[j]
          /\ position'[j] = position[j] /\ view'[j] = view[j]
      BY <2>2 DEF Inv, Shapes, Kept
    <3>2. Right(j)
      BY DEF Inv
    <3>3. Places' = Places
      BY <3>1 DEF Places
    <3>4. Planned(j)' /\ SeekRight(j)' /\ FrontRight(j)'
      BY <3>1, <3>2, <3>3
      DEF Right, Planned, SeekRight, FrontRight, Wanted, WantedKey
    <3>5. CacheRight(j)'
      BY <3>1, <3>2, <3>3 DEF Right, CacheRight, Holds, KeyAt, RefAt
    <3>6. ViewRight(j)'
      BY <3>1, <3>2 DEF Right, ViewRight
    <3> QED
      BY <3>4, <3>5, <3>6 DEF Right
  <2> QED
    BY <2>1, <2>2
<1> QED
  BY <1>1, <1>2 DEF Inv

(* The block wanted now is one that exists. *)
LEMMA WantedIsPlaced ==
  ASSUME Inv, NEW i \in Instances, call[i].stage \in GetStages
  PROVE  /\ call[i].todo[1] \in Places
         /\ Wanted(i) = RefAt(call[i].todo[1])
         /\ WantedKey(i) = KeyAt(call[i].todo[1])
<1>1. call[i].todo \in Seq(Places) /\ call[i].todo # <<>>
  BY DEF Inv, Right, Planned
<1>2. call[i].todo[1] \in Places
  BY <1>1
<1> QED
  BY <1>2 DEF Wanted, WantedKey, RefAt, KeyAt

(* The value valueAt() gives is a change of the block it looked into.       *)
LEMMA ResultWithin ==
  ASSUME NEW block \in Block, NEW op \in {"valueAt", "carry"}, NEW t,
         NEW r \in Results(op, block, t)
  PROVE  Within(r, block)
<1>1. block.first \in Nat /\ Len(block.times) \in Nat
  BY DEF Block
<1>2. CASE op = "valueAt"
  <2>1. PICK u \in UpperBounds(block.times, t) \ {0} : r = block.first + u - 1
    BY <1>2 DEF Results
  <2>2. u \in 1 .. Len(block.times)
    BY <1>1, <2>1 DEF UpperBounds
  <2> QED
    BY <1>1, <2>1, <2>2 DEF Within
<1>3. CASE op = "carry"
  <2>1. block.times # <<>> /\ r = block.first + Len(block.times) - 1
    BY <1>3 DEF Results
  <2>2. Len(block.times) > 0
    BY <2>1 DEF Block
  <2> QED
    BY <1>1, <2>1, <2>2 DEF Within
<1> QED
  BY <1>2, <1>3

----------------------------------------------------------------------------
(* A step outside get(), or into it: the cache stays, and no view is kept   *)
(* into a call that may evict.                                              *)
LEMMA CacheStays ==
  ASSUME Inv, NEW i \in Instances, index' = index, lru' = lru,
         NEW c \in Call, call' = [call EXCEPT ![i] = c],
         c.todo \in Seq(Places), c.stage = "look" => c.todo # <<>>,
         c.stage \notin {"read", "evict", "use"},
         position' = [position EXCEPT ![i] = position'[i]],
         NEW v \in {view[i], NoView}, view' = [view EXCEPT ![i] = v],
         c.stage \in {"look", "release"} => v = NoView
  PROVE  Kept(i)
<1>1. Shapes /\ Right(i)
  BY DEF Inv
<1>2. /\ lru'[i] = lru[i] /\ lru[i] \in Seq(Entry) /\ lru' = [lru EXCEPT ![i] = lru'[i]]
      /\ call'[i] = c /\ call' = [call EXCEPT ![i] = call'[i]]
      /\ view'[i] = v /\ view' = [view EXCEPT ![i] = view'[i]]
  BY <1>1 DEF Shapes
<1>3. Places' = Places
  BY DEF Places
<1>4. Planned(i)' /\ SeekRight(i)' /\ FrontRight(i)'
  BY <1>2, <1>3 DEF Planned, SeekRight, FrontRight, GetStages
<1>5. CacheRight(i)'
  BY <1>1, <1>2, <1>3 DEF Right, CacheRight, Holds, KeyAt, RefAt
<1>6. ViewRight(i)'
  BY <1>1, <1>2 DEF Right, ViewRight, GetStages
<1> QED
  BY <1>2, <1>4, <1>5, <1>6 DEF Kept, Right

(* An instance without a call has nothing to do.                          *)
LEMMA IdleCall ==
  Idle \in Call /\ Idle.todo = <<>> /\ Idle.stage = "idle"
<1>1. <<>> \in Seq(Visit) /\ <<0, 0>> \in Int \X Int
  OBVIOUS
<1> QED
  BY <1>1 DEF Idle, Call

(* Blocks that exist may be visited.                                      *)
LEMMA PlacesAreVisits ==
  ASSUME NEW todo \in Seq(Places)
  PROVE  todo \in Seq(Visit)
BY SeqMonotonic DEF Places

(* The start of a call keeps what is said of its instance.                *)
LEMMA CallsKeep ==
  ASSUME Inv, NEW i \in Instances, Calls(i)
  PROVE  Kept(i)
<1> USE DEF cacheVars
<1>0. Shapes /\ Right(i) /\ <<>> \in Seq(Places)
  BY DEF Inv
<1>00. /\ view = [view EXCEPT ![i] = view[i]] /\ position = [position EXCEPT ![i] = position[i]]
       /\ call = [call EXCEPT ![i] = call[i]] /\ call[i] \in Call
  BY <1>0 DEF Shapes
<1>1. ASSUME NEW op \in Lookups, NEW s \in Streams, NEW t \in Asked, Lookup(i, op, s, t)
      PROVE  Kept(i)
  <2>1. PICK plan \in Plans(op, s, t) :
          IF plan = <<>> THEN UNCHANGED call
          ELSE call' = [call EXCEPT ![i] = [Idle EXCEPT !.op = op, !.at = t, !.todo = plan,
                                                        !.stage = "look"]]
    BY <1>1 DEF Lookup, Running
  <2>2. plan \in Seq(Places) /\ plan \in Seq(Visit)
    BY <1>0, PlanIsPlaced, PlacesAreVisits DEF Shapes
  <2>3. /\ call[i] = Idle /\ index' = index /\ lru' = lru /\ position' = position
        /\ view' = [view EXCEPT ![i] = NoView]
    BY <1>1 DEF Lookup, Ready, EndOfView
  <2>4. CASE plan = <<>>
    BY <1>0, <1>00, <2>1, <2>3, <2>4, IdleCall, CacheStays
  <2>5. CASE plan # <<>>
    <3> DEFINE c == [Idle EXCEPT !.op = op, !.at = t, !.todo = plan, !.stage = "look"]
    <3>1. c \in Call /\ c.todo = plan /\ c.stage = "look"
      BY <2>2, IdleCall, AskedAssumption DEF Call
    <3>2. call' = [call EXCEPT ![i] = c]
      BY <2>1, <2>5
    <3> HIDE DEF c
    <3> QED
      BY <1>00, <2>2, <2>3, <2>5, <3>1, <3>2, CacheStays
  <2> QED
    BY <2>4, <2>5
<1>2. ASSUME NEW s \in Streams, NEW q \in Streams, NEW range \in Windows,
             Prefetch(i, s, q, range)
      PROVE  Kept(i)
  <2>1. PICK m \in BlocksIn(s, range), n \in BlocksIn(q, range) :
          LET todo == Up(s, m[1], m[2]) \o (IF q = s THEN <<>> ELSE Up(q, n[1], n[2]))
          IN IF todo = <<>> THEN UNCHANGED call
             ELSE call' = [call EXCEPT ![i] = [Idle EXCEPT !.op = "prefetch", !.todo = todo,
                                                           !.stage = "look"]]
    BY <1>2 DEF Prefetch, Running
  <2> DEFINE rest == IF q = s THEN <<>> ELSE Up(q, n[1], n[2])
             todo == Up(s, m[1], m[2]) \o rest
             c == [Idle EXCEPT !.op = "prefetch", !.todo = todo, !.stage = "look"]
  <2>2. Up(s, m[1], m[2]) \in Seq(Places) /\ rest \in Seq(Places)
    BY <1>0, WindowIsPlaced DEF Shapes
  <2>3. todo \in Seq(Places)
    <3> HIDE DEF rest
    <3> QED
      BY <2>2, ConcatProperties
  <2>4. todo \in Seq(Visit)
    BY <2>3, PlacesAreVisits
  <2>5. /\ call[i] = Idle /\ index' = index /\ lru' = lru /\ position' = position
        /\ view' = [view EXCEPT ![i] = NoView]
    BY <1>2 DEF Prefetch, Ready, EndOfView
  <2>6. IF todo = <<>> THEN UNCHANGED call ELSE call' = [call EXCEPT ![i] = c]
    BY <2>1
  <2> HIDE DEF todo
  <2>7. c \in Call /\ c.todo = todo /\ c.stage = "look"
    BY <2>4, IdleCall DEF Call
  <2> HIDE DEF c
  <2>8. CASE todo = <<>>
    BY <1>0, <1>00, <2>5, <2>6, <2>8, IdleCall, CacheStays
  <2>9. CASE todo # <<>>
    BY <1>00, <2>3, <2>5, <2>6, <2>7, <2>9, CacheStays
  <2> QED
    BY <2>8, <2>9
<1>3. ASSUME NEW keep \in Windows, Release(i, keep)
      PROVE  Kept(i)
  <2> DEFINE c == [Idle EXCEPT !.op = "release", !.keep = keep, !.stage = "release"]
  <2>1. c \in Call /\ c.todo = <<>> /\ c.stage = "release"
    BY IdleCall, AskedAssumption DEF Call
  <2>2. /\ index' = index /\ lru' = lru /\ position' = position
        /\ view' = [view EXCEPT ![i] = NoView] /\ call' = [call EXCEPT ![i] = c]
    BY <1>3 DEF Release, EndOfView, Running
  <2> HIDE DEF c
  <2> QED
    BY <1>0, <1>00, <2>1, <2>2, CacheStays
<1>4. ASSUME NEW j \in Instances, Duplicate(i, j)
      PROVE  Kept(i)
  BY <1>0, <1>00, <1>4, IdleCall, CacheStays DEF Duplicate, Ready
<1>5. ASSUME NEW s \in Streams, NEW range \in Ranges, OpenCursor(i, s, range)
      PROVE  Kept(i)
  BY <1>0, <1>00, <1>5, IdleCall, CacheStays DEF OpenCursor, Ready
<1>6. ASSUME CursorNext(i)
      PROVE  Kept(i)
  <2> DEFINE c == [Idle EXCEPT !.op = "next", !.stage = "scan"]
  <2>1. c \in Call /\ c.todo = <<>> /\ c.stage = "scan"
    BY IdleCall DEF Call
  <2>2. /\ index' = index /\ lru' = lru /\ position' = position /\ view' = view
        /\ call' = [call EXCEPT ![i] = c]
    BY <1>6 DEF CursorNext, Running
  <2> HIDE DEF c
  <2> QED
    BY <1>0, <1>00, <2>1, <2>2, CacheStays
<1> QED
  BY <1>1, <1>2, <1>3, <1>4, <1>5, <1>6 DEF Calls

----------------------------------------------------------------------------
(* The steps of get(): an entry enters the list with the content that its   *)
(* key stands for, and the front entry is never the one that leaves.        *)
LEMMA GetKeeps ==
  ASSUME Inv, NEW i \in Instances,
         Hit(i) \/ Miss(i) \/ Insert(i) \/ Evict(i) \/ EvictEnds(i)
  PROVE  Kept(i)
<1> USE DEF cacheVars
<1> DEFINE v == call[i].todo[1]
<1>1. /\ Shapes /\ Planned(i) /\ CacheRight(i) /\ SeekRight(i) /\ FrontRight(i) /\ ViewRight(i)
      /\ lru[i] \in Seq(Entry) /\ call[i] \in Call /\ index \in Layouts
  BY DEF Inv, Right, Shapes
<1>2. call[i].stage \in GetStages
  BY DEF Hit, Miss, Insert, Evict, EvictEnds, GetStages
<1>3. v \in Places /\ Wanted(i) = RefAt(v) /\ WantedKey(i) = KeyAt(v)
  BY <1>2, WantedIsPlaced
<1>4. /\ index' = index /\ view' = view /\ view[i] = NoView
      /\ Places' = Places
  BY <1>1, <1>2 DEF ViewRight, Hit, Miss, Insert, Evict, EvictEnds, Places
<1>5. PICK stage \in {"read", "evict", "use"} : call' = [call EXCEPT ![i].stage = stage]
  <2>1. \/ call' = [call EXCEPT ![i].stage = "read"]
        \/ call' = [call EXCEPT ![i].stage = "evict"]
        \/ call' = [call EXCEPT ![i].stage = "use"]
        \/ call' = call /\ call[i].stage = "evict"
    BY DEF Hit, Miss, Insert, Evict, EvictEnds, Stage
  <2>2. call = [call EXCEPT ![i].stage = call[i].stage]
    BY <1>1 DEF Shapes, Call
  <2> QED
    BY <2>1, <2>2
<1>6. /\ call'[i] \in Call /\ call' = [call EXCEPT ![i] = call'[i]]
      /\ call'[i].todo = call[i].todo /\ call'[i].stage = stage
  BY <1>1, <1>5 DEF Shapes, Call
<1>7. Planned(i)' /\ ViewRight(i)' /\ view' = [view EXCEPT ![i] = view'[i]]
  BY <1>1, <1>2, <1>4, <1>6 DEF Planned, ViewRight, Shapes
<1>8. Wanted(i)' = Wanted(i) /\ WantedKey(i)' = WantedKey(i)
  BY <1>4, <1>6 DEF Wanted, WantedKey
<1>9. ASSUME NEW list \in Seq(Entry), lru'[i] = list, \A j \in DOMAIN list : Holds(list[j])
      PROVE  CacheRight(i)'
  BY <1>4, <1>9 DEF CacheRight, Holds, KeyAt, RefAt
<1>10. CASE Hit(i)
  <2>1. PICK k \in Cached(i) :
          lru' = [lru EXCEPT ![i] = <<lru[i][k]>> \o RemoveAt(lru[i], k)]
    BY <1>10 DEF Hit
  <2>2. k \in DOMAIN lru[i] /\ lru[i][k].key = KeyAt(v) /\ lru[i][k] \in Entry
    BY <1>1, <1>3, <2>1 DEF Cached
  <2>3. PICK w \in Places : lru[i][k].key = KeyAt(w) /\ lru[i][k].block = Content(RefAt(w))
    BY <1>1, <2>2 DEF CacheRight, Holds
  <2>4. w = v
    BY <1>1, <1>3, <2>2, <2>3, KeyNamesBlock
  <2> DEFINE rest == RemoveAt(lru[i], k)
             new == <<lru[i][k]>> \o rest
  <2>5. rest \in Seq(Entry) /\ \A j \in DOMAIN rest : \E m \in DOMAIN lru[i] : rest[j] = lru[i][m]
    BY <1>1, <2>2, RemovedElement
  <2>6. /\ new \in Seq(Entry) /\ new # <<>> /\ new[1] = lru[i][k]
        /\ \A j \in DOMAIN new : new[j] = lru[i][k] \/ \E m \in DOMAIN rest : new[j] = rest[m]
    <3> HIDE DEF rest
    <3> QED
      BY <2>2, <2>5, PushedFront
  <2>7. lru'[i] = new /\ lru' = [lru EXCEPT ![i] = lru'[i]]
    BY <1>1, <2>1 DEF Shapes
  <2>8. call' = [call EXCEPT ![i].stage = "use"] /\ position' = position
    BY <1>10 DEF Hit, Stage
  <2>9. call'[i].stage = "use"
    BY <1>1, <2>8 DEF Shapes, Call
  <2> HIDE DEF new, rest
  <2>10. CacheRight(i)'
    <3>1. PICK list \in Seq(Entry) : list = new
      BY <2>6
    <3>2. ASSUME NEW j \in DOMAIN list
          PROVE  Holds(list[j])
      <4>1. \E m \in DOMAIN lru[i] : list[j] = lru[i][m]
        BY <2>2, <2>5, <2>6, <3>1
      <4> QED
        BY <1>1, <4>1 DEF CacheRight
    <3> QED
      BY <1>9, <2>7, <3>1, <3>2
  <2>11. SeekRight(i)'
    BY <2>9 DEF SeekRight
  <2>12. FrontRight(i)'
    BY <1>3, <1>8, <2>2, <2>3, <2>4, <2>6, <2>7 DEF FrontRight
  <2>13. position' = [position EXCEPT ![i] = position'[i]]
    BY <1>1, <2>8 DEF Shapes
  <2> QED
    BY <1>4, <1>6, <1>7, <2>6, <2>7, <2>10, <2>11, <2>12, <2>13 DEF Kept, Right
<1>11. CASE Miss(i)
  <2>1. /\ position' = [position EXCEPT ![i] = Wanted(i).offset] /\ lru' = lru
        /\ call' = [call EXCEPT ![i].stage = "read"]
    BY <1>11 DEF Miss, Handle, Stage
  <2>2. call'[i].stage = "read" /\ position'[i] = Wanted(i).offset
    BY <1>1, <2>1 DEF Shapes, Call
  <2>3. position' = [position EXCEPT ![i] = position'[i]] /\ lru' = [lru EXCEPT ![i] = lru'[i]]
    BY <1>1, <2>1 DEF Shapes
  <2>4. SeekRight(i)' /\ FrontRight(i)'
    BY <1>8, <2>2 DEF SeekRight, FrontRight
  <2>5. CacheRight(i)'
    BY <1>1, <1>4, <2>1 DEF CacheRight, Holds, KeyAt, RefAt
  <2> QED
    BY <1>1, <1>4, <1>6, <1>7, <2>1, <2>3, <2>4, <2>5 DEF Kept, Right
<1>12. CASE Insert(i)
  <2>1. PICK block \in Decoded(i) :
          lru' = [lru EXCEPT ![i] =
            <<[key |-> WantedKey(i), begin |-> Wanted(i).begin, end |-> Wanted(i).end,
               block |-> block]>> \o lru[i]]
    BY <1>12 DEF Insert
  <2>2. block = Content(RefAt(v))
    <3>1. position[i] = Wanted(i).offset
      BY <1>1, <1>12 DEF SeekRight, Insert
    <3>2. block \in DecodedAt(RefAt(v).offset, v[1], RefAt(v).cookie)
      BY <1>3, <2>1, <3>1 DEF Decoded, Handle
    <3> QED
      BY <1>1, <1>3, <3>2, DecodesWanted
  <2> DEFINE e == [key |-> WantedKey(i), begin |-> Wanted(i).begin, end |-> Wanted(i).end,
                   block |-> block]
             new == <<e>> \o lru[i]
  <2>3. e \in Entry
    BY <1>1, <1>3, <2>2, PlaceType DEF Entry, Ref
  <2>4. e.key = KeyAt(v) /\ e.block = Content(RefAt(v)) /\ Holds(e)
    BY <1>3, <2>2 DEF Holds
  <2>5. lru'[i] = new /\ lru' = [lru EXCEPT ![i] = lru'[i]]
    BY <1>1, <2>1 DEF Shapes
  <2> HIDE DEF e
  <2>6. /\ new \in Seq(Entry) /\ new # <<>> /\ new[1] = e
        /\ \A j \in DOMAIN new : new[j] = e \/ \E m \in DOMAIN lru[i] : new[j] = lru[i][m]
    BY <1>1, <2>3, PushedFront
  <2>7. call' = [call EXCEPT ![i].stage = "evict"] /\ position' = position
    BY <1>12 DEF Insert, Stage
  <2>8. call'[i].stage = "evict" /\ position' = [position EXCEPT ![i] = position'[i]]
    BY <1>1, <2>7 DEF Shapes, Call
  <2> HIDE DEF new
  <2>9. CacheRight(i)'
    <3>1. PICK list \in Seq(Entry) : list = new
      BY <2>6
    <3>2. \A j \in DOMAIN list : Holds(list[j])
      BY <1>1, <2>4, <2>6, <3>1 DEF CacheRight
    <3> QED
      BY <1>9, <2>5, <3>1, <3>2
  <2>10. SeekRight(i)' /\ FrontRight(i)'
    BY <1>3, <1>8, <2>4, <2>5, <2>6, <2>8 DEF SeekRight, FrontRight
  <2> QED
    BY <1>4, <1>6, <1>7, <2>5, <2>6, <2>8, <2>9, <2>10 DEF Kept, Right
<1>13. CASE Evict(i)
  <2>1. /\ lru' = [lru EXCEPT ![i] = Front(lru[i])] /\ call' = call /\ position' = position
        /\ Len(lru[i]) > 1 /\ call[i].stage = "evict"
    BY <1>13 DEF Evict, MustEvict
  <2>2. /\ Front(lru[i]) \in Seq(Entry) /\ Front(lru[i]) # <<>>
        /\ DOMAIN Front(lru[i]) \subseteq DOMAIN lru[i]
        /\ \A j \in DOMAIN Front(lru[i]) : Front(lru[i])[j] = lru[i][j]
        /\ Front(lru[i])[1] = lru[i][1]
    BY <1>1, <2>1, CutLast
  <2>3. /\ lru'[i] = Front(lru[i]) /\ lru' = [lru EXCEPT ![i] = lru'[i]]
        /\ position' = [position EXCEPT ![i] = position'[i]]
    BY <1>1, <2>1 DEF Shapes
  <2>4. CacheRight(i)'
    <3>1. PICK list \in Seq(Entry) : list = Front(lru[i])
      BY <2>2
    <3>2. \A j \in DOMAIN list : Holds(list[j])
      BY <1>1, <2>2, <3>1 DEF CacheRight
    <3> QED
      BY <1>9, <2>3, <3>1, <3>2
  <2>5. SeekRight(i)' /\ FrontRight(i)'
    BY <1>1, <1>8, <2>1, <2>2, <2>3 DEF SeekRight, FrontRight
  <2> QED
    BY <1>4, <1>6, <1>7, <2>2, <2>3, <2>4, <2>5 DEF Kept, Right
<1>14. CASE EvictEnds(i)
  <2>1. /\ lru' = lru /\ position' = position /\ call[i].stage = "evict"
        /\ call' = [call EXCEPT ![i].stage = "use"]
    BY <1>14 DEF EvictEnds, Stage
  <2>2. /\ lru' = [lru EXCEPT ![i] = lru'[i]] /\ call'[i].stage = "use"
        /\ position' = [position EXCEPT ![i] = position'[i]]
    BY <1>1, <2>1 DEF Shapes, Call
  <2>3. CacheRight(i)'
    BY <1>1, <1>4, <2>1 DEF CacheRight, Holds, KeyAt, RefAt
  <2>4. SeekRight(i)' /\ FrontRight(i)'
    BY <1>1, <1>8, <2>1, <2>2 DEF SeekRight, FrontRight
  <2> QED
    BY <1>1, <1>4, <1>6, <1>7, <2>1, <2>2, <2>3, <2>4 DEF Kept, Right
<1> QED
  BY <1>10, <1>11, <1>12, <1>13, <1>14

(* The rest of a call: what its caller does with the block, release(), and  *)
(* the steps of a cursor.                                                   *)
LEMMA RestKeeps ==
  ASSUME Inv, NEW i \in Instances,
         \/ ReadThrows(i) \/ UseAnswers(i) \/ UseMovesOn(i) \/ UseEnds(i)
         \/ ReleaseDrops(i) \/ ReleaseEnds(i)
         \/ CursorGives(i) \/ CursorSeeks(i) \/ CursorLoads(i) \/ CursorThrows(i)
  PROVE  Kept(i)
<1> USE DEF cacheVars
<1>1. /\ Shapes /\ Planned(i) /\ CacheRight(i) /\ SeekRight(i) /\ FrontRight(i) /\ ViewRight(i)
      /\ lru[i] \in Seq(Entry) /\ call[i] \in Call /\ index \in Layouts
      /\ <<>> \in Seq(Places)
  BY DEF Inv, Right, Shapes
<1>2. /\ view = [view EXCEPT ![i] = view[i]] /\ position = [position EXCEPT ![i] = position[i]]
      /\ call = [call EXCEPT ![i] = call[i]] /\ lru = [lru EXCEPT ![i] = lru[i]]
  BY <1>1 DEF Shapes
<1>3. CASE ReadThrows(i) \/ UseEnds(i) \/ ReleaseEnds(i)
  <2>1. /\ call' = [call EXCEPT ![i] = Idle] /\ index' = index /\ lru' = lru
        /\ position' = position /\ view' = view
    BY <1>3 DEF ReadThrows, UseEnds, ReleaseEnds, Return, Running
  <2> QED
    BY <1>1, <1>2, <2>1, IdleCall, CacheStays
<1>4. CASE UseMovesOn(i)
  <2> DEFINE c == [call[i] EXCEPT !.op = IF @ = "valueAt" THEN "carry" ELSE @,
                                  !.todo = NextVisit(@), !.stage = "look"]
  <2>1. /\ call' = [call EXCEPT ![i] = c] /\ index' = index /\ lru' = lru
        /\ position' = position /\ view' = view /\ call[i].stage = "use"
        /\ Len(call[i].todo) > 1
    BY <1>4 DEF UseMovesOn, Running
  <2>2. call[i].todo \in Seq(Places)
    BY <1>1 DEF Planned
  <2>3. Tail(call[i].todo) \in Seq(Places) /\ Tail(call[i].todo) # <<>>
    BY <2>1, <2>2, TailOfLonger
  <2>4. Tail(call[i].todo) \in Seq(Visit)
    BY <2>3, PlacesAreVisits
  <2>5. c \in Call /\ c.todo = Tail(call[i].todo) /\ c.stage = "look"
    BY <1>1, <2>4 DEF Call, NextVisit
  <2>6. view[i] = NoView
    BY <1>1, <2>1 DEF ViewRight, GetStages
  <2> HIDE DEF c
  <2> QED
    BY <1>2, <2>1, <2>3, <2>5, <2>6, CacheStays
<1>5. CASE CursorGives(i) \/ CursorSeeks(i) \/ CursorLoads(i) \/ CursorThrows(i)
  <2>1. /\ index' = index /\ lru' = lru /\ view' = view
        /\ position' = [position EXCEPT ![i] = position'[i]]
    BY <1>1, <1>2, <1>5
    DEF CursorGives, CursorSeeks, CursorLoads, CursorThrows, PastTheCache, Handle, Shapes
  <2>2. \/ call' = [call EXCEPT ![i] = Idle]
        \/ \E stage \in {"load", "scan"} : call' = [call EXCEPT ![i].stage = stage]
    BY <1>5
    DEF CursorGives, CursorSeeks, CursorLoads, CursorThrows, Return, Running, Stage
  <2>3. CASE call' = [call EXCEPT ![i] = Idle]
    BY <1>1, <1>2, <2>1, <2>3, IdleCall, CacheStays
  <2>4. ASSUME NEW stage \in {"load", "scan"}, call' = [call EXCEPT ![i].stage = stage]
        PROVE  Kept(i)
    <3> DEFINE c == [call[i] EXCEPT !.stage = stage]
    <3>1. /\ c \in Call /\ c.todo = call[i].todo /\ c.stage = stage
          /\ call' = [call EXCEPT ![i] = c]
      BY <1>1, <2>4 DEF Call
    <3>2. c.todo \in Seq(Places)
      BY <1>1, <3>1 DEF Planned
    <3> HIDE DEF c
    <3> QED
      BY <1>2, <2>1, <3>1, <3>2, CacheStays
  <2> QED
    BY <2>2, <2>3, <2>4
<1>6. CASE UseAnswers(i)
  <2>1. PICK r \in Results(call[i].op, FrontBlock(i), call[i].at) :
          view' = [view EXCEPT ![i] = IF Public(call[i].op) = "valueAt"
                                      THEN [key |-> lru[i][1].key, change |-> r] ELSE @]
    BY <1>6 DEF UseAnswers
  <2>2. /\ call' = [call EXCEPT ![i] = Idle] /\ index' = index /\ lru' = lru
        /\ position' = position /\ call[i].stage = "use"
    BY <1>6 DEF UseAnswers, Return, Running
  <2>3. CASE Public(call[i].op) # "valueAt"
    BY <1>1, <1>2, <2>1, <2>2, <2>3, IdleCall, CacheStays
  <2>4. CASE Public(call[i].op) = "valueAt"
    <3>1. call[i].op \in {"valueAt", "carry"}
      BY <2>4 DEF Public
    <3>2. lru[i] # <<>> /\ 1 \in DOMAIN lru[i] /\ lru[i][1] \in Entry
      BY <1>1, <2>2 DEF FrontRight
    <3>3. lru[i][1].block \in Block
      BY <3>2 DEF Entry
    <3>4. Within(r, lru[i][1].block)
      BY <2>1, <3>1, <3>3, ResultWithin DEF FrontBlock
    <3>5. /\ lru'[i] = lru[i] /\ call'[i] = Idle /\ view'[i].key = lru[i][1].key
          /\ view'[i].change = r /\ view' = [view EXCEPT ![i] = view'[i]]
          /\ call' = [call EXCEPT ![i] = call'[i]] /\ position' = [position EXCEPT ![i] = position'[i]]
          /\ lru' = [lru EXCEPT ![i] = lru'[i]]
      BY <1>1, <1>2, <2>1, <2>2, <2>4 DEF Shapes
    <3>6. ViewRight(i)'
      BY <3>2, <3>4, <3>5, IdleCall DEF ViewRight, Within, GetStages
    <3>7. Places' = Places
      BY <2>2 DEF Places
    <3>8. CacheRight(i)'
      BY <1>1, <2>2, <3>5, <3>7 DEF CacheRight, Holds, KeyAt, RefAt
    <3>9. Planned(i)' /\ SeekRight(i)' /\ FrontRight(i)'
      BY <1>1, <3>5, <3>7, IdleCall DEF Planned, SeekRight, FrontRight, GetStages
    <3> QED
      BY <1>1, <2>2, <3>5, <3>6, <3>8, <3>9, IdleCall DEF Kept, Right
  <2> QED
    BY <2>3, <2>4
<1>7. CASE ReleaseDrops(i)
  <2>1. PICK k \in Outside(i) : lru' = [lru EXCEPT ![i] = RemoveAt(lru[i], k)]
    BY <1>7 DEF ReleaseDrops
  <2>2. /\ call' = call /\ index' = index /\ position' = position /\ view' = view
        /\ call[i].stage = "release"
    BY <1>7 DEF ReleaseDrops
  <2>3. k \in DOMAIN lru[i]
    BY <2>1 DEF Outside
  <2>4. PICK list \in Seq(Entry) :
          /\ list = RemoveAt(lru[i], k)
          /\ \A j \in DOMAIN list : \E m \in DOMAIN lru[i] : list[j] = lru[i][m]
    BY <1>1, <2>3, RemovedElement
  <2>5. lru'[i] = list /\ lru' = [lru EXCEPT ![i] = lru'[i]]
    BY <1>1, <2>1, <2>4 DEF Shapes
  <2>6. \A j \in DOMAIN list : Holds(list[j])
    BY <1>1, <2>4 DEF CacheRight
  <2>7. Places' = Places
    BY <2>2 DEF Places
  <2>8. CacheRight(i)'
    BY <2>2, <2>5, <2>6, <2>7 DEF CacheRight, Holds, KeyAt, RefAt
  <2>9. Planned(i)' /\ SeekRight(i)' /\ FrontRight(i)' /\ ViewRight(i)'
    BY <1>1, <2>2, <2>7 DEF Planned, SeekRight, FrontRight, ViewRight, GetStages
  <2> QED
    BY <1>1, <1>2, <2>2, <2>4, <2>5, <2>8, <2>9 DEF Kept, Right
<1> QED
  BY <1>3, <1>4, <1>5, <1>6, <1>7

----------------------------------------------------------------------------
(* The inductive invariant holds.                                         *)
THEOREM InvCorrect == Spec => []Inv
<1>1. Init => Inv
  <2> SUFFICES ASSUME Init
               PROVE  Inv
    OBVIOUS
  <2>1. Shapes
    BY IdleCall DEF Init, Shapes
  <2>2. ASSUME NEW i \in Instances
        PROVE  Right(i)
    <3>1. lru[i] = <<>> /\ call[i] = Idle /\ view[i] = NoView
      BY DEF Init
    <3> QED
      BY <3>1, IdleCall
      DEF Right, Planned, CacheRight, SeekRight, FrontRight, ViewRight, GetStages
  <2> QED
    BY <2>1, <2>2 DEF Inv
<1>2. Inv /\ [Next]_vars => Inv'
  <2> SUFFICES ASSUME Inv, [Next]_vars
               PROVE  Inv'
    OBVIOUS
  <2>1. ASSUME NEW i \in Instances, Calls(i) \/ Work(i)
        PROVE  Inv'
    BY <2>1, CallsKeep, GetKeeps, RestKeeps, KeptIsEnough DEF Work
  <2>2. CASE UNCHANGED vars
    <3>1. /\ index' = index /\ lru' = lru /\ call' = call /\ position' = position
          /\ view' = view
      BY <2>2 DEF vars, cacheVars
    <3>2. Places' = Places
      BY <3>1 DEF Places
    <3>3. Shapes'
      BY <3>1 DEF Inv, Shapes
    <3>4. ASSUME NEW i \in Instances
          PROVE  Right(i)'
      <4>1. Right(i)
        BY DEF Inv
      <4>2. Planned(i)' /\ SeekRight(i)' /\ FrontRight(i)' /\ ViewRight(i)'
        BY <3>1, <3>2, <4>1
        DEF Right, Planned, SeekRight, FrontRight, ViewRight, Wanted, WantedKey
      <4>3. CacheRight(i)'
        BY <3>1, <3>2, <4>1 DEF Right, CacheRight, Holds, KeyAt, RefAt
      <4> QED
        BY <4>2, <4>3 DEF Right
    <3> QED
      BY <3>3, <3>4 DEF Inv
  <2> QED
    BY <2>1, <2>2 DEF Next
<1> QED
  BY <1>1, <1>2, PTL DEF Spec

(* The block get() hands to its caller is the one the index names, with its *)
(* own content, and is not evicted before its use.                          *)
THEOREM RightBlockCorrect == Spec => []RightBlock
<1>1. Inv => RightBlock
  BY DEF Inv, Right, FrontRight, RightBlock, FrontBlock
<1> QED
  BY <1>1, InvCorrect, PTL

(* A view stays valid until the next call of its instance that may evict.   *)
THEOREM ViewCorrect == Spec => []ViewResident
<1>1. Inv => ViewResident
  BY DEF Inv, Right, ViewRight, ViewResident, Within
<1> QED
  BY <1>1, InvCorrect, PTL

----------------------------------------------------------------------------
(* The accounting of the cache.  bytes_ is kept by adding and subtracting;  *)
(* that it stays the sum of what is in the list rests on each step adding   *)
(* or removing exactly one entry.                                           *)
Sizes(list) == [k \in DOMAIN list |-> Bytes(list[k].block)]

(* The sizes of the entries of a cache and their sum are natural numbers. *)
LEMMA SizesType ==
  ASSUME NEW list \in Seq(Entry)
  PROVE  /\ Sizes(list) \in [1 .. Len(list) -> Nat]
         /\ \A k \in 1 .. Len(list) : Sizes(list)[k] = Bytes(list[k].block)
         /\ SumBytes(list) = SumFunction(Sizes(list))
         /\ SumBytes(list) \in Nat
<1>1. DOMAIN list = 1 .. Len(list) /\ IsFiniteSet(1 .. Len(list))
  BY FS_Interval
<1>2. ASSUME NEW k \in 1 .. Len(list)
      PROVE  Bytes(list[k].block) \in Nat
  <2>0. list[k] \in Entry
    OBVIOUS
  <2>1. list[k].block \in Block
    BY <2>0 DEF Entry
  <2>2. Len(list[k].block.times) \in Nat
    BY <2>1 DEF Block
  <2> QED
    BY <2>2, BytesAssumption DEF Bytes
<1>3. Sizes(list) \in [1 .. Len(list) -> Nat]
  BY <1>1, <1>2 DEF Sizes
<1>4. SumBytes(list) = SumFunction(Sizes(list))
  BY DEF SumBytes, Sizes
<1>5. SumFunction(Sizes(list)) \in Nat
  BY <1>1, <1>3, SumType
<1> QED
  BY <1>1, <1>3, <1>4, <1>5 DEF Sizes

(* Without one entry, the sum is less by its size.                        *)
LEMMA OneEntryLess ==
  ASSUME NEW s \in Seq(Entry), NEW r \in Seq(Entry), NEW k \in DOMAIN s, Without(r, s, k)
  PROVE  /\ SumBytes(s) = Bytes(s[k].block) + SumBytes(r)
         /\ Bytes(s[k].block) \in Nat /\ SumBytes(r) \in Nat
<1>1. k \in 1 .. Len(s) /\ Len(s) \in Nat
  OBVIOUS
<1>2. /\ Sizes(s) \in [1 .. Len(s) -> Nat]
      /\ \A j \in 1 .. Len(s) : Sizes(s)[j] = Bytes(s[j].block)
      /\ SumBytes(s) = SumFunction(Sizes(s))
  BY SizesType
<1>3. /\ Sizes(r) \in [1 .. Len(s) - 1 -> Nat]
      /\ \A j \in 1 .. Len(s) - 1 : Sizes(r)[j] = Bytes(r[j].block)
      /\ SumBytes(r) = SumFunction(Sizes(r)) /\ SumBytes(r) \in Nat
  BY SizesType DEF Without
<1>4. ASSUME NEW j \in 1 .. Len(s) - 1
      PROVE  Sizes(r)[j] = IF j < k THEN Sizes(s)[j] ELSE Sizes(s)[j + 1]
  <2>1. j \in 1 .. Len(s) /\ j + 1 \in 1 .. Len(s) /\ (j < k <=> j <= k - 1)
    BY <1>1
  <2>2. r[j] = IF j <= k - 1 THEN s[j] ELSE s[j + 1]
    BY DEF Without
  <2> QED
    BY <1>2, <1>3, <2>1, <2>2
<1>5. SumFunction(Sizes(s)) = Sizes(s)[k] + SumFunction(Sizes(r))
  BY <1>1, <1>2, <1>3, <1>4, SumClosedUp
<1> QED
  BY <1>1, <1>2, <1>3, <1>5

(* An empty cache holds no bytes.                                         *)
LEMMA ListOfNone == SumBytes(<<>>) = 0
<1>1. <<>> \in Seq(Entry) /\ Len(<<>>) = 0 /\ IsFiniteSet(1 .. 0)
  BY FS_Interval
<1>2. Sizes(<<>>) \in [1 .. 0 -> Nat] /\ SumBytes(<<>>) = SumFunction(Sizes(<<>>))
  BY <1>1, SizesType
<1>3. \A k \in 1 .. 0 : Sizes(<<>>)[k] = 0
  OBVIOUS
<1> QED
  BY <1>1, <1>2, <1>3, SumOfNothing

(* What every instance's counter and cursor satisfy.  The range of blocks   *)
(* of a cursor lies within the index, and a cursor that loads a block has   *)
(* one left to load, with the handle at its offset.                         *)
Accounts(i) ==
  /\ bytes[i] = SumBytes(lru[i])
  /\ call[i].stage # "evict" => bytes[i] <= CacheBytes \/ Len(lru[i]) <= 1

CursorPlaced(i) ==
  cursor[i] # Closed =>
    /\ cursor[i] \in Cursor
    /\ cursor[i].block # 0
    /\ cursor[i].last <= Len(index[cursor[i].stream])

CursorLoading(i) ==
  call[i].stage = "load" =>
    /\ BlockToLoad(cursor[i]) <= cursor[i].last
    /\ position[i] = index[cursor[i].stream][BlockToLoad(cursor[i])].offset

CursorRight(i) ==
  /\ CursorPlaced(i)
  /\ call[i].stage \in {"scan", "load"} => cursor[i] # Closed
  /\ CursorLoading(i)

Counters ==
  /\ alive \subseteq Instances
  /\ bytes \in [Instances -> Nat]
  /\ position \in [Instances -> Nat]
  /\ cursor = [i \in Instances |-> cursor[i]]

Accounted == Counters /\ \A i \in Instances : Accounts(i) /\ CursorRight(i)

(* An open cursor is not mistaken for a closed one.                       *)
LEMMA CursorIsOpen == Closed \notin Cursor
BY DEF Closed, Cursor

(* A step of one instance leaves the counters, handles and cursors of the   *)
(* others alone.                                                            *)
Alone(i) ==
  /\ Counters' /\ index' = index
  /\ \A j \in Instances \ {i} :
       /\ lru'[j] = lru[j] /\ bytes'[j] = bytes[j] /\ call'[j] = call[j]
       /\ position'[j] = position[j] /\ cursor'[j] = cursor[j]

(* So only the instance that steps has to be looked at.                   *)
LEMMA OthersStay ==
  ASSUME Shapes, Accounted, NEW i \in Instances, Alone(i), Accounts(i)', CursorRight(i)'
  PROVE  Accounted'
<1>1. ASSUME NEW j \in Instances
      PROVE  Accounts(j)' /\ CursorRight(j)'
  <2>1. CASE j = i
    BY <2>1
  <2>2. CASE j # i
    <3>1. /\ index' = index /\ lru'[j] = lru[j] /\ bytes'[j] = bytes[j] /\ call'[j] = call[j]
          /\ position'[j] = position[j] /\ cursor'[j] = cursor[j]
      BY <2>2 DEF Alone
    <3>2. Accounts(j) /\ CursorPlaced(j) /\ CursorLoading(j)
          /\ (call[j].stage \in {"scan", "load"} => cursor[j] # Closed)
      BY DEF Accounted, CursorRight
    <3>3. Accounts(j)'
      BY <3>1, <3>2 DEF Accounts
    <3>4. CursorPlaced(j)'
      BY <3>1, <3>2 DEF CursorPlaced
    <3>5. CursorLoading(j)'
      BY <3>1, <3>2 DEF CursorLoading
    <3> QED
      BY <3>1, <3>2, <3>3, <3>4, <3>5 DEF CursorRight
  <2> QED
    BY <2>1, <2>2
<1>2. Counters'
  BY DEF Alone
<1> QED
  BY <1>1, <1>2 DEF Accounted

(* Steps that leave the cache and the cursor as they are, and do not start  *)
(* or end an eviction, a scan or a load.                                    *)
LEMMA NothingCounted ==
  ASSUME Inv, Accounted, NEW i \in Instances, index' = index, lru' = lru, bytes' = bytes,
         cursor' = cursor, alive' \subseteq Instances, position' \in [Instances -> Nat],
         \A j \in Instances \ {i} : position'[j] = position[j],
         NEW c, call' = [call EXCEPT ![i] = c],
         c.stage \notin {"evict", "load"}, call[i].stage # "evict",
         c.stage = "scan" => cursor[i] # Closed
  PROVE  Accounted'
<1>1. /\ Shapes /\ Counters /\ Accounts(i) /\ CursorPlaced(i)
      /\ \A j \in Instances : j \in DOMAIN call
  BY DEF Inv, Accounted, CursorRight, Shapes
<1>2. call'[i] = c /\ \A j \in Instances \ {i} : call'[j] = call[j]
  BY <1>1
<1>3. Accounts(i)'
  BY <1>1 DEF Accounts
<1>4. CursorPlaced(i)'
  BY <1>1 DEF CursorPlaced
<1>5. CursorLoading(i)'
  BY <1>2 DEF CursorLoading
<1>6. CursorRight(i)'
  BY <1>2, <1>4, <1>5 DEF CursorRight
<1>7. Counters'
  BY <1>1 DEF Counters
<1>8. Alone(i)
  BY <1>2, <1>7 DEF Alone
<1> QED
  BY <1>1, <1>3, <1>6, <1>8, OthersStay

(* The start of a call leaves the bytes as they are.                      *)
LEMMA CallsCount ==
  ASSUME Inv, Accounted, NEW i \in Instances, Calls(i),
         \A s \in Streams : \A range \in Ranges : ~OpenCursor(i, s, range)
  PROVE  Accounted'
<1> USE DEF cacheVars
<1>1. Shapes /\ Counters /\ call = [call EXCEPT ![i] = call[i]]
  BY DEF Inv, Accounted, Shapes
<1>2. /\ call[i] = Idle /\ Idle.stage = "idle"
      /\ index' = index /\ lru' = lru /\ bytes' = bytes /\ cursor' = cursor
      /\ position' = position /\ alive' \subseteq Instances
  BY <1>1 DEF Counters, Calls, Lookup, Prefetch, Release, Duplicate, CursorNext, Ready, Idle
<1> DEFINE Started == \E c : /\ call' = [call EXCEPT ![i] = c]
                             /\ c.stage \in {"idle", "look", "release", "scan"}
                             /\ c.stage = "scan" => cursor[i] # Closed
<1>3. Started
  <2>1. ASSUME NEW op, NEW s, NEW t, Lookup(i, op, s, t)
        PROVE  Started
    <3>1. PICK plan : IF plan = <<>> THEN UNCHANGED call
                      ELSE call' = [call EXCEPT ![i] = [Idle EXCEPT !.op = op, !.at = t, !.todo = plan,
                                                                    !.stage = "look"]]
      BY <2>1 DEF Lookup, Running
    <3> DEFINE c == IF plan = <<>> THEN Idle
                    ELSE [Idle EXCEPT !.op = op, !.at = t, !.todo = plan, !.stage = "look"]
    <3>2. call' = [call EXCEPT ![i] = c]
      BY <1>1, <1>2, <3>1
    <3>3. c.stage \in {"idle", "look"}
      BY DEF Idle
    <3> QED
      BY <3>2, <3>3
  <2>2. ASSUME NEW s, NEW q, NEW range, Prefetch(i, s, q, range)
        PROVE  Started
    <3>1. PICK todo : IF todo = <<>> THEN UNCHANGED call
                      ELSE call' = [call EXCEPT ![i] = [Idle EXCEPT !.op = "prefetch", !.todo = todo,
                                                                    !.stage = "look"]]
      BY <2>2 DEF Prefetch, Running
    <3> DEFINE c == IF todo = <<>> THEN Idle
                    ELSE [Idle EXCEPT !.op = "prefetch", !.todo = todo, !.stage = "look"]
    <3>2. call' = [call EXCEPT ![i] = c]
      BY <1>1, <1>2, <3>1
    <3>3. c.stage \in {"idle", "look"}
      BY DEF Idle
    <3> QED
      BY <3>2, <3>3
  <2>3. ASSUME NEW keep, Release(i, keep)
        PROVE  Started
    <3> DEFINE c == [Idle EXCEPT !.op = "release", !.keep = keep, !.stage = "release"]
    <3>1. c.stage = "release"
      BY DEF Idle
    <3>2. call' = [call EXCEPT ![i] = c]
      BY <2>3 DEF Release, Running
    <3> QED
      BY <3>1, <3>2
  <2>4. ASSUME NEW j, Duplicate(i, j)
        PROVE  Started
    BY <1>1, <1>2, <2>4 DEF Duplicate
  <2>5. ASSUME CursorNext(i)
        PROVE  Started
    <3> DEFINE c == [Idle EXCEPT !.op = "next", !.stage = "scan"]
    <3>1. c.stage = "scan"
      BY DEF Idle
    <3>2. call' = [call EXCEPT ![i] = c] /\ cursor[i] # Closed
      BY <2>5 DEF CursorNext, Running
    <3> QED
      BY <3>1, <3>2
  <2> QED
    BY <2>1, <2>2, <2>3, <2>4, <2>5 DEF Calls
<1> QED
  BY <1>1, <1>2, <1>3, NothingCounted DEF Counters

(* So do reading a block and using it.                                    *)
LEMMA UsesCount ==
  ASSUME Inv, Accounted, NEW i \in Instances,
         \/ Miss(i) \/ ReadThrows(i) \/ UseAnswers(i) \/ UseMovesOn(i) \/ UseEnds(i)
         \/ ReleaseEnds(i)
  PROVE  Accounted'
<1> USE DEF cacheVars
<1>1. Shapes /\ Counters
  BY DEF Inv, Accounted
<1>2. /\ index' = index /\ lru' = lru /\ bytes' = bytes /\ cursor' = cursor
      /\ alive' \subseteq Instances /\ call[i].stage # "evict"
  BY <1>1 DEF Counters, Miss, ReadThrows, UseAnswers, UseMovesOn, UseEnds, ReleaseEnds
<1>3. CASE Miss(i)
  <2>1. call' = [call EXCEPT ![i] = [call[i] EXCEPT !.stage = "read"]]
    BY <1>3 DEF Miss, Stage
  <2>2. [call[i] EXCEPT !.stage = "read"].stage = "read"
    BY <1>1 DEF Shapes, Call
  <2>3. Wanted(i).offset \in Nat
    <3>1. call[i].stage \in GetStages
      BY <1>3 DEF Miss, GetStages
    <3>2. call[i].todo[1] \in Places /\ Wanted(i) = RefAt(call[i].todo[1])
      BY <3>1, WantedIsPlaced
    <3>3. RefAt(call[i].todo[1]) \in Ref
      BY <1>1, <3>2, PlaceType DEF Shapes
    <3> QED
      BY <3>2, <3>3 DEF Ref
  <2>4. /\ position' \in [Instances -> Nat]
        /\ \A j \in Instances \ {i} : position'[j] = position[j]
    BY <1>1, <1>3, <2>3 DEF Miss, Handle, Counters
  <2> QED
    BY <1>2, <2>1, <2>2, <2>4, NothingCounted
<1>4. CASE UseMovesOn(i)
  <2> DEFINE c == [call[i] EXCEPT !.op = IF @ = "valueAt" THEN "carry" ELSE @,
                                  !.todo = NextVisit(@), !.stage = "look"]
  <2>1. call' = [call EXCEPT ![i] = c] /\ position' = position
    BY <1>4 DEF UseMovesOn, Running
  <2>2. c.stage = "look"
    BY <1>1 DEF Shapes, Call
  <2> HIDE DEF c
  <2> QED
    BY <1>1, <1>2, <2>1, <2>2, NothingCounted DEF Counters
<1>5. CASE ReadThrows(i) \/ UseAnswers(i) \/ UseEnds(i) \/ ReleaseEnds(i)
  <2>1. call' = [call EXCEPT ![i] = Idle] /\ position' = position
    BY <1>5 DEF ReadThrows, UseAnswers, UseEnds, ReleaseEnds, Return, Running
  <2> QED
    BY <1>1, <1>2, <2>1, IdleCall, NothingCounted DEF Counters
<1> QED
  BY <1>3, <1>4, <1>5

(* A step of the cache: one entry moves to the front, comes in or leaves,   *)
(* and the counter follows.                                                 *)
LEMMA CacheCounted ==
  ASSUME Inv, Accounted, NEW i \in Instances, index' = index, position' = position,
         cursor' = cursor, alive' = alive,
         NEW list, lru' = [lru EXCEPT ![i] = list],
         NEW n \in Nat, bytes' = [bytes EXCEPT ![i] = n], n = SumBytes(list),
         NEW stage \in {"evict", "use", "release"},
         call' = [call EXCEPT ![i] = [call[i] EXCEPT !.stage = stage]],
         stage # "evict" => n <= CacheBytes \/ Len(list) <= 1
  PROVE  Accounted'
<1>1. /\ Shapes /\ Counters /\ CursorPlaced(i)
      /\ \A j \in Instances : j \in DOMAIN call /\ j \in DOMAIN lru /\ j \in DOMAIN bytes
  BY DEF Inv, Accounted, CursorRight, Shapes, Counters
<1>2. /\ call'[i].stage = stage /\ lru'[i] = list /\ bytes'[i] = n
      /\ \A j \in Instances \ {i} :
           call'[j] = call[j] /\ lru'[j] = lru[j] /\ bytes'[j] = bytes[j]
  BY <1>1 DEF Shapes, Call
<1>3. Accounts(i)'
  BY <1>2 DEF Accounts
<1>4. CursorPlaced(i)'
  BY <1>1 DEF CursorPlaced
<1>5. CursorLoading(i)'
  BY <1>2 DEF CursorLoading
<1>6. CursorRight(i)'
  BY <1>2, <1>4, <1>5 DEF CursorRight
<1>7. Counters'
  BY <1>1 DEF Counters
<1>8. Alone(i)
  BY <1>2, <1>7 DEF Alone
<1> QED
  BY <1>1, <1>3, <1>6, <1>8, OthersStay

(* Insertion, eviction and release count the bytes of what they put in or *)
(* drop.                                                                  *)
LEMMA CacheCounts ==
  ASSUME Inv, Accounted, NEW i \in Instances,
         Hit(i) \/ Insert(i) \/ Evict(i) \/ EvictEnds(i) \/ ReleaseDrops(i)
  PROVE  Accounted'
<1> USE DEF cacheVars
<1>1. /\ Shapes /\ Counters /\ Accounts(i) /\ lru[i] \in Seq(Entry) /\ bytes[i] \in Nat
      /\ Len(lru[i]) \in Nat
  <2>1. Shapes /\ Counters /\ Accounts(i)
    BY DEF Inv, Accounted
  <2>2. lru[i] \in Seq(Entry)
    BY <2>1 DEF Shapes
  <2> QED
    BY <2>1, <2>2 DEF Counters
<1>2. index' = index /\ position' = position /\ cursor' = cursor /\ alive' = alive
  BY DEF Hit, Insert, Evict, EvictEnds, ReleaseDrops
<1>3. CASE Hit(i)
  <2>1. PICK k \in Cached(i) :
          lru' = [lru EXCEPT ![i] = <<lru[i][k]>> \o RemoveAt(lru[i], k)]
    BY <1>3 DEF Hit
  <2>2. k \in DOMAIN lru[i] /\ lru[i][k] \in Entry
    BY <1>1, <2>1 DEF Cached
  <2>3. PICK rest \in Seq(Entry) :
          rest = RemoveAt(lru[i], k) /\ Without(rest, lru[i], k)
    BY <1>1, <2>2, RemovedElement
  <2>4. PICK new \in Seq(Entry) :
          /\ new = <<lru[i][k]>> \o rest /\ new # <<>> /\ new[1] = lru[i][k]
          /\ Without(rest, new, 1)
    BY <2>2, <2>3, PushedFront
  <2>5. SumBytes(lru[i]) = Bytes(lru[i][k].block) + SumBytes(rest)
    BY <1>1, <2>2, <2>3, OneEntryLess
  <2>6. SumBytes(new) = Bytes(lru[i][k].block) + SumBytes(rest)
    <3>1. 1 \in DOMAIN new
      BY <2>4
    <3> QED
      BY <2>4, <3>1, OneEntryLess
  <2>7. bytes[i] = SumBytes(new) /\ bytes' = [bytes EXCEPT ![i] = bytes[i]]
    BY <1>1, <1>3, <2>5, <2>6 DEF Accounts, Hit, Counters
  <2>8. bytes[i] <= CacheBytes \/ Len(new) <= 1
    BY <1>1, <1>3, <2>3, <2>4 DEF Accounts, Hit, Without
  <2>9. call' = [call EXCEPT ![i] = [call[i] EXCEPT !.stage = "use"]]
    BY <1>3 DEF Hit, Stage
  <2>10. lru' = [lru EXCEPT ![i] = new]
    BY <2>1, <2>3, <2>4
  <2> QED
    BY <1>1, <1>2, <2>7, <2>8, <2>9, <2>10, CacheCounted
<1>4. CASE Insert(i)
  <2>1. PICK block \in Decoded(i) :
          /\ lru' = [lru EXCEPT ![i] =
               <<[key |-> WantedKey(i), begin |-> Wanted(i).begin, end |-> Wanted(i).end,
                  block |-> block]>> \o lru[i]]
          /\ bytes' = [bytes EXCEPT ![i] = BytesWith(i, block)]
    BY <1>4 DEF Insert
  <2> DEFINE v == call[i].todo[1]
             e == [key |-> WantedKey(i), begin |-> Wanted(i).begin, end |-> Wanted(i).end,
                   block |-> block]
  <2>2. e \in Entry /\ e.block = block
    <3>1. call[i].stage \in GetStages /\ position[i] = Wanted(i).offset
      BY <1>4 DEF Inv, Right, SeekRight, Insert, GetStages
    <3>2. v \in Places /\ Wanted(i) = RefAt(v) /\ WantedKey(i) = KeyAt(v)
      BY <3>1, WantedIsPlaced
    <3>3. block \in DecodedAt(RefAt(v).offset, v[1], RefAt(v).cookie) /\ index \in Layouts
      BY <1>1, <2>1, <3>1, <3>2 DEF Decoded, Handle, Shapes
    <3>4. block = Content(RefAt(v))
      BY <3>2, <3>3, DecodesWanted
    <3> QED
      BY <3>2, <3>3, <3>4, PlaceType DEF Entry, Ref
  <2>3. lru' = [lru EXCEPT ![i] = <<e>> \o lru[i]]
    BY <2>1
  <2> HIDE DEF e
  <2>4. PICK new \in Seq(Entry) :
          new = <<e>> \o lru[i] /\ new # <<>> /\ new[1] = e /\ Without(lru[i], new, 1)
    BY <1>1, <2>2, PushedFront, ZenonT(30)
  <2>5. SumBytes(new) = Bytes(e.block) + SumBytes(lru[i]) /\ Bytes(e.block) \in Nat
    <3>1. 1 \in DOMAIN new
      BY <2>4
    <3> QED
      BY <1>1, <2>4, <3>1, OneEntryLess, ZenonT(30)
  <2>6. BytesWith(i, block) = SumBytes(new) /\ BytesWith(i, block) \in Nat
    BY <1>1, <2>2, <2>5 DEF BytesWith, Accounts
  <2>7. call' = [call EXCEPT ![i] = [call[i] EXCEPT !.stage = "evict"]]
    BY <1>4 DEF Insert, Stage
  <2> QED
    BY <1>2, <2>1, <2>3, <2>4, <2>6, <2>7, CacheCounted
<1>5. CASE Evict(i)
  <2>1. /\ lru' = [lru EXCEPT ![i] = Front(lru[i])]
        /\ bytes' = [bytes EXCEPT ![i] = bytes[i] - Bytes(Last(lru[i]).block)]
        /\ call' = call /\ Len(lru[i]) > 1 /\ call[i].stage = "evict"
    BY <1>5 DEF Evict, MustEvict
  <2>2. PICK rest \in Seq(Entry) :
          rest = Front(lru[i]) /\ Without(rest, lru[i], Len(lru[i]))
    BY <1>1, <2>1, CutLast
  <2>3. SumBytes(lru[i]) = Bytes(Last(lru[i]).block) + SumBytes(rest)
        /\ Bytes(Last(lru[i]).block) \in Nat /\ SumBytes(rest) \in Nat
    <3>1. Len(lru[i]) \in DOMAIN lru[i]
      BY <1>1, <2>1
    <3> QED
      BY <1>1, <2>2, <3>1, OneEntryLess DEF Last
  <2>4. bytes[i] - Bytes(Last(lru[i]).block) = SumBytes(rest)
    BY <1>1, <2>3 DEF Accounts
  <2>5. call' = [call EXCEPT ![i] = [call[i] EXCEPT !.stage = "evict"]]
    BY <1>1, <2>1 DEF Shapes, Call
  <2> QED
    BY <1>2, <2>1, <2>2, <2>3, <2>4, <2>5, CacheCounted
<1>6. CASE EvictEnds(i)
  <2>1. /\ lru' = lru /\ bytes' = bytes /\ ~MustEvict(i)
        /\ call' = [call EXCEPT ![i] = [call[i] EXCEPT !.stage = "use"]]
    BY <1>6 DEF EvictEnds, Stage
  <2>2. lru' = [lru EXCEPT ![i] = lru[i]] /\ bytes' = [bytes EXCEPT ![i] = bytes[i]]
    BY <1>1, <2>1 DEF Shapes, Counters
  <2>3. bytes[i] <= CacheBytes \/ Len(lru[i]) <= 1
    BY <1>1, <2>1, BytesAssumption DEF MustEvict
  <2> QED
    BY <1>1, <1>2, <2>1, <2>2, <2>3, CacheCounted DEF Accounts
<1>7. CASE ReleaseDrops(i)
  <2>1. PICK k \in Outside(i) :
          /\ lru' = [lru EXCEPT ![i] = RemoveAt(lru[i], k)]
          /\ bytes' = [bytes EXCEPT ![i] = BytesWithout(i, k)]
    BY <1>7 DEF ReleaseDrops
  <2>2. k \in DOMAIN lru[i] /\ call' = call /\ call[i].stage = "release"
    BY <1>7, <2>1 DEF Outside, ReleaseDrops
  <2>3. PICK rest \in Seq(Entry) :
          rest = RemoveAt(lru[i], k) /\ Without(rest, lru[i], k)
    BY <1>1, <2>2, RemovedElement
  <2>4. /\ SumBytes(lru[i]) = Bytes(lru[i][k].block) + SumBytes(rest)
        /\ Bytes(lru[i][k].block) \in Nat /\ SumBytes(rest) \in Nat
    BY <1>1, <2>2, <2>3, OneEntryLess
  <2>5. BytesWithout(i, k) = SumBytes(rest) /\ SumBytes(rest) <= bytes[i]
    BY <1>1, <2>4 DEF Accounts, BytesWithout
  <2>6. SumBytes(rest) <= CacheBytes \/ Len(rest) <= 1
    BY <1>1, <2>2, <2>3, <2>4, <2>5, BytesAssumption DEF Accounts, Without
  <2>7. call' = [call EXCEPT ![i] = [call[i] EXCEPT !.stage = "release"]]
    BY <1>1, <2>2 DEF Shapes, Call
  <2> QED
    BY <1>2, <2>1, <2>3, <2>4, <2>5, <2>6, <2>7, CacheCounted
<1> QED
  BY <1>3, <1>4, <1>5, <1>6, <1>7

(* A step of a cursor: the cache and its counter stay as they are.          *)
LEMMA CursorCounted ==
  ASSUME Inv, Accounted, NEW i \in Instances, index' = index, lru' = lru, bytes' = bytes,
         alive' = alive, position' \in [Instances -> Nat],
         \A j \in Instances \ {i} : position'[j] = position[j],
         NEW new, cursor' = [cursor EXCEPT ![i] = new], call[i].stage # "evict",
         NEW c, call' = [call EXCEPT ![i] = c], c.stage \in {"idle", "scan", "load"},
         CursorPlaced(i)', c.stage # "idle" => new # Closed, CursorLoading(i)'
  PROVE  Accounted'
<1>1. /\ Shapes /\ Counters /\ Accounts(i)
      /\ \A j \in Instances : j \in DOMAIN call /\ j \in DOMAIN cursor
  BY DEF Inv, Accounted, Shapes, Counters
<1>2. /\ call'[i] = c /\ cursor'[i] = new
      /\ \A j \in Instances \ {i} : call'[j] = call[j] /\ cursor'[j] = cursor[j]
  BY <1>1
<1>3. Accounts(i)'
  BY <1>1 DEF Accounts
<1>4. CursorRight(i)'
  BY <1>2 DEF CursorRight
<1>5. Counters'
  BY <1>1 DEF Counters
<1>6. Alone(i)
  BY <1>2, <1>5 DEF Alone
<1> QED
  BY <1>1, <1>3, <1>4, <1>6, OthersStay

(* The block of a cursor that has loaded none is a block.                 *)
LEMMA NoBlockIsBlock == NoBlock \in Block
<1>1. <<>> \in Seq(Int)
  OBVIOUS
<1> QED
  BY <1>1 DEF NoBlock, Block

(* Whatever lies at an offset, decode() gives a block.                      *)
LEMMA DecodedIsBlock ==
  ASSUME index \in Layouts, NEW off, NEW s \in Streams, NEW cookie,
         NEW block \in DecodedAt(off, s, cookie)
  PROVE  block \in Block
<1>1. \A q \in Streams : Range(index[q]) \subseteq Ref
  <2>1. \A q \in Streams : index[q] \in Seq(Ref)
    BY LayoutsAssumption
  <2> QED
    BY <2>1 DEF Range
<1>2. PICK ref \in Ref : block = Content(ref)
  BY <1>1 DEF DecodedAt
<1> QED
  BY <1>2 DEF Content, Ref, Block

(* Opening a cursor leaves the bytes as they are.                         *)
LEMMA OpenedCount ==
  ASSUME Inv, Accounted, NEW i \in Instances, NEW s \in Streams, NEW range \in Ranges,
         OpenCursor(i, s, range)
  PROVE  Accounted'
<1> USE DEF cacheVars
<1>1. /\ Shapes /\ Counters /\ index \in Layouts /\ index[s] \in Seq(Ref)
      /\ range[1] \in Int /\ range[2] \in Int
  BY LayoutsAssumption, AskedAssumption DEF Inv, Accounted, Shapes
<1>2. PICK m \in BlocksIn(s, range) :
        LET none == range[1] >= range[2] \/ m[1] > m[2]
        IN cursor' = [cursor EXCEPT ![i] =
             [stream |-> s, begin |-> range[1], end |-> range[2],
              block |-> IF none THEN 1 ELSE m[1], last |-> IF none THEN 0 ELSE m[2],
              loaded |-> FALSE, cur |-> NoBlock, pos |-> 0]]
  BY DEF OpenCursor
<1> DEFINE none == range[1] >= range[2] \/ m[1] > m[2]
           first == IF none THEN 1 ELSE m[1]
           final == IF none THEN 0 ELSE m[2]
           new == [stream |-> s, begin |-> range[1], end |-> range[2],
                   block |-> first, last |-> final,
                   loaded |-> FALSE, cur |-> NoBlock, pos |-> 0]
<1>3. m[1] \in Nat \ {0} /\ m[2] \in 0 .. Len(index[s])
  <2>1. Len(Begins(s)) = Len(index[s]) /\ Len(Ends(s)) = Len(index[s])
    BY <1>1 DEF Begins, Ends
  <2> QED
    BY <1>1, <2>1 DEF BlocksIn, UpperBounds, LowerBounds, AtLeast
<1>4. first \in Nat \ {0} /\ final \in 0 .. Len(index[s])
  BY <1>1, <1>3
<1> HIDE DEF first, final
<1>5. /\ new \in Cursor /\ new.block # 0 /\ new.last <= Len(index[s]) /\ new.stream = s
  BY <1>1, <1>4, NoBlockIsBlock DEF Cursor
<1>6. cursor' = [cursor EXCEPT ![i] = new]
  BY <1>2 DEF first, final
<1>7. /\ index' = index /\ lru' = lru /\ bytes' = bytes /\ alive' = alive /\ position' = position
      /\ call[i] = Idle /\ call' = call
  BY DEF OpenCursor, Ready
<1> HIDE DEF new
<1>8. CursorPlaced(i)'
  BY <1>1, <1>5, <1>6, <1>7 DEF CursorPlaced, Counters
<1>9. CursorLoading(i)' /\ call' = [call EXCEPT ![i] = Idle]
  BY <1>1, <1>7, IdleCall DEF CursorLoading, Shapes
<1> QED
  BY <1>1, <1>6, <1>7, <1>8, <1>9, IdleCall, CursorCounted DEF Counters

(* So do the steps of next().                                             *)
LEMMA CursorsCount ==
  ASSUME Inv, Accounted, NEW i \in Instances,
         CursorGives(i) \/ CursorSeeks(i) \/ CursorLoads(i) \/ CursorThrows(i)
  PROVE  Accounted'
<1> USE DEF cacheVars
<1> DEFINE c == cursor[i]
           b == BlockToLoad(c)
<1>1. /\ Shapes /\ Counters /\ index \in Layouts /\ call[i] \in Call
      /\ call[i].stage \in {"scan", "load"}
      /\ c \in Cursor /\ c.block # 0 /\ c.last <= Len(index[c.stream]) /\ CursorLoading(i)
  <2>1. call[i].stage \in {"scan", "load"}
    BY DEF CursorGives, CursorSeeks, CursorLoads, CursorThrows
  <2> QED
    BY <2>1 DEF Inv, Accounted, Shapes, CursorRight, CursorPlaced
<1>2. /\ index' = index /\ lru' = lru /\ bytes' = bytes /\ alive' = alive
      /\ call[i].stage # "evict"
  BY <1>1 DEF CursorGives, CursorSeeks, CursorLoads, CursorThrows, PastTheCache
<1>3. b \in Nat \ {0} /\ index[c.stream] \in Seq(Ref)
  BY <1>1, LayoutsAssumption DEF Cursor, BlockToLoad, AtMost
<1>4. ASSUME NEW new \in Cursor, cursor' = [cursor EXCEPT ![i] = new],
             new.block # 0, new.last = c.last, new.stream = c.stream
      PROVE  CursorPlaced(i)' /\ new # Closed
  BY <1>1, <1>2, <1>4, CursorIsOpen DEF CursorPlaced, Counters
<1>5. CASE CursorGives(i)
  <2>1. /\ call' = [call EXCEPT ![i] = Idle] /\ position' = position
        /\ \/ cursor' = cursor
           \/ cursor' = [cursor EXCEPT ![i].pos = @ + 1]
    BY <1>5 DEF CursorGives, Return, Running
  <2>2. PICK p \in Nat : cursor' = [cursor EXCEPT ![i] = [c EXCEPT !.pos = p]]
    <3>1. cursor = [cursor EXCEPT ![i] = [c EXCEPT !.pos = c.pos]] /\ c.pos \in Nat
      BY <1>1 DEF Counters, Cursor
    <3> QED
      BY <2>1, <3>1
  <2> DEFINE new == [c EXCEPT !.pos = p]
  <2>3. new \in Cursor /\ new.block # 0 /\ new.last = c.last /\ new.stream = c.stream
    BY <1>1 DEF Cursor
  <2>4. cursor' = [cursor EXCEPT ![i] = new]
    BY <2>2
  <2>5. CursorLoading(i)'
    BY <1>1, <2>1, IdleCall DEF CursorLoading, Shapes
  <2> HIDE DEF new, c
  <2> QED
    BY <1>1, <1>2, <1>4, <2>1, <2>3, <2>4, <2>5, IdleCall, CursorCounted DEF Counters
<1>6. CASE CursorSeeks(i)
  <2>1. CASE b > c.last
    <3> DEFINE new == [c EXCEPT !.block = b]
    <3>1. /\ call' = [call EXCEPT ![i] = Idle] /\ position' = position
          /\ cursor' = [cursor EXCEPT ![i] = new]
      BY <1>1, <1>6, <2>1 DEF CursorSeeks, Return, Running, Counters
    <3>2. new \in Cursor /\ new.block # 0 /\ new.last = c.last /\ new.stream = c.stream
      <4> HIDE DEF b
      <4> QED
        BY <1>1, <1>3 DEF Cursor
    <3>3. CursorLoading(i)'
      BY <1>1, <3>1, IdleCall DEF CursorLoading, Shapes
    <3> HIDE DEF new, c
    <3> QED
      BY <1>1, <1>2, <1>4, <3>1, <3>2, <3>3, IdleCall, CursorCounted DEF Counters
  <2>2. CASE ~(b > c.last)
    <3>1. /\ call' = [call EXCEPT ![i] = [call[i] EXCEPT !.stage = "load"]]
          /\ position' = [position EXCEPT ![i] = index[c.stream][b].offset]
          /\ cursor' = cursor
      BY <1>6, <2>2 DEF CursorSeeks, Stage, Handle
    <3>2. b <= c.last /\ b \in DOMAIN index[c.stream]
      <4> HIDE DEF b
      <4> QED
        BY <1>1, <1>3, <2>2 DEF Cursor
    <3>3. index[c.stream][b].offset \in Nat
      <4>1. index[c.stream][b] \in Ref
        BY <1>3, <3>2
      <4> QED
        BY <4>1 DEF Ref
    <3>4. /\ position' \in [Instances -> Nat] /\ position'[i] = index[c.stream][b].offset
          /\ \A j \in Instances \ {i} : position'[j] = position[j]
      BY <1>1, <3>1, <3>3 DEF Counters
    <3>5. cursor' = [cursor EXCEPT ![i] = c] /\ c # Closed /\ cursor'[i] = c
      BY <1>1, <3>1, CursorIsOpen DEF Counters
    <3>6. CursorPlaced(i)' /\ CursorLoading(i)'
      BY <1>1, <1>2, <3>2, <3>4, <3>5 DEF CursorPlaced, CursorLoading
    <3>7. [call[i] EXCEPT !.stage = "load"].stage = "load"
      BY <1>1 DEF Call
    <3> HIDE DEF c
    <3> QED
      BY <1>1, <1>2, <3>1, <3>4, <3>5, <3>6, <3>7, CursorCounted
  <2> QED
    BY <2>1, <2>2
<1>7. CASE CursorLoads(i)
  <2>0. PICK block \in DecodedAt(position[Handle(i)], c.stream, index[c.stream][b].cookie) :
          \E p \in StartIn(c, block.times) :
            cursor' = [cursor EXCEPT ![i] = Loaded(c, b, block, p)]
    BY <1>7 DEF CursorLoads
  <2>1. PICK p \in StartIn(c, block.times) :
          cursor' = [cursor EXCEPT ![i] = Loaded(c, b, block, p)]
    BY <2>0
  <2>2. block \in Block /\ p \in Nat
    <3>1. block \in Block
      BY <1>1, <2>0, DecodedIsBlock DEF Cursor
    <3> QED
      BY <2>1, <3>1 DEF StartIn, LowerBounds, Block
  <2> DEFINE new == Loaded(c, b, block, p)
  <2>3. new \in Cursor /\ new.block # 0 /\ new.last = c.last /\ new.stream = c.stream
    <3> HIDE DEF b
    <3> QED
      BY <1>1, <1>3, <2>2 DEF Cursor, Loaded
  <2>4. /\ call' = [call EXCEPT ![i] = [call[i] EXCEPT !.stage = "scan"]]
        /\ position' = position /\ cursor' = [cursor EXCEPT ![i] = new]
    BY <1>7, <2>1 DEF CursorLoads, Stage
  <2>5. [call[i] EXCEPT !.stage = "scan"].stage = "scan"
    BY <1>1 DEF Call
  <2>6. CursorLoading(i)'
    BY <1>1, <2>4, <2>5 DEF CursorLoading, Shapes
  <2> HIDE DEF new, c
  <2> QED
    BY <1>1, <1>2, <1>4, <2>3, <2>4, <2>5, <2>6, CursorCounted DEF Counters
<1>8. CASE CursorThrows(i)
  <2> DEFINE new == [c EXCEPT !.block = b]
  <2>1. /\ call' = [call EXCEPT ![i] = Idle] /\ position' = position
        /\ cursor' = [cursor EXCEPT ![i] = new]
    BY <1>1, <1>8 DEF CursorThrows, Return, Running, Counters
  <2>2. new \in Cursor /\ new.block # 0 /\ new.last = c.last /\ new.stream = c.stream
    <3> HIDE DEF b
    <3> QED
      BY <1>1, <1>3 DEF Cursor
  <2>3. CursorLoading(i)'
    BY <1>1, <2>1, IdleCall DEF CursorLoading, Shapes
  <2> HIDE DEF new, c
  <2> QED
    BY <1>1, <1>2, <1>4, <2>1, <2>2, <2>3, IdleCall, CursorCounted DEF Counters
<1> QED
  BY <1>5, <1>6, <1>7, <1>8

(* The counter of every instance is the sum of its entries.               *)
LEMMA AccountedCorrect == Spec => []Accounted
<1>1. Init => Accounted
  <2> SUFFICES ASSUME Init
               PROVE  Accounted
    OBVIOUS
  <2>1. Counters
    BY InstancesAssumption DEF Init, Counters
  <2>2. ASSUME NEW i \in Instances
        PROVE  Accounts(i) /\ CursorRight(i)
    <3>1. lru[i] = <<>> /\ bytes[i] = 0 /\ call[i] = Idle /\ cursor[i] = Closed
      BY DEF Init
    <3> QED
      BY <3>1, IdleCall, ListOfNone, BytesAssumption
      DEF Accounts, CursorRight, CursorPlaced, CursorLoading
  <2> QED
    BY <2>1, <2>2 DEF Accounted
<1>2. Inv /\ Accounted /\ [Next]_vars => Accounted'
  <2> SUFFICES ASSUME Inv, Accounted, [Next]_vars
               PROVE  Accounted'
    OBVIOUS
  <2>1. ASSUME NEW i \in Instances, Calls(i)
        PROVE  Accounted'
    BY <2>1, CallsCount, OpenedCount
  <2>2. ASSUME NEW i \in Instances, Work(i)
        PROVE  Accounted'
    BY <2>2, UsesCount, CacheCounts, CursorsCount DEF Work
  <2>3. CASE UNCHANGED vars
    BY <2>3 DEF vars, cacheVars, Accounted, Counters, Accounts, CursorRight, CursorPlaced,
                CursorLoading
  <2> QED
    BY <2>1, <2>2, <2>3 DEF Next
<1> QED
  BY <1>1, <1>2, InvCorrect, PTL DEF Spec

(* bytes_ is what the cached blocks take, never wraps, and outside eviction *)
(* is within Options::cacheBytes unless a single block is left.             *)
THEOREM CacheExactCorrect == Spec => []CacheExact
<1>1. Inv /\ Accounted => CacheExact
  <2> SUFFICES ASSUME Inv, Accounted
               PROVE  CacheExact
    OBVIOUS
  <2>1. TypeOK
    BY LayoutsAssumption
    DEF Inv, Shapes, Accounted, Counters, CursorRight, CursorPlaced, TypeOK
  <2>2. BytesExact
    BY DEF Accounted, Accounts, BytesExact
  <2>3. CacheWithinLimit
    BY DEF Accounted, Accounts, CacheWithinLimit
  <2> QED
    BY <2>1, <2>2, <2>3 DEF CacheExact
<1> QED
  BY <1>1, InvCorrect, AccountedCorrect, PTL

(***************************************************************************)
(* LazyStorage implements Storage: what it answers from blocks, one at a   *)
(* time, is what the plain history of the stream answers.                  *)
(***************************************************************************)

(* How many changes lie in the first b blocks.                              *)
Marks(blocks) ==
  [b \in 0 .. Len(blocks) |->
     IF b = 0 THEN 0 ELSE blocks[b].first - 1 + Len(blocks[b].times)]

Rising(u, m) ==
  /\ u \in [0 .. m -> Nat] /\ u[0] = 0
  /\ \A b \in 1 .. m : u[b - 1] < u[b]
  /\ \A a, b \in 0 .. m : a <= b => u[a] <= u[b]

(* The fields of a block of an index that can be searched.                *)
LEMMA BlockFields ==
  ASSUME NEW blocks \in Seq(Ref), Searchable(blocks), NEW b \in 1 .. Len(blocks)
  PROVE  /\ blocks[b] \in Ref /\ blocks[b].times \in Seq(Int)
         /\ blocks[b].first \in Nat /\ blocks[b].begin \in Int /\ blocks[b].end \in Int
         /\ Len(blocks[b].times) \in Nat \ {0}
         /\ blocks[b].first = IF b = 1 THEN 1
                              ELSE blocks[b - 1].first + Len(blocks[b - 1].times)
<1>1. blocks[b] \in Ref /\ b \in DOMAIN blocks
  OBVIOUS
<1>2. /\ blocks[b].times \in Seq(Int)
      /\ blocks[b].first \in Nat /\ blocks[b].begin \in Int /\ blocks[b].end \in Int
  BY <1>1 DEF Ref
<1>3. Len(blocks[b].times) > 0
  BY <1>1 DEF Searchable
<1>4. blocks[b].first = IF b = 1 THEN 1
                        ELSE blocks[b - 1].first + Len(blocks[b - 1].times)
  BY <1>1 DEF Searchable
<1> QED
  BY <1>1, <1>2, <1>3, <1>4

(* Each block ends where the next begins, and none is empty.              *)
LEMMA MarksRise ==
  ASSUME NEW blocks \in Seq(Ref), Searchable(blocks)
  PROVE  /\ Rising(Marks(blocks), Len(blocks))
         /\ \A b \in 1 .. Len(blocks) :
              /\ blocks[b].first = Marks(blocks)[b - 1] + 1
              /\ Marks(blocks)[b] = Marks(blocks)[b - 1] + Len(blocks[b].times)
<1> DEFINE u == Marks(blocks)
           m == Len(blocks)
<1>1. m \in Nat
  OBVIOUS
<1>2. u[0] = 0 /\ \A b \in 1 .. m : u[b] = blocks[b].first - 1 + Len(blocks[b].times)
  BY <1>1 DEF Marks
<1>3. ASSUME NEW b \in 1 .. m
      PROVE  /\ blocks[b].first \in Nat \ {0} /\ Len(blocks[b].times) \in Nat \ {0}
             /\ blocks[b].first = u[b - 1] + 1
  <2>1. /\ blocks[b].first \in Nat /\ Len(blocks[b].times) \in Nat \ {0}
        /\ blocks[b].first = IF b = 1 THEN 1
                             ELSE blocks[b - 1].first + Len(blocks[b - 1].times)
    BY BlockFields
  <2>2. CASE b = 1
    <3>1. u[b - 1] = 0
      BY <1>2, <2>2
    <3> QED
      BY <2>1, <2>2, <3>1
  <2>3. CASE b # 1
    <3>1. PICK a \in 1 .. m : a = b - 1
      BY <2>3
    <3>2. blocks[a].first \in Nat /\ Len(blocks[a].times) \in Nat \ {0}
      BY BlockFields
    <3>3. u[a] = blocks[a].first - 1 + Len(blocks[a].times)
      BY <1>2
    <3>4. u[a] + 1 = blocks[a].first + Len(blocks[a].times)
      <4> HIDE DEF u
      <4> QED
        BY <3>2, <3>3
    <3> HIDE DEF u
    <3> QED
      BY <2>1, <2>3, <3>1, <3>2, <3>4
  <2> QED
    BY <2>2, <2>3
<1>4. u \in [0 .. m -> Nat]
  <2>1. ASSUME NEW b \in 0 .. m
        PROVE  (IF b = 0 THEN 0 ELSE blocks[b].first - 1 + Len(blocks[b].times)) \in Nat
    <3>1. CASE b = 0
      BY <3>1
    <3>2. CASE b # 0
      <4>1. blocks[b].first \in Nat \ {0} /\ Len(blocks[b].times) \in Nat \ {0}
        BY <1>3, <3>2
      <4> QED
        BY <3>2, <4>1
    <3> QED
      BY <3>1, <3>2
  <2> QED
    BY <2>1 DEF Marks
<1>5. ASSUME NEW b \in 1 .. m
      PROVE  u[b] = u[b - 1] + Len(blocks[b].times) /\ u[b - 1] < u[b] /\ u[b - 1] \in Nat
  <2>1. b - 1 \in 0 .. m
    OBVIOUS
  <2>2. u[b - 1] \in Nat
    BY <1>4, <2>1
  <2>3. u[b] = blocks[b].first - 1 + Len(blocks[b].times)
    BY <1>2
  <2>4. PICK f \in Nat \ {0}, k \in Nat \ {0} : f = blocks[b].first /\ k = Len(blocks[b].times)
    BY <1>3
  <2>5. u[b] = f - 1 + k /\ f = u[b - 1] + 1
    BY <1>3, <2>3, <2>4
  <2>6. u[b] = u[b - 1] + k /\ u[b - 1] < u[b]
    <3> HIDE DEF u
    <3> QED
      BY <2>2, <2>4, <2>5
  <2> QED
    BY <2>2, <2>4, <2>6
<1>6. ASSUME NEW a \in 0 .. m
      PROVE  \A b \in 0 .. m : a <= b => u[a] <= u[b]
  <2> DEFINE T == {b \in 0 .. m : a <= b => u[a] <= u[b]}
  <2> HIDE DEF u
  <2>1. T \in SUBSET (0 .. m) /\ 0 \in T
    BY <1>4
  <2>2. ASSUME NEW n \in T, n < m
        PROVE  n + 1 \in T
    <3>1. n \in 0 .. m /\ n + 1 \in 1 .. m /\ n + 1 \in 0 .. m /\ n + 1 - 1 = n
      BY <2>2
    <3>2. u[n] < u[n + 1] /\ u[n] \in Nat /\ u[n + 1] \in Nat /\ u[a] \in Nat
      <4>1. u[n] \in Nat /\ u[n + 1] \in Nat /\ u[a] \in Nat
        BY <1>4, <3>1
      <4>2. PICK b \in 1 .. m : b = n + 1 /\ b - 1 = n
        BY <3>1
      <4>3. u[b - 1] < u[b]
        BY <1>5
      <4> QED
        BY <4>1, <4>2, <4>3
    <3>3. a <= n + 1 => u[a] <= u[n + 1]
      <4>1. CASE a <= n
        BY <3>2, <4>1
      <4>2. CASE a = n + 1
        BY <3>2, <4>2
      <4> QED
        BY <3>1, <4>1, <4>2
    <3> QED
      BY <3>1, <3>3
  <2>3. T = 0 .. m
    <3> HIDE DEF T
    <3> QED
      BY <1>1, <2>1, <2>2, UptoInduction
  <2> QED
    BY <2>3
<1> HIDE DEF u
<1> QED
  BY <1>2, <1>3, <1>4, <1>5, <1>6 DEF Rising, u

(* Every change lies in one block.                                          *)
LEMMA OneOwner ==
  ASSUME NEW m \in Nat, NEW u, Rising(u, m), NEW j \in 1 .. u[m]
  PROVE  /\ \E b \in 1 .. m : u[b - 1] < j /\ j <= u[b]
         /\ \A b, c \in 1 .. m :
              u[b - 1] < j /\ j <= u[b] /\ u[c - 1] < j /\ j <= u[c] => b = c
<1>1. \A b \in 0 .. m : u[b] \in Nat
  BY DEF Rising
<1>2. m \in 0 .. m /\ u[m] \in Nat /\ j \in Nat \ {0}
  BY <1>1
<1> DEFINE T == {n \in 0 .. m : j <= u[n] => \E b \in 1 .. m : u[b - 1] < j /\ j <= u[b]}
<1>3. T = 0 .. m
  <2>1. T \in SUBSET (0 .. m) /\ 0 \in T
    <3>1. u[0] = 0
      BY DEF Rising
    <3> QED
      BY <1>2, <3>1
  <2>2. ASSUME NEW n \in T, n < m
        PROVE  n + 1 \in T
    <3>1. n \in 0 .. m /\ n + 1 \in 1 .. m /\ n + 1 \in 0 .. m /\ n + 1 - 1 = n
      BY <2>2
    <3>2. CASE j <= u[n]
      BY <3>1, <3>2
    <3>3. CASE ~(j <= u[n])
      <4>1. u[n] < j
        BY <1>1, <1>2, <3>1, <3>3
      <4> QED
        BY <3>1, <4>1
    <3> QED
      BY <3>2, <3>3
  <2> HIDE DEF T
  <2> QED
    BY <2>1, <2>2, UptoInduction
<1>4. \E b \in 1 .. m : u[b - 1] < j /\ j <= u[b]
  BY <1>2, <1>3
<1>5. ASSUME NEW b \in 1 .. m, NEW c \in 1 .. m, u[c - 1] < j, j <= u[b]
      PROVE  ~(b < c)
  <2> SUFFICES ASSUME b < c
               PROVE  FALSE
    OBVIOUS
  <2>1. b \in 0 .. m /\ c - 1 \in 0 .. m /\ b <= c - 1
    OBVIOUS
  <2>2. u[b] <= u[c - 1] /\ u[b] \in Nat /\ u[c - 1] \in Nat
    BY <2>1 DEF Rising
  <2> QED
    BY <1>2, <1>5, <2>2
<1>6. ASSUME NEW b \in 1 .. m, NEW c \in 1 .. m,
             u[b - 1] < j, j <= u[b], u[c - 1] < j, j <= u[c]
      PROVE  b = c
  <2>1. ~(b < c) /\ ~(c < b)
    BY <1>5, <1>6
  <2> QED
    BY <2>1
<1> QED
  BY <1>4, <1>6

(* The changes of the blocks, laid out one block after the other.           *)
Owner(blocks, j) ==
  CHOOSE b \in 1 .. Len(blocks) : Marks(blocks)[b - 1] < j /\ j <= Marks(blocks)[b]
ChangeAt(blocks, j) ==
  blocks[Owner(blocks, j)].times[j - Marks(blocks)[Owner(blocks, j) - 1]]
Laid(blocks) == [j \in 1 .. Marks(blocks)[Len(blocks)] |-> ChangeAt(blocks, j)]

(* The history that is laid out place by place has the times of the       *)
(* blocks.                                                                *)
LEMMA LaidOut ==
  ASSUME NEW blocks \in Seq(Ref), Searchable(blocks)
  PROVE  /\ Laid(blocks) \in Seq(Int)
         /\ Len(Laid(blocks)) = Marks(blocks)[Len(blocks)]
         /\ \A b \in 1 .. Len(blocks) : \A k \in 1 .. Len(blocks[b].times) :
              /\ Marks(blocks)[b - 1] + k \in 1 .. Marks(blocks)[Len(blocks)]
              /\ Laid(blocks)[Marks(blocks)[b - 1] + k] = blocks[b].times[k]
<1>1. PICK m \in Nat : m = Len(blocks)
  OBVIOUS
<1>2. PICK u : u = Marks(blocks)
  OBVIOUS
<1>3. /\ Rising(u, m)
      /\ \A b \in 1 .. m : u[b] = u[b - 1] + Len(blocks[b].times)
  BY <1>1, <1>2, MarksRise
<1>4. \A b \in 1 .. m : blocks[b].times \in Seq(Int) /\ Len(blocks[b].times) \in Nat \ {0}
  BY <1>1, BlockFields
<1>5. ASSUME NEW j \in 1 .. u[m]
      PROVE  /\ Owner(blocks, j) \in 1 .. m
             /\ u[Owner(blocks, j) - 1] < j /\ j <= u[Owner(blocks, j)]
  <2>1. \E b \in 1 .. m : u[b - 1] < j /\ j <= u[b]
    BY <1>3, OneOwner
  <2> QED
    BY <1>1, <1>2, <2>1 DEF Owner
<1>6. ASSUME NEW j \in 1 .. u[m]
      PROVE  ChangeAt(blocks, j) \in Int
  <2>1. PICK b \in 1 .. m : b = Owner(blocks, j) /\ u[b - 1] < j /\ j <= u[b]
    BY <1>5
  <2>2. u[b] = u[b - 1] + Len(blocks[b].times) /\ u[b - 1] \in Nat
    <3>1. b - 1 \in 0 .. m
      OBVIOUS
    <3> QED
      BY <1>3, <3>1 DEF Rising
  <2>3. j - u[b - 1] \in 1 .. Len(blocks[b].times)
    <3>1. u[m] \in Nat /\ Len(blocks[b].times) \in Nat
      BY <1>3, <1>4, SMTT(30) DEF Rising
    <3> QED
      BY <2>1, <2>2, <3>1
  <2>4. blocks[b].times[j - u[b - 1]] \in Int
    BY <1>4, <2>3
  <2> QED
    BY <1>2, <2>1, <2>4 DEF ChangeAt
<1>7. u[m] \in Nat
  BY <1>3 DEF Rising
<1>8. Laid(blocks) \in Seq(Int) /\ Len(Laid(blocks)) = u[m]
  <2>1. Laid(blocks) \in [1 .. u[m] -> Int]
    BY <1>1, <1>2, <1>6 DEF Laid
  <2> QED
    BY <1>7, <2>1, FunctionIsSeq
<1>9. ASSUME NEW b \in 1 .. m, NEW k \in 1 .. Len(blocks[b].times)
      PROVE  u[b - 1] + k \in 1 .. u[m] /\ Laid(blocks)[u[b - 1] + k] = blocks[b].times[k]
  <2>1. b - 1 \in 0 .. m /\ b \in 0 .. m /\ m \in 0 .. m /\ b <= m
    OBVIOUS
  <2>2. u[b - 1] \in Nat /\ u[b] \in Nat /\ u[b] <= u[m] /\ Len(blocks[b].times) \in Nat
    BY <1>3, <1>4, <2>1 DEF Rising
  <2>3. u[b] = u[b - 1] + Len(blocks[b].times)
    BY <1>3
  <2>4. PICK j \in 1 .. u[m] : j = u[b - 1] + k /\ u[b - 1] < j /\ j <= u[b] /\ j - u[b - 1] = k
    <3>1. PICK x \in Nat, y \in Nat, z \in Nat, l \in Nat :
            x = u[b - 1] /\ y = u[b] /\ z = u[m] /\ l = Len(blocks[b].times)
      BY <1>7, <2>2
    <3>2. y = x + l /\ y <= z /\ k \in 1 .. l
      BY <2>2, <2>3, <3>1
    <3>3. x + k \in 1 .. z /\ x < x + k /\ x + k <= y /\ (x + k) - x = k
      BY <3>2
    <3> QED
      BY <3>1, <3>3
  <2>5. Owner(blocks, j) = b
    BY <1>3, <1>5, <2>4, OneOwner
  <2>6. Laid(blocks)[j] = ChangeAt(blocks, j)
    BY <1>1, <1>2 DEF Laid
  <2> QED
    BY <1>2, <2>4, <2>5, <2>6 DEF ChangeAt
<1> QED
  BY <1>1, <1>2, <1>8, <1>9

(* Put together block by block, the history is the same.                  *)
LEMMA HistoryLaid ==
  ASSUME NEW blocks \in Seq(Ref), Searchable(blocks)
  PROVE  HistoryOf(blocks) = Laid(blocks)
<1>1. PICK m \in Nat : m = Len(blocks) /\ DOMAIN blocks = 1 .. m
  OBVIOUS
<1>2. PICK u : u = Marks(blocks)
  OBVIOUS
<1>3. PICK h \in Seq(Int) :
        /\ h = Laid(blocks) /\ Len(h) = u[m]
        /\ \A b \in 1 .. m : \A k \in 1 .. Len(blocks[b].times) :
             h[u[b - 1] + k] = blocks[b].times[k]
  BY <1>1, <1>2, LaidOut
<1>4. /\ Rising(u, m)
      /\ \A b \in 1 .. m : u[b] = u[b - 1] + Len(blocks[b].times)
  BY <1>1, <1>2, MarksRise
<1> DEFINE pieces == [b \in 1 .. m |-> blocks[b].times]
<1>5. \A b \in 0 .. m : u[b] \in 0 .. Len(h)
  <2>1. ASSUME NEW b \in 0 .. m
        PROVE  u[b] \in 0 .. Len(h)
    <3>1. m \in 0 .. m /\ b <= m
      OBVIOUS
    <3>2. u[b] \in Nat /\ u[m] \in Nat /\ u[b] <= u[m]
      BY <1>4, <3>1 DEF Rising
    <3> QED
      BY <1>3, <3>2
  <2> QED
    BY <2>1
<1>6. ASSUME NEW b \in 1 .. m
      PROVE  /\ pieces[b] = SubSeq(h, u[b - 1] + 1, u[b])
             /\ pieces[b] \in Seq(Int)
  <2>1. b - 1 \in 0 .. m /\ b \in 0 .. m
    OBVIOUS
  <2>2. PICK x \in 0 .. Len(h), y \in 0 .. Len(h) : x = u[b - 1] /\ y = u[b] /\ x < y
    BY <1>4, <1>5, <2>1 DEF Rising
  <2>3. PICK times \in Seq(Int) : times = blocks[b].times
    BY <1>1, BlockFields
  <2>4. y = x + Len(times)
    BY <1>4, <2>2, <2>3
  <2>5. PICK part : part = SubSeq(h, x + 1, y)
    OBVIOUS
  <2>6. /\ part \in Seq(Int)
        /\ Len(part) = y - x
        /\ \A i \in 1 .. y - x : part[i] = h[x + i]
    <3>1. /\ part \in Seq(Int) /\ Len(part) = (IF x < y THEN y - x ELSE 0)
          /\ \A i \in 1 .. y - x : part[i] = h[x + i]
      BY <2>5, BetweenMarks
    <3> QED
      BY <2>2, <3>1
  <2>7. Len(part) = Len(times)
    BY <2>2, <2>4, <2>6
  <2>8. \A i \in 1 .. Len(times) : part[i] = times[i]
    BY <1>3, <2>2, <2>3, <2>6, <2>7
  <2>9. part = times
    BY <2>3, <2>6, <2>7, <2>8, SeqEqual
  <2> QED
    BY <2>2, <2>3, <2>5, <2>9
<1>7. pieces \in [1 .. m -> Seq(Int)]
  BY <1>6
<1>8. DOMAIN pieces = 1 .. m /\ Len(pieces) = m
  BY <1>7, FunctionIsSeq
<1>9. FlattenSeq(pieces) = h
  <2>1. CASE m = 0
    <3>1. h = <<>>
      <4>1. Len(h) = 0
        BY <1>3, <1>4, <2>1 DEF Rising
      <4> QED
        BY <4>1, EmptySeq
    <3>2. pieces = <<>>
      <4>1. pieces \in Seq(Seq(Int)) /\ Len(pieces) = 0
        BY <1>7, <1>8, <2>1, FunctionIsSeq
      <4> HIDE DEF pieces
      <4> QED
        BY <4>1, EmptySeq
    <3> QED
      BY <1>8, <2>1, <3>1, <3>2 DEF FlattenSeq
  <2>2. CASE m # 0
    <3>1. Pieces(pieces, h, u, m)
      <4>1. u \in [0 .. m -> 0 .. Len(h)]
        BY <1>4, <1>5 DEF Rising
      <4> HIDE DEF pieces
      <4> QED
        BY <1>4, <1>6, <1>8, <4>1 DEF Pieces, Rising
    <3>2. SubSeq(h, 1, u[m]) = h
      BY <1>3, SubSeqFull
    <3> HIDE DEF pieces
    <3> QED
      BY <2>2, <3>1, <3>2, FlattenOfCuts
  <2> QED
    BY <2>1, <2>2
<1> QED
  BY <1>1, <1>3, <1>9 DEF HistoryOf

----------------------------------------------------------------------------
(* Searches.  Times are numbers, so that a lower bound is the upper bound   *)
(* of the time before; an ordered sequence has exactly one.                 *)
LEMMA LowerIsUpper ==
  ASSUME NEW times \in Seq(Int), NEW t \in Int
  PROVE  LowerBounds(times, t) = UpperBounds(times, t - 1)
<1>1. \A k \in 1 .. Len(times) : times[k] \in Int
  OBVIOUS
<1>2. ASSUME NEW u \in 0 .. Len(times)
      PROVE  u \in LowerBounds(times, t) <=> u \in UpperBounds(times, t - 1)
  <2>1. \A k \in 1 .. u : times[k] \in Int
    BY <1>1
  <2>2. \A k \in u + 1 .. Len(times) : times[k] \in Int
    BY <1>1
  <2>3. (\A k \in 1 .. u : times[k] < t) <=> (\A k \in 1 .. u : times[k] <= t - 1)
    BY <2>1
  <2>4. (\A k \in u + 1 .. Len(times) : t <= times[k])
          <=> (\A k \in u + 1 .. Len(times) : t - 1 < times[k])
    BY <2>2
  <2> QED
    BY <2>3, <2>4 DEF LowerBounds, UpperBounds
<1> QED
  BY <1>2 DEF LowerBounds, UpperBounds

(* There is one partition point only.                                     *)
LEMMA UpperUnique ==
  ASSUME NEW times \in Seq(Int), NEW t \in Int,
         NEW u \in UpperBounds(times, t), NEW v \in UpperBounds(times, t)
  PROVE  u = v
<1>1. ASSUME NEW x \in UpperBounds(times, t), NEW y \in UpperBounds(times, t)
      PROVE  ~(x < y)
  <2> SUFFICES ASSUME x < y
               PROVE  FALSE
    OBVIOUS
  <2>1. /\ x \in 0 .. Len(times) /\ y \in 0 .. Len(times)
        /\ \A k \in 1 .. y : times[k] <= t
        /\ \A k \in x + 1 .. Len(times) : t < times[k]
    BY DEF UpperBounds
  <2>2. y \in 1 .. y /\ y \in x + 1 .. Len(times) /\ y \in 1 .. Len(times)
    BY <2>1
  <2>3. times[y] <= t /\ t < times[y] /\ times[y] \in Int
    BY <2>1, <2>2
  <2> QED
    BY <2>3
<1>2. u \in Nat /\ v \in Nat
  BY DEF UpperBounds
<1> QED
  BY <1>1, <1>2

(* In an ordered list every pair is ordered.                              *)
LEMMA OrderedPairs ==
  ASSUME NEW times \in Seq(Int), Ordered(times),
         NEW j \in 1 .. Len(times), NEW k \in 1 .. Len(times), j <= k
  PROVE  times[j] <= times[k]
<1>1. PICK n \in Nat : n = Len(times)
  OBVIOUS
<1>2. \A i \in 1 .. n : times[i] \in Int
  BY <1>1
<1> DEFINE T == {i \in 0 .. n : i < j \/ times[j] <= times[i]}
<1>3. T \in SUBSET (0 .. n) /\ 0 \in T
  BY <1>1
<1>4. ASSUME NEW i \in T, i < n
      PROVE  i + 1 \in T
  <2>1. i \in 0 .. n /\ i + 1 \in 1 .. n /\ i + 1 \in 0 .. n /\ j \in Nat
    BY <1>1, <1>4
  <2>2. CASE i + 1 < j
    BY <2>1, <2>2
  <2>3. CASE i + 1 = j
    BY <1>2, <2>1, <2>3
  <2>4. CASE i + 1 > j
    <3>1. i \in 1 .. n - 1 /\ ~(i < j)
      BY <1>1, <2>1, <2>4
    <3>2. times[i] <= times[i + 1]
      BY <1>1, <3>1 DEF Ordered
    <3>3. times[j] <= times[i]
      BY <3>1
    <3>4. times[j] \in Int /\ times[i] \in Int /\ times[i + 1] \in Int
      BY <1>1, <1>2, <2>1, <3>1
    <3>5. times[j] <= times[i + 1]
      BY <3>2, <3>3, <3>4
    <3> QED
      BY <2>1, <3>5
  <2> QED
    BY <2>1, <2>2, <2>3, <2>4
<1>5. T = 0 .. n
  <2> HIDE DEF T
  <2> QED
    BY <1>3, <1>4, UptoInduction
<1>6. k \in T /\ ~(k < j)
  BY <1>1, <1>5
<1> QED
  BY <1>6

(* An ordered list has a partition point.                                 *)
LEMMA UpperExists ==
  ASSUME NEW times \in Seq(Int), Ordered(times), NEW t \in Int
  PROVE  \E u : u \in UpperBounds(times, t)
<1>1. PICK n \in Nat : n = Len(times)
  OBVIOUS
<1>2. \A i \in 1 .. n : times[i] \in Int
  BY <1>1
<1> DEFINE Cut(u, i) == /\ u \in 0 .. i
                        /\ \A k \in 1 .. u : times[k] <= t
                        /\ \A k \in u + 1 .. i : t < times[k]
           T == {i \in 0 .. n : \E u : Cut(u, i)}
<1>3. T \in SUBSET (0 .. n) /\ 0 \in T
  <2>1. Cut(0, 0) /\ 0 \in 0 .. n
    OBVIOUS
  <2> HIDE DEF Cut
  <2> QED
    BY <2>1
<1>4. ASSUME NEW i \in T, i < n
      PROVE  i + 1 \in T
  <2>1. PICK u : Cut(u, i)
    OBVIOUS
  <2>2. i \in 0 .. n /\ i + 1 \in 1 .. n /\ i + 1 \in 0 .. n /\ u \in 0 .. i
    BY <1>4, <2>1
  <2>3. CASE t < times[i + 1]
    <3>1. Cut(u, i + 1)
      <4>1. ASSUME NEW k \in u + 1 .. i + 1
            PROVE  t < times[k]
        <5>1. k \in u + 1 .. i \/ k = i + 1
          BY <2>2
        <5> QED
          BY <2>1, <2>3, <5>1
      <4> QED
        BY <2>1, <2>2, <4>1
    <3> HIDE DEF Cut
    <3> QED
      BY <2>2, <3>1
  <2>4. CASE ~(t < times[i + 1])
    <3>1. \A k \in 1 .. i + 1 : times[k] <= t
      <4>1. ASSUME NEW k \in 1 .. i + 1
            PROVE  times[k] <= t
        <5>1. k \in 1 .. n /\ k <= i + 1
          BY <2>2
        <5>2. times[k] <= times[i + 1]
          BY <1>1, <2>2, <5>1, OrderedPairs
        <5>3. times[k] \in Int /\ times[i + 1] \in Int
          BY <1>2, <2>2, <5>1
        <5> QED
          BY <2>4, <5>2, <5>3
      <4> QED
        BY <4>1
    <3>2. Cut(i + 1, i + 1)
      BY <2>2, <3>1
    <3> HIDE DEF Cut
    <3> QED
      BY <2>2, <3>2
  <2> QED
    BY <2>3, <2>4
<1>5. T = 0 .. n
  <2> HIDE DEF T
  <2> QED
    BY <1>3, <1>4, UptoInduction
<1>6. PICK u : Cut(u, n)
  <2>1. n \in T
    <3> HIDE DEF T
    <3> QED
      BY <1>5
  <2> HIDE DEF Cut
  <2> QED
    BY <2>1
<1> QED
  BY <1>1, <1>6 DEF UpperBounds

----------------------------------------------------------------------------
(* Blocks of an index that can be searched hold earlier changes than later  *)
(* blocks, and so what they hold, one after the other, is ordered.          *)
LEMMA BlocksApart ==
  ASSUME NEW blocks \in Seq(Ref), Searchable(blocks),
         NEW b \in 1 .. Len(blocks), NEW a \in 1 .. b - 1,
         NEW k \in 1 .. Len(blocks[a].times)
  PROVE  /\ a \in 1 .. Len(blocks) /\ blocks[a].times[k] \in Int
         /\ blocks[a].times[k] <= blocks[b].begin
         /\ blocks[a].end <= blocks[b].begin + 1
         /\ \A l \in 1 .. Len(blocks[b].times) : blocks[a].times[k] <= blocks[b].times[l]
<1>1. a \in 1 .. Len(blocks) /\ a \in DOMAIN blocks /\ b \in DOMAIN blocks
  OBVIOUS
<1>2. /\ blocks[a].times \in Seq(Int) /\ blocks[a].end \in Int
      /\ blocks[b].times \in Seq(Int) /\ blocks[b].begin \in Int
  BY <1>1, BlockFields
<1>3. blocks[a].times[k] \in Int /\ blocks[a].times[k] < blocks[a].end
  BY <1>1, <1>2 DEF Searchable
<1>4. blocks[a].end <= blocks[b].begin + 1
  BY <1>1 DEF Searchable
<1>5. blocks[a].times[k] <= blocks[b].begin
  BY <1>2, <1>3, <1>4, SMTT(30)
<1>6. ASSUME NEW l \in 1 .. Len(blocks[b].times)
      PROVE  blocks[a].times[k] <= blocks[b].times[l]
  <2>1. blocks[b].begin <= blocks[b].times[l] /\ blocks[b].times[l] \in Int
    BY <1>1, <1>2 DEF Searchable
  <2>2. PICK x \in Int, y \in Int, z \in Int :
          x = blocks[a].times[k] /\ y = blocks[b].begin /\ z = blocks[b].times[l]
    BY <1>2, <1>3, <2>1
  <2>3. x <= y /\ y <= z
    BY <1>5, <2>1, <2>2
  <2>4. x <= z
    BY <2>3
  <2> QED
    BY <2>2, <2>4
<1> QED
  BY <1>1, <1>3, <1>4, <1>5, <1>6

(* Where the j-th change of the history lies.                               *)
LEMMA LiesIn ==
  ASSUME NEW blocks \in Seq(Ref), Searchable(blocks), NEW j \in 1 .. Len(HistoryOf(blocks))
  PROVE  \E b \in 1 .. Len(blocks) : \E k \in 1 .. Len(blocks[b].times) :
           /\ j = Marks(blocks)[b - 1] + k
           /\ Marks(blocks)[b - 1] < j /\ j <= Marks(blocks)[b]
           /\ HistoryOf(blocks)[j] = blocks[b].times[k]
<1>1. PICK m \in Nat, u \in {Marks(blocks)} : m = Len(blocks) /\ u = Marks(blocks)
  OBVIOUS
<1>2. /\ HistoryOf(blocks) = Laid(blocks) /\ Len(HistoryOf(blocks)) = u[m]
      /\ \A b \in 1 .. m : \A k \in 1 .. Len(blocks[b].times) :
           Laid(blocks)[u[b - 1] + k] = blocks[b].times[k]
  BY <1>1, HistoryLaid, LaidOut
<1>3. /\ Rising(u, m)
      /\ \A b \in 1 .. m : u[b] = u[b - 1] + Len(blocks[b].times)
  BY <1>1, MarksRise
<1>4. PICK b \in 1 .. m : u[b - 1] < j /\ j <= u[b]
  BY <1>2, <1>3, OneOwner
<1>5. b - 1 \in 0 .. m /\ b \in 0 .. m
  OBVIOUS
<1>6. u[b - 1] \in Nat /\ u[b] \in Nat
  BY <1>3, <1>5 DEF Rising
<1>7. Len(blocks[b].times) \in Nat
  BY <1>1, BlockFields
<1>8. j \in Nat
  OBVIOUS
<1>9. PICK x \in Nat, y \in Nat, n \in Nat :
        x = u[b - 1] /\ y = u[b] /\ n = Len(blocks[b].times) /\ y = x + n
  BY <1>3, <1>6, <1>7
<1>10. PICK k \in 1 .. n : j = x + k
  <2>1. x < j /\ j <= y
    BY <1>4, <1>9
  <2>2. j \in Nat /\ y = x + n
    BY <1>8, <1>9
  <2>3. x < j /\ j <= x + n
    BY <2>1, <2>2
  <2>4. j - x \in 1 .. n /\ j = x + (j - x)
    BY <2>2, <2>3
  <2> QED
    BY <2>4
<1> QED
  BY <1>1, <1>2, <1>4, <1>9, <1>10

(* The history of an index: its length, and the place of each change.     *)
LEMMA HistoryType ==
  ASSUME NEW blocks \in Seq(Ref), Searchable(blocks)
  PROVE  /\ HistoryOf(blocks) \in Seq(Int)
         /\ Len(HistoryOf(blocks)) = Marks(blocks)[Len(blocks)]
         /\ \A b \in 1 .. Len(blocks) : \A k \in 1 .. Len(blocks[b].times) :
              /\ Marks(blocks)[b - 1] + k \in 1 .. Len(HistoryOf(blocks))
              /\ HistoryOf(blocks)[Marks(blocks)[b - 1] + k] = blocks[b].times[k]
BY HistoryLaid, LaidOut

(* Of two places of the history, the earlier is in an earlier block or    *)
(* earlier in the same one.                                               *)
LEMMA PlacesOrdered ==
  ASSUME NEW blocks \in Seq(Ref), Searchable(blocks),
         NEW b \in 1 .. Len(blocks), NEW k \in 1 .. Len(blocks[b].times),
         NEW c \in 1 .. Len(blocks), NEW l \in 1 .. Len(blocks[c].times),
         Marks(blocks)[b - 1] + k < Marks(blocks)[c - 1] + l
  PROVE  b < c \/ (b = c /\ k < l)
<1>1. PICK m \in Nat, u \in {Marks(blocks)} : m = Len(blocks) /\ u = Marks(blocks)
  OBVIOUS
<1>2. Rising(u, m) /\ u[c] = u[c - 1] + Len(blocks[c].times)
  BY <1>1, MarksRise
<1>3. u[b - 1] \in Nat /\ u[c - 1] \in Nat /\ u[c] \in Nat /\ k \in Nat /\ l \in Nat /\ k > 0
      /\ Len(blocks[c].times) \in Nat /\ l <= Len(blocks[c].times)
  <2>1. b - 1 \in 0 .. m /\ c - 1 \in 0 .. m /\ c \in 0 .. m
    BY <1>1
  <2>2. Len(blocks[c].times) \in Nat
    BY <1>1, BlockFields
  <2>3. u[b - 1] \in Nat /\ u[c - 1] \in Nat /\ u[c] \in Nat
    BY <1>2, <2>1 DEF Rising
  <2> QED
    BY <2>2, <2>3
<1>4. u[b - 1] + k < u[c - 1] + l
  BY <1>1
<1>5. ~(c < b)
  <2> SUFFICES ASSUME c < b
               PROVE  FALSE
    OBVIOUS
  <2>1. b - 1 \in 0 .. m /\ c \in 0 .. m /\ c <= b - 1
    BY <1>1
  <2>2. u[c] <= u[b - 1]
    BY <1>2, <2>1 DEF Rising
  <2> QED
    BY <1>2, <1>3, <1>4, <2>2, SMTT(30)
<1>6. b = c => k < l
  BY <1>3, <1>4
<1> QED
  BY <1>5, <1>6

(* The history of an index that can be searched is ordered.               *)
LEMMA HistoryOrdered ==
  ASSUME NEW blocks \in Seq(Ref), Searchable(blocks)
  PROVE  Ordered(HistoryOf(blocks))
<1>1. PICK h \in Seq(Int) : h = HistoryOf(blocks)
  BY HistoryType
<1>2. SUFFICES ASSUME NEW j \in 1 .. Len(h) - 1
               PROVE  h[j] <= h[j + 1]
  BY <1>1 DEF Ordered
<1>3. j \in 1 .. Len(h) /\ j + 1 \in 1 .. Len(h) /\ j \in Nat
  OBVIOUS
<1>4. PICK b \in 1 .. Len(blocks) : \E k \in 1 .. Len(blocks[b].times) :
        j = Marks(blocks)[b - 1] + k /\ h[j] = blocks[b].times[k]
  BY <1>1, <1>3, LiesIn
<1>5. PICK k \in 1 .. Len(blocks[b].times) :
        j = Marks(blocks)[b - 1] + k /\ h[j] = blocks[b].times[k]
  BY <1>4
<1>6. PICK c \in 1 .. Len(blocks) : \E l \in 1 .. Len(blocks[c].times) :
        j + 1 = Marks(blocks)[c - 1] + l /\ h[j + 1] = blocks[c].times[l]
  BY <1>1, <1>3, LiesIn
<1>7. PICK l \in 1 .. Len(blocks[c].times) :
        j + 1 = Marks(blocks)[c - 1] + l /\ h[j + 1] = blocks[c].times[l]
  BY <1>6
<1>8. b < c \/ (b = c /\ k < l)
  <2>1. Marks(blocks)[b - 1] + k < Marks(blocks)[c - 1] + l
    BY <1>3, <1>5, <1>7
  <2> QED
    BY <2>1, PlacesOrdered
<1>9. CASE b < c
  <2>1. b \in 1 .. c - 1
    BY <1>9
  <2> QED
    BY <1>5, <1>7, <2>1, BlocksApart
<1>10. CASE b = c /\ k < l
  <2>1. blocks[b].times \in Seq(Int)
    BY BlockFields
  <2>2. Ordered(blocks[b].times)
    <3>1. b \in DOMAIN blocks
      OBVIOUS
    <3> QED
      BY <3>1 DEF Searchable
  <2>3. PICK times \in Seq(Int) : times = blocks[b].times
    BY <2>1
  <2>4. k \in 1 .. Len(times) /\ l \in 1 .. Len(times) /\ k <= l
    BY <1>10, <2>3
  <2>5. times[k] <= times[l]
    BY <2>2, <2>3, <2>4, OrderedPairs
  <2> QED
    BY <1>5, <1>7, <1>10, <2>3, <2>5
<1> QED
  BY <1>8, <1>9, <1>10

(* A search that ends within a block, when the blocks before lie before the *)
(* time sought and those behind lie after it, ends there in the history.    *)
AllUpto(blocks, some, t) ==
  \A b \in some : \A k \in 1 .. Len(blocks[b].times) : blocks[b].times[k] <= t
AllAfter(blocks, some, t) ==
  \A b \in some : \A k \in 1 .. Len(blocks[b].times) : t < blocks[b].times[k]

(* If earlier blocks are before a time and later ones behind it, the      *)
(* partition point of a block is that of the history.                     *)
LEMMA UpperInBlock ==
  ASSUME NEW blocks \in Seq(Ref), Searchable(blocks), NEW t \in Int,
         NEW b \in 1 .. Len(blocks), NEW v \in UpperBounds(blocks[b].times, t),
         AllUpto(blocks, 1 .. b - 1, t), AllAfter(blocks, b + 1 .. Len(blocks), t)
  PROVE  /\ blocks[b].first - 1 + v \in UpperBounds(HistoryOf(blocks), t)
         /\ v \in 0 .. Len(blocks[b].times)
<1>1. PICK h \in Seq(Int) : h = HistoryOf(blocks)
  BY HistoryType
<1>2. PICK m \in Nat, u \in {Marks(blocks)} : m = Len(blocks) /\ u = Marks(blocks)
  OBVIOUS
<1>3. PICK times \in Seq(Int) : times = blocks[b].times
  BY BlockFields
<1>4. /\ v \in 0 .. Len(times)
      /\ \A k \in 1 .. v : times[k] <= t
      /\ \A k \in v + 1 .. Len(times) : t < times[k]
  BY <1>3 DEF UpperBounds
<1>5. /\ Rising(u, m)
      /\ \A a \in 1 .. m : u[a] = u[a - 1] + Len(blocks[a].times)
      /\ blocks[b].first = u[b - 1] + 1
  BY <1>2, MarksRise
<1>6. PICK x \in Nat, n \in Nat : x = u[b - 1] /\ n = Len(times) /\ u[b] = x + n
  <2>1. b - 1 \in 0 .. m
    BY <1>2
  <2>2. u[b - 1] \in Nat
    BY <1>5, <2>1 DEF Rising
  <2>3. Len(times) \in Nat
    OBVIOUS
  <2>4. u[b] = u[b - 1] + Len(times)
    BY <1>2, <1>3, <1>5
  <2> QED
    BY <2>2, <2>3, <2>4
<1>7. blocks[b].first - 1 + v = x + v /\ v \in 0 .. n
  BY <1>4, <1>5, <1>6
<1>8. x + v \in 0 .. Len(h)
  <2>1. u[b] <= u[m] /\ u[m] = Len(h) /\ Len(h) \in Nat
    <3>1. b \in 0 .. m /\ m \in 0 .. m /\ b <= m
      BY <1>2
    <3>2. u[m] = Len(h)
      BY <1>1, <1>2, HistoryType
    <3> QED
      BY <1>5, <3>1, <3>2 DEF Rising
  <2>2. x + n <= Len(h)
    BY <1>6, <2>1
  <2> QED
    BY <1>7, <2>1, <2>2
<1>9. ASSUME NEW j \in 1 .. Len(h)
      PROVE  \E a \in 1 .. m : \E k \in 1 .. Len(blocks[a].times) :
               /\ h[j] = blocks[a].times[k]
               /\ j <= x + v => a < b \/ (a = b /\ k \in 1 .. v)
               /\ x + v < j => b < a \/ (a = b /\ k \in v + 1 .. n)
  <2>1. PICK a \in 1 .. m : \E k \in 1 .. Len(blocks[a].times) :
          /\ j = u[a - 1] + k /\ u[a - 1] < j /\ j <= u[a]
          /\ h[j] = blocks[a].times[k]
    BY <1>1, <1>2, LiesIn
  <2>2. PICK k \in 1 .. Len(blocks[a].times) :
          /\ j = u[a - 1] + k /\ u[a - 1] < j /\ j <= u[a]
          /\ h[j] = blocks[a].times[k]
    BY <2>1
  <2>3. a - 1 \in 0 .. m /\ a \in 0 .. m /\ b - 1 \in 0 .. m /\ b \in 0 .. m
    BY <1>2
  <2>4. PICK y \in Nat, z \in Nat : y = u[a - 1] /\ z = u[a]
    BY <1>5, <2>3 DEF Rising
  <2>5. j \in Nat /\ y < j /\ j <= z
    BY <2>2, <2>4
  <2>6. ASSUME b < a
        PROVE  x + v < j
    <3>1. u[b] <= u[a - 1]
      <4>1. b <= a - 1
        BY <2>6
      <4> QED
        BY <1>5, <2>3, <4>1 DEF Rising
    <3>2. x + n <= y
      BY <1>6, <2>4, <3>1
    <3> QED
      BY <1>7, <2>5, <3>2
  <2>7. ASSUME a < b
        PROVE  j <= x + v
    <3>1. u[a] <= u[b - 1]
      <4>1. a <= b - 1
        BY <2>7
      <4> QED
        BY <1>5, <2>3, <4>1 DEF Rising
    <3>2. z <= x
      BY <1>6, <2>4, <3>1
    <3> QED
      BY <1>7, <2>5, <3>2
  <2>8. ASSUME a = b
        PROVE  (j <= x + v => k \in 1 .. v) /\ (x + v < j => k \in v + 1 .. n)
    <3>1. k \in 1 .. n /\ j = x + k
      BY <1>3, <1>6, <2>2, <2>8
    <3> QED
      BY <1>7, <3>1
  <2>9. a < b \/ a = b \/ b < a
    OBVIOUS
  <2>10. ~(j <= x + v /\ x + v < j)
    BY <1>7, <2>5
  <2> QED
    BY <2>2, <2>6, <2>7, <2>8, <2>9, <2>10
<1>10. ASSUME NEW j \in 1 .. x + v
       PROVE  h[j] <= t
  <2>1. j \in 1 .. Len(h) /\ j <= x + v
    BY <1>7, <1>8
  <2>2. PICK a \in 1 .. m : \E k \in 1 .. Len(blocks[a].times) :
          h[j] = blocks[a].times[k] /\ (a < b \/ (a = b /\ k \in 1 .. v))
    BY <1>9, <2>1
  <2>3. CASE a < b
    <3>1. a \in 1 .. b - 1
      BY <2>3
    <3> QED
      BY <2>2, <3>1 DEF AllUpto
  <2>4. CASE a = b
    BY <1>3, <1>4, <2>2, <2>4
  <2> QED
    BY <2>2, <2>3, <2>4
<1>11. ASSUME NEW j \in x + v + 1 .. Len(h)
       PROVE  t < h[j]
  <2>1. j \in 1 .. Len(h) /\ x + v < j
    BY <1>7, <1>8
  <2>2. PICK a \in 1 .. m : \E k \in 1 .. Len(blocks[a].times) :
          h[j] = blocks[a].times[k] /\ (b < a \/ (a = b /\ k \in v + 1 .. n))
    BY <1>9, <2>1
  <2>3. CASE b < a
    <3>1. a \in b + 1 .. Len(blocks)
      BY <1>2, <2>3
    <3> QED
      BY <2>2, <3>1 DEF AllAfter
  <2>4. CASE a = b
    BY <1>3, <1>4, <1>6, <2>2, <2>4
  <2> QED
    BY <2>2, <2>3, <2>4
<1>12. x + v \in UpperBounds(h, t)
  BY <1>8, <1>10, <1>11 DEF UpperBounds
<1> QED
  BY <1>1, <1>3, <1>4, <1>7, <1>12

(* The changes of all blocks are the changes of the history.                *)
LEMMA WholeHistory ==
  ASSUME NEW blocks \in Seq(Ref), Searchable(blocks), NEW t \in Int
  PROVE  /\ AllUpto(blocks, 1 .. Len(blocks), t)
              => Len(HistoryOf(blocks)) \in UpperBounds(HistoryOf(blocks), t)
         /\ AllAfter(blocks, 1 .. Len(blocks), t) => 0 \in UpperBounds(HistoryOf(blocks), t)
<1>1. PICK h \in Seq(Int) : h = HistoryOf(blocks)
  BY HistoryType
<1>2. ASSUME NEW j \in 1 .. Len(h)
      PROVE  \E b \in 1 .. Len(blocks) : \E k \in 1 .. Len(blocks[b].times) :
               h[j] = blocks[b].times[k]
  BY <1>1, LiesIn
<1>3. ASSUME AllUpto(blocks, 1 .. Len(blocks), t)
      PROVE  Len(h) \in UpperBounds(h, t)
  <2>1. \A j \in 1 .. Len(h) : h[j] <= t
    BY <1>2, <1>3 DEF AllUpto
  <2> QED
    BY <2>1 DEF UpperBounds
<1>4. ASSUME AllAfter(blocks, 1 .. Len(blocks), t)
      PROVE  0 \in UpperBounds(h, t)
  <2>1. \A j \in 1 .. Len(h) : t < h[j]
    BY <1>2, <1>4 DEF AllAfter
  <2> QED
    BY <2>1 DEF UpperBounds
<1> QED
  BY <1>1, <1>3, <1>4

(* What the begins and the ends of the blocks tell of their changes.        *)
LEMMA WithinSpan ==
  ASSUME NEW blocks \in Seq(Ref), Searchable(blocks), NEW b \in 1 .. Len(blocks),
         NEW k \in 1 .. Len(blocks[b].times)
  PROVE  /\ blocks[b].times[k] \in Int /\ blocks[b].begin \in Int /\ blocks[b].end \in Int
         /\ blocks[b].begin <= blocks[b].times[k] /\ blocks[b].times[k] < blocks[b].end
<1>1. b \in DOMAIN blocks
  OBVIOUS
<1>2. blocks[b].times \in Seq(Int) /\ blocks[b].begin \in Int /\ blocks[b].end \in Int
  BY BlockFields
<1>3. blocks[b].times[k] \in Int
  BY <1>2
<1>4. blocks[b].begin <= blocks[b].times[k] /\ blocks[b].times[k] < blocks[b].end
  BY <1>1 DEF Searchable
<1> QED
  BY <1>2, <1>3, <1>4

(* The search over the beginnings of blocks splits them at the block      *)
(* wanted.                                                                *)
LEMMA BeginsSplit ==
  ASSUME NEW blocks \in Seq(Ref), Searchable(blocks), NEW t \in Int,
         NEW u \in UpperBounds([b \in DOMAIN blocks |-> blocks[b].begin], t)
  PROVE  /\ u \in 0 .. Len(blocks)
         /\ AllUpto(blocks, 1 .. u - 1, t)
         /\ AllAfter(blocks, u + 1 .. Len(blocks), t)
<1> DEFINE begins == [b \in DOMAIN blocks |-> blocks[b].begin]
<1>1. PICK m \in Nat : m = Len(blocks) /\ DOMAIN blocks = 1 .. m
  OBVIOUS
<1>2. \A b \in 1 .. m : blocks[b].begin \in Int
  BY <1>1, BlockFields
<1>3. Len(begins) = m /\ \A b \in 1 .. m : begins[b] = blocks[b].begin
  BY <1>1
<1>4. /\ u \in 0 .. m
      /\ \A b \in 1 .. u : blocks[b].begin <= t
      /\ \A b \in u + 1 .. m : t < blocks[b].begin
  <2>1. u \in UpperBounds(begins, t)
    OBVIOUS
  <2> HIDE DEF begins
  <2> QED
    BY <1>1, <1>3, <2>1 DEF UpperBounds
<1>5. ASSUME NEW b \in u + 1 .. m, NEW k \in 1 .. Len(blocks[b].times)
      PROVE  t < blocks[b].times[k]
  <2>1. b \in 1 .. m
    BY <1>4
  <2>2. blocks[b].begin <= blocks[b].times[k] /\ blocks[b].times[k] \in Int
        /\ blocks[b].begin \in Int
    BY <1>1, <2>1, WithinSpan
  <2> QED
    BY <1>4, <2>2
<1>6. ASSUME NEW b \in 1 .. u - 1, NEW k \in 1 .. Len(blocks[b].times)
      PROVE  blocks[b].times[k] <= t
  <2>1. u \in 1 .. m /\ u \in 1 .. u
    BY <1>4
  <2>2. blocks[b].times[k] <= blocks[u].begin /\ blocks[b].times[k] \in Int
    BY <1>1, <2>1, BlocksApart
  <2>3. blocks[u].begin <= t /\ blocks[u].begin \in Int
    BY <1>2, <1>4, <2>1
  <2> QED
    BY <2>2, <2>3
<1> QED
  BY <1>1, <1>4, <1>5, <1>6 DEF AllUpto, AllAfter

(* The first block that ends after t may itself begin before t; those       *)
(* behind it hold nothing before t.                                         *)
LEMMA EndsSplit ==
  ASSUME NEW blocks \in Seq(Ref), Searchable(blocks), NEW t \in Int,
         NEW u \in UpperBounds([b \in DOMAIN blocks |-> blocks[b].end], t)
  PROVE  /\ u \in 0 .. Len(blocks)
         /\ AllUpto(blocks, 1 .. u, t - 1)
         /\ AllAfter(blocks, u + 2 .. Len(blocks), t - 1)
<1> DEFINE ends == [b \in DOMAIN blocks |-> blocks[b].end]
<1>1. PICK m \in Nat : m = Len(blocks) /\ DOMAIN blocks = 1 .. m
  OBVIOUS
<1>2. \A b \in 1 .. m : blocks[b].begin \in Int /\ blocks[b].end \in Int
  BY <1>1, BlockFields
<1>3. Len(ends) = m /\ \A b \in 1 .. m : ends[b] = blocks[b].end
  BY <1>1
<1>4. /\ u \in 0 .. m
      /\ \A b \in 1 .. u : blocks[b].end <= t
      /\ \A b \in u + 1 .. m : t < blocks[b].end
  <2>1. u \in UpperBounds(ends, t)
    OBVIOUS
  <2> HIDE DEF ends
  <2> QED
    BY <1>1, <1>3, <2>1 DEF UpperBounds
<1>5. ASSUME NEW b \in 1 .. u, NEW k \in 1 .. Len(blocks[b].times)
      PROVE  blocks[b].times[k] <= t - 1
  <2>1. b \in 1 .. m
    BY <1>4
  <2>2. blocks[b].times[k] < blocks[b].end /\ blocks[b].times[k] \in Int
        /\ blocks[b].end \in Int
    BY <1>1, <2>1, WithinSpan
  <2>3. blocks[b].end <= t
    BY <1>4
  <2> QED
    BY <2>2, <2>3
<1>6. ASSUME NEW b \in u + 2 .. m, NEW k \in 1 .. Len(blocks[b].times)
      PROVE  t - 1 < blocks[b].times[k]
  <2>1. b \in 1 .. m /\ u + 1 \in 1 .. b - 1 /\ u + 1 \in 1 .. m /\ u + 1 \in u + 1 .. m
    BY <1>4
  <2>2. blocks[u + 1].end <= blocks[b].begin + 1
    BY <1>1, <2>1 DEF Searchable
  <2>3. t < blocks[u + 1].end /\ blocks[u + 1].end \in Int
    BY <1>2, <1>4, <2>1
  <2>4. /\ blocks[b].begin <= blocks[b].times[k]
        /\ blocks[b].times[k] \in Int /\ blocks[b].begin \in Int
    BY <1>1, <2>1, WithinSpan
  <2> QED
    BY <2>2, <2>3, <2>4
<1> QED
  BY <1>1, <1>4, <1>5, <1>6 DEF AllUpto, AllAfter

----------------------------------------------------------------------------
(* The blocks a lookup visits, from the one at hand.                        *)
LEMMA UpFrom ==
  ASSUME NEW s, NEW from \in Nat, NEW to \in Nat, from <= to
  PROVE  /\ Up(s, from, to)[1] = <<s, from>>
         /\ Len(Up(s, from, to)) = to - from + 1
         /\ Tail(Up(s, from, to)) = Up(s, from + 1, to)
<1> DEFINE V == {<<s, k>> : k \in Nat}
<1>1. PICK n \in Nat : n = to - from + 1 /\ n # 0
  OBVIOUS
<1>2. Up(s, from, to) = [k \in 1 .. n |-> <<s, from + k - 1>>]
  BY <1>1 DEF Up
<1>3. Up(s, from, to) \in [1 .. n -> V]
  <2>1. \A k \in 1 .. n : from + k - 1 \in Nat
    OBVIOUS
  <2> QED
    BY <1>2, <2>1
<1>4. PICK plan \in Seq(V) :
        /\ plan = Up(s, from, to) /\ Len(plan) = n
        /\ \A k \in 1 .. n : plan[k] = <<s, from + k - 1>>
  BY <1>2, <1>3, FunctionIsSeq
<1>5. plan[1] = <<s, from>>
  <2>1. 1 \in 1 .. n /\ from + 1 - 1 = from
    BY <1>1
  <2> QED
    BY <1>4, <2>1
<1>6. Up(s, from + 1, to) = [k \in 1 .. n - 1 |-> <<s, from + k>>]
  <2>1. to - (from + 1) + 1 = n - 1
    BY <1>1
  <2>2. \A k \in 1 .. n - 1 : from + 1 + k - 1 = from + k
    OBVIOUS
  <2> QED
    BY <2>1, <2>2 DEF Up
<1>7. Tail(plan) = [k \in 1 .. n - 1 |-> plan[k + 1]]
  <2>1. plan # <<>>
    BY <1>1, <1>4
  <2> HIDE DEF V
  <2>2. /\ Tail(plan) \in Seq(V) /\ Len(Tail(plan)) = Len(plan) - 1
        /\ \A k \in 1 .. Len(Tail(plan)) : Tail(plan)[k] = plan[k + 1]
    BY <2>1, HeadTailProperties
  <2>3. PICK rest \in Seq(V) : rest = Tail(plan)
    BY <2>2
  <2>4. DOMAIN rest = 1 .. n - 1 /\ \A k \in 1 .. n - 1 : rest[k] = plan[k + 1]
    BY <1>1, <1>4, <2>2, <2>3
  <2>5. rest \in [1 .. n - 1 -> V]
    BY <2>3, <2>4, LenProperties
  <2>6. rest = [k \in 1 .. n - 1 |-> plan[k + 1]]
    BY <2>4, <2>5
  <2> QED
    BY <2>3, <2>6
<1>8. \A k \in 1 .. n - 1 : plan[k + 1] = <<s, from + k>>
  <2>1. ASSUME NEW k \in 1 .. n - 1
        PROVE  plan[k + 1] = <<s, from + k>>
    <3>1. PICK j \in 1 .. n : j = k + 1 /\ from + j - 1 = from + k
      BY <1>1
    <3> QED
      BY <1>4, <3>1
  <2> QED
    BY <2>1
<1>9. Tail(plan) = Up(s, from + 1, to)
  BY <1>6, <1>7, <1>8
<1> QED
  BY <1>1, <1>4, <1>5, <1>9

(* A way down the blocks: its first visit and the rest.                   *)
LEMMA DownFrom ==
  ASSUME NEW s, NEW from \in Nat, NEW to \in Nat, to <= from
  PROVE  /\ Down(s, from, to)[1] = <<s, from>>
         /\ Len(Down(s, from, to)) = from - to + 1
         /\ Tail(Down(s, from, to)) = Down(s, from - 1, to)
<1> DEFINE V == {<<s, k>> : k \in Nat}
<1>1. PICK n \in Nat : n = from - to + 1 /\ n # 0
  OBVIOUS
<1>2. Down(s, from, to) = [k \in 1 .. n |-> <<s, from - k + 1>>]
  BY <1>1 DEF Down
<1>3. Down(s, from, to) \in [1 .. n -> V]
  <2>1. \A k \in 1 .. n : from - k + 1 \in Nat
    BY <1>1
  <2> QED
    BY <1>2, <2>1
<1>4. PICK plan \in Seq(V) :
        /\ plan = Down(s, from, to) /\ Len(plan) = n
        /\ \A k \in 1 .. n : plan[k] = <<s, from - k + 1>>
  BY <1>2, <1>3, FunctionIsSeq
<1>5. plan[1] = <<s, from>>
  <2>1. 1 \in 1 .. n /\ from - 1 + 1 = from
    BY <1>1
  <2> QED
    BY <1>4, <2>1
<1>6. Down(s, from - 1, to) = [k \in 1 .. n - 1 |-> <<s, from - k>>]
  <2>1. from - 1 - to + 1 = n - 1
    BY <1>1
  <2>2. \A k \in 1 .. n - 1 : from - 1 - k + 1 = from - k
    OBVIOUS
  <2> QED
    BY <2>1, <2>2 DEF Down
<1>7. Tail(plan) = [k \in 1 .. n - 1 |-> plan[k + 1]]
  <2>1. plan # <<>>
    BY <1>1, <1>4
  <2> HIDE DEF V
  <2>2. /\ Tail(plan) \in Seq(V) /\ Len(Tail(plan)) = Len(plan) - 1
        /\ \A k \in 1 .. Len(Tail(plan)) : Tail(plan)[k] = plan[k + 1]
    BY <2>1, HeadTailProperties
  <2>3. PICK rest \in Seq(V) : rest = Tail(plan)
    BY <2>2
  <2>4. DOMAIN rest = 1 .. n - 1 /\ \A k \in 1 .. n - 1 : rest[k] = plan[k + 1]
    BY <1>1, <1>4, <2>2, <2>3
  <2>5. rest \in [1 .. n - 1 -> V]
    BY <2>3, <2>4, LenProperties
  <2>6. rest = [k \in 1 .. n - 1 |-> plan[k + 1]]
    BY <2>4, <2>5
  <2> QED
    BY <2>3, <2>6
<1>8. \A k \in 1 .. n - 1 : plan[k + 1] = <<s, from - k>>
  <2>1. ASSUME NEW k \in 1 .. n - 1
        PROVE  plan[k + 1] = <<s, from - k>>
    <3>1. PICK j \in 1 .. n : j = k + 1 /\ from - j + 1 = from - k
      BY <1>1
    <3> QED
      BY <1>4, <3>1
  <2> QED
    BY <2>1
<1>9. Tail(plan) = Down(s, from - 1, to)
  BY <1>6, <1>7, <1>8
<1> QED
  BY <1>1, <1>4, <1>5, <1>9

----------------------------------------------------------------------------
(* What one block tells: either the search ends in it, or the block lies    *)
(* entirely on one side of the time sought.                                 *)
LEMMA AllOrBound ==
  ASSUME NEW blocks \in Seq(Ref), Searchable(blocks), NEW t \in Int, NEW b \in 1 .. Len(blocks)
  PROVE  /\ blocks[b].times \in Seq(Int)
         /\ \E v : v \in UpperBounds(blocks[b].times, t)
         /\ 0 \in UpperBounds(blocks[b].times, t) <=> AllAfter(blocks, {b}, t)
         /\ Len(blocks[b].times) \in UpperBounds(blocks[b].times, t) <=> AllUpto(blocks, {b}, t)
<1>1. PICK times \in Seq(Int) : times = blocks[b].times
  BY BlockFields
<1>2. b \in DOMAIN blocks
  OBVIOUS
<1>3. Ordered(times)
  BY <1>1, <1>2 DEF Searchable
<1>4. \E v : v \in UpperBounds(times, t)
  BY <1>3, UpperExists
<1>5. 0 \in UpperBounds(times, t) <=> \A k \in 1 .. Len(times) : t < times[k]
  BY DEF UpperBounds
<1>6. Len(times) \in UpperBounds(times, t) <=> \A k \in 1 .. Len(times) : times[k] <= t
  BY DEF UpperBounds
<1> QED
  BY <1>1, <1>4, <1>5, <1>6 DEF AllUpto, AllAfter

(* A change behind the time in the first block that may have one is the   *)
(* next change of the history.                                            *)
LEMMA NextInBlock ==
  ASSUME NEW blocks \in Seq(Ref), Searchable(blocks), NEW t \in Int,
         NEW b \in 1 .. Len(blocks), AllUpto(blocks, 1 .. b - 1, t),
         NEW v \in UpperBounds(blocks[b].times, t) \ {Len(blocks[b].times)}
  PROVE  \E u \in UpperBounds(HistoryOf(blocks), t) :
           /\ u # Len(HistoryOf(blocks))
           /\ HistoryOf(blocks)[u + 1] = blocks[b].times[v + 1]
<1>1. PICK times \in Seq(Int) : times = blocks[b].times
  BY BlockFields
<1>2. /\ v \in 0 .. Len(times) /\ v # Len(times)
      /\ \A k \in v + 1 .. Len(times) : t < times[k]
  BY <1>1 DEF UpperBounds
<1>3. v + 1 \in 1 .. Len(times) /\ v + 1 \in v + 1 .. Len(times)
  BY <1>2
<1>4. t < times[v + 1] /\ times[v + 1] \in Int
  BY <1>2, <1>3
<1>5. AllAfter(blocks, b + 1 .. Len(blocks), t)
  <2>1. ASSUME NEW c \in b + 1 .. Len(blocks), NEW k \in 1 .. Len(blocks[c].times)
        PROVE  t < blocks[c].times[k]
    <3>1. c \in 1 .. Len(blocks) /\ b \in 1 .. c - 1
      OBVIOUS
    <3>2. times[v + 1] <= blocks[c].times[k]
      BY <1>1, <1>3, <3>1, BlocksApart
    <3>3. blocks[c].times[k] \in Int
      BY <3>1, WithinSpan
    <3> QED
      BY <1>4, <3>2, <3>3
  <2> QED
    BY <2>1 DEF AllAfter
<1>6. PICK u : u = blocks[b].first - 1 + v /\ u \in UpperBounds(HistoryOf(blocks), t)
  BY <1>5, UpperInBlock
<1>7. /\ blocks[b].first = Marks(blocks)[b - 1] + 1 /\ blocks[b].first \in Nat
      /\ Marks(blocks)[b - 1] \in Nat
  <2>1. b - 1 \in 0 .. Len(blocks)
    OBVIOUS
  <2> QED
    BY <2>1, MarksRise, BlockFields DEF Rising
<1>8. u + 1 = Marks(blocks)[b - 1] + (v + 1) /\ u \in Nat
  <2>1. PICK x \in Nat, f \in Nat : x = Marks(blocks)[b - 1] /\ f = blocks[b].first /\ f = x + 1
    BY <1>7
  <2>2. PICK w \in Nat : w = v
    BY <1>1, <1>2, LenProperties
  <2>3. u = f - 1 + w
    BY <1>6, <2>1, <2>2
  <2>4. f - 1 + w = x + w /\ x + w \in Nat /\ x + w + 1 = x + (w + 1)
    BY <2>1, SMTT(30)
  <2> QED
    BY <2>1, <2>2, <2>3, <2>4
<1>9. /\ u + 1 \in 1 .. Len(HistoryOf(blocks))
      /\ HistoryOf(blocks)[u + 1] = blocks[b].times[v + 1]
  BY <1>1, <1>3, <1>8, HistoryType, SMTT(30)
<1>10. u # Len(HistoryOf(blocks))
  BY <1>8, <1>9
<1> QED
  BY <1>6, <1>9, <1>10

(* A change before the time in the last block that may have one is the    *)
(* previous change of the history.                                        *)
LEMMA PrevInBlock ==
  ASSUME NEW blocks \in Seq(Ref), Searchable(blocks), NEW t \in Int,
         NEW b \in 1 .. Len(blocks), AllAfter(blocks, b + 1 .. Len(blocks), t),
         NEW v \in UpperBounds(blocks[b].times, t) \ {0}
  PROVE  \E u \in UpperBounds(HistoryOf(blocks), t) :
           u # 0 /\ HistoryOf(blocks)[u] = blocks[b].times[v]
<1>1. PICK times \in Seq(Int) : times = blocks[b].times
  BY BlockFields
<1>2. /\ v \in 1 .. Len(times) /\ v \in 1 .. v
      /\ \A k \in 1 .. v : times[k] <= t
  BY <1>1 DEF UpperBounds
<1>3. times[v] <= t /\ times[v] \in Int
  BY <1>2
<1>4. AllUpto(blocks, 1 .. b - 1, t)
  <2>1. ASSUME NEW c \in 1 .. b - 1, NEW k \in 1 .. Len(blocks[c].times)
        PROVE  blocks[c].times[k] <= t
    <3>1. blocks[c].times[k] <= times[v] /\ blocks[c].times[k] \in Int
      BY <1>1, <1>2, BlocksApart
    <3> QED
      BY <1>3, <3>1
  <2> QED
    BY <2>1 DEF AllUpto
<1>5. PICK u : u = blocks[b].first - 1 + v /\ u \in UpperBounds(HistoryOf(blocks), t)
  BY <1>4, UpperInBlock
<1>6. /\ blocks[b].first = Marks(blocks)[b - 1] + 1 /\ blocks[b].first \in Nat
      /\ Marks(blocks)[b - 1] \in Nat
  <2>1. b - 1 \in 0 .. Len(blocks)
    OBVIOUS
  <2> QED
    BY <2>1, MarksRise, BlockFields DEF Rising
<1>7. u = Marks(blocks)[b - 1] + v /\ u # 0
  BY <1>2, <1>5, <1>6
<1>8. HistoryOf(blocks)[u] = blocks[b].times[v]
  BY <1>1, <1>2, <1>7, HistoryType
<1> QED
  BY <1>5, <1>7, <1>8

(* What holds of the blocks of two ranges holds of both together.         *)
LEMMA AllJoin ==
  ASSUME NEW blocks, NEW t, NEW A, NEW B
  PROVE  /\ AllUpto(blocks, A, t) /\ AllUpto(blocks, B, t) => AllUpto(blocks, A \cup B, t)
         /\ AllAfter(blocks, A, t) /\ AllAfter(blocks, B, t) => AllAfter(blocks, A \cup B, t)
BY DEF AllUpto, AllAfter

----------------------------------------------------------------------------
(* What the contract allows a lookup to answer.                             *)
Promised(op, h, t) ==
  CASE op = "valueAt"    -> UpperBounds(h, t)
    [] op = "nextChange" -> {IF u = Len(h) THEN NoTime ELSE h[u + 1] : u \in UpperBounds(h, t)}
    [] op = "prevChange" -> {IF u = 0 THEN NoTime ELSE h[u] : u \in LowerBounds(h, t)}

(* What is known of the blocks a lookup does not visit any more, or never,  *)
(* when it is about to visit the b-th, and which it still has to visit.     *)
Narrowed(op, blocks, b, t) ==
  CASE op = "valueAt"    -> /\ AllUpto(blocks, 1 .. b - 1, t)
                            /\ AllAfter(blocks, b + 1 .. Len(blocks), t)
    [] op = "carry"      -> /\ AllUpto(blocks, 1 .. b, t)
                            /\ AllAfter(blocks, b + 1 .. Len(blocks), t)
    [] op = "nextChange" -> AllUpto(blocks, 1 .. b - 1, t)
    [] op = "prevChange" -> AllAfter(blocks, b + 1 .. Len(blocks), t - 1)

Itinerary(op, s, b, m) ==
  CASE op = "valueAt"    -> Down(s, b, AtLeast(b - 1, 1))
    [] op = "carry"      -> Down(s, b, b)
    [] op = "nextChange" -> Up(s, b, m)
    [] op = "prevChange" -> Down(s, b, 1)

Searches == Lookups \cup {"carry"}

(* The visits that are planned begin with the block that is next.         *)
LEMMA ItineraryHead ==
  ASSUME NEW op \in Searches, NEW s, NEW m \in Nat, NEW b \in 1 .. m
  PROVE  Itinerary(op, s, b, m) # <<>> /\ Itinerary(op, s, b, m)[1] = <<s, b>>
<1>1. b \in Nat /\ b <= m /\ 1 <= b
  OBVIOUS
<1>2. /\ Len(Up(s, b, m)) = m - b + 1 /\ Up(s, b, m)[1] = <<s, b>>
  BY <1>1, UpFrom
<1>3. ASSUME NEW to \in 1 .. b
      PROVE  Len(Down(s, b, to)) = b - to + 1 /\ Down(s, b, to)[1] = <<s, b>>
  <2>1. to \in Nat /\ to <= b
    OBVIOUS
  <2> QED
    BY <1>1, <2>1, DownFrom
<1>4. Up(s, b, m) # <<>>
  BY <1>1, <1>2
<1>5. \A to \in 1 .. b : Down(s, b, to) # <<>>
  BY <1>1, <1>3
<1>6. 1 \in 1 .. b /\ b \in 1 .. b /\ AtLeast(b - 1, 1) \in 1 .. b
  BY <1>1 DEF AtLeast
<1>7. CASE op = "valueAt"
  BY <1>3, <1>5, <1>6, <1>7 DEF Itinerary
<1>8. CASE op = "carry"
  BY <1>3, <1>5, <1>6, <1>8 DEF Itinerary
<1>9. CASE op = "nextChange"
  BY <1>2, <1>4, <1>9 DEF Itinerary
<1>10. CASE op = "prevChange"
  BY <1>3, <1>5, <1>6, <1>10 DEF Itinerary
<1> QED
  BY <1>7, <1>8, <1>9, <1>10 DEF Searches, Lookups

(* A block that answers gives what the whole history gives.                 *)
LEMMA BlockAnswers ==
  ASSUME NEW op \in Searches, NEW blocks \in Seq(Ref), Searchable(blocks), NEW t \in Int,
         NEW b \in 1 .. Len(blocks), Narrowed(op, blocks, b, t),
         NEW r \in Results(op, Content(blocks[b]), t)
  PROVE  r \in Promised(Public(op), HistoryOf(blocks), t)
<1> DEFINE ref   == blocks[b]
           times == blocks[b].times
           h     == HistoryOf(blocks)
<1>1. Content(ref).times = times /\ Content(ref).first = ref.first
  BY DEF Content
<1>2. times \in Seq(Int) /\ ref.first \in Nat /\ Len(times) \in Nat \ {0}
  BY BlockFields
<1>3. t - 1 \in Int
  OBVIOUS
<1>4. CASE op = "valueAt"
  <2>1. PICK u \in UpperBounds(times, t) \ {0} : r = ref.first + u - 1
    BY <1>1, <1>4 DEF Results
  <2>2. ref.first - 1 + u \in UpperBounds(h, t) /\ u \in 0 .. Len(times)
    BY <1>4, UpperInBlock DEF Narrowed
  <2>3. PICK f \in Nat, w \in Nat : f = ref.first /\ w = u
    BY <1>2, <2>2
  <2>4. f + w - 1 = f - 1 + w
    BY <2>3
  <2> QED
    BY <1>4, <2>1, <2>2, <2>3, <2>4 DEF Promised, Public
<1>5. CASE op = "carry"
  <2>1. r = ref.first + Len(times) - 1
    BY <1>1, <1>5 DEF Results
  <2>2. /\ AllUpto(blocks, {b}, t) /\ AllUpto(blocks, 1 .. b - 1, t)
        /\ AllAfter(blocks, b + 1 .. Len(blocks), t)
    BY <1>5 DEF Narrowed, AllUpto
  <2>3. Len(times) \in UpperBounds(times, t)
    BY <2>2, AllOrBound
  <2>4. ref.first - 1 + Len(times) \in UpperBounds(h, t)
    BY <2>2, <2>3, UpperInBlock
  <2>5. PICK f \in Nat, w \in Nat : f = ref.first /\ w = Len(times)
    BY <1>2
  <2>6. f + w - 1 = f - 1 + w
    BY <2>5, SMTT(30)
  <2> QED
    BY <1>5, <2>1, <2>4, <2>5, <2>6 DEF Promised, Public
<1>6. CASE op = "nextChange"
  <2>1. PICK v \in UpperBounds(times, t) \ {Len(times)} : r = times[v + 1]
    BY <1>1, <1>6 DEF Results
  <2>2. AllUpto(blocks, 1 .. b - 1, t)
    BY <1>6 DEF Narrowed
  <2>3. PICK u \in UpperBounds(h, t) : u # Len(h) /\ h[u + 1] = times[v + 1]
    BY <2>2, NextInBlock
  <2> QED
    BY <1>6, <2>1, <2>3 DEF Promised, Public
<1>7. CASE op = "prevChange"
  <2>1. PICK v \in LowerBounds(times, t) \ {0} : r = times[v]
    BY <1>1, <1>7 DEF Results
  <2>2. LowerBounds(times, t) = UpperBounds(times, t - 1)
    BY <1>2, LowerIsUpper
  <2>3. LowerBounds(h, t) = UpperBounds(h, t - 1)
    BY HistoryType, LowerIsUpper
  <2>4. AllAfter(blocks, b + 1 .. Len(blocks), t - 1)
    BY <1>7 DEF Narrowed
  <2>5. v \in UpperBounds(times, t - 1) \ {0}
    BY <2>2
  <2>6. PICK u \in UpperBounds(h, t - 1) : u # 0 /\ h[u] = times[v]
    BY <1>3, <2>4, <2>5, PrevInBlock
  <2> QED
    BY <1>7, <2>1, <2>3, <2>6 DEF Promised, Public
<1> QED
  BY <1>4, <1>5, <1>6, <1>7 DEF Searches, Lookups

(* A block that does not answer narrows the search to the next, and after   *)
(* the last one the history has no answer.                                  *)
Following(op) == IF op = "valueAt" THEN "carry" ELSE op
NextBlock(op, b) == IF op = "nextChange" THEN b + 1 ELSE b - 1
LastBlock(op, m) == IF op = "nextChange" THEN m ELSE 1

Onward(op, s, b, m, todo) ==
  /\ b = LastBlock(op, m) => Len(todo) = 1
  /\ b # LastBlock(op, m) =>
       /\ NextBlock(op, b) \in 1 .. m
       /\ Len(todo) > 1
       /\ Tail(todo) = Itinerary(Following(op), s, NextBlock(op, b), m)

(* After a visit, the visits left are those of the search from the next   *)
(* block.                                                                 *)
LEMMA ItineraryTail ==
  ASSUME NEW op \in Lookups, NEW s, NEW m \in Nat, NEW b \in 1 .. m
  PROVE  Onward(op, s, b, m, Itinerary(op, s, b, m))
<1> USE DEF Onward
<1>1. b \in Nat /\ b <= m /\ 1 <= b
  OBVIOUS
<1>2. /\ Len(Up(s, b, m)) = m - b + 1 /\ Tail(Up(s, b, m)) = Up(s, b + 1, m)
  BY <1>1, UpFrom
<1>3. ASSUME NEW to \in 1 .. b
      PROVE  Len(Down(s, b, to)) = b - to + 1 /\ Tail(Down(s, b, to)) = Down(s, b - 1, to)
  <2>1. to \in Nat /\ to <= b
    OBVIOUS
  <2> QED
    BY <1>1, <2>1, DownFrom
<1>4. CASE op = "valueAt"
  <2>1. /\ Itinerary(op, s, b, m) = Down(s, b, AtLeast(b - 1, 1))
        /\ LastBlock(op, m) = 1 /\ NextBlock(op, b) = b - 1
        /\ Following(op) = "carry"
        /\ Itinerary("carry", s, b - 1, m) = Down(s, b - 1, b - 1)
    BY <1>4 DEF Itinerary, LastBlock, NextBlock, Following
  <2>2. CASE b = 1
    <3>1. AtLeast(b - 1, 1) = 1 /\ 1 \in 1 .. b
      BY <2>2 DEF AtLeast
    <3>2. Len(Itinerary(op, s, b, m)) = b - 1 + 1
      BY <1>3, <2>1, <3>1
    <3> QED
      BY <2>1, <2>2, <3>2
  <2>3. CASE b # 1
    <3>1. AtLeast(b - 1, 1) = b - 1 /\ b - 1 \in 1 .. b /\ b - 1 \in 1 .. m
      BY <1>1, <2>3 DEF AtLeast
    <3>2. /\ Len(Itinerary(op, s, b, m)) = b - (b - 1) + 1
          /\ Tail(Itinerary(op, s, b, m)) = Down(s, b - 1, b - 1)
      BY <1>3, <2>1, <3>1
    <3>3. b - (b - 1) + 1 > 1
      BY <1>1
    <3> QED
      BY <2>1, <2>3, <3>1, <3>2, <3>3
  <2> QED
    BY <2>2, <2>3
<1>5. CASE op = "nextChange"
  <2>1. /\ Itinerary(op, s, b, m) = Up(s, b, m)
        /\ LastBlock(op, m) = m /\ NextBlock(op, b) = b + 1
        /\ Following(op) = op
        /\ Itinerary(op, s, b + 1, m) = Up(s, b + 1, m)
    BY <1>5 DEF Itinerary, LastBlock, NextBlock, Following
  <2>2. /\ b = m => m - b + 1 = 1
        /\ b # m => m - b + 1 > 1 /\ b + 1 \in 1 .. m
    BY <1>1
  <2> QED
    BY <1>2, <2>1, <2>2
<1>6. CASE op = "prevChange"
  <2>1. /\ Itinerary(op, s, b, m) = Down(s, b, 1)
        /\ LastBlock(op, m) = 1 /\ NextBlock(op, b) = b - 1
        /\ Following(op) = op
        /\ Itinerary(op, s, b - 1, m) = Down(s, b - 1, 1)
    BY <1>6 DEF Itinerary, LastBlock, NextBlock, Following
  <2>2. /\ b = 1 => b - 1 + 1 = 1
        /\ b # 1 => b - 1 + 1 > 1 /\ b - 1 \in 1 .. m
        /\ 1 \in 1 .. b
    BY <1>1
  <2> QED
    BY <1>3, <2>1, <2>2
<1> QED
  BY <1>4, <1>5, <1>6 DEF Lookups

(* A block without an answer narrows the search to the next, or was the   *)
(* last and there is none.                                                *)
LEMMA BlockSilent ==
  ASSUME NEW op \in Searches, NEW blocks \in Seq(Ref), Searchable(blocks), NEW t \in Int,
         NEW b \in 1 .. Len(blocks), Narrowed(op, blocks, b, t),
         Results(op, Content(blocks[b]), t) = {}
  PROVE  /\ op \in Lookups
         /\ b = LastBlock(op, Len(blocks)) => Missing(op) \in Promised(op, HistoryOf(blocks), t)
         /\ b # LastBlock(op, Len(blocks)) => Narrowed(Following(op), blocks, NextBlock(op, b), t)
<1> DEFINE ref   == blocks[b]
           times == blocks[b].times
           h     == HistoryOf(blocks)
           m     == Len(blocks)
<1>1. Content(ref).times = times /\ Content(ref).first = ref.first
  BY DEF Content
<1>2. times \in Seq(Int) /\ ref.first \in Nat /\ Len(times) \in Nat \ {0}
  BY BlockFields
<1>3. t - 1 \in Int /\ m \in Nat /\ b \in Nat /\ 1 <= b /\ b <= m
  OBVIOUS
<1>4. op \in Lookups
  <2>1. times # <<>>
    BY <1>2
  <2>2. ASSUME op = "carry"
        PROVE  Results(op, Content(ref), t) = {Content(ref).first + Len(Content(ref).times) - 1}
    BY <1>1, <2>1, <2>2 DEF Results
  <2> QED
    BY <2>2 DEF Searches
<1>5. CASE op = "valueAt"
  <2>1. 0 \in UpperBounds(times, t)
    BY <1>1, <1>5, AllOrBound DEF Results
  <2>2. AllAfter(blocks, {b}, t)
    BY <2>1, AllOrBound
  <2>3. AllUpto(blocks, 1 .. b - 1, t) /\ AllAfter(blocks, b + 1 .. m, t)
    BY <1>5 DEF Narrowed
  <2>4. {b} \cup (b + 1 .. m) = b .. m
    BY <1>3
  <2>5. AllAfter(blocks, b .. m, t)
    <3>1. AllAfter(blocks, {b} \cup (b + 1 .. m), t)
      BY <2>2, <2>3, AllJoin
    <3> QED
      BY <2>4, <3>1
  <2>6. ASSUME b = 1
        PROVE  Missing(op) \in Promised(op, h, t)
    <3>1. 0 \in UpperBounds(h, t)
      BY <2>5, <2>6, WholeHistory
    <3> QED
      BY <1>5, <3>1 DEF Promised, Missing
  <2>7. Narrowed("carry", blocks, b - 1, t)
    <3>1. b - 1 + 1 = b
      BY <1>3
    <3> QED
      BY <2>3, <2>5, <3>1 DEF Narrowed
  <2> QED
    BY <1>4, <1>5, <2>6, <2>7 DEF LastBlock, NextBlock, Following
<1>6. CASE op = "nextChange"
  <2>1. Len(times) \in UpperBounds(times, t)
    BY <1>1, <1>6, AllOrBound DEF Results
  <2>2. AllUpto(blocks, {b}, t)
    BY <2>1, AllOrBound
  <2>3. (1 .. b - 1) \cup {b} = 1 .. b
    BY <1>3
  <2>4. AllUpto(blocks, 1 .. b, t)
    BY <1>6, <2>2, <2>3, AllJoin DEF Narrowed
  <2>5. ASSUME b = m
        PROVE  Missing(op) \in Promised(op, h, t)
    <3>1. Len(h) \in UpperBounds(h, t)
      BY <2>4, <2>5, WholeHistory
    <3>2. NoTime \in {IF u = Len(h) THEN NoTime ELSE h[u + 1] : u \in UpperBounds(h, t)}
      BY <3>1
    <3> QED
      BY <1>6, <3>2 DEF Promised, Missing
  <2>6. Narrowed(op, blocks, b + 1, t)
    <3>1. b + 1 - 1 = b
      BY <1>3
    <3> QED
      BY <1>6, <2>4, <3>1 DEF Narrowed
  <2> QED
    BY <1>4, <1>6, <2>5, <2>6 DEF LastBlock, NextBlock, Following
<1>7. CASE op = "prevChange"
  <2>1. LowerBounds(times, t) = UpperBounds(times, t - 1)
    BY <1>2, LowerIsUpper
  <2>2. LowerBounds(h, t) = UpperBounds(h, t - 1)
    BY HistoryType, LowerIsUpper
  <2>3. 0 \in UpperBounds(times, t - 1)
    BY <1>1, <1>3, <1>7, <2>1, AllOrBound DEF Results
  <2>4. AllAfter(blocks, {b}, t - 1)
    BY <1>3, <2>3, AllOrBound
  <2>5. {b} \cup (b + 1 .. m) = b .. m
    BY <1>3
  <2>6. AllAfter(blocks, b .. m, t - 1)
    BY <1>7, <2>4, <2>5, AllJoin DEF Narrowed
  <2>7. ASSUME b = 1
        PROVE  Missing(op) \in Promised(op, h, t)
    <3>1. 0 \in LowerBounds(h, t)
      BY <1>3, <2>2, <2>6, <2>7, WholeHistory
    <3>2. NoTime \in {IF u = 0 THEN NoTime ELSE h[u] : u \in LowerBounds(h, t)}
      BY <3>1
    <3> QED
      BY <1>7, <3>2 DEF Promised, Missing
  <2>8. Narrowed(op, blocks, b - 1, t)
    <3>1. b - 1 + 1 = b
      BY <1>3
    <3> QED
      BY <1>7, <2>6, <3>1 DEF Narrowed
  <2> QED
    BY <1>4, <1>7, <2>7, <2>8 DEF LastBlock, NextBlock, Following
<1> QED
  BY <1>4, <1>5, <1>6, <1>7 DEF Lookups

(* The blocks that a lookup plans to visit.                                 *)
LEMMA StreamBlocks ==
  ASSUME index \in Layouts, NEW s \in Streams
  PROVE  index[s] \in Seq(Ref) /\ Searchable(index[s]) /\ DataHistory[s] = HistoryOf(index[s])
BY LayoutsAssumption DEF DataHistory, HistoryIn

(* What a lookup plans at first leaves out only blocks that cannot        *)
(* matter.                                                                *)
LEMMA PlanNarrows ==
  ASSUME index \in Layouts, NEW s \in Streams, NEW t \in Int, NEW op \in Lookups,
         NEW plan \in Plans(op, s, t)
  PROVE  /\ plan = <<>> => Missing(op) \in Promised(op, HistoryOf(index[s]), t)
         /\ plan # <<>> => \E b \in 1 .. Len(index[s]) :
                             /\ plan = Itinerary(op, s, b, Len(index[s]))
                             /\ Narrowed(op, index[s], b, t)
<1>1. PICK blocks \in Seq(Ref) : blocks = index[s] /\ Searchable(blocks)
  BY StreamBlocks
<1> DEFINE h == HistoryOf(blocks)
           m == Len(blocks)
<1>2. m \in Nat /\ t - 1 \in Int
  OBVIOUS
<1>3. /\ Begins(s) = [b \in DOMAIN blocks |-> blocks[b].begin]
      /\ Ends(s) = [b \in DOMAIN blocks |-> blocks[b].end]
  BY <1>1 DEF Begins, Ends
<1>4. LowerBounds(h, t) = UpperBounds(h, t - 1)
  BY HistoryType, LowerIsUpper, <1>1
<1>5. LowerBounds(Begins(s), t) = UpperBounds(Begins(s), t - 1)
  <2>1. \A b \in 1 .. m : blocks[b].begin \in Int
    BY <1>1, BlockFields
  <2>2. Begins(s) = [b \in 1 .. m |-> blocks[b].begin]
    BY <1>3
  <2>3. Begins(s) \in Seq(Int)
    BY <1>2, <2>1, <2>2, FunctionIsSeq
  <2> QED
    BY <2>3, LowerIsUpper
<1>6. CASE op = "valueAt"
  <2>1. PICK u \in UpperBounds(Begins(s), t) : plan = Down(s, u, AtLeast(u - 1, 1))
    BY <1>6 DEF Plans
  <2>2. /\ u \in 0 .. m
        /\ AllUpto(blocks, 1 .. u - 1, t) /\ AllAfter(blocks, u + 1 .. m, t)
    BY <1>1, <1>3, <2>1, BeginsSplit
  <2>3. CASE u = 0
    <3>1. plan = <<>>
      BY <2>1, <2>3 DEF Down, AtLeast
    <3>2. 0 \in UpperBounds(h, t)
      BY <1>1, <2>2, <2>3, WholeHistory
    <3>3. Missing(op) \in Promised(op, h, t)
      BY <1>6, <3>2 DEF Missing, Promised
    <3> QED
      BY <1>1, <3>1, <3>3
  <2>4. CASE u # 0
    <3>1. plan = Itinerary(op, s, u, m) /\ Narrowed(op, blocks, u, t) /\ u \in 1 .. m
      BY <1>6, <2>1, <2>2, <2>4 DEF Itinerary, Narrowed
    <3>2. plan # <<>>
      BY <1>2, <3>1, ItineraryHead DEF Searches
    <3> QED
      BY <1>1, <3>1, <3>2
  <2> QED
    BY <2>3, <2>4
<1>7. CASE op = "nextChange"
  <2>1. PICK u \in UpperBounds(Ends(s), t) : plan = Up(s, u + 1, m)
    BY <1>1, <1>7 DEF Plans
  <2>2. u \in 0 .. m /\ AllUpto(blocks, 1 .. u, t - 1)
    BY <1>1, <1>3, <2>1, EndsSplit
  <2>3. AllUpto(blocks, 1 .. u, t)
    <3>1. ASSUME NEW b \in 1 .. u, NEW k \in 1 .. Len(blocks[b].times)
          PROVE  blocks[b].times[k] <= t
      <4>1. blocks[b].times[k] <= t - 1
        BY <2>2 DEF AllUpto
      <4>2. b \in 1 .. m
        BY <2>2
      <4>3. blocks[b].times[k] \in Int
        BY <1>1, <4>2, WithinSpan
      <4> QED
        BY <4>1, <4>3
    <3> QED
      BY <3>1 DEF AllUpto
  <2>4. CASE u = m
    <3>1. plan = <<>>
      BY <1>2, <2>1, <2>4 DEF Up
    <3>2. Len(h) \in UpperBounds(h, t)
      BY <1>1, <2>3, <2>4, WholeHistory
    <3>3. NoTime \in {IF v = Len(h) THEN NoTime ELSE h[v + 1] : v \in UpperBounds(h, t)}
      BY <3>2
    <3>4. Missing(op) \in Promised(op, h, t)
      BY <1>7, <3>3 DEF Missing, Promised
    <3> QED
      BY <1>1, <3>1, <3>4
  <2>5. CASE u # m
    <3>1. PICK b \in 1 .. m : b = u + 1 /\ b - 1 = u
      BY <1>2, <2>2, <2>5
    <3>2. plan = Itinerary(op, s, b, m) /\ Narrowed(op, blocks, b, t)
      BY <1>7, <2>1, <2>3, <3>1 DEF Itinerary, Narrowed
    <3>3. plan # <<>>
      BY <1>2, <3>2, ItineraryHead DEF Searches
    <3> QED
      BY <1>1, <3>2, <3>3
  <2> QED
    BY <2>4, <2>5
<1>8. CASE op = "prevChange"
  <2>1. PICK u \in UpperBounds(Begins(s), t - 1) : plan = Down(s, u, 1)
    BY <1>5, <1>8 DEF Plans
  <2>2. u \in 0 .. m /\ AllAfter(blocks, u + 1 .. m, t - 1)
    BY <1>1, <1>2, <1>3, <2>1, BeginsSplit
  <2>3. CASE u = 0
    <3>1. plan = <<>>
      BY <2>1, <2>3 DEF Down
    <3>2. 0 \in LowerBounds(h, t)
      BY <1>1, <1>2, <1>4, <2>2, <2>3, WholeHistory
    <3>3. NoTime \in {IF v = 0 THEN NoTime ELSE h[v] : v \in LowerBounds(h, t)}
      BY <3>2
    <3>4. Missing(op) \in Promised(op, h, t)
      BY <1>8, <3>3 DEF Missing, Promised
    <3> QED
      BY <1>1, <3>1, <3>4
  <2>4. CASE u # 0
    <3>1. plan = Itinerary(op, s, u, m) /\ Narrowed(op, blocks, u, t) /\ u \in 1 .. m
      BY <1>8, <2>1, <2>2, <2>4 DEF Itinerary, Narrowed
    <3>2. plan # <<>>
      BY <1>2, <3>1, ItineraryHead DEF Searches
    <3> QED
      BY <1>1, <3>1, <3>2
  <2> QED
    BY <2>3, <2>4
<1> QED
  BY <1>6, <1>7, <1>8 DEF Lookups

----------------------------------------------------------------------------
(* Cursors.  What is known of the changes in the blocks that a cursor will  *)
(* not read, or has not read yet, and how many changes lie behind it.       *)
NoneBetween(blocks, begin, end) ==
  \A b \in 1 .. Len(blocks) : \A k \in 1 .. Len(blocks[b].times) :
    blocks[b].times[k] < begin \/ end <= blocks[b].times[k]

Fresh(c, blocks) ==
  IF c.last = 0
  THEN c.block = 1 /\ NoneBetween(blocks, c.begin, c.end)
  ELSE /\ c.block <= c.last
       /\ AllUpto(blocks, 1 .. c.block - 1, c.begin - 1)
       /\ AllAfter(blocks, c.block + 1 .. Len(blocks), c.begin - 1)
       /\ AllAfter(blocks, c.last + 1 .. Len(blocks), c.end - 1)

Reading(c, blocks) ==
  /\ c.last # 0
  /\ AllAfter(blocks, c.last + 1 .. Len(blocks), c.end - 1)
  /\ c.pos <= Len(c.cur.times)
  /\ AtBlockEnd(c) \/ c.cur = Content(blocks[AtMost(c.block, c.last)])

Sound(c, blocks) ==
  /\ c \in Cursor /\ c.block # 0 /\ c.last <= Len(blocks)
  /\ IF c.loaded THEN Reading(c, blocks) ELSE Fresh(c, blocks)

Start(blocks, t) == CHOOSE p \in LowerBounds(HistoryOf(blocks), t) : TRUE

BehindIn(c, blocks) ==
  IF ~c.loaded THEN Start(blocks, c.begin)
  ELSE IF AtBlockEnd(c) THEN Marks(blocks)[AtMost(c.block, c.last)]
  ELSE Marks(blocks)[AtMost(c.block, c.last) - 1] + c.pos

(* A cursor starts at the first change not before its time.               *)
LEMMA StartIsBound ==
  ASSUME NEW blocks \in Seq(Ref), Searchable(blocks), NEW t \in Int
  PROVE  /\ Start(blocks, t) \in LowerBounds(HistoryOf(blocks), t)
         /\ \A p \in LowerBounds(HistoryOf(blocks), t) : p = Start(blocks, t)
         /\ LowerBounds(HistoryOf(blocks), t) = UpperBounds(HistoryOf(blocks), t - 1)
<1> DEFINE h == HistoryOf(blocks)
<1>1. h \in Seq(Int) /\ Ordered(h)
  BY HistoryType, HistoryOrdered
<1>2. LowerBounds(h, t) = UpperBounds(h, t - 1) /\ t - 1 \in Int
  BY <1>1, LowerIsUpper
<1>3. \E p : p \in LowerBounds(h, t)
  BY <1>1, <1>2, UpperExists
<1>4. Start(blocks, t) \in LowerBounds(h, t)
  BY <1>3 DEF Start
<1>5. \A p \in LowerBounds(h, t) : p = Start(blocks, t)
  BY <1>1, <1>2, <1>4, UpperUnique
<1> QED
  BY <1>2, <1>4, <1>5

(* A cursor with a block loaded stands within a block of the index.       *)
LEMMA ReadingBlock ==
  ASSUME NEW blocks \in Seq(Ref), Searchable(blocks), NEW c, Sound(c, blocks), c.loaded
  PROVE  \E b \in 1 .. Len(blocks) :
           /\ b = AtMost(c.block, c.last) /\ b <= c.last /\ c.last \in 1 .. Len(blocks)
           /\ Marks(blocks)[b] \in Nat /\ Marks(blocks)[b - 1] \in Nat
           /\ blocks[b].first = Marks(blocks)[b - 1] + 1
           /\ Marks(blocks)[b] = Marks(blocks)[b - 1] + Len(blocks[b].times)
<1>1. c.block \in Nat \ {0} /\ c.last \in 1 .. Len(blocks)
  BY DEF Sound, Cursor, Reading
<1>2. PICK b \in 1 .. Len(blocks) : b = AtMost(c.block, c.last) /\ b <= c.last
  BY <1>1 DEF AtMost
<1>3. b \in 0 .. Len(blocks) /\ b - 1 \in 0 .. Len(blocks)
  OBVIOUS
<1>4. Marks(blocks)[b] \in Nat /\ Marks(blocks)[b - 1] \in Nat
  BY <1>3, MarksRise DEF Rising
<1>5. /\ blocks[b].first = Marks(blocks)[b - 1] + 1
      /\ Marks(blocks)[b] = Marks(blocks)[b - 1] + Len(blocks[b].times)
  BY MarksRise
<1> QED
  BY <1>1, <1>2, <1>4, <1>5

(* The place of a cursor, counted from the index as it is.                *)
LEMMA BehindIsIn ==
  ASSUME index \in Layouts, NEW c, c \in Cursor, Sound(c, index[c.stream])
  PROVE  Behind(c) = BehindIn(c, index[c.stream])
<1>1. PICK blocks \in Seq(Ref) :
        /\ blocks = index[c.stream] /\ Searchable(blocks)
        /\ DataHistory[c.stream] = HistoryOf(blocks)
  BY StreamBlocks DEF Cursor
<1>2. CASE ~c.loaded
  BY <1>1, <1>2 DEF Behind, BehindIn, Start
<1>3. CASE c.loaded
  <2>1. PICK b \in 1 .. Len(blocks) :
           /\ b = AtMost(c.block, c.last)
           /\ Marks(blocks)[b] \in Nat /\ Marks(blocks)[b - 1] \in Nat
           /\ blocks[b].first = Marks(blocks)[b - 1] + 1
           /\ Marks(blocks)[b] = Marks(blocks)[b - 1] + Len(blocks[b].times)
    BY <1>1, <1>3, ReadingBlock
  <2>2. blocks[b].first - 1 = Marks(blocks)[b - 1]
    BY <2>1
  <2>3. CASE AtBlockEnd(c)
    BY <1>1, <1>3, <2>1, <2>2, <2>3 DEF Behind, BehindIn
  <2>4. CASE ~AtBlockEnd(c)
    <3>1. c.cur.first = blocks[b].first
      BY <1>1, <1>3, <2>1, <2>4 DEF Sound, Reading, Content
    <3> QED
      BY <1>1, <1>3, <2>1, <2>2, <2>4, <3>1 DEF Behind, BehindIn
  <2> QED
    BY <2>3, <2>4
<1> QED
  BY <1>2, <1>3

(* next() gives the change behind which the cursor stands.                  *)
LEMMA CursorInBlock ==
  ASSUME NEW blocks \in Seq(Ref), Searchable(blocks), NEW c, Sound(c, blocks), ~AtBlockEnd(c)
  PROVE  LET p == BehindIn(c, blocks) + 1
             h == HistoryOf(blocks)
             new == [c EXCEPT !.pos = @ + 1]
         IN /\ p \in 1 .. Len(h) /\ h[p] \in Int
            /\ h[p] = c.cur.times[c.pos + 1] /\ p = c.cur.first + c.pos
            /\ Sound(new, blocks) /\ BehindIn(new, blocks) = p
<1> DEFINE h == HistoryOf(blocks)
           new == [c EXCEPT !.pos = @ + 1]
<1>1. c.loaded /\ c.pos # Len(c.cur.times) /\ c \in Cursor
  BY DEF AtBlockEnd, Sound
<1>2. PICK b \in 1 .. Len(blocks) :
        /\ b = AtMost(c.block, c.last)
        /\ Marks(blocks)[b] \in Nat /\ Marks(blocks)[b - 1] \in Nat
        /\ blocks[b].first = Marks(blocks)[b - 1] + 1
        /\ Marks(blocks)[b] = Marks(blocks)[b - 1] + Len(blocks[b].times)
  BY <1>1, ReadingBlock
<1>3. c.cur = Content(blocks[b]) /\ c.pos <= Len(c.cur.times) /\ c.pos \in Nat
  BY <1>1, <1>2 DEF Sound, Reading, Cursor
<1>4. PICK n \in Nat : n = Len(blocks[b].times)
  BY BlockFields
<1>5. /\ c.cur.times = blocks[b].times /\ c.cur.first = blocks[b].first
  BY <1>3 DEF Content
<1>6. PICK k \in 1 .. n : k = c.pos + 1 /\ k = c.pos + 1 /\ c.pos = k - 1
  BY <1>1, <1>3, <1>4, <1>5
<1>7. PICK x \in Nat : x = Marks(blocks)[b - 1]
  BY <1>2
<1>8. /\ x + k \in 1 .. Len(h) /\ h[x + k] = blocks[b].times[k]
  BY <1>4, <1>6, <1>7, HistoryType
<1>9. h[x + k] \in Int
  BY <1>8, HistoryType
<1>10. BehindIn(c, blocks) = x + c.pos
  BY <1>1, <1>2, <1>7 DEF BehindIn
<1>11. BehindIn(c, blocks) + 1 = x + k
  BY <1>6, <1>7, <1>10
<1>12. c.cur.first + c.pos = x + k
  <2>1. PICK f \in Nat, y \in Nat : f = c.cur.first /\ f = x + 1 /\ y = c.pos /\ k = y + 1
    BY <1>2, <1>3, <1>5, <1>6, <1>7
  <2>2. f + y = x + k
    BY <1>7, <2>1, SMTT(30)
  <2> QED
    BY <2>1, <2>2
<1>13. /\ new \in Cursor /\ new.pos = k /\ new.cur = c.cur /\ new.loaded
       /\ new.block = c.block /\ new.last = c.last /\ new.end = c.end
  BY <1>1, <1>6 DEF Cursor
<1>14. AtMost(new.block, new.last) = b
  BY <1>2, <1>13
<1> HIDE DEF new
<1>15. Sound(new, blocks)
  <2>1. Reading(new, blocks)
    BY <1>1, <1>2, <1>3, <1>4, <1>5, <1>13, <1>14 DEF Sound, Reading
  <2> QED
    BY <1>13, <2>1 DEF Sound
<1>16. BehindIn(new, blocks) = x + k
  <2>1. CASE k = n
    <3>1. AtBlockEnd(new)
      BY <1>4, <1>5, <1>13, <2>1 DEF AtBlockEnd
    <3> QED
      BY <1>2, <1>4, <1>7, <1>13, <1>14, <2>1, <3>1 DEF BehindIn
  <2>2. CASE k # n
    <3>1. ~AtBlockEnd(new)
      BY <1>4, <1>5, <1>13, <2>2 DEF AtBlockEnd
    <3> QED
      BY <1>7, <1>13, <1>14, <3>1 DEF BehindIn
  <2> QED
    BY <2>1, <2>2
<1> QED
  BY <1>5, <1>6, <1>8, <1>9, <1>11, <1>12, <1>15, <1>16 DEF new

(* next() at the end of its range: no change before end is left.            *)
LEMMA CursorAtEnd ==
  ASSUME NEW blocks \in Seq(Ref), Searchable(blocks), NEW c, Sound(c, blocks),
         AtBlockEnd(c), BlockToLoad(c) > c.last
  PROVE  LET p == BehindIn(c, blocks) + 1
             h == HistoryOf(blocks)
             new == [c EXCEPT !.block = BlockToLoad(c)]
         IN /\ ~(p <= Len(h) /\ h[p] < c.end)
            /\ Sound(new, blocks) /\ BehindIn(new, blocks) = BehindIn(c, blocks)
<1> DEFINE h == HistoryOf(blocks)
           p == BehindIn(c, blocks) + 1
           new == [c EXCEPT !.block = BlockToLoad(c)]
<1>1. /\ c \in Cursor /\ c.block \in Nat \ {0} /\ c.last \in Nat
      /\ c.begin \in Int /\ c.end \in Int /\ c.last <= Len(blocks) /\ c.loaded \in BOOLEAN
  BY DEF Sound, Cursor
<1>2. h \in Seq(Int) /\ Len(h) = Marks(blocks)[Len(blocks)] /\ Len(h) \in Nat
  BY HistoryType
<1>3. CASE ~c.loaded
  <2>1. BlockToLoad(c) = c.block /\ Fresh(c, blocks)
    BY <1>3 DEF BlockToLoad, Sound
  <2>2. c.last = 0
    BY <1>1, <2>1 DEF Fresh
  <2>3. c.block = 1 /\ NoneBetween(blocks, c.begin, c.end)
    BY <2>1, <2>2 DEF Fresh
  <2>4. new = c
    BY <1>1, <2>1 DEF Cursor
  <2>5. BehindIn(c, blocks) \in LowerBounds(h, c.begin)
    BY <1>1, <1>3, StartIsBound DEF BehindIn
  <2>6. ASSUME p <= Len(h), h[p] < c.end
        PROVE  FALSE
    <3>1. /\ BehindIn(c, blocks) \in 0 .. Len(h)
          /\ \A k \in BehindIn(c, blocks) + 1 .. Len(h) : c.begin <= h[k]
      BY <2>5 DEF LowerBounds
    <3>2. p \in 1 .. Len(h) /\ p \in BehindIn(c, blocks) + 1 .. Len(h)
      BY <1>2, <2>6, <3>1
    <3>3. PICK b \in 1 .. Len(blocks) : \E k \in 1 .. Len(blocks[b].times) :
            h[p] = blocks[b].times[k]
      BY <3>2, LiesIn
    <3>4. PICK k \in 1 .. Len(blocks[b].times) : h[p] = blocks[b].times[k]
      BY <3>3
    <3>5. h[p] < c.begin \/ c.end <= h[p]
      BY <2>3, <3>4 DEF NoneBetween
    <3>6. h[p] \in Int /\ c.begin <= h[p]
      BY <1>2, <3>1, <3>2
    <3> QED
      BY <1>1, <2>6, <3>5, <3>6
  <2> QED
    BY <2>4, <2>6
<1>4. CASE c.loaded
  <2>1. /\ BlockToLoad(c) = AtMost(c.block, c.last) + 1 /\ Reading(c, blocks)
        /\ c.last \in 1 .. Len(blocks)
    BY <1>1, <1>4 DEF BlockToLoad, Sound, Reading
  <2>2. AtMost(c.block, c.last) = c.last /\ BlockToLoad(c) = c.last + 1
    BY <1>1, <2>1 DEF AtMost
  <2>3. BehindIn(c, blocks) = Marks(blocks)[c.last]
    BY <1>4, <2>2 DEF BehindIn
  <2>4. /\ new \in Cursor /\ new.block = c.last + 1 /\ new.last = c.last /\ new.loaded
        /\ new.cur = c.cur /\ new.pos = c.pos /\ new.end = c.end
    BY <1>1, <1>4, <2>2 DEF Cursor
  <2>5. AtMost(new.block, new.last) = c.last
    BY <1>1, <2>4 DEF AtMost
  <2>6. AtBlockEnd(new)
    BY <1>4, <2>4 DEF AtBlockEnd
  <2> HIDE DEF new
  <2>7. Sound(new, blocks)
    <3>1. Reading(new, blocks)
      BY <2>1, <2>4, <2>6 DEF Reading
    <3>2. c.last + 1 # 0
      BY <1>1
    <3> QED
      BY <1>1, <2>4, <3>1, <3>2 DEF Sound
  <2>8. BehindIn(new, blocks) = Marks(blocks)[c.last]
    BY <2>4, <2>5, <2>6 DEF BehindIn
  <2>9. ASSUME p <= Len(h), h[p] < c.end
        PROVE  FALSE
    <3>1. PICK x \in Nat : x = Marks(blocks)[c.last]
      BY <2>1, MarksRise DEF Rising
    <3>2. c.last # Len(blocks)
      BY <1>2, <2>3, <2>9, <3>1
    <3>3. PICK b \in 1 .. Len(blocks) : b = c.last + 1 /\ b - 1 = c.last
      BY <2>1, <3>2
    <3>4. 1 \in 1 .. Len(blocks[b].times)
      BY BlockFields
    <3>5. h[x + 1] = blocks[b].times[1]
      BY <3>1, <3>3, <3>4, HistoryType
    <3>6. blocks[b].times[1] \in Int
      BY <3>4, WithinSpan
    <3>7. b \in c.last + 1 .. Len(blocks)
      BY <2>1, <3>3
    <3>8. c.end - 1 < blocks[b].times[1]
      BY <2>1, <3>4, <3>7 DEF Reading, AllAfter
    <3>9. h[p] = blocks[b].times[1]
      BY <2>3, <3>1, <3>5
    <3> QED
      BY <1>1, <2>9, <3>6, <3>8, <3>9
  <2> QED
    BY <2>3, <2>7, <2>8, <2>9 DEF new
<1> QED
  BY <1>1, <1>3, <1>4

(* Loading a block moves the cursor past no change.                         *)
LEMMA CursorLoadsBlock ==
  ASSUME NEW blocks \in Seq(Ref), Searchable(blocks), NEW c, Sound(c, blocks),
         AtBlockEnd(c), BlockToLoad(c) <= c.last,
         NEW q \in StartIn(c, blocks[BlockToLoad(c)].times)
  PROVE  LET b == BlockToLoad(c)
             new == Loaded(c, b, Content(blocks[b]), q)
         IN Sound(new, blocks) /\ BehindIn(new, blocks) = BehindIn(c, blocks)
<1>1. /\ c \in Cursor /\ c.block \in Nat \ {0} /\ c.last \in Nat
      /\ c.begin \in Int /\ c.end \in Int /\ c.last <= Len(blocks) /\ c.loaded \in BOOLEAN
  BY DEF Sound, Cursor
<1>2. PICK b \in 1 .. Len(blocks) : b = BlockToLoad(c) /\ b <= c.last
  BY <1>1 DEF BlockToLoad, AtMost
<1>3. c.last # 0 /\ AllAfter(blocks, c.last + 1 .. Len(blocks), c.end - 1)
  BY <1>1, <1>2 DEF Sound, Fresh, Reading
<1> DEFINE block == Content(blocks[b])
           new   == Loaded(c, b, block, q)
<1>4. PICK n \in Nat \ {0} : n = Len(blocks[b].times)
  BY BlockFields
<1>5. PICK x \in Nat : /\ x = Marks(blocks)[b - 1] /\ blocks[b].first = x + 1
                       /\ Marks(blocks)[b] = x + n
  <2>1. b - 1 \in 0 .. Len(blocks)
    OBVIOUS
  <2> QED
    BY <1>4, <2>1, MarksRise DEF Rising
<1>6. q \in 0 .. n
  BY <1>2, <1>4 DEF StartIn, LowerBounds
<1>7. block \in Block /\ block.times = blocks[b].times
  BY BlockFields DEF Content, Block
<1>8. /\ new \in Cursor /\ new.block = b /\ new.last = c.last /\ new.loaded
      /\ new.cur = block /\ new.pos = q /\ new.end = c.end
  <2>1. b \in Nat /\ q \in Nat
    BY <1>6
  <2> HIDE DEF block
  <2>2. new \in Cursor
    BY <1>1, <1>7, <2>1 DEF Loaded, Cursor
  <2>3. DOMAIN c = {"stream", "begin", "end", "block", "last", "loaded", "cur", "pos"}
    BY <1>1 DEF Cursor
  <2>4. new.block = b /\ new.last = c.last /\ new.cur = block /\ new.pos = q /\ new.end = c.end
    BY <1>1, <2>3 DEF Loaded
  <2>5. new.loaded = TRUE
    BY <1>1, <2>3 DEF Loaded
  <2> QED
    BY <2>2, <2>4, <2>5
<1>9. AtMost(new.block, new.last) = b
  BY <1>2, <1>8 DEF AtMost
<1> HIDE DEF new
<1>10. Sound(new, blocks)
  <2>1. Reading(new, blocks)
    BY <1>3, <1>4, <1>6, <1>7, <1>8, <1>9 DEF Reading
  <2> QED
    BY <1>1, <1>8, <2>1 DEF Sound
<1>11. BehindIn(new, blocks) = x + q
  <2>1. CASE q = n
    <3>1. AtBlockEnd(new)
      BY <1>4, <1>7, <1>8, <2>1 DEF AtBlockEnd
    <3> QED
      BY <1>5, <1>8, <1>9, <2>1, <3>1 DEF BehindIn
  <2>2. CASE q # n
    <3>1. ~AtBlockEnd(new)
      BY <1>4, <1>7, <1>8, <2>2 DEF AtBlockEnd
    <3> QED
      BY <1>5, <1>8, <1>9, <3>1 DEF BehindIn
  <2> QED
    BY <2>1, <2>2
<1>12. BehindIn(c, blocks) = x + q
  <2>1. CASE ~c.loaded
    <3>1. b = c.block /\ q \in LowerBounds(blocks[b].times, c.begin)
      BY <1>2, <2>1 DEF BlockToLoad, StartIn
    <3>2. /\ AllUpto(blocks, 1 .. b - 1, c.begin - 1)
          /\ AllAfter(blocks, b + 1 .. Len(blocks), c.begin - 1)
      BY <1>3, <2>1, <3>1 DEF Sound, Fresh
    <3>3. q \in UpperBounds(blocks[b].times, c.begin - 1) /\ c.begin - 1 \in Int
      <4>1. blocks[b].times \in Seq(Int)
        BY BlockFields
      <4>2. LowerBounds(blocks[b].times, c.begin) = UpperBounds(blocks[b].times, c.begin - 1)
        BY <1>1, <4>1, LowerIsUpper
      <4> QED
        BY <1>1, <3>1, <4>2
    <3>4. blocks[b].first - 1 + q \in UpperBounds(HistoryOf(blocks), c.begin - 1)
      BY <3>2, <3>3, UpperInBlock
    <3>5. blocks[b].first - 1 + q = x + q
      <4>1. blocks[b].first - 1 = x
        BY <1>5
      <4> QED
        BY <4>1
    <3>6. x + q = Start(blocks, c.begin)
      BY <1>1, <3>4, <3>5, StartIsBound
    <3> QED
      BY <2>1, <3>6 DEF BehindIn
  <2>2. CASE c.loaded
    <3>1. q = 0 /\ b = AtMost(c.block, c.last) + 1
      BY <1>2, <2>2 DEF BlockToLoad, StartIn
    <3>2. AtMost(c.block, c.last) = b - 1
      BY <1>1, <3>1 DEF AtMost
    <3> QED
      BY <1>5, <2>2, <3>1, <3>2 DEF BehindIn
  <2> QED
    BY <1>1, <2>1, <2>2
<1> QED
  BY <1>2, <1>10, <1>11, <1>12 DEF new

(* A load that throws moves the cursor past whole blocks, or not at all.    *)
LEMMA CursorThrowsBlock ==
  ASSUME NEW blocks \in Seq(Ref), Searchable(blocks), NEW c, Sound(c, blocks),
         AtBlockEnd(c), BlockToLoad(c) <= c.last
  PROVE  LET new == [c EXCEPT !.block = BlockToLoad(c)]
         IN /\ Sound(new, blocks)
            /\ BehindIn(new, blocks) \in BehindIn(c, blocks) .. Len(HistoryOf(blocks))
<1> DEFINE h == HistoryOf(blocks)
           new == [c EXCEPT !.block = BlockToLoad(c)]
<1>1. /\ c \in Cursor /\ c.block \in Nat \ {0} /\ c.last \in Nat
      /\ c.begin \in Int /\ c.end \in Int /\ c.last <= Len(blocks) /\ c.loaded \in BOOLEAN
  BY DEF Sound, Cursor
<1>2. Len(h) = Marks(blocks)[Len(blocks)] /\ Len(h) \in Nat
  BY HistoryType
<1>3. CASE ~c.loaded
  <2>1. new = c
    BY <1>1, <1>3 DEF BlockToLoad, Cursor
  <2>2. BehindIn(c, blocks) \in 0 .. Len(h)
    BY <1>1, <1>3, StartIsBound DEF BehindIn, LowerBounds
  <2>3. BehindIn(c, blocks) \in BehindIn(c, blocks) .. Len(h)
    BY <1>2, <2>2
  <2> QED
    BY <2>1, <2>3
<1>4. CASE c.loaded
  <2>1. PICK b \in 1 .. Len(blocks) : b = BlockToLoad(c) /\ b <= c.last
    BY <1>1 DEF BlockToLoad, AtMost
  <2>2. AtMost(c.block, c.last) = b - 1 /\ b - 1 \in 1 .. Len(blocks) /\ c.last # 0
    BY <1>1, <1>4, <2>1 DEF BlockToLoad, AtMost, Sound, Reading
  <2>3. /\ new \in Cursor /\ new.block = b /\ new.last = c.last /\ new.loaded
        /\ new.cur = c.cur /\ new.pos = c.pos /\ new.end = c.end
    BY <1>1, <1>4, <2>1 DEF Cursor
  <2>4. AtMost(new.block, new.last) = b
    BY <2>1, <2>3 DEF AtMost
  <2>5. AtBlockEnd(new)
    BY <1>4, <2>3 DEF AtBlockEnd
  <2> HIDE DEF new
  <2>6. Sound(new, blocks)
    <3>1. Reading(new, blocks)
      BY <1>4, <2>3, <2>5 DEF Reading, Sound
    <3> QED
      BY <1>1, <2>3, <3>1 DEF Sound
  <2>7. /\ BehindIn(c, blocks) = Marks(blocks)[b - 1]
        /\ BehindIn(new, blocks) = Marks(blocks)[b]
    BY <1>4, <2>2, <2>3, <2>4, <2>5 DEF BehindIn
  <2>8. PICK x \in Nat, y \in Nat : /\ x = Marks(blocks)[b - 1] /\ y = Marks(blocks)[b]
                                    /\ x <= y /\ y <= Len(h)
    <3>1. /\ b - 1 \in 0 .. Len(blocks) /\ b \in 0 .. Len(blocks)
          /\ Len(blocks) \in 0 .. Len(blocks) /\ b - 1 <= b /\ b <= Len(blocks)
      OBVIOUS
    <3>2. Marks(blocks) \in [0 .. Len(blocks) -> Nat]
      BY MarksRise DEF Rising
    <3>3. Marks(blocks)[b - 1] <= Marks(blocks)[b]
      BY <3>1, MarksRise DEF Rising
    <3>4. Marks(blocks)[b] <= Marks(blocks)[Len(blocks)]
      BY <3>1, MarksRise DEF Rising
    <3> QED
      BY <1>2, <3>1, <3>2, <3>3, <3>4
  <2>9. y \in x .. Len(h)
    BY <1>2, <2>8
  <2> QED
    BY <2>6, <2>7, <2>8, <2>9 DEF new
<1> QED
  BY <1>1, <1>3, <1>4

(* openCursor(): the blocks chosen are all that hold changes of the range.  *)
LEMMA CursorOpened ==
  ASSUME NEW blocks \in Seq(Ref), Searchable(blocks), NEW begin \in Int, NEW end \in Int,
         NEW u \in UpperBounds([b \in DOMAIN blocks |-> blocks[b].end], begin),
         NEW v \in LowerBounds([b \in DOMAIN blocks |-> blocks[b].begin], end),
         NEW c \in Cursor, c.begin = begin, c.end = end, ~c.loaded,
         NEW none \in BOOLEAN, none <=> (begin >= end \/ u + 1 > AtLeast(v, u)),
         c.block = IF none THEN 1 ELSE u + 1, c.last = IF none THEN 0 ELSE AtLeast(v, u)
  PROVE  Sound(c, blocks)
<1> DEFINE m == Len(blocks)
<1>1. m \in Nat /\ end - 1 \in Int /\ begin - 1 \in Int
  OBVIOUS
<1>2. /\ u \in 0 .. m
      /\ AllUpto(blocks, 1 .. u, begin - 1) /\ AllAfter(blocks, u + 2 .. m, begin - 1)
  BY EndsSplit
<1>3. v \in UpperBounds([b \in DOMAIN blocks |-> blocks[b].begin], end - 1)
  <2>1. \A b \in 1 .. m : blocks[b].begin \in Int
    BY BlockFields
  <2>2. [b \in DOMAIN blocks |-> blocks[b].begin] = [b \in 1 .. m |-> blocks[b].begin]
    OBVIOUS
  <2>3. [b \in DOMAIN blocks |-> blocks[b].begin] \in Seq(Int)
    BY <1>1, <2>1, <2>2, FunctionIsSeq
  <2> QED
    BY <2>3, LowerIsUpper
<1>4. v \in 0 .. m /\ AllAfter(blocks, v + 1 .. m, end - 1)
  BY <1>1, <1>3, BeginsSplit
<1>5. CASE none
  <2>1. ASSUME NEW b \in 1 .. m, NEW k \in 1 .. Len(blocks[b].times)
        PROVE  blocks[b].times[k] < begin \/ end <= blocks[b].times[k]
    <3>1. PICK x \in Int : x = blocks[b].times[k]
      BY WithinSpan
    <3>2. CASE begin >= end
      BY <3>1, <3>2
    <3>3. CASE ~(begin >= end)
      <4>1. v <= u
        BY <1>2, <1>4, <1>5, <3>3 DEF AtLeast
      <4>2. CASE b <= u
        <5>1. b \in 1 .. u
          BY <1>2, <4>2
        <5>2. x <= begin - 1
          BY <1>2, <3>1, <5>1 DEF AllUpto
        <5> QED
          BY <3>1, <5>2
      <4>3. CASE ~(b <= u)
        <5>1. b \in v + 1 .. m
          BY <1>2, <1>4, <4>1, <4>3
        <5>2. end - 1 < x
          BY <1>4, <3>1, <5>1 DEF AllAfter
        <5> QED
          BY <3>1, <5>2
      <4> QED
        BY <4>2, <4>3
    <3> QED
      BY <3>2, <3>3
  <2>2. NoneBetween(blocks, begin, end)
    BY <2>1 DEF NoneBetween
  <2> QED
    BY <1>1, <1>5, <2>2 DEF Sound, Fresh
<1>6. CASE ~none
  <2>1. AtLeast(v, u) = v /\ u + 1 <= v
    BY <1>2, <1>4, <1>6 DEF AtLeast
  <2>2. c.block = u + 1 /\ c.last = v /\ c.block - 1 = u /\ c.block + 1 = u + 2
    BY <1>2, <1>6, <2>1
  <2>3. Fresh(c, blocks)
    BY <1>2, <1>4, <2>1, <2>2 DEF Fresh
  <2> QED
    BY <1>1, <1>2, <1>4, <2>1, <2>2, <2>3 DEF Sound
<1> QED
  BY <1>5, <1>6

----------------------------------------------------------------------------
(* The steps of the contract.                                               *)
Shown(c) ==
  IF c = Closed THEN Closed ELSE [stream |-> c.stream, end |-> c.end, pos |-> Behind(c)]
Seen == [i \in Instances |-> Shown(cursor[i])]

Obeyed == Contract!Next \/ Contract!vars' = Contract!vars

(* What the contract sees of the cursors.                                 *)
LEMMA SeenIsCursor ==
  Seen = [i \in Instances |->
            IF cursor[i] = Closed THEN Closed
            ELSE [stream |-> cursor[i].stream, end |-> cursor[i].end, pos |-> Behind(cursor[i])]]
BY DEF Seen, Shown

(* A step that leaves index and cursors alone shows nothing.              *)
LEMMA NothingSeen ==
  ASSUME index' = index, cursor' = cursor
  PROVE  DataHistory' = DataHistory /\ Seen' = Seen
<1>1. DataHistory' = DataHistory
  BY DEF DataHistory
<1>2. ASSUME NEW c
      PROVE  Behind(c)' = Behind(c)
  BY <1>1 DEF Behind
<1> QED
  BY <1>1 DEF Seen, Shown, Behind

(* A step of one cursor shows that one move.                              *)
LEMMA CursorSeen ==
  ASSUME index' = index, NEW i \in Instances, NEW new, new # Closed,
         cursor = [j \in Instances |-> cursor[j]], cursor' = [cursor EXCEPT ![i] = new]
  PROVE  /\ DataHistory' = DataHistory
         /\ Seen' = [Seen EXCEPT ![i] = [stream |-> new.stream, end |-> new.end, pos |-> Behind(new)]]
<1>1. DataHistory' = DataHistory
  BY DEF DataHistory
<1>2. /\ cursor'[i] = new
      /\ \A j \in Instances \ {i} : cursor'[j] = cursor[j]
  OBVIOUS
<1>3. Shown(cursor[i])' = [stream |-> new.stream, end |-> new.end, pos |-> Behind(new)]
  BY <1>1, <1>2 DEF Shown, Behind
<1>4. ASSUME NEW j \in Instances \ {i}
      PROVE  Shown(cursor[j])' = Shown(cursor[j])
  BY <1>1, <1>2 DEF Shown, Behind
<1> QED
  BY <1>1, <1>3, <1>4 DEF Seen

(* A step without an answer that moves no cursor is a stutter of the      *)
(* contract.                                                              *)
LEMMA Stutters ==
  ASSUME index' = index, cursor' = cursor, answer' = answer
  PROVE  Obeyed
BY NothingSeen, SeenIsCursor DEF Obeyed, Contract!vars, Seen, Shown

(* A call that answers nothing is a step of the contract.                 *)
LEMMA QuietStep ==
  ASSUME index' = index, cursor' = cursor, NEW i \in Instances,
         answer' = [answer EXCEPT ![i] = Void]
  PROVE  Obeyed
<1>1. Contract!Quiet(i)
  BY NothingSeen DEF Contract!Quiet, Contract!Give, Contract!Void, Void, Seen, Shown
<1> QED
  BY <1>1 DEF Obeyed, Contract!Next

(* So is one that throws.                                                 *)
LEMMA ThrowStep ==
  ASSUME index' = index, cursor' = cursor, NEW i \in Instances,
         answer' = [answer EXCEPT ![i] = Thrown]
  PROVE  Obeyed
<1>1. Contract!Throw(i)
  BY NothingSeen DEF Contract!Throw, Contract!Give, Contract!Thrown, Thrown, Seen, Shown
<1> QED
  BY <1>1 DEF Obeyed, Contract!Next

(* So is a lookup that answers as promised.                               *)
LEMMA LookupStep ==
  ASSUME index' = index, cursor' = cursor, index \in Layouts, NEW i \in Instances,
         NEW op \in Lookups, NEW s \in Streams, NEW t \in Asked,
         NEW r \in Promised(op, HistoryOf(index[s]), t),
         answer' = [answer EXCEPT ![i] = Answer(op, s, t, r)]
  PROVE  Obeyed
<1>1. DataHistory[s] = HistoryOf(index[s])
  BY StreamBlocks
<1>2. CASE op = "valueAt"
  <2>1. r \in Contract!ValuesAt(s, t)
    BY <1>1, <1>2 DEF Promised, Contract!ValuesAt, Contract!UpperBounds, UpperBounds
  <2>2. Contract!Lookup(i, s, t)
    BY <1>2, <2>1, NothingSeen
    DEF Contract!Lookup, Contract!Give, Contract!Answer, Answer, Seen, Shown
  <2> QED
    BY <2>2 DEF Obeyed, Contract!Next
<1>3. CASE op = "nextChange"
  <2>1. r \in Contract!NextChanges(s, t)
    BY <1>1, <1>3 DEF Promised, Contract!NextChanges, Contract!UpperBounds, UpperBounds
  <2>2. Contract!Lookup(i, s, t)
    BY <1>3, <2>1, NothingSeen
    DEF Contract!Lookup, Contract!Give, Contract!Answer, Answer, Seen, Shown
  <2> QED
    BY <2>2 DEF Obeyed, Contract!Next
<1>4. CASE op = "prevChange"
  <2>1. r \in Contract!PrevChanges(s, t)
    BY <1>1, <1>4 DEF Promised, Contract!PrevChanges, Contract!LowerBounds, LowerBounds
  <2>2. Contract!Lookup(i, s, t)
    BY <1>4, <2>1, NothingSeen
    DEF Contract!Lookup, Contract!Give, Contract!Answer, Answer, Seen, Shown
  <2> QED
    BY <2>2 DEF Obeyed, Contract!Next
<1> QED
  BY <1>2, <1>3, <1>4 DEF Lookups

(* The state of the lookups and the cursors of all instances.               *)
SearchRight(i) ==
  /\ call[i].stage \in GetStages => call[i].op \in Searches \cup {"prefetch"}
  /\ call[i].op \in Searches =>
       /\ call[i].at \in Asked
       /\ \E s \in Streams : \E b \in 1 .. Len(index[s]) :
            /\ call[i].todo = Itinerary(call[i].op, s, b, Len(index[s]))
            /\ Narrowed(call[i].op, index[s], b, call[i].at)

CursorSound(i) ==
  cursor[i] # Closed =>
    /\ Sound(cursor[i], index[cursor[i].stream])
    /\ call[i].stage = "load" => AtBlockEnd(cursor[i])

Serving == \A i \in Instances : SearchRight(i) /\ CursorSound(i)

(* A step of one instance serves the others as before.                      *)
LEMMA OthersServed ==
  ASSUME Serving, NEW i \in Instances, index' = index,
         \A j \in Instances \ {i} : call'[j] = call[j] /\ cursor'[j] = cursor[j],
         SearchRight(i)', CursorSound(i)'
  PROVE  Serving'
<1>1. ASSUME NEW j \in Instances \ {i}
      PROVE  SearchRight(j)' /\ CursorSound(j)'
  <2>1. SearchRight(j) /\ CursorSound(j) /\ call'[j] = call[j] /\ cursor'[j] = cursor[j]
    BY DEF Serving
  <2>2. SearchRight(j)'
    BY <2>1 DEF SearchRight
  <2>3. CursorSound(j)'
    BY <2>1 DEF CursorSound
  <2> QED
    BY <2>2, <2>3
<1> QED
  BY <1>1 DEF Serving

(* Steps that leave the cursor alone and end no search on the way.          *)
LEMMA CallServed ==
  ASSUME Inv, Serving, NEW i \in Instances, index' = index, cursor' = cursor,
         NEW c, call' = [call EXCEPT ![i] = c], c.stage # "load",
         \/ /\ c.op \notin Searches
            /\ c.op = "prefetch" \/ c.stage \notin GetStages
         \/ /\ c.op = call[i].op /\ c.at = call[i].at /\ c.todo = call[i].todo
            /\ c.stage \in GetStages => call[i].stage \in GetStages
  PROVE  Serving'
<1>1. call'[i] = c /\ \A j \in Instances \ {i} : call'[j] = call[j]
  BY DEF Inv, Shapes
<1>2. SearchRight(i) /\ CursorSound(i)
  BY DEF Serving
<1>3. SearchRight(i)'
  BY <1>1, <1>2 DEF SearchRight
<1>4. CursorSound(i)'
  BY <1>1, <1>2 DEF CursorSound
<1> QED
  BY <1>1, <1>3, <1>4, OthersServed

(* A call that ends keeps the invariant.                                  *)
LEMMA CallEnds ==
  ASSUME Inv, Serving, NEW i \in Instances, index' = index, cursor' = cursor,
         call' = [call EXCEPT ![i] = Idle]
  PROVE  Serving'
<1>1. Idle.op \notin Searches /\ Idle.stage = "idle"
  BY DEF Idle, Searches, Lookups
<1> QED
  BY <1>1, CallServed DEF GetStages

(* Steps within the cache are stutters.                                   *)
LEMMA CacheServes ==
  ASSUME Inv, Serving, NEW i \in Instances,
         \/ Hit(i) \/ Miss(i) \/ Insert(i) \/ Evict(i) \/ EvictEnds(i) \/ ReleaseDrops(i)
         \/ \E j \in Instances : Duplicate(i, j)
  PROVE  Obeyed /\ Serving'
<1> USE DEF cacheVars
<1>1. call[i] \in Call /\ call = [call EXCEPT ![i] = call[i]]
  BY DEF Inv, Shapes
<1>2. index' = index /\ cursor' = cursor /\ answer' = answer
  BY DEF Hit, Miss, Insert, Evict, EvictEnds, ReleaseDrops, Duplicate
<1>3. Obeyed
  BY <1>2, Stutters
<1>4. ASSUME NEW stage \in {"use", "read", "evict"}, call[i].stage \in GetStages,
             call' = [call EXCEPT ![i].stage = stage]
      PROVE  Serving'
  <2> DEFINE c == [call[i] EXCEPT !.stage = stage]
  <2>1. /\ c.op = call[i].op /\ c.at = call[i].at /\ c.todo = call[i].todo /\ c.stage = stage
        /\ call' = [call EXCEPT ![i] = c]
    BY <1>1, <1>4 DEF Call
  <2> HIDE DEF c
  <2> QED
    BY <1>2, <1>4, <2>1, CallServed
<1>5. ASSUME call' = call, call[i].stage # "load"
      PROVE  Serving'
  <2>1. PICK c : c = call[i]
    OBVIOUS
  <2> QED
    BY <1>1, <1>2, <1>5, <2>1, CallServed
<1>6. CASE Hit(i)
  BY <1>3, <1>4, <1>6 DEF Hit, Stage, GetStages
<1>7. CASE Miss(i)
  BY <1>3, <1>4, <1>7 DEF Miss, Stage, GetStages
<1>8. CASE Insert(i)
  BY <1>3, <1>4, <1>8 DEF Insert, Stage, GetStages
<1>9. CASE EvictEnds(i)
  BY <1>3, <1>4, <1>9 DEF EvictEnds, Stage, GetStages
<1>10. CASE Evict(i) \/ ReleaseDrops(i)
  BY <1>3, <1>5, <1>10 DEF Evict, ReleaseDrops
<1>11. CASE \E j \in Instances : Duplicate(i, j)
  BY <1>3, <1>5, <1>11 DEF Duplicate, Ready, Idle
<1> QED
  BY <1>6, <1>7, <1>8, <1>9, <1>10, <1>11

(* Steps that plan, give up or end without an answer.                     *)
LEMMA QuietServes ==
  ASSUME Inv, Serving, NEW i \in Instances,
         \/ ReadThrows(i) \/ ReleaseEnds(i) \/ CursorNext(i)
         \/ \E s, q \in Streams, range \in Windows : Prefetch(i, s, q, range)
         \/ \E keep \in Windows : Release(i, keep)
  PROVE  Obeyed /\ Serving'
<1> USE DEF cacheVars
<1>1. call = [call EXCEPT ![i] = call[i]]
  BY DEF Inv, Shapes
<1>2. index' = index /\ cursor' = cursor
  BY DEF ReadThrows, ReleaseEnds, CursorNext, Prefetch, Release
<1>3. CASE ReadThrows(i)
  <2>1. answer' = [answer EXCEPT ![i] = Thrown] /\ call' = [call EXCEPT ![i] = Idle]
    BY <1>3 DEF ReadThrows, Return, Give, Running
  <2> QED
    BY <1>2, <2>1, ThrowStep, CallEnds
<1>4. CASE ReleaseEnds(i)
  <2>1. answer' = [answer EXCEPT ![i] = Void] /\ call' = [call EXCEPT ![i] = Idle]
    BY <1>4 DEF ReleaseEnds, Return, Give, Running
  <2> QED
    BY <1>2, <2>1, QuietStep, CallEnds
<1>5. CASE CursorNext(i)
  <2> DEFINE c == [Idle EXCEPT !.op = "next", !.stage = "scan"]
  <2>1. answer' = [answer EXCEPT ![i] = Void] /\ call' = [call EXCEPT ![i] = c]
    BY <1>5 DEF CursorNext, Give, Running
  <2>2. c.op = "next" /\ c.stage = "scan"
    BY DEF Idle
  <2>3. c.op \notin Searches /\ c.stage \notin GetStages /\ c.stage # "load"
    BY <2>2 DEF Searches, Lookups, GetStages
  <2> HIDE DEF c
  <2> QED
    BY <1>2, <2>1, <2>3, QuietStep, CallServed
<1>6. ASSUME NEW s \in Streams, NEW q \in Streams, NEW range \in Windows,
             Prefetch(i, s, q, range)
      PROVE  Obeyed /\ Serving'
  <2>1. answer' = [answer EXCEPT ![i] = Void] /\ call[i] = Idle
    BY <1>6 DEF Prefetch, Give, Ready
  <2>2. PICK todo : IF todo = <<>> THEN call' = call
                    ELSE call' = [call EXCEPT ![i] =
                           [Idle EXCEPT !.op = "prefetch", !.todo = todo, !.stage = "look"]]
    BY <1>6 DEF Prefetch, Running
  <2>3. CASE todo = <<>>
    <3>1. call' = [call EXCEPT ![i] = Idle]
      BY <1>1, <2>1, <2>2, <2>3
    <3> QED
      BY <1>2, <2>1, <3>1, QuietStep, CallEnds
  <2>4. CASE todo # <<>>
    <3> DEFINE c == [Idle EXCEPT !.op = "prefetch", !.todo = todo, !.stage = "look"]
    <3>1. call' = [call EXCEPT ![i] = c]
      BY <2>2, <2>4
    <3>2. c.op = "prefetch" /\ c.stage = "look"
      BY DEF Idle
    <3>3. c.op \notin Searches /\ c.op = "prefetch" /\ c.stage # "load"
      BY <3>2 DEF Searches, Lookups
    <3> HIDE DEF c
    <3> QED
      BY <1>2, <2>1, <3>1, <3>3, QuietStep, CallServed
  <2> QED
    BY <2>3, <2>4
<1>7. ASSUME NEW keep \in Windows, Release(i, keep)
      PROVE  Obeyed /\ Serving'
  <2> DEFINE c == [Idle EXCEPT !.op = "release", !.keep = keep, !.stage = "release"]
  <2>1. answer' = [answer EXCEPT ![i] = Void] /\ call' = [call EXCEPT ![i] = c]
    BY <1>7 DEF Release, Give, Running
  <2>2. c.op = "release" /\ c.stage = "release"
    BY DEF Idle
  <2>3. c.op \notin Searches /\ c.stage \notin GetStages /\ c.stage # "load"
    BY <2>2 DEF Searches, Lookups, GetStages
  <2> HIDE DEF c
  <2> QED
    BY <1>2, <2>1, <2>3, QuietStep, CallServed
<1> QED
  BY <1>3, <1>4, <1>5, <1>6, <1>7

(* A lookup plans its visits, or answers at once that there is nothing.   *)
LEMMA LookupServes ==
  ASSUME Inv, Serving, NEW i \in Instances,
         NEW op \in Lookups, NEW s \in Streams, NEW t \in Asked, Lookup(i, op, s, t)
  PROVE  Obeyed /\ Serving'
<1> USE DEF cacheVars
<1>1. /\ call = [call EXCEPT ![i] = call[i]] /\ index \in Layouts /\ t \in Int
      /\ index' = index /\ cursor' = cursor /\ call[i] = Idle
  BY AskedAssumption DEF Inv, Shapes, Lookup, Ready
<1>2. PICK plan \in Plans(op, s, t) :
        IF plan = <<>>
        THEN Give(i, Answer(op, s, t, Missing(op))) /\ UNCHANGED call
        ELSE /\ Running(i, [Idle EXCEPT !.op = op, !.at = t, !.todo = plan, !.stage = "look"])
             /\ Give(i, Void)
  BY DEF Lookup
<1>3. CASE plan = <<>>
  <2>1. /\ answer' = [answer EXCEPT ![i] = Answer(op, s, t, Missing(op))]
        /\ call' = [call EXCEPT ![i] = Idle]
    BY <1>1, <1>2, <1>3 DEF Give
  <2>2. Missing(op) \in Promised(op, HistoryOf(index[s]), t)
    BY <1>1, <1>3, PlanNarrows
  <2>3. PICK r \in Promised(op, HistoryOf(index[s]), t) : r = Missing(op)
    BY <2>2
  <2> QED
    BY <1>1, <2>1, <2>3, LookupStep, CallEnds
<1>4. CASE plan # <<>>
  <2> DEFINE c == [Idle EXCEPT !.op = op, !.at = t, !.todo = plan, !.stage = "look"]
  <2>1. answer' = [answer EXCEPT ![i] = Void] /\ call' = [call EXCEPT ![i] = c]
    BY <1>2, <1>4 DEF Give, Running
  <2>2. c.op = op /\ c.at = t /\ c.todo = plan /\ c.stage = "look"
    BY DEF Idle
  <2>3. \E b \in 1 .. Len(index[s]) : /\ plan = Itinerary(op, s, b, Len(index[s]))
                                      /\ Narrowed(op, index[s], b, t)
    BY <1>1, <1>4, PlanNarrows
  <2> HIDE DEF c
  <2>4. call'[i] = c /\ \A j \in Instances \ {i} : call'[j] = call[j]
    BY <2>1 DEF Inv, Shapes
  <2>5. SearchRight(i)'
    BY <1>1, <2>2, <2>3, <2>4 DEF SearchRight, Searches
  <2>6. CursorSound(i)'
    BY <1>1, <2>2, <2>4 DEF Serving, CursorSound
  <2>7. Serving'
    BY <1>1, <2>4, <2>5, <2>6, OthersServed
  <2> QED
    BY <1>1, <2>1, <2>7, QuietStep
<1> QED
  BY <1>3, <1>4

(* A lookup that uses a block answers from it, goes on, or ends.          *)
LEMMA UseServes ==
  ASSUME Inv, Serving, NEW i \in Instances, UseAnswers(i) \/ UseMovesOn(i) \/ UseEnds(i)
  PROVE  Obeyed /\ Serving'
<1> USE DEF cacheVars
<1>1. /\ call[i] \in Call /\ index \in Layouts
      /\ index' = index /\ cursor' = cursor /\ call[i].stage = "use"
      /\ FrontRight(i) /\ SearchRight(i) /\ CursorSound(i)
  BY DEF Inv, Shapes, Right, Serving, UseAnswers, UseMovesOn, UseEnds
<1>2. call[i].op \in Searches \cup {"prefetch"}
  BY <1>1 DEF SearchRight, GetStages
<1>3. CASE call[i].op = "prefetch"
  <2>1. Results(call[i].op, FrontBlock(i), call[i].at) = {}
    BY <1>3 DEF Results
  <2>2. CASE UseMovesOn(i)
    <3> DEFINE c == [call[i] EXCEPT !.op = IF @ = "valueAt" THEN "carry" ELSE @,
                                    !.todo = NextVisit(@), !.stage = "look"]
    <3>1. call' = [call EXCEPT ![i] = c] /\ answer' = answer
      BY <2>2 DEF UseMovesOn, Running
    <3>2. c.op = "prefetch" /\ c.stage = "look"
      BY <1>1, <1>3 DEF Call
    <3>3. c.op \notin Searches /\ c.stage # "load"
      BY <3>2 DEF Searches, Lookups
    <3> HIDE DEF c
    <3> QED
      BY <1>1, <3>1, <3>2, <3>3, Stutters, CallServed
  <2>3. CASE UseEnds(i)
    <3>1. answer' = [answer EXCEPT ![i] = Void] /\ call' = [call EXCEPT ![i] = Idle]
      BY <1>3, <2>3 DEF UseEnds, Return, Give, Running
    <3> QED
      BY <1>1, <3>1, QuietStep, CallEnds
  <2> QED
    BY <2>1, <2>2, <2>3 DEF UseAnswers
<1>4. CASE call[i].op \in Searches
  <2>1. PICK op \in Searches, t \in Asked : op = call[i].op /\ t = call[i].at /\ t \in Int
    BY <1>1, <1>4, AskedAssumption DEF SearchRight
  <2>2. PICK s \in Streams : \E b \in 1 .. Len(index[s]) :
          /\ call[i].todo = Itinerary(op, s, b, Len(index[s]))
          /\ Narrowed(op, index[s], b, t)
    BY <1>1, <1>4, <2>1 DEF SearchRight
  <2>3. PICK b \in 1 .. Len(index[s]) : /\ call[i].todo = Itinerary(op, s, b, Len(index[s]))
                                        /\ Narrowed(op, index[s], b, t)
    BY <2>2
  <2>4. index[s] \in Seq(Ref) /\ Searchable(index[s]) /\ Len(index[s]) \in Nat
    BY <1>1, StreamBlocks
  <2>5. call[i].todo[1] = <<s, b>>
    BY <2>3, <2>4, ItineraryHead
  <2>6. FrontBlock(i) = Content(index[s][b])
    BY <1>1, <2>5 DEF FrontRight, FrontBlock, Wanted
  <2>7. CASE UseAnswers(i)
    <3>1. PICK r \in Results(op, Content(index[s][b]), t) :
            /\ answer' = [answer EXCEPT ![i] = Answer(Public(op), s, t, r)]
            /\ call' = [call EXCEPT ![i] = Idle]
      <4>1. PICK r \in Results(call[i].op, FrontBlock(i), call[i].at) :
              /\ answer' = [answer EXCEPT ![i] =
                   Answer(Public(call[i].op), call[i].todo[1][1], call[i].at, r)]
              /\ call' = [call EXCEPT ![i] = Idle]
        BY <2>7 DEF UseAnswers, Return, Give, Running
      <4>2. call[i].todo[1][1] = s
        BY <2>5
      <4> QED
        BY <2>1, <2>6, <4>1, <4>2
    <3>2. r \in Promised(Public(op), HistoryOf(index[s]), t)
      BY <2>1, <2>3, <2>4, BlockAnswers
    <3>3. Public(op) \in Lookups
      BY DEF Public, Searches, Lookups
    <3> QED
      BY <1>1, <3>1, <3>2, <3>3, LookupStep, CallEnds
  <2>8. CASE UseMovesOn(i) \/ UseEnds(i)
    <3>1. Results(op, Content(index[s][b]), t) = {}
      BY <2>1, <2>6, <2>8 DEF UseMovesOn, UseEnds
    <3>2. /\ op \in Lookups
          /\ b = LastBlock(op, Len(index[s])) =>
               Missing(op) \in Promised(op, HistoryOf(index[s]), t)
          /\ b # LastBlock(op, Len(index[s])) =>
               Narrowed(Following(op), index[s], NextBlock(op, b), t)
      BY <2>1, <2>3, <2>4, <3>1, BlockSilent
    <3>3. /\ b = LastBlock(op, Len(index[s])) => Len(call[i].todo) = 1
          /\ b # LastBlock(op, Len(index[s])) =>
               /\ NextBlock(op, b) \in 1 .. Len(index[s])
               /\ Len(call[i].todo) > 1
               /\ Tail(call[i].todo)
                    = Itinerary(Following(op), s, NextBlock(op, b), Len(index[s]))
      <4>1. Onward(op, s, b, Len(index[s]), Itinerary(op, s, b, Len(index[s])))
        BY <2>4, <3>2, ItineraryTail
      <4> QED
        BY <2>3, <4>1 DEF Onward
    <3>4. CASE UseMovesOn(i)
      <4> DEFINE c == [call[i] EXCEPT !.op = IF @ = "valueAt" THEN "carry" ELSE @,
                                      !.todo = NextVisit(@), !.stage = "look"]
      <4>1. /\ call' = [call EXCEPT ![i] = c] /\ answer' = answer /\ Len(call[i].todo) > 1
        BY <3>4 DEF UseMovesOn, Running
      <4>2. /\ c.op = Following(op) /\ c.at = t /\ c.todo = Tail(call[i].todo)
            /\ c.stage = "look"
        BY <1>1, <2>1 DEF Call, NextVisit, Following
      <4>3. b # LastBlock(op, Len(index[s]))
        <5>1. Len(call[i].todo) = 1 => ~(Len(call[i].todo) > 1)
          OBVIOUS
        <5> QED
          BY <3>3, <4>1, <5>1
      <4>4. Following(op) \in Searches
        BY <3>2 DEF Following, Searches, Lookups
      <4> HIDE DEF c
      <4>5. call'[i] = c /\ \A j \in Instances \ {i} : call'[j] = call[j]
        BY <4>1 DEF Inv, Shapes
      <4>6. SearchRight(i)'
        <5>1. \E d \in 1 .. Len(index[s]) : /\ c.todo = Itinerary(c.op, s, d, Len(index[s]))
                                            /\ Narrowed(c.op, index[s], d, c.at)
          BY <3>2, <3>3, <4>2, <4>3
        <5> QED
          BY <1>1, <2>1, <4>2, <4>4, <4>5, <5>1 DEF SearchRight
      <4>7. CursorSound(i)'
        BY <1>1, <4>2, <4>5 DEF CursorSound
      <4>8. Serving'
        BY <1>1, <4>5, <4>6, <4>7, OthersServed
      <4> QED
        BY <1>1, <4>1, <4>8, Stutters
    <3>5. CASE UseEnds(i)
      <4>1. op # "prefetch" /\ Public(op) = op
        BY <3>2 DEF Lookups, Public
      <4>2. /\ answer' = [answer EXCEPT ![i] = Answer(op, s, t, Missing(op))]
            /\ call' = [call EXCEPT ![i] = Idle] /\ Len(call[i].todo) = 1
        BY <2>1, <2>5, <3>5, <4>1 DEF UseEnds, Return, Give, Running
      <4>3. PICK r \in Promised(op, HistoryOf(index[s]), t) : r = Missing(op)
        BY <3>2, <3>3, <4>2
      <4> QED
        BY <1>1, <3>2, <4>2, <4>3, LookupStep, CallEnds
    <3> QED
      BY <2>8, <3>4, <3>5
  <2> QED
    BY <2>7, <2>8
<1> QED
  BY <1>2, <1>3, <1>4

(* The steps of a cursor.                                                   *)
LEMMA CursorServed ==
  ASSUME Inv, Serving, NEW i \in Instances, index' = index, cursor = [j \in Instances |-> cursor[j]],
         NEW new, Sound(new, index[new.stream]), cursor' = [cursor EXCEPT ![i] = new],
         NEW c, call' = [call EXCEPT ![i] = c], c.stage \notin GetStages,
         c.stage = "load" => AtBlockEnd(new),
         \/ c.op \notin Searches
         \/ c.op = call[i].op /\ c.at = call[i].at /\ c.todo = call[i].todo
  PROVE  Serving'
<1>1. /\ call'[i] = c /\ \A j \in Instances \ {i} : call'[j] = call[j]
      /\ cursor'[i] = new /\ \A j \in Instances \ {i} : cursor'[j] = cursor[j]
  BY DEF Inv, Shapes
<1>2. SearchRight(i)
  BY DEF Serving
<1>3. SearchRight(i)'
  BY <1>1, <1>2 DEF SearchRight
<1>4. CursorSound(i)'
  BY <1>1 DEF CursorSound
<1> QED
  BY <1>1, <1>3, <1>4, OthersServed

(* What the contract sees of an open cursor.                              *)
LEMMA SeenOpen ==
  ASSUME NEW i \in Instances, cursor[i] \in Cursor
  PROVE  /\ Seen[i] = [stream |-> cursor[i].stream, end |-> cursor[i].end,
                       pos |-> Behind(cursor[i])]
         /\ Seen[i] # Contract!Closed
<1>1. cursor[i] # Closed
  BY CursorIsOpen
<1>2. Seen[i] = [stream |-> cursor[i].stream, end |-> cursor[i].end, pos |-> Behind(cursor[i])]
  BY <1>1 DEF Seen, Shown
<1>3. DOMAIN Seen[i] = {"stream", "end", "pos"} /\ DOMAIN Contract!Closed = {"open"}
  BY <1>2 DEF Contract!Closed
<1> QED
  BY <1>2, <1>3

(* A cursor that loads a block or seeks in it has not moved.              *)
LEMMA NothingMoved ==
  ASSUME index' = index, NEW i \in Instances, cursor = [j \in Instances |-> cursor[j]],
         cursor[i] \in Cursor, NEW new \in Cursor, cursor' = [cursor EXCEPT ![i] = new],
         new.stream = cursor[i].stream, new.end = cursor[i].end,
         Behind(new) = Behind(cursor[i])
  PROVE  DataHistory' = DataHistory /\ Seen' = Seen
<1>1. new # Closed
  BY CursorIsOpen
<1>2. /\ DataHistory' = DataHistory
      /\ Seen' = [Seen EXCEPT ![i] = [stream |-> new.stream, end |-> new.end, pos |-> Behind(new)]]
  BY <1>1, CursorSeen
<1>3. Seen' = [Seen EXCEPT ![i] = Seen[i]]
  BY <1>2, SeenOpen
<1> QED
  BY <1>2, <1>3 DEF Seen

NextOf(i) ==
  /\ Seen[i] # Contract!Closed
  /\ LET s    == Seen[i].stream
         p    == Seen[i].pos + 1
         more == p <= Len(DataHistory[s]) /\ DataHistory[s][p] < Seen[i].end
     IN IF more
        THEN /\ Seen' = [Seen EXCEPT ![i].pos = p]
             /\ Give(i, Answer("next", s, DataHistory[s][p], p))
        ELSE UNCHANGED Seen /\ Give(i, Answer("next", s, NoTime, 0))
  /\ UNCHANGED DataHistory

(* A call of next() as the contract has it is one of its steps.           *)
LEMMA NextOfContract ==
  ASSUME NEW i \in Instances, NextOf(i)
  PROVE  Obeyed
<1>1. Contract!CursorNext(i)
  BY DEF NextOf, Give, Answer, Seen, Shown,
         Contract!CursorNext, Contract!Give, Contract!Answer
<1> QED
  BY <1>1 DEF Obeyed, Contract!Next

ThrownOf(i) ==
  /\ Seen[i] # Contract!Closed
  /\ \E p \in Seen[i].pos .. Len(DataHistory[Seen[i].stream]) :
       Seen' = [Seen EXCEPT ![i].pos = p]
  /\ answer' = [answer EXCEPT ![i] = Thrown]
  /\ UNCHANGED DataHistory

(* So is a call of next() that throws.                                    *)
LEMMA ThrownOfContract ==
  ASSUME NEW i \in Instances, ThrownOf(i)
  PROVE  Obeyed
<1>1. Contract!CursorThrows(i)
  BY DEF ThrownOf, Thrown, Seen, Shown,
         Contract!CursorThrows, Contract!Give, Contract!Thrown
<1> QED
  BY <1>1 DEF Obeyed, Contract!Next

(* next() that gives the change behind the last one is such a call.       *)
LEMMA NextGivesStep ==
  ASSUME index' = index, NEW i \in Instances, cursor = [j \in Instances |-> cursor[j]],
         cursor[i] \in Cursor, NEW new \in Cursor, cursor' = [cursor EXCEPT ![i] = new],
         new.stream = cursor[i].stream, new.end = cursor[i].end,
         NEW p, p = Behind(cursor[i]) + 1, Behind(new) = p,
         NEW h, h = DataHistory[new.stream],
         p <= Len(h), h[p] < new.end,
         answer' = [answer EXCEPT ![i] = Answer("next", new.stream, h[p], p)]
  PROVE  Obeyed
<1>1. new # Closed
  BY CursorIsOpen
<1>2. /\ DataHistory' = DataHistory
      /\ Seen' = [Seen EXCEPT ![i] = [stream |-> new.stream, end |-> new.end, pos |-> p]]
  BY <1>1, CursorSeen
<1>3. /\ Seen[i].stream = new.stream /\ Seen[i].end = new.end /\ Seen[i].pos + 1 = p
      /\ Seen[i] # Contract!Closed
      /\ [Seen[i] EXCEPT !.pos = p] = [stream |-> new.stream, end |-> new.end, pos |-> p]
  <2>1. /\ Seen[i] = [stream |-> new.stream, end |-> new.end, pos |-> Behind(cursor[i])]
        /\ Seen[i] # Contract!Closed
    BY SeenOpen
  <2>2. Seen[i].pos = Behind(cursor[i])
    BY <2>1
  <2> QED
    BY <2>1, <2>2
<1>4. Seen' = [Seen EXCEPT ![i].pos = p]
  BY <1>2, <1>3
<1>5. NextOf(i)
  BY <1>2, <1>3, <1>4 DEF NextOf, Give
<1> QED
  BY <1>5, NextOfContract

(* So is next() that says there are no more.                              *)
LEMMA NextEndsStep ==
  ASSUME NEW i \in Instances, cursor[i] \in Cursor,
         DataHistory' = DataHistory, Seen' = Seen,
         NEW p, p = Behind(cursor[i]) + 1,
         NEW h, h = DataHistory[cursor[i].stream],
         ~(p <= Len(h) /\ h[p] < cursor[i].end),
         answer' = [answer EXCEPT ![i] = Answer("next", cursor[i].stream, NoTime, 0)]
  PROVE  Obeyed
<1>1. /\ Seen[i].stream = cursor[i].stream /\ Seen[i].end = cursor[i].end /\ Seen[i].pos + 1 = p
      /\ Seen[i] # Contract!Closed
  <2>1. /\ Seen[i] = [stream |-> cursor[i].stream, end |-> cursor[i].end, pos |-> Behind(cursor[i])]
        /\ Seen[i] # Contract!Closed
    BY SeenOpen
  <2>2. Seen[i].pos = Behind(cursor[i])
    BY <2>1
  <2> QED
    BY <2>1, <2>2
<1>2. NextOf(i)
  BY <1>1 DEF NextOf, Give
<1> QED
  BY <1>2, NextOfContract

(* Opening a cursor places it before the first change of its range.       *)
LEMMA OpenServes ==
  ASSUME Inv, Accounted, Serving, NEW i \in Instances,
         NEW s \in Streams, NEW range \in Ranges, OpenCursor(i, s, range)
  PROVE  Obeyed /\ Serving'
<1> USE DEF cacheVars
<1>1. /\ index \in Layouts /\ index[s] \in Seq(Ref) /\ Searchable(index[s])
      /\ DataHistory[s] = HistoryOf(index[s])
      /\ range[1] \in Int /\ range[2] \in Int
      /\ cursor = [j \in Instances |-> cursor[j]]
  BY StreamBlocks, AskedAssumption DEF Inv, Accounted, Shapes, Counters
<1>2. PICK blocks \in Seq(Ref) : blocks = index[s] /\ Searchable(blocks)
  BY <1>1
<1>3. PICK m \in BlocksIn(s, range) :
        LET none == range[1] >= range[2] \/ m[1] > m[2]
        IN cursor' = [cursor EXCEPT ![i] =
             [stream |-> s, begin |-> range[1], end |-> range[2],
              block |-> IF none THEN 1 ELSE m[1], last |-> IF none THEN 0 ELSE m[2],
              loaded |-> FALSE, cur |-> NoBlock, pos |-> 0]]
  BY DEF OpenCursor
<1> DEFINE none  == range[1] >= range[2] \/ m[1] > m[2]
           first == IF none THEN 1 ELSE m[1]
           final == IF none THEN 0 ELSE m[2]
           new   == [stream |-> s, begin |-> range[1], end |-> range[2],
                     block |-> first, last |-> final,
                     loaded |-> FALSE, cur |-> NoBlock, pos |-> 0]
<1>4. /\ index' = index /\ call[i] = Idle /\ call' = [call EXCEPT ![i] = Idle]
      /\ answer' = [answer EXCEPT ![i] = Void]
      /\ cursor' = [cursor EXCEPT ![i] = new]
  BY <1>3 DEF OpenCursor, Ready, Give, Inv, Shapes
<1>5. /\ Ends(s) = [b \in DOMAIN blocks |-> blocks[b].end]
      /\ Begins(s) = [b \in DOMAIN blocks |-> blocks[b].begin]
  BY <1>2 DEF Ends, Begins
<1>6. PICK u \in UpperBounds([b \in DOMAIN blocks |-> blocks[b].end], range[1]) :
        \E v \in LowerBounds([b \in DOMAIN blocks |-> blocks[b].begin], range[2]) :
          m = <<u + 1, AtLeast(v, u)>>
  BY <1>5 DEF BlocksIn
<1>7. PICK v \in LowerBounds([b \in DOMAIN blocks |-> blocks[b].begin], range[2]) :
          m = <<u + 1, AtLeast(v, u)>>
  BY <1>6
<1>8. m[1] = u + 1 /\ m[2] = AtLeast(v, u)
  BY <1>7
<1>9. u \in Nat /\ v \in Nat
  BY <1>2 DEF UpperBounds, LowerBounds
<1>10. first \in Nat /\ final \in Nat
  BY <1>8, <1>9 DEF AtLeast
<1>11. new \in Cursor
  <2> HIDE DEF first, final
  <2> QED
    BY <1>1, <1>10, NoBlockIsBlock DEF Cursor
<1>12. /\ new.begin = range[1] /\ new.end = range[2] /\ ~new.loaded /\ new.stream = s
       /\ new.block = first /\ new.last = final
  OBVIOUS
<1>13. PICK no \in BOOLEAN : no <=> (range[1] >= range[2] \/ u + 1 > AtLeast(v, u))
  <2>1. (range[1] >= range[2] \/ u + 1 > AtLeast(v, u)) \in BOOLEAN
    OBVIOUS
  <2> QED
    BY <2>1
<1>14. /\ first = IF no THEN 1 ELSE u + 1
       /\ final = IF no THEN 0 ELSE AtLeast(v, u)
  BY <1>8, <1>13
<1> HIDE DEF new, first, final
<1>15. Sound(new, blocks)
  <2>1. /\ new.block = IF no THEN 1 ELSE u + 1
        /\ new.last = IF no THEN 0 ELSE AtLeast(v, u)
    BY <1>12, <1>14
  <2>2. PICK begin \in Int, end \in Int : begin = range[1] /\ end = range[2]
    BY <1>1
  <2>3. /\ u \in UpperBounds([b \in DOMAIN blocks |-> blocks[b].end], begin)
        /\ v \in LowerBounds([b \in DOMAIN blocks |-> blocks[b].begin], end)
        /\ new.begin = begin /\ new.end = end
        /\ no <=> (begin >= end \/ u + 1 > AtLeast(v, u))
    BY <1>12, <1>13, <2>2
  <2> QED
    BY <1>2, <1>11, <1>12, <2>1, <2>3, CursorOpened
<1>16. Behind(new) = Start(blocks, range[1])
  BY <1>1, <1>2, <1>11, <1>12, <1>15, BehindIsIn DEF BehindIn
<1>17. Behind(new) \in LowerBounds(DataHistory[s], range[1])
  BY <1>1, <1>2, <1>16, StartIsBound
<1>18. new # Closed
  BY <1>11, CursorIsOpen
<1>19. /\ DataHistory' = DataHistory
       /\ Seen' = [Seen EXCEPT ![i] = [stream |-> s, end |-> range[2], pos |-> Behind(new)]]
  BY <1>1, <1>4, <1>12, <1>18, CursorSeen
<1>20. Contract!OpenCursor(i, s, range)
  <2>1. PICK p \in LowerBounds(DataHistory[s], range[1]) :
          Seen' = [Seen EXCEPT ![i] = [stream |-> s, end |-> range[2], pos |-> p]]
    BY <1>17, <1>19
  <2>2. p \in Contract!LowerBounds(DataHistory[s], range[1])
    BY <2>1 DEF LowerBounds, Contract!LowerBounds
  <2> QED
    BY <1>4, <1>19, <2>1, <2>2
    DEF Contract!OpenCursor, Contract!Give, Contract!Void, Void, Seen, Shown
<1>21. Obeyed
  BY <1>20 DEF Obeyed, Contract!Next
<1>22. Serving'
  <2>1. Idle.op \notin Searches /\ Idle.stage = "idle"
    BY DEF Idle, Searches, Lookups
  <2> QED
    BY <1>1, <1>2, <1>4, <1>12, <1>15, <2>1, CursorServed DEF GetStages
<1> QED
  BY <1>21, <1>22

(* The steps of next() give the changes one by one.                       *)
LEMMA CursorServes ==
  ASSUME Inv, Accounted, Serving, NEW i \in Instances,
         CursorGives(i) \/ CursorSeeks(i) \/ CursorLoads(i) \/ CursorThrows(i)
  PROVE  Obeyed /\ Serving'
<1> USE DEF cacheVars
<1>1. /\ index \in Layouts /\ call[i] \in Call /\ call[i].stage \in {"scan", "load"}
      /\ cursor = [j \in Instances |-> cursor[j]] /\ CursorRight(i) /\ CursorSound(i)
  BY DEF Inv, Accounted, Serving, Shapes, Counters, CursorGives, CursorSeeks, CursorLoads,
         CursorThrows
<1>2. PICK c : c = cursor[i] /\ c # Closed
  BY <1>1 DEF CursorRight
<1>3. c \in Cursor /\ Sound(c, index[c.stream]) /\ c.stream \in Streams
  BY <1>1, <1>2 DEF CursorSound, Sound, Cursor
<1>4. PICK blocks \in Seq(Ref) : /\ blocks = index[c.stream] /\ Searchable(blocks)
                                 /\ DataHistory[c.stream] = HistoryOf(blocks)
  BY <1>1, <1>3, StreamBlocks
<1>5. Sound(c, blocks) /\ Behind(c) = BehindIn(c, blocks)
  BY <1>1, <1>3, <1>4, BehindIsIn
<1>6. ASSUME NEW new, Sound(new, blocks), new.stream = c.stream
      PROVE  new \in Cursor /\ new # Closed /\ Behind(new) = BehindIn(new, blocks)
  <2>1. new \in Cursor
    BY <1>6 DEF Sound
  <2> QED
    BY <1>1, <1>4, <1>6, <2>1, BehindIsIn, CursorIsOpen
<1>7. index' = index
  BY DEF CursorGives, CursorSeeks, CursorLoads, CursorThrows
<1>8. Idle.op \notin Searches /\ Idle.stage = "idle" /\ Idle.stage \notin GetStages
  BY DEF Idle, Searches, Lookups, GetStages
<1>9. ASSUME NEW new, Sound(new, blocks), new.stream = c.stream,
             cursor' = [cursor EXCEPT ![i] = new], call' = [call EXCEPT ![i] = Idle]
      PROVE  Serving'
  BY <1>1, <1>4, <1>7, <1>8, <1>9, CursorServed
<1>10. ASSUME NEW new, Sound(new, blocks), new.stream = c.stream, new.end = c.end,
              cursor' = [cursor EXCEPT ![i] = new], BehindIn(new, blocks) = BehindIn(c, blocks)
       PROVE  DataHistory' = DataHistory /\ Seen' = Seen
  <2>1. new \in Cursor /\ Behind(new) = Behind(c)
    BY <1>5, <1>6, <1>10
  <2> QED
    BY <1>1, <1>2, <1>3, <1>7, <1>10, <2>1, NothingMoved
<1>11. cursor = [cursor EXCEPT ![i] = c]
  BY <1>1, <1>2
<1>12. ASSUME NEW stage \in {"scan", "load"}, call' = [call EXCEPT ![i].stage = stage],
              NEW new, Sound(new, blocks), new.stream = c.stream,
              stage = "load" => AtBlockEnd(new), cursor' = [cursor EXCEPT ![i] = new]
       PROVE  Serving'
  <2> DEFINE d == [call[i] EXCEPT !.stage = stage]
  <2>1. /\ d.op = call[i].op /\ d.at = call[i].at /\ d.todo = call[i].todo /\ d.stage = stage
        /\ call' = [call EXCEPT ![i] = d]
    BY <1>1, <1>12 DEF Call
  <2>2. d.stage \notin GetStages
    BY <2>1 DEF GetStages
  <2> HIDE DEF d
  <2> QED
    BY <1>1, <1>4, <1>7, <1>12, <2>1, <2>2, CursorServed
<1>13. CASE CursorGives(i)
  <2>1. ~AtBlockEnd(c) /\ call' = [call EXCEPT ![i] = Idle]
    BY <1>2, <1>13 DEF CursorGives, Return, Running
  <2> DEFINE p   == BehindIn(c, blocks) + 1
             h   == HistoryOf(blocks)
             new == [c EXCEPT !.pos = @ + 1]
  <2>2. /\ p \in 1 .. Len(h) /\ h[p] \in Int
        /\ h[p] = c.cur.times[c.pos + 1] /\ p = c.cur.first + c.pos
        /\ Sound(new, blocks) /\ BehindIn(new, blocks) = p
    BY <1>4, <1>5, <2>1, CursorInBlock
  <2>3. new.stream = c.stream /\ new.end = c.end /\ c.end \in Int
    BY <1>3 DEF Cursor
  <2>4. CASE h[p] >= c.end
    <3>1. /\ cursor' = cursor
          /\ answer' = [answer EXCEPT ![i] = Answer("next", c.stream, NoTime, 0)]
      BY <1>2, <1>13, <2>2, <2>4 DEF CursorGives, Return, Give
    <3>2. ~(h[p] < c.end)
      BY <2>2, <2>3, <2>4
    <3>3. Obeyed
      BY <1>2, <1>3, <1>4, <1>5, <1>7, <3>1, <3>2, NothingSeen, NextEndsStep
    <3>4. Serving'
      BY <1>5, <1>9, <1>11, <2>1, <3>1
    <3> QED
      BY <3>3, <3>4
  <2>5. CASE ~(h[p] >= c.end)
    <3>1. /\ cursor' = [cursor EXCEPT ![i].pos = @ + 1]
          /\ answer' = [answer EXCEPT ![i] = Answer("next", c.stream, h[p], p)]
      BY <1>2, <1>13, <2>2, <2>5 DEF CursorGives, Return, Give
    <3>2. cursor' = [cursor EXCEPT ![i] = new]
      BY <1>2, <3>1
    <3>3. h[p] < c.end /\ p <= Len(h)
      BY <2>2, <2>3, <2>5
    <3> HIDE DEF new
    <3>4. new \in Cursor /\ Behind(new) = p
      BY <1>6, <2>2, <2>3
    <3>5. Obeyed
      <4>1. PICK q, g : q = p /\ g = h
        OBVIOUS
      <4>2. /\ q = Behind(cursor[i]) + 1 /\ Behind(new) = q /\ g = DataHistory[new.stream]
            /\ q <= Len(g) /\ g[q] < new.end
            /\ answer' = [answer EXCEPT ![i] = Answer("next", new.stream, g[q], q)]
        BY <1>2, <1>4, <1>5, <2>3, <3>1, <3>3, <3>4, <4>1
      <4> HIDE DEF p, h
      <4> QED
        BY <1>1, <1>2, <1>3, <1>7, <2>3, <3>2, <3>4, <4>2, NextGivesStep
    <3>6. Serving'
      BY <1>9, <2>1, <2>2, <2>3, <3>2
    <3> QED
      BY <3>5, <3>6
  <2> QED
    BY <2>4, <2>5
<1>14. CASE CursorSeeks(i)
  <2>1. AtBlockEnd(c)
    BY <1>2, <1>14 DEF CursorSeeks
  <2>2. CASE BlockToLoad(c) > c.last
    <3> DEFINE p   == BehindIn(c, blocks) + 1
               h   == HistoryOf(blocks)
               new == [c EXCEPT !.block = BlockToLoad(c)]
    <3>1. /\ call' = [call EXCEPT ![i] = Idle] /\ cursor' = [cursor EXCEPT ![i] = new]
          /\ answer' = [answer EXCEPT ![i] = Answer("next", c.stream, NoTime, 0)]
      BY <1>2, <1>14, <2>2 DEF CursorSeeks, Return, Running, Give
    <3>2. /\ ~(p <= Len(h) /\ h[p] < c.end)
          /\ Sound(new, blocks) /\ BehindIn(new, blocks) = BehindIn(c, blocks)
      BY <1>4, <1>5, <2>1, <2>2, CursorAtEnd
    <3>3. new.stream = c.stream /\ new.end = c.end
      BY <1>3 DEF Cursor
    <3> HIDE DEF new
    <3>4. DataHistory' = DataHistory /\ Seen' = Seen
      BY <1>10, <3>1, <3>2, <3>3
    <3>5. Obeyed
      BY <1>2, <1>3, <1>4, <1>5, <3>1, <3>2, <3>4, NextEndsStep
    <3>6. Serving'
      BY <1>9, <3>1, <3>2, <3>3
    <3> QED
      BY <3>5, <3>6
  <2>3. CASE ~(BlockToLoad(c) > c.last)
    <3>1. call' = [call EXCEPT ![i].stage = "load"] /\ cursor' = cursor /\ answer' = answer
      BY <1>2, <1>14, <2>3 DEF CursorSeeks, Stage
    <3>2. Obeyed
      BY <1>7, <3>1, Stutters
    <3>3. Serving'
      BY <1>5, <1>11, <1>12, <2>1, <3>1
    <3> QED
      BY <3>2, <3>3
  <2> QED
    BY <2>2, <2>3
<1>15. ASSUME call[i].stage = "load"
       PROVE  /\ AtBlockEnd(c) /\ BlockToLoad(c) <= c.last
              /\ BlockToLoad(c) \in 1 .. Len(blocks)
              /\ position[i] = blocks[BlockToLoad(c)].offset
  <2>1. /\ AtBlockEnd(c) /\ BlockToLoad(c) <= c.last
        /\ position[i] = blocks[BlockToLoad(c)].offset
    BY <1>1, <1>2, <1>4, <1>15 DEF CursorSound, CursorRight, CursorLoading
  <2>2. BlockToLoad(c) \in Nat \ {0} /\ c.last <= Len(blocks) /\ c.last \in Nat
    BY <1>5 DEF Sound, Cursor, BlockToLoad, AtMost
  <2> QED
    BY <2>1, <2>2
<1>16. CASE CursorLoads(i)
  <2>1. PICK b \in 1 .. Len(blocks) : /\ b = BlockToLoad(c) /\ AtBlockEnd(c) /\ b <= c.last
                                      /\ position[i] = blocks[b].offset
    BY <1>15, <1>16 DEF CursorLoads
  <2>2. PICK block \in DecodedAt(blocks[b].offset, c.stream, blocks[b].cookie) :
          \E q \in StartIn(c, block.times) :
            cursor' = [cursor EXCEPT ![i] = Loaded(c, b, block, q)]
    <3>1. PICK block \in DecodedAt(position[Handle(i)], cursor[i].stream,
                        index[cursor[i].stream][BlockToLoad(cursor[i])].cookie) :
            \E q \in StartIn(cursor[i], block.times) :
              cursor' = [cursor EXCEPT ![i] = Loaded(cursor[i], BlockToLoad(cursor[i]), block, q)]
      BY <1>16 DEF CursorLoads
    <3>2. position[Handle(i)] = blocks[b].offset
      BY <2>1 DEF Handle
    <3>3. block \in DecodedAt(blocks[b].offset, c.stream, blocks[b].cookie)
      BY <1>2, <1>4, <2>1, <3>1, <3>2
    <3>4. \E q \in StartIn(c, block.times) :
            cursor' = [cursor EXCEPT ![i] = Loaded(c, b, block, q)]
      BY <1>2, <2>1, <3>1
    <3> QED
      BY <3>3, <3>4
  <2>3. block = Content(blocks[b])
    <3> DEFINE v == <<c.stream, b>>
    <3>1. v \in Places /\ RefAt(v) = blocks[b] /\ v[1] = c.stream
      BY <1>3, <1>4 DEF Places, Visit, RefAt
    <3> HIDE DEF v
    <3> QED
      BY <1>1, <2>2, <3>1, DecodesWanted
  <2>4. PICK q \in StartIn(c, blocks[b].times) :
          cursor' = [cursor EXCEPT ![i] = Loaded(c, b, Content(blocks[b]), q)]
    BY <2>2, <2>3 DEF Content
  <2> DEFINE new == Loaded(c, b, Content(blocks[b]), q)
  <2>5. Sound(new, blocks) /\ BehindIn(new, blocks) = BehindIn(c, blocks)
    BY <1>4, <1>5, <2>1, <2>4, CursorLoadsBlock
  <2>6. new.stream = c.stream /\ new.end = c.end
    BY <1>3 DEF Cursor, Loaded
  <2>7. /\ answer' = answer /\ call' = [call EXCEPT ![i].stage = "scan"]
        /\ cursor' = [cursor EXCEPT ![i] = new]
    BY <1>16, <2>4 DEF CursorLoads, Stage
  <2> HIDE DEF new
  <2>8. DataHistory' = DataHistory /\ Seen' = Seen
    BY <1>10, <2>5, <2>6, <2>7
  <2>9. Obeyed
    BY <2>7, <2>8, SeenIsCursor DEF Obeyed, Contract!vars, Seen, Shown
  <2>10. Serving'
    BY <1>12, <2>5, <2>6, <2>7
  <2> QED
    BY <2>9, <2>10
<1>17. CASE CursorThrows(i)
  <2> DEFINE h   == HistoryOf(blocks)
             new == [c EXCEPT !.block = BlockToLoad(c)]
  <2>1. /\ call' = [call EXCEPT ![i] = Idle] /\ cursor' = [cursor EXCEPT ![i] = new]
        /\ answer' = [answer EXCEPT ![i] = Thrown]
    BY <1>2, <1>17 DEF CursorThrows, Return, Running, Give
  <2>2. Sound(new, blocks) /\ BehindIn(new, blocks) \in BehindIn(c, blocks) .. Len(h)
    BY <1>4, <1>5, <1>15, <1>17, CursorThrowsBlock DEF CursorThrows
  <2>3. new.stream = c.stream /\ new.end = c.end
    BY <1>3 DEF Cursor
  <2> HIDE DEF new
  <2>4. /\ new # Closed
        /\ Behind(new) \in Behind(c) .. Len(DataHistory[c.stream])
    BY <1>4, <1>5, <1>6, <2>2, <2>3
  <2>5. /\ DataHistory' = DataHistory
        /\ Seen' = [Seen EXCEPT ![i] = [stream |-> c.stream, end |-> c.end, pos |-> Behind(new)]]
    BY <1>1, <1>7, <2>1, <2>3, <2>4, CursorSeen
  <2>6. /\ Seen[i] = [stream |-> c.stream, end |-> c.end, pos |-> Behind(c)]
        /\ Seen[i] # Contract!Closed
    BY <1>2, <1>3, SeenOpen
  <2>7. ThrownOf(i)
    <3>1. /\ Seen[i].pos = Behind(c) /\ Seen[i].stream = c.stream
          /\ [Seen[i] EXCEPT !.pos = Behind(new)]
               = [stream |-> c.stream, end |-> c.end, pos |-> Behind(new)]
      BY <2>6
    <3>2. Seen' = [Seen EXCEPT ![i].pos = Behind(new)]
      BY <2>5, <3>1
    <3> QED
      BY <2>1, <2>4, <2>5, <2>6, <3>1, <3>2 DEF ThrownOf
  <2>8. Serving'
    BY <1>9, <2>1, <2>2, <2>3
  <2> QED
    BY <2>7, <2>8, ThrownOfContract
<1> QED
  BY <1>13, <1>14, <1>16, <1>17

----------------------------------------------------------------------------
(* Every step is one of the contract, or a stutter.                       *)
LEMMA StepServes ==
  ASSUME Inv, Accounted, Serving, [Next]_vars
  PROVE  Obeyed /\ Serving'
<1>1. ASSUME NEW i \in Instances, Calls(i)
      PROVE  Obeyed /\ Serving'
  BY <1>1, LookupServes, QuietServes, CacheServes, OpenServes DEF Calls
<1>2. ASSUME NEW i \in Instances, Work(i)
      PROVE  Obeyed /\ Serving'
  BY <1>2, CacheServes, QuietServes, UseServes, CursorServes DEF Work
<1>3. CASE UNCHANGED vars
  <2>1. index' = index /\ cursor' = cursor /\ answer' = answer /\ call' = call
    BY <1>3 DEF vars
  <2>2. Obeyed
    BY <2>1, Stutters
  <2>3. Serving'
    BY <2>1 DEF Serving, SearchRight, CursorSound
  <2> QED
    BY <2>2, <2>3
<1> QED
  BY <1>1, <1>2, <1>3 DEF Next

(* The inductive invariant of the refinement holds.                       *)
LEMMA ServingCorrect == Spec => []Serving
<1>1. Init => Serving
  <2> SUFFICES ASSUME Init
               PROVE  Serving
    OBVIOUS
  <2>1. ASSUME NEW i \in Instances
        PROVE  call[i] = Idle /\ cursor[i] = Closed
    BY DEF Init
  <2>2. Idle.op = "none" /\ Idle.stage = "idle"
    BY DEF Idle
  <2> QED
    BY <2>1, <2>2 DEF Serving, SearchRight, CursorSound, Searches, Lookups, GetStages
<1>2. Inv /\ Accounted /\ Serving /\ [Next]_vars => Serving'
  BY StepServes
<1> QED
  BY <1>1, <1>2, InvCorrect, AccountedCorrect, PTL DEF Spec

(* Whatever the layout of the blocks, the state of the cache and of the     *)
(* handles, and whichever reads fail, a LazyStorage answers as a storage    *)
(* that holds the plain history in memory (lazy_storage.cpp, storage.hpp).  *)
THEOREM ImplementsStorageCorrect == Spec => ImplementsStorage
<1>1. Init => Contract!Init
  <2> SUFFICES ASSUME Init
               PROVE  Contract!Init
    OBVIOUS
  <2>1. DataHistory \in {HistoryIn(layout) : layout \in Layouts}
    BY DEF Init, DataHistory
  <2>2. answer = [i \in Instances |-> Void] /\ Seen = [i \in Instances |-> Closed]
    BY DEF Init, Seen, Shown
  <2> QED
    BY <2>1, <2>2
    DEF Contract!Init, Contract!Void, Void, Contract!Closed, Closed, Seen, Shown
<1>2. Inv /\ Accounted /\ Serving /\ [Next]_vars => [Contract!Next]_(Contract!vars)
  BY StepServes DEF Obeyed
<1> QED
  BY <1>1, <1>2, InvCorrect, AccountedCorrect, ServingCorrect, PTL
  DEF Spec, ImplementsStorage, Contract!Spec
=============================================================================
