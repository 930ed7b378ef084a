----------------------- MODULE IndexingBuilder_proofs -----------------------
(***************************************************************************)
(* Theorems about IndexingBuilder, for every number of streams, every      *)
(* history and every value of the options: its types and its budget, and   *)
(* then what it writes.                                                    *)
(***************************************************************************)
EXTENDS StoreRefinement, SequenceTheorems, DataInduction

(* A flush never takes more from the counter than the counter holds.       *)
LEMMA BudgetStaysNat ==
  ASSUME NEW total \in Nat, NEW freed \in Nat
  PROVE  BudgetAfterFlush(total, freed) \in Nat
  BY DEF BudgetAfterFlush, AtMost

(* Relief never sinks its threshold to 0.                                 *)
LEMMA ThresholdsArePositive ==
  /\ \A n \in Nat \ {0} : FirstThreshold(n) \in Nat \ {0}
  /\ \A m \in Nat \ {0} : NextThreshold(m) \in Nat \ {0}
  BY OptionsAssumption DEF FirstThreshold, NextThreshold, AtMost, AtLeast

(* What is written for a block is a segment, and its entry a BlockRef.     *)
LEMMA BlockRefType ==
  ASSUME NEW c \in Seq(Change), c # <<>>, NEW off \in Nat, NEW size \in BlockSizes
  PROVE  /\ RefOf(c, off, size) \in BlockRef
         /\ BlockSegment(c, off, size) \in Segment
<1>1. Len(c) \in Nat /\ c[1] \in Change /\ c[Len(c)] \in Change
  OBVIOUS
<1>2. c[1].time \in Int /\ SpanEnd(c) \in Int
  BY <1>1, BoundsAssumption DEF SpanEnd, Change, Times
<1>3. size \in Nat
  BY LayoutAssumption
<1> QED
  BY <1>1, <1>2, <1>3 DEF RefOf, BlockRef, BlockSegment, Segment

(* A write that succeeds keeps the types of the file.                     *)
LEMMA WriteOkType ==
  ASSUME TypeOK, NEW seg \in Segment, WriteOk(seg)
  PROVE  /\ offset' \in Nat /\ out' \in {"good", "failed", "closed"}
         /\ written' \in Seq(Segment)
         /\ landed' \in 0 .. Len(written') /\ torn' \in Nat
<1>1. seg.size \in Nat
  BY DEF Segment
<1> QED
  BY <1>1 DEF TypeOK, WriteOk, OffsetAfter

(* So does a write that fails.                                            *)
LEMMA WriteFailsType ==
  ASSUME TypeOK, NEW seg \in Segment, WriteFails(seg)
  PROVE  /\ offset' \in Nat /\ out' \in {"good", "failed", "closed"}
         /\ written' \in Seq(Segment)
         /\ landed' \in 0 .. Len(written') /\ torn' \in Nat
<1>1. seg.size \in Nat
  BY DEF Segment
<1>2. \A j \in 1 .. Len(written) : written[j].size \in Nat
  BY DEF TypeOK, Segment
<1>3. CASE out = "good"
  <2>1. PICK k \in landed .. Len(written) :
          /\ landed' = k
          /\ torn' \in 0 .. (IF k < Len(written) THEN written[k + 1].size ELSE seg.size) - 1
    BY <1>3 DEF WriteFails
  <2>2. k \in 0 .. Len(written) /\ Len(written) \in Nat
    BY DEF TypeOK
  <2>3. torn' \in Nat
    BY <1>1, <1>2, <2>1, <2>2
  <2> QED
    BY <2>1, <2>2, <2>3 DEF TypeOK, WriteFails
<1>4. CASE out # "good"
  BY <1>4 DEF TypeOK, WriteFails
<1> QED
  BY <1>3, <1>4

(* A flush that succeeds keeps the types; the counter is clamped, not     *)
(* wrapped.                                                               *)
LEMMA FlushOkType ==
  ASSUME TypeOK, NEW s \in Sids, FlushOk(s), s < allocated, kind[s] \in Kinds
  PROVE  /\ allocated' = allocated /\ kind' = kind
         /\ block' \in [Sids -> Seq(Change)]
         /\ payload' \in [Sids -> Nat] /\ buffered' \in Nat
         /\ index' \in [Sids -> Seq(BlockRef)]
         /\ offset' \in Nat /\ out' \in {"good", "failed", "closed"}
         /\ written' \in Seq(Segment)
         /\ landed' \in 0 .. Len(written') /\ torn' \in Nat
<1>1. PICK size \in BlockSizes :
        /\ AddBlock(s, size)
        /\ WriteOk(BlockSegment(block[s], offset, size))
        /\ buffered' = BudgetAfterFlush(buffered, payload[s])
        /\ block' = Emptied(block, s)
        /\ payload' = [payload EXCEPT ![s] = EmptyPayload[kind[s]]]
        /\ UNCHANGED <<allocated, kind>>
  BY DEF FlushOk
<1>2. block[s] # <<>> /\ block[s] \in Seq(Change) /\ offset \in Nat
  BY <1>1 DEF AddBlock, NothingBuffered, TypeOK
<1>3. /\ RefOf(block[s], offset, size) \in BlockRef
      /\ BlockSegment(block[s], offset, size) \in Segment
  BY <1>2, BlockRefType
<1>4. index' \in [Sids -> Seq(BlockRef)]
  BY <1>1, <1>3 DEF AddBlock, Indexed, TypeOK
<1>5. payload' \in [Sids -> Nat] /\ buffered' \in Nat
  BY <1>1, BudgetStaysNat, PayloadAssumption DEF TypeOK
<1>6. block' \in [Sids -> Seq(Change)]
  BY <1>1 DEF Emptied, TypeOK
<1> QED
  BY <1>1, <1>3, <1>4, <1>5, <1>6, WriteOkType

(* So does a flush whose write fails.                                     *)
LEMMA FlushFailsType ==
  ASSUME TypeOK, NEW s \in Sids, FlushFails(s)
  PROVE  /\ UNCHANGED streamVars
         /\ index' \in [Sids -> Seq(BlockRef)]
         /\ offset' \in Nat /\ out' \in {"good", "failed", "closed"}
         /\ written' \in Seq(Segment)
         /\ landed' \in 0 .. Len(written') /\ torn' \in Nat
<1>1. PICK size \in BlockSizes :
        /\ AddBlock(s, size)
        /\ WriteFails(BlockSegment(block[s], offset, size))
        /\ UNCHANGED streamVars
  BY DEF FlushFails
<1>2. block[s] # <<>> /\ block[s] \in Seq(Change) /\ offset \in Nat
  BY <1>1 DEF AddBlock, NothingBuffered, TypeOK
<1>3. /\ RefOf(block[s], offset, size) \in BlockRef
      /\ BlockSegment(block[s], offset, size) \in Segment
  BY <1>2, BlockRefType
<1>4. index' \in [Sids -> Seq(BlockRef)]
  BY <1>1, <1>3 DEF AddBlock, Indexed, TypeOK
<1> QED
  BY <1>1, <1>3, <1>4, WriteFailsType

(* The type invariant is inductive with this: what is below allocated has a *)
(* kind, the stream that is flushed is one of them, and the footer follows  *)
(* the metadata.                                                            *)
Allocated ==
  /\ \A s \in Sids : s < allocated => kind[s] \in Kinds
  /\ pc = "flush" => sid < allocated
  /\ pc = "footer" => MetaSize <= offset

Typed == TypeOK /\ Allocated

(* The inductive invariant holds: types, and that only allocated streams  *)
(* have data.                                                             *)
THEOREM TypedCorrect == Spec => []Typed
<1>1. Init => Typed
  <2> SUFFICES ASSUME Init PROVE Typed
    OBVIOUS
  <2>1. written \in Seq(Segment) /\ Len(written) = 1
    BY LayoutAssumption DEF Init, Segment
  <2>2. 0 \in Times /\ 0 \in 0 .. MaxStreams /\ HeaderSize \in Nat
    BY BoundsAssumption, LayoutAssumption DEF Times
  <2>3. /\ kind \in [Sids -> Kinds \cup {NoKind}] /\ payload \in [Sids -> Nat]
        /\ block \in [Sids -> Seq(Change)] /\ history \in [Sids -> Seq(Change)]
        /\ index \in [Sids -> Seq(BlockRef)]
    BY DEF Init
  <2>4. /\ allocated = 0 /\ pc = "idle" /\ sid = 0 /\ minCount = 1 /\ buffered = 0
        /\ now = 0 /\ firstTime = NoTime /\ lastTime = NoTime
        /\ offset = HeaderSize /\ out = "good" /\ outcome = "none"
        /\ landed = 0 /\ torn = 0
    BY DEF Init
  <2>5. Allocated
    BY <2>4 DEF Allocated, Sids
  <2>6. finished \in BOOLEAN
    BY DEF Init
  <2>7. TypeOK
    BY <2>1, <2>2, <2>3, <2>4, <2>6 DEF TypeOK, Phases
  <2> QED
    BY <2>5, <2>7 DEF Typed
<1>2. Typed /\ [Next]_vars => Typed'
  <2> SUFFICES ASSUME TypeOK, Allocated, [Next]_vars
               PROVE  TypeOK' /\ Allocated'
    BY DEF Typed
  <2> USE DEF callVars, streamVars, timeVars, fileVars
  <2>0. \A s \in Nat : s < MaxStreams <=> s \in Sids
    BY BoundsAssumption DEF Sids
  <2>1. ASSUME NEW k \in Kinds, AllocStream(k)
        PROVE  TypeOK' /\ Allocated'
    <3>1. allocated \in Sids /\ allocated' \in 0 .. MaxStreams
      BY <2>0, <2>1, BoundsAssumption DEF AllocStream, TypeOK
    <3>2. kind' \in [Sids -> Kinds \cup {NoKind}] /\ payload' \in [Sids -> Nat]
      BY <2>1, <3>1, PayloadAssumption DEF AllocStream, TypeOK
    <3>3. \A s \in Sids : s < allocated' => kind'[s] \in Kinds
      BY <2>1, <3>1 DEF AllocStream, TypeOK, Allocated, Sids
    <3> QED
      BY <2>1, <3>1, <3>2, <3>3 DEF AllocStream, Callable, TypeOK, Allocated
  <2>2. ASSUME NEW t \in Times, SetTime(t)
        PROVE  TypeOK' /\ Allocated'
    BY <2>2 DEF SetTime, TypeOK, Allocated
  <2>3. ASSUME NEW s \in Sids, ValueChange(s)
        PROVE  TypeOK' /\ Allocated'
    <3> DEFINE change == [time |-> now, n |-> Len(history[s]) + 1]
    <3>1. change \in Change
      BY DEF Change, TypeOK
    <3>2. /\ history' = [history EXCEPT ![s] = Append(@, change)]
          /\ block' = [block EXCEPT ![s] = Append(@, change)]
      BY <2>3 DEF ValueChange
    <3>3. /\ history' \in [Sids -> Seq(Change)]
          /\ block' \in [Sids -> Seq(Change)]
          /\ Len(block'[s]) > 0
      BY <3>1, <3>2 DEF TypeOK
    <3>4. ChangePayload[kind[s]] \in Nat
      BY <2>3, PayloadAssumption DEF ValueChange, Allocated
    <3>5. payload' \in [Sids -> Nat] /\ buffered' \in Nat
      <4>1. /\ payload' = [payload EXCEPT ![s] = @ + ChangePayload[kind[s]]]
            /\ buffered' = buffered + ChangePayload[kind[s]]
        BY <2>3 DEF ValueChange
      <4> QED
        BY <3>4, <4>1, SMTT(30) DEF TypeOK
    <3>6. /\ pc' \in Phases /\ sid' \in 0 .. MaxStreams /\ minCount' \in Nat \ {0}
          /\ pc' = "flush" => sid' < allocated'
      <4>1. CASE MustFlush(block'[s])
        BY <2>3, <4>1, BoundsAssumption DEF ValueChange, Phases, TypeOK, Sids
      <4>2. CASE ~MustFlush(block'[s]) /\ OverBudget(buffered')
        <5>1. PICK r \in Sids : IsLongest(block', r) /\ minCount' = FirstThreshold(Len(block'[r]))
          BY <2>3, <4>2 DEF ValueChange
        <5>2. Len(block'[r]) \in Nat \ {0}
          BY <3>3, <5>1 DEF IsLongest
        <5>3. minCount' \in Nat \ {0}
          BY <5>1, <5>2, ThresholdsArePositive
        <5> QED
          BY <2>3, <4>2, <5>3, BoundsAssumption DEF ValueChange, Phases
      <4>3. CASE ~MustFlush(block'[s]) /\ ~OverBudget(buffered')
        BY <2>3, <4>3 DEF ValueChange, TypeOK, Allocated
      <4> QED
        BY <4>1, <4>2, <4>3
    <3> QED
      BY <2>3, <3>3, <3>5, <3>6 DEF ValueChange, TypeOK, Allocated
  <2>4. ASSUME FlushFull
        PROVE  TypeOK' /\ Allocated'
    <3>1. sid \in Sids /\ sid < allocated /\ kind[sid] \in Kinds
      BY <2>0, <2>4, BoundsAssumption DEF FlushFull, TypeOK, Allocated, Sids
    <3>2. CASE FlushOk(sid)
      BY <2>4, <3>1, <3>2, FlushOkType DEF FlushFull, TypeOK, Allocated, Phases
    <3>3. CASE FlushFails(sid)
      BY <2>4, <3>1, <3>3, FlushFailsType DEF FlushFull, TypeOK, Allocated, Phases
    <3> QED
      BY <2>4, <3>2, <3>3 DEF FlushFull
  <2>5. ASSUME RelieveFlush
        PROVE  TypeOK' /\ Allocated'
    <3>1. sid \in Sids /\ sid < allocated /\ kind[sid] \in Kinds /\ sid + 1 \in 0 .. MaxStreams
      BY <2>0, <2>5, BoundsAssumption DEF RelieveFlush, TypeOK, Allocated, Sids
    <3>2. CASE FlushOk(sid) /\ sid' = sid + 1 /\ UNCHANGED pc
      BY <2>5, <3>1, <3>2, FlushOkType DEF RelieveFlush, TypeOK, Allocated, Phases
    <3>3. CASE FlushFails(sid) /\ pc' = "idle" /\ UNCHANGED sid
      BY <2>5, <3>1, <3>3, FlushFailsType DEF RelieveFlush, TypeOK, Allocated, Phases
    <3> QED
      BY <2>5, <3>2, <3>3 DEF RelieveFlush
  <2>6. ASSUME RelieveSkip
        PROVE  TypeOK' /\ Allocated'
    <3>1. sid + 1 \in 0 .. MaxStreams
      BY <2>6, BoundsAssumption DEF RelieveSkip, TypeOK
    <3> QED
      BY <2>6, <3>1 DEF RelieveSkip, TypeOK, Allocated
  <2>7. ASSUME RelievePassEnds
        PROVE  TypeOK' /\ Allocated'
    <3>1. /\ pc' \in {"idle", "relieve"} /\ sid' \in 0 .. MaxStreams
          /\ minCount' \in Nat \ {0}
      BY <2>7, ThresholdsArePositive, BoundsAssumption DEF RelievePassEnds, TypeOK
    <3> QED
      BY <2>7, <3>1 DEF RelievePassEnds, TypeOK, Allocated, Phases
  <2>8. ASSUME Finish
        PROVE  TypeOK' /\ Allocated'
    BY <2>8, BoundsAssumption DEF Finish, TypeOK, Allocated, Phases
  <2>9. ASSUME DrainFlush
        PROVE  TypeOK' /\ Allocated'
    <3>1. sid \in Sids /\ sid < allocated /\ kind[sid] \in Kinds /\ sid + 1 \in 0 .. MaxStreams
      BY <2>0, <2>9, BoundsAssumption DEF DrainFlush, TypeOK, Allocated, Sids
    <3>2. CASE FlushOk(sid) /\ sid' = sid + 1 /\ UNCHANGED <<pc, outcome>>
      BY <2>9, <3>1, <3>2, FlushOkType DEF DrainFlush, TypeOK, Allocated, Phases
    <3>3. CASE FlushFails(sid) /\ FinishThrows /\ UNCHANGED sid
      BY <2>9, <3>1, <3>3, FlushFailsType DEF DrainFlush, FinishThrows, TypeOK, Allocated, Phases
    <3> QED
      BY <2>9, <3>2, <3>3 DEF DrainFlush
  <2>10. ASSUME DrainSkip
         PROVE  TypeOK' /\ Allocated'
    <3>1. sid + 1 \in 0 .. MaxStreams
      BY <2>10, BoundsAssumption DEF DrainSkip, TypeOK
    <3> QED
      BY <2>10, <3>1 DEF DrainSkip, TypeOK, Allocated
  <2>11. ASSUME DrainEnds
         PROVE  TypeOK' /\ Allocated'
    BY <2>11 DEF DrainEnds, TypeOK, Allocated, Phases
  <2>12. ASSUME WriteMeta
         PROVE  TypeOK' /\ Allocated'
    <3>1. MetaSegment \in Segment
      BY LayoutAssumption, BoundsAssumption, NoTimeAssumption
      DEF MetaSegment, Segment, TypeOK, Times
    <3>2. CASE WriteOk(MetaSegment) /\ pc' = "footer" /\ UNCHANGED outcome
      <4>1. offset' = offset + MetaSize
        BY <3>2 DEF WriteOk, OffsetAfter, MetaSegment
      <4>2. MetaSize <= offset'
        BY <4>1, LayoutAssumption DEF TypeOK
      <4> QED
        BY <2>12, <3>1, <3>2, <4>2, WriteOkType DEF WriteMeta, TypeOK, Allocated, Phases
    <3>3. CASE WriteFails(MetaSegment) /\ FinishThrows
      BY <2>12, <3>1, <3>3, WriteFailsType DEF WriteMeta, FinishThrows, TypeOK, Allocated, Phases
    <3> QED
      BY <2>12, <3>2, <3>3 DEF WriteMeta
  <2>13. ASSUME WriteFooter
         PROVE  TypeOK' /\ Allocated'
    <3>1. FooterSegment \in Segment
      BY <2>13, LayoutAssumption DEF WriteFooter, FooterSegment, Segment, TypeOK, Allocated
    <3>2. CASE WriteOk(FooterSegment) /\ pc' = "sync" /\ UNCHANGED outcome
      BY <2>13, <3>1, <3>2, WriteOkType DEF WriteFooter, TypeOK, Allocated, Phases
    <3>3. CASE WriteFails(FooterSegment) /\ FinishThrows
      BY <2>13, <3>1, <3>3, WriteFailsType DEF WriteFooter, FinishThrows, TypeOK, Allocated, Phases
    <3> QED
      BY <2>13, <3>2, <3>3 DEF WriteFooter
  <2>14. ASSUME FlushAndClose
         PROVE  TypeOK' /\ Allocated'
    BY <2>14 DEF FlushAndClose, TypeOK, Allocated, Phases
  <2>15. ASSUME FlushThrows
         PROVE  TypeOK' /\ Allocated'
    <3>1. PICK k \in landed .. Len(written) - 1 :
            landed' = k /\ torn' \in 0 .. written[k + 1].size - 1
      BY <2>15 DEF FlushThrows
    <3>2. k + 1 \in 1 .. Len(written) /\ written[k + 1].size \in Nat
      BY <3>1 DEF TypeOK, Segment
    <3>3. landed' \in 0 .. Len(written) /\ torn' \in Nat
      BY <3>1, <3>2 DEF TypeOK
    <3> QED
      BY <2>15, <3>3 DEF FlushThrows, FinishThrows, TypeOK, Allocated, Phases
  <2>16. ASSUME TakeDatabase
         PROVE  TypeOK' /\ Allocated'
    BY <2>16 DEF TakeDatabase, TypeOK, Allocated, Phases
  <2>17. ASSUME Land
         PROVE  TypeOK' /\ Allocated'
    BY <2>17 DEF Land, TypeOK, Allocated
  <2>18. ASSUME Die
         PROVE  TypeOK' /\ Allocated'
    <3>1. landed < Len(written) => written[landed + 1].size \in Nat
      BY DEF TypeOK, Segment
    <3>2. torn' \in Nat
      BY <2>18, <3>1 DEF Die, TypeOK
    <3> QED
      BY <2>18, <3>2 DEF Die, TypeOK, Allocated, Phases
  <2>19. CASE UNCHANGED vars
    BY <2>19 DEF vars, TypeOK, Allocated
  <2> QED
    BY <2>1, <2>2, <2>3, <2>4, <2>5, <2>6, <2>7, <2>8, <2>9, <2>10, <2>11, <2>12,
       <2>13, <2>14, <2>15, <2>16, <2>17, <2>18, <2>19
    DEF Next, Calls, Internal
<1> QED
  BY <1>1, <1>2, PTL DEF Spec

(* The type invariant: in particular buffered_ never wraps below zero.      *)
THEOREM TypeCorrect == Spec => []TypeOK
<1>1. Typed => TypeOK
  BY DEF Typed
<1> QED
  BY <1>1, TypedCorrect, PTL

----------------------------------------------------------------------------
(* Every step writes one segment at offset_, which is not empty, or none.   *)
Writes(seg) ==
  /\ seg \in Segment /\ seg.off = offset /\ seg.size > 0
  /\ written' = Append(written, seg)
  /\ offset' = offset + seg.size

(* A step writes one segment at offset_ or none.                          *)
LEMMA WrittenBySteps ==
  ASSUME Typed, [Next]_vars
  PROVE  \/ \E seg \in Segment : Writes(seg)
         \/ UNCHANGED <<written, offset>>
<1> USE DEF callVars, streamVars, timeVars, fileVars
<1>1. ASSUME NEW s \in Sids, FlushOk(s)
      PROVE  \E seg \in Segment : Writes(seg)
  <2>1. PICK size \in BlockSizes :
          /\ block[s] # <<>>
          /\ WriteOk(BlockSegment(block[s], offset, size))
    BY <1>1 DEF FlushOk, AddBlock, NothingBuffered
  <2>2. BlockSegment(block[s], offset, size) \in Segment
    BY <2>1, BlockRefType DEF Typed, TypeOK
  <2>3. /\ BlockSegment(block[s], offset, size).off = offset
        /\ BlockSegment(block[s], offset, size).size > 0
    BY LayoutAssumption DEF BlockSegment
  <2> QED
    BY <2>1, <2>2, <2>3 DEF Writes, WriteOk, OffsetAfter
<1>2. ASSUME NEW s \in Sids, FlushFails(s)
      PROVE  UNCHANGED <<written, offset>>
  BY <1>2 DEF FlushFails, WriteFails
<1>3. CASE Calls
  BY <1>3 DEF Calls, AllocStream, SetTime, ValueChange, Finish, TakeDatabase
<1>4. CASE FlushFull \/ RelieveFlush \/ DrainFlush
  <2>1. sid \in Sids /\ (FlushOk(sid) \/ FlushFails(sid))
    BY <1>4, BoundsAssumption
    DEF FlushFull, RelieveFlush, DrainFlush, Typed, TypeOK, Allocated, Sids
  <2> QED
    BY <1>1, <1>2, <2>1
<1>5. CASE RelieveSkip \/ RelievePassEnds \/ DrainSkip \/ DrainEnds
  BY <1>5 DEF RelieveSkip, RelievePassEnds, DrainSkip, DrainEnds
<1>6. CASE WriteMeta
  <2>1. MetaSegment \in Segment /\ MetaSegment.off = offset /\ MetaSegment.size > 0
    BY LayoutAssumption, BoundsAssumption, NoTimeAssumption
    DEF MetaSegment, Segment, Typed, TypeOK, Times
  <2> QED
    BY <1>6, <2>1 DEF WriteMeta, WriteOk, WriteFails, Writes, OffsetAfter
<1>7. CASE WriteFooter
  <2>1. FooterSegment \in Segment /\ FooterSegment.off = offset /\ FooterSegment.size > 0
    BY <1>7, LayoutAssumption
    DEF WriteFooter, FooterSegment, Segment, Typed, TypeOK, Allocated
  <2> QED
    BY <1>7, <2>1 DEF WriteFooter, WriteOk, WriteFails, Writes, OffsetAfter
<1>8. CASE FlushAndClose \/ FlushThrows \/ Land \/ Die
  BY <1>8 DEF FlushAndClose, FlushThrows, Land, Die
<1>9. CASE UNCHANGED vars
  BY <1>9 DEF vars
<1> QED
  BY <1>3, <1>4, <1>5, <1>6, <1>7, <1>8, <1>9 DEF Next, Internal

(* offset_ is the end of the file and the segments tile it, for any number  *)
(* of flushes, failures and sizes of blocks.                                *)
THEOREM OffsetCorrect == Spec => []OffsetIsFileEnd
<1> DEFINE Inv == OffsetIsFileEnd /\ Len(written) > 0
<1>1. Init => Inv
  BY LayoutAssumption DEF Init, OffsetIsFileEnd, Tiles, EndOf
<1>2. Inv /\ Typed /\ [Next]_vars => Inv'
  <2> SUFFICES ASSUME OffsetIsFileEnd, Len(written) > 0, Typed, [Next]_vars
               PROVE  Inv'
    OBVIOUS
  <2>1. CASE UNCHANGED <<written, offset>>
    BY <2>1 DEF OffsetIsFileEnd, Tiles, EndOf
  <2>2. ASSUME NEW seg \in Segment, Writes(seg)
        PROVE  Inv'
    <3>1. PICK n \in Nat : n = Len(written)
      BY DEF Typed, TypeOK
    <3>2. /\ Len(written') = n + 1 /\ DOMAIN written' = 1 .. n + 1
          /\ written'[n + 1] = seg
          /\ \A j \in 1 .. n : written'[j] = written[j]
      BY <2>2, <3>1 DEF Writes, Typed, TypeOK
    <3>3. /\ seg.off = offset /\ offset' = offset + seg.size
      BY <2>2 DEF Writes
    <3>4. DOMAIN written = 1 .. n /\ n \in 1 .. n
      BY <3>1 DEF Typed, TypeOK
    <3>5. ASSUME NEW j \in 1 .. n
          PROVE  EndOf(j)' = EndOf(j)
      BY <3>2, <3>5 DEF EndOf
    <3>6. ASSUME NEW j \in 1 .. n
          PROVE  Tiles(j)'
      <4>1. Tiles(j)
        BY <3>4, <3>6 DEF OffsetIsFileEnd
      <4>2. j # 1 => j - 1 \in 1 .. n
        BY <3>1, <3>6
      <4> QED
        BY <3>2, <3>5, <3>6, <4>1, <4>2 DEF Tiles
    <3>7. Tiles(n + 1)'
      <4>1. written'[n + 1].off = EndOf(n)'
        BY <3>1, <3>2, <3>3, <3>4, <3>5 DEF OffsetIsFileEnd
      <4>2. n + 1 # 1 /\ n + 1 - 1 = n
        BY <3>4
      <4> QED
        BY <4>1, <4>2 DEF Tiles
    <3>8. offset' = EndOf(n + 1)'
      BY <3>2, <3>3 DEF EndOf
    <3>9. \A j \in DOMAIN written' : Tiles(j)'
      BY <3>1, <3>2, <3>6, <3>7
    <3> QED
      BY <3>1, <3>2, <3>8, <3>9 DEF OffsetIsFileEnd
  <2> QED
    BY <2>1, <2>2, WrittenBySteps
<1>3. Inv => OffsetIsFileEnd
  OBVIOUS
<1> QED
  BY <1>1, <1>2, <1>3, TypedCorrect, PTL DEF Spec
----------------------------------------------------------------------------
(* The budget.  Grown counts the bytes of the changes an accumulator holds; *)
(* buffered_ is not more than their sum, and is the sum itself when fresh   *)
(* blocks have no bytes of their own.                                       *)
Grown ==
  [s \in Sids |-> IF block[s] = <<>> THEN 0 ELSE payload[s] - EmptyPayload[kind[s]]]

Weighed ==
  \A s \in Sids :
    IF block[s] # <<>>
    THEN s < allocated /\ payload[s] >= EmptyPayload[kind[s]] + ChangePayload[kind[s]]
    ELSE s < allocated => payload[s] = EmptyPayload[kind[s]]

NoOverhead == \A k \in Kinds : EmptyPayload[k] = 0

Counted ==
  /\ buffered <= SumFunction(Grown)
  /\ NoOverhead => buffered = SumFunction(Grown)

(* What keeps the counter under its ceiling: a block is flushed for the     *)
(* change that filled it, and a pass of relieve() leaves nothing as long as *)
(* its threshold behind it.                                                 *)
Bounded ==
  /\ pc = "sync" => out = "good"
  /\ out # "failed" =>
       /\ pc \in {"idle", "drain", "meta", "footer", "sync", "taken"} => buffered <= BufferBytes
       /\ pc = "flush" =>
            block[sid] # <<>> /\ buffered - ChangePayload[kind[sid]] <= BufferBytes
       /\ pc = "relieve" => \A r \in Sids : r < sid => Len(block[r]) < minCount

Budget == Weighed /\ Counted /\ Bounded

(* There are finitely many stream ids.                                    *)
LEMMA SidsFinite == IsFiniteSet(Sids)
<1>1. 0 \in Int /\ MaxStreams - 1 \in Int
  BY BoundsAssumption
<1> QED
  BY <1>1, FS_Interval DEF Sids

(* The bytes by which an accumulator has grown are a natural number.      *)
LEMMA GrownType == Typed /\ Weighed => Grown \in [Sids -> Nat]
<1> SUFFICES ASSUME Typed, Weighed, NEW s \in Sids, block[s] # <<>>
             PROVE  payload[s] - EmptyPayload[kind[s]] \in Nat
  BY DEF Grown
<1>1. s < allocated /\ payload[s] >= EmptyPayload[kind[s]] + ChangePayload[kind[s]]
  BY DEF Weighed
<1>2. kind[s] \in Kinds /\ payload[s] \in Nat
  BY <1>1 DEF Typed, TypeOK, Allocated
<1>3. EmptyPayload[kind[s]] \in Nat /\ ChangePayload[kind[s]] \in Nat
  BY <1>2, PayloadAssumption
<1> QED
  BY <1>1, <1>2, <1>3

(* The same after a step.                                                 *)
LEMMA GrownTypeNext == Typed' /\ Weighed' => (Grown \in [Sids -> Nat])'
  BY GrownType, PTL

(* What a flush does to the accumulator, the counter and the budget.        *)
LEMMA FlushCounts ==
  ASSUME Typed, Typed', Weighed, Counted, NEW s \in Sids, FlushOk(s), s < allocated
  PROVE  /\ Weighed' /\ Counted'
         /\ buffered' <= buffered
         /\ buffered' <= buffered - ChangePayload[kind[s]] \/ buffered' = 0
         /\ block' = [block EXCEPT ![s] = <<>>]
         /\ allocated' = allocated /\ out = "good" /\ out' = "good"
<1>1. /\ block[s] # <<>>
      /\ buffered' = BudgetAfterFlush(buffered, payload[s])
      /\ block' = [block EXCEPT ![s] = <<>>]
      /\ payload' = [payload EXCEPT ![s] = EmptyPayload[kind[s]]]
      /\ UNCHANGED <<allocated, kind>>
      /\ out = "good" /\ out' = "good"
  BY DEF FlushOk, AddBlock, NothingBuffered, Emptied, WriteOk
<1>2. /\ kind[s] \in Kinds
      /\ EmptyPayload[kind[s]] \in Nat /\ ChangePayload[kind[s]] \in Nat
      /\ payload[s] \in Nat /\ buffered \in Nat
      /\ payload[s] >= EmptyPayload[kind[s]] + ChangePayload[kind[s]]
  <2>1. kind[s] \in Kinds
    BY DEF Typed, Allocated
  <2>2. payload[s] >= EmptyPayload[kind[s]] + ChangePayload[kind[s]]
    BY <1>1 DEF Weighed
  <2> QED
    BY <2>1, <2>2, PayloadAssumption DEF Typed, TypeOK
<1>3. /\ \A r \in Sids \ {s} : block'[r] = block[r] /\ payload'[r] = payload[r]
      /\ block'[s] = <<>> /\ payload'[s] = EmptyPayload[kind[s]]
  BY <1>1 DEF Typed, TypeOK
<1>4. Weighed'
  <2> SUFFICES ASSUME NEW r \in Sids
               PROVE  IF block'[r] # <<>>
                      THEN /\ r < allocated'
                           /\ payload'[r] >= EmptyPayload[kind'[r]] + ChangePayload[kind'[r]]
                      ELSE r < allocated' => payload'[r] = EmptyPayload[kind'[r]]
    BY DEF Weighed
  <2>1. CASE r = s
    BY <1>1, <1>3, <2>1
  <2>2. CASE r # s
    BY <1>1, <1>3, <2>2 DEF Weighed
  <2> QED
    BY <2>1, <2>2
<1>5. /\ Grown \in [Sids -> Nat] /\ Grown' \in [Sids -> Nat]
      /\ \A r \in Sids \ {s} : Grown[r] = Grown'[r]
      /\ Grown[s] = payload[s] - EmptyPayload[kind[s]] /\ Grown'[s] = 0
  <2>1. Grown \in [Sids -> Nat] /\ Grown' \in [Sids -> Nat]
    BY <1>4, GrownType, GrownTypeNext
  <2> QED
    BY <1>1, <1>3, <2>1 DEF Grown
<1>6. PICK a \in Nat, b \in Nat : a = SumFunction(Grown) /\ b = SumFunction(Grown')
  BY <1>5, SidsFinite, SumType
<1>7. b = a - (payload[s] - EmptyPayload[kind[s]]) /\ payload[s] - EmptyPayload[kind[s]] <= a
  BY <1>2, <1>5, <1>6, SidsFinite, SumChanges
<1>8. buffered' = IF buffered <= payload[s] THEN 0 ELSE buffered - payload[s]
  BY <1>1, <1>2 DEF BudgetAfterFlush, AtMost
<1>9. Counted'
  <2>1. buffered' <= b
    BY <1>2, <1>6, <1>7, <1>8 DEF Counted
  <2>2. ASSUME NoOverhead
        PROVE  buffered' = b
    BY <1>2, <1>6, <1>7, <1>8, <2>2 DEF Counted, NoOverhead
  <2>3. NoOverhead' <=> NoOverhead
    BY DEF NoOverhead
  <2> QED
    BY <1>6, <2>1, <2>2, <2>3 DEF Counted
<1> QED
  BY <1>1, <1>2, <1>4, <1>8, <1>9

(* What a report does to them.                                              *)
LEMMA ReportCounts ==
  ASSUME Typed, Typed', Weighed, Counted, NEW s \in Sids, ValueChange(s)
  PROVE  /\ Weighed' /\ Counted'
         /\ buffered' = buffered + ChangePayload[kind[s]] /\ ChangePayload[kind[s]] \in Nat
         /\ block'[s] # <<>>
<1> DEFINE cost == ChangePayload[kind[s]]
<1>1. /\ s < allocated
      /\ \E c \in Change : block' = [block EXCEPT ![s] = Append(@, c)]
      /\ payload' = [payload EXCEPT ![s] = @ + cost]
      /\ buffered' = buffered + cost
      /\ UNCHANGED <<allocated, kind>>
  <2>1. [time |-> now, n |-> Len(history[s]) + 1] \in Change
    BY DEF Change, Typed, TypeOK
  <2> QED
    BY <2>1 DEF ValueChange
<1>2. /\ kind[s] \in Kinds /\ EmptyPayload[kind[s]] \in Nat /\ cost \in Nat
      /\ payload[s] \in Nat /\ buffered \in Nat
  <2>1. kind[s] \in Kinds
    BY <1>1 DEF Typed, Allocated
  <2> QED
    BY <2>1, PayloadAssumption DEF Typed, TypeOK
<1>3. /\ \A r \in Sids \ {s} : block'[r] = block[r] /\ payload'[r] = payload[r]
      /\ block'[s] # <<>> /\ payload'[s] = payload[s] + cost
  <2>1. \A r \in Sids \ {s} : block'[r] = block[r] /\ payload'[r] = payload[r]
    BY <1>1 DEF Typed, TypeOK
  <2>2. payload'[s] = payload[s] + cost
    BY <1>1 DEF Typed, TypeOK
  <2>3. PICK c \in Change : block'[s] = Append(block[s], c)
    BY <1>1 DEF Typed, TypeOK
  <2>4. Append(block[s], c) # <<>>
    <3>1. block[s] \in Seq(Change)
      BY DEF Typed, TypeOK
    <3>2. Len(Append(block[s], c)) = Len(block[s]) + 1 /\ Len(block[s]) \in Nat
      BY <3>1
    <3> QED
      BY <3>2
  <2> QED
    BY <2>1, <2>2, <2>3, <2>4
<1>4. payload[s] >= EmptyPayload[kind[s]]
  BY <1>1, <1>2 DEF Weighed
<1>5. Weighed'
  <2> SUFFICES ASSUME NEW r \in Sids
               PROVE  IF block'[r] # <<>>
                      THEN /\ r < allocated'
                           /\ payload'[r] >= EmptyPayload[kind'[r]] + ChangePayload[kind'[r]]
                      ELSE r < allocated' => payload'[r] = EmptyPayload[kind'[r]]
    BY DEF Weighed
  <2>1. CASE r = s
    BY <1>1, <1>2, <1>3, <1>4, <2>1
  <2>2. CASE r # s
    BY <1>1, <1>3, <2>2 DEF Weighed
  <2> QED
    BY <2>1, <2>2
<1>6. /\ Grown \in [Sids -> Nat] /\ Grown' \in [Sids -> Nat]
      /\ \A r \in Sids \ {s} : Grown[r] = Grown'[r]
      /\ Grown'[s] = Grown[s] + cost
  <2>1. Grown \in [Sids -> Nat] /\ Grown' \in [Sids -> Nat]
    BY <1>5, GrownType, GrownTypeNext
  <2>2. \A r \in Sids \ {s} : Grown[r] = Grown'[r]
    BY <1>1, <1>3 DEF Grown
  <2>3. Grown'[s] = payload[s] + cost - EmptyPayload[kind[s]]
    <3>1. Grown'[s] = payload'[s] - EmptyPayload[kind'[s]]
      BY <1>3 DEF Grown
    <3>2. kind'[s] = kind[s]
      BY <1>1
    <3>3. payload'[s] = payload[s] + cost
      BY <1>3
    <3> QED
      BY <1>2, <3>1, <3>2, <3>3
  <2>4. Grown[s] = payload[s] - EmptyPayload[kind[s]]
    BY <1>1, <1>2 DEF Grown, Weighed
  <2> QED
    BY <1>2, <2>1, <2>2, <2>3, <2>4
<1>7. PICK a \in Nat, b \in Nat : a = SumFunction(Grown) /\ b = SumFunction(Grown')
  BY <1>6, SidsFinite, SumType
<1>8. b = a + cost
  <2>1. b = a - Grown[s] + Grown'[s] /\ Grown[s] \in Nat
    BY <1>6, <1>7, SidsFinite, SumChanges
  <2> QED
    BY <1>2, <1>6, <2>1
<1>9. Counted'
  <2>1. NoOverhead' <=> NoOverhead
    BY DEF NoOverhead
  <2>2. buffered' <= b /\ (NoOverhead => buffered' = b)
    BY <1>1, <1>2, <1>7, <1>8 DEF Counted
  <2> QED
    BY <1>7, <2>1, <2>2 DEF Counted
<1> QED
  BY <1>1, <1>2, <1>3, <1>5, <1>9

(* A new stream starts with a fresh block.                                  *)
LEMMA AllocCounts ==
  ASSUME Typed, Weighed, Counted, NEW k \in Kinds, AllocStream(k)
  PROVE  Weighed' /\ Counted'
<1>1. /\ allocated < MaxStreams /\ allocated \in Sids /\ allocated' = allocated + 1
      /\ kind' = [kind EXCEPT ![allocated] = k]
      /\ payload' = [payload EXCEPT ![allocated] = EmptyPayload[k]]
      /\ UNCHANGED <<block, buffered>>
  BY BoundsAssumption DEF AllocStream, Typed, TypeOK, Sids
<1>2. block[allocated] = <<>>
  BY <1>1 DEF Weighed, Typed, TypeOK
<1>3. \A r \in Sids \ {allocated} : kind'[r] = kind[r] /\ payload'[r] = payload[r]
  BY <1>1 DEF Typed, TypeOK
<1>4. kind'[allocated] = k /\ payload'[allocated] = EmptyPayload[k]
  BY <1>1 DEF Typed, TypeOK
<1>5. Weighed'
  <2> SUFFICES ASSUME NEW r \in Sids
               PROVE  IF block'[r] # <<>>
                      THEN /\ r < allocated'
                           /\ payload'[r] >= EmptyPayload[kind'[r]] + ChangePayload[kind'[r]]
                      ELSE r < allocated' => payload'[r] = EmptyPayload[kind'[r]]
    BY DEF Weighed
  <2>1. CASE r = allocated
    BY <1>1, <1>2, <1>4, <2>1
  <2>2. CASE r # allocated
    <3>1. r < allocated' => r < allocated
      BY <1>1, <2>2 DEF Sids, Typed, TypeOK
    <3>2. r < allocated => r < allocated'
      BY <1>1, <2>2 DEF Sids, Typed, TypeOK
    <3> QED
      BY <1>1, <1>3, <2>2, <3>1, <3>2 DEF Weighed
  <2> QED
    BY <2>1, <2>2
<1>6. Grown' = Grown
  BY <1>1, <1>2, <1>3 DEF Grown
<1> QED
  BY <1>1, <1>5, <1>6 DEF Counted, NoOverhead
(* Steps that leave the accumulators and the counter alone.                 *)
LEMMA CountsUntouched ==
  ASSUME Weighed, Counted, UNCHANGED streamVars
  PROVE  Weighed' /\ Counted'
<1>1. UNCHANGED <<allocated, kind, block, payload, buffered>>
  BY DEF streamVars
<1>2. Weighed'
  BY <1>1 DEF Weighed
<1>3. Grown' = Grown
  BY <1>1 DEF Grown
<1> QED
  BY <1>1, <1>2, <1>3 DEF Counted, NoOverhead

(* At the end of a pass with threshold one nothing is buffered.             *)
LEMMA PassEmpties ==
  ASSUME Typed, Budget, out # "failed",
         pc = "relieve", sid = allocated, minCount = 1
  PROVE  buffered = 0
<1>1. ASSUME NEW r \in Sids
      PROVE  block[r] = <<>>
  <2>1. CASE r < allocated
    <3>1. block[r] \in Seq(Change) /\ Len(block[r]) < 1
      BY <2>1 DEF Budget, Bounded, Typed, TypeOK
    <3>2. Len(block[r]) = 0
      BY <3>1
    <3> QED
      BY <3>1, <3>2, EmptySeq
  <2>2. CASE ~(r < allocated)
    BY <2>2 DEF Budget, Weighed
  <2> QED
    BY <2>1, <2>2
<1>2. Grown \in [Sids -> Nat] /\ \A r \in Sids : Grown[r] = 0
  BY <1>1 DEF Grown
<1>3. SumFunction(Grown) = 0
  BY <1>2, SidsFinite, SumOfNothing
<1> QED
  BY <1>3 DEF Budget, Counted, Typed, TypeOK

(* Whatever is reported, flushed, relieved or failed, the counter follows   *)
(* the accumulators, and no call ends with it above the ceiling.            *)
LEMMA BudgetCorrect == Spec => []Budget
<1>1. Init => Budget
  <2> SUFFICES ASSUME Init
               PROVE  Weighed /\ Counted /\ Bounded
    BY DEF Budget
  <2>1. \A s \in Sids : block[s] = <<>> /\ ~(s < allocated)
    BY BoundsAssumption DEF Init, Sids
  <2>2. Grown \in [Sids -> Nat] /\ \A s \in Sids : Grown[s] = 0
    BY <2>1 DEF Grown
  <2>3. SumFunction(Grown) = 0
    BY <2>2, SidsFinite, SumOfNothing
  <2>4. Weighed
    BY <2>1 DEF Weighed
  <2>5. Counted
    BY <2>3 DEF Init, Counted
  <2>6. Bounded
    BY OptionsAssumption DEF Init, Bounded
  <2> QED
    BY <2>4, <2>5, <2>6
<1>2. Budget /\ Typed /\ Typed' /\ [Next]_vars => Budget'
  <2> SUFFICES ASSUME Weighed, Counted, Bounded, Typed, Typed', [Next]_vars
               PROVE  Weighed' /\ Counted' /\ Bounded'
    BY DEF Budget
  <2> USE DEF callVars, timeVars, fileVars
  <2>0. buffered \in Nat /\ BufferBytes \in Nat /\ allocated \in Nat
    BY OptionsAssumption DEF Typed, TypeOK
  <2>1. ASSUME NEW k \in Kinds, AllocStream(k)
        PROVE  Weighed' /\ Counted' /\ Bounded'
    BY <2>1, AllocCounts DEF AllocStream, Callable, Bounded
  <2>2. ASSUME NEW s \in Sids, ValueChange(s)
        PROVE  Weighed' /\ Counted' /\ Bounded'
    <3>1. /\ Weighed' /\ Counted'
          /\ buffered' = buffered + ChangePayload[kind[s]]
          /\ ChangePayload[kind[s]] \in Nat
          /\ block'[s] # <<>>
      BY <2>2, ReportCounts
    <3>2. pc = "idle" /\ UNCHANGED <<out, kind>>
      BY <2>2 DEF ValueChange, Callable
    <3>3. \/ pc' = "flush" /\ sid' = s
          \/ pc' = "relieve" /\ sid' = 0
          \/ pc' = "idle" /\ ~OverBudget(buffered')
      BY <2>2, <3>2 DEF ValueChange
    <3>4. CASE pc' = "flush" /\ sid' = s
      BY <2>0, <3>1, <3>2, <3>4 DEF Bounded
    <3>5. CASE pc' = "relieve" /\ sid' = 0
      <4>1. \A r \in Sids : ~(r < sid')
        BY <3>5, BoundsAssumption DEF Sids
      <4> QED
        BY <3>1, <3>5, <4>1 DEF Bounded
    <3>6. CASE pc' = "idle" /\ ~OverBudget(buffered')
      BY <2>0, <3>1, <3>6 DEF Bounded, OverBudget
    <3> QED
      BY <3>3, <3>4, <3>5, <3>6
  <2>3. ASSUME NEW s \in Sids, FlushFails(s), pc' = "idle"
        PROVE  Weighed' /\ Counted' /\ Bounded'
    BY <2>3, CountsUntouched DEF FlushFails, WriteFails, Bounded
  <2>4. CASE FlushFull
    <3>1. sid \in Sids /\ sid < allocated /\ pc = "flush" /\ pc' = "idle"
      BY <2>4, BoundsAssumption DEF FlushFull, Typed, TypeOK, Allocated, Sids
    <3>2. CASE FlushOk(sid)
      <4>1. /\ Weighed' /\ Counted' /\ out = "good"
            /\ buffered' <= buffered - ChangePayload[kind[sid]] \/ buffered' = 0
        BY <3>1, <3>2, FlushCounts
      <4>2. ChangePayload[kind[sid]] \in Nat /\ buffered' \in Nat
        BY <3>1, PayloadAssumption DEF Typed, TypeOK, Allocated
      <4> QED
        BY <2>0, <3>1, <4>1, <4>2 DEF Bounded
    <3> QED
      BY <2>3, <2>4, <3>1, <3>2 DEF FlushFull
  <2>5. CASE RelieveFlush
    <3>1. sid \in Sids /\ sid < allocated /\ pc = "relieve" /\ minCount' = minCount
      BY <2>5, BoundsAssumption DEF RelieveFlush, Typed, TypeOK, Sids
    <3>2. CASE FlushOk(sid) /\ sid' = sid + 1 /\ pc' = pc
      <4>1. /\ Weighed' /\ Counted' /\ out = "good"
            /\ block' = [block EXCEPT ![sid] = <<>>]
        BY <3>1, <3>2, FlushCounts
      <4>2. ASSUME NEW r \in Sids, r < sid'
            PROVE  Len(block'[r]) < minCount
        <5>1. CASE r = sid
          <6>1. block'[r] = <<>> /\ minCount \in Nat \ {0}
            BY <4>1, <5>1 DEF Typed, TypeOK
          <6> QED
            BY <6>1
        <5>2. CASE r # sid
          <6>1. r < sid /\ block'[r] = block[r]
            BY <3>1, <3>2, <4>1, <4>2, <5>2 DEF Sids, Typed, TypeOK
          <6> QED
            BY <3>1, <4>1, <6>1 DEF Bounded
        <5> QED
          BY <5>1, <5>2
      <4> QED
        BY <3>1, <3>2, <4>1, <4>2 DEF Bounded
    <3> QED
      BY <2>3, <2>5, <3>1, <3>2 DEF RelieveFlush
  <2>6. CASE RelieveSkip
    <3>1. /\ pc = "relieve" /\ pc' = "relieve" /\ sid' = sid + 1
          /\ UNCHANGED <<minCount, out>> /\ Len(block[sid]) < minCount
          /\ UNCHANGED streamVars
      BY <2>6 DEF RelieveSkip
    <3>2. block' = block
      BY <3>1 DEF streamVars
    <3>3. ASSUME NEW r \in Sids, r < sid'
          PROVE  r = sid \/ r < sid
      BY <3>1, <3>3 DEF Typed, TypeOK, Sids
    <3> QED
      BY <3>1, <3>2, <3>3, CountsUntouched DEF Bounded
  <2>7. CASE RelievePassEnds
    <3>1. /\ pc = "relieve" /\ sid = allocated /\ UNCHANGED streamVars /\ out' = out
          /\ \/ ReliefDone /\ pc' = "idle"
             \/ sid' = 0 /\ pc' = "relieve"
      BY <2>7 DEF RelievePassEnds
    <3>2. Weighed' /\ Counted' /\ buffered' = buffered
      BY <3>1, CountsUntouched DEF streamVars
    <3>3. CASE ReliefDone /\ pc' = "idle"
      <4>1. out # "failed" => buffered <= BufferBytes
        BY <2>0, <3>1, <3>3, PassEmpties DEF ReliefDone, Budget
      <4> QED
        BY <3>1, <3>2, <3>3, <4>1 DEF Bounded
    <3>4. CASE sid' = 0 /\ pc' = "relieve"
      <4>1. \A r \in Sids : ~(r < sid')
        BY <3>4, BoundsAssumption DEF Sids
      <4> QED
        BY <3>2, <3>4, <4>1 DEF Bounded
    <3> QED
      BY <3>1, <3>3, <3>4
  <2>8. CASE DrainFlush
    <3>1. sid \in Sids /\ sid < allocated /\ pc = "drain"
      BY <2>8, BoundsAssumption DEF DrainFlush, Typed, TypeOK, Sids
    <3>2. CASE FlushOk(sid) /\ pc' = pc
      <4>1. Weighed' /\ Counted' /\ out = "good" /\ buffered' <= buffered /\ buffered' \in Nat
        BY <3>1, <3>2, FlushCounts DEF Typed, TypeOK
      <4> QED
        BY <2>0, <3>1, <3>2, <4>1 DEF Bounded
    <3> QED
      BY <2>3, <2>8, <3>1, <3>2 DEF DrainFlush, FinishThrows
  <2>9. CASE (\E t \in Times : SetTime(t)) \/ Finish \/ TakeDatabase \/ DrainSkip \/ DrainEnds
    <3>1. /\ pc \in {"idle", "drain"} /\ pc' \in {"idle", "drain", "taken", "meta"}
          /\ UNCHANGED streamVars /\ out' = out
      BY <2>9 DEF SetTime, Callable, Finish, TakeDatabase, DrainSkip, DrainEnds
    <3>2. buffered' = buffered
      BY <3>1 DEF streamVars
    <3> QED
      BY <3>1, <3>2, CountsUntouched DEF Bounded
  <2>10. CASE WriteMeta \/ WriteFooter
    <3>1. /\ pc \in {"meta", "footer"} /\ UNCHANGED streamVars
          /\ \/ out = "good" /\ out' = "good" /\ pc' \in {"footer", "sync"}
             \/ out' = "failed" /\ pc' = "idle"
      BY <2>10 DEF WriteMeta, WriteFooter, WriteOk, WriteFails, FinishThrows
    <3>2. buffered' = buffered
      BY <3>1 DEF streamVars
    <3> QED
      BY <3>1, <3>2, CountsUntouched DEF Bounded
  <2>11. CASE FlushAndClose \/ FlushThrows
    <3>1. /\ pc = "sync" /\ pc' = "idle" /\ UNCHANGED streamVars
      BY <2>11 DEF FlushAndClose, FlushThrows, FinishThrows
    <3>2. buffered' = buffered
      BY <3>1 DEF streamVars
    <3> QED
      BY <3>1, <3>2, CountsUntouched DEF Bounded
  <2>12. CASE Land \/ Die \/ UNCHANGED vars
    <3>1. /\ UNCHANGED streamVars /\ out' = out
          /\ pc' = "gone" \/ UNCHANGED <<pc, sid, minCount>>
      BY <2>12 DEF Land, Die, vars
    <3>2. UNCHANGED <<block, buffered, kind>>
      BY <3>1 DEF streamVars
    <3> QED
      BY <3>1, <3>2, CountsUntouched DEF Bounded
  <2> QED
    BY <2>1, <2>2, <2>4, <2>5, <2>6, <2>7, <2>8, <2>9, <2>10, <2>11, <2>12
    DEF Next, Calls, Internal
<1> QED
  BY <1>1, <1>2, TypedCorrect, PTL DEF Spec

(* A relief that ends by itself leaves at most half the ceiling, and no     *)
(* call ends with the counter above it, for any sizes and any reader.       *)
THEOREM ReliefCorrect == Spec => ReliefReachesTarget
<1>1. Budget => BudgetHeld
  BY DEF Budget, Bounded, BudgetHeld
<1>2. ASSUME Typed, Budget, [Next]_vars, pc = "relieve", pc' = "idle", out' # "failed"
      PROVE  buffered' <= BufferBytes \div 2
  <2>1. RelievePassEnds
    BY <1>2
    DEF Next, Calls, Internal, AllocStream, SetTime, ValueChange, Callable, Finish,
        TakeDatabase, FlushFull, RelieveFlush, FlushFails, WriteFails, RelieveSkip,
        DrainFlush, DrainSkip, DrainEnds, WriteMeta, WriteFooter, FlushAndClose,
        FlushThrows, Land, Die, vars, callVars
  <2>2. /\ sid = allocated /\ ReliefDone /\ buffered' = buffered /\ out' = out
    BY <1>2, <2>1 DEF RelievePassEnds, streamVars
  <2>3. CASE minCount = 1
    <3>1. buffered = 0
      BY <1>2, <2>2, <2>3, PassEmpties
    <3> QED
      BY <2>2, <3>1, OptionsAssumption
  <2> QED
    BY <2>2, <2>3 DEF ReliefDone
<1>3. Typed /\ Budget /\ BudgetHeld' /\ [Next]_vars =>
        [/\ pc = "relieve" /\ pc' = "idle" /\ out' # "failed" => buffered' <= BufferBytes \div 2
         /\ BudgetHeld']_vars
  BY <1>2
<1> QED
  BY <1>1, <1>3, TypedCorrect, BudgetCorrect, PTL DEF Spec, ReliefReachesTarget

(* When a fresh block has no bytes of its own, the ceiling holds of the     *)
(* memory itself: nothing but the leading arena offset of a STRING stream   *)
(* makes the counter lag behind.                                            *)
THEOREM CeilingCorrect ==
  ASSUME NoOverhead
  PROVE  Spec => []CeilingHeld
<1>1. Typed /\ Budget => CeilingHeld
  <2> SUFFICES ASSUME Typed, Budget, pc = "idle", out # "failed"
               PROVE  ChangeBytes <= BufferBytes
    BY DEF CeilingHeld
  <2> DEFINE Held == {r \in Sids : block[r] # <<>>}
  <2>1. Grown \in [Sids -> Nat] /\ Held \in SUBSET Sids
    BY GrownType DEF Budget
  <2>2. \A r \in Sids \ Held : Grown[r] = 0
    BY DEF Grown
  <2>3. SumFunction(Grown) = SumFunction([r \in Held |-> Grown[r]])
    <3> HIDE DEF Held
    <3> QED
      BY <2>1, <2>2, SidsFinite, SumOfSupport
  <2>4. [r \in Held |-> Grown[r]] = [r \in Held |-> payload[r] - EmptyPayload[kind[r]]]
    BY DEF Grown
  <2>5. ChangeBytes = SumFunction(Grown)
    BY <2>3, <2>4 DEF ChangeBytes
  <2>6. buffered = SumFunction(Grown)
    BY DEF Budget, Counted
  <2> QED
    BY <2>5, <2>6 DEF Budget, Bounded
<1> QED
  BY <1>1, TypedCorrect, BudgetCorrect, PTL

-----------------------------------------------------------------------------
(* What IndexingBuilder writes: no change is lost on the way to the file,   *)
(* the index it keeps can be searched, and the file opens exactly when it   *)
(* is complete.                                                             *)

(* Segments lie one after the other, none is empty, and offset_ is past     *)
(* them all: an offset in the index names one segment for ever.             *)
Ordered ==
  \A j \in 1 .. Len(written) :
    /\ written[j].size > 0
    /\ EndOf(j) <= offset
    /\ \A i \in 1 .. j - 1 : EndOf(i) <= written[j].off

(* The changes of a stream are numbered in order, and their times do not    *)
(* decrease and have been reached.                                          *)
Numbered(h) ==
  \A k \in 1 .. Len(h) :
    /\ h[k].n = k
    /\ h[k].time <= now
    /\ \A l \in 1 .. k : h[l].time <= h[k].time

(* The segment j of the file is the block `ref' names, and holds `changes'. *)
Names(file, ref, j) ==
  /\ j \in 1 .. Len(file)
  /\ file[j].kind = "block"
  /\ file[j].off = ref.offset
  /\ file[j].size = ref.storedSize

(* u marks where the blocks of an index cut a history h: the i-th block     *)
(* holds the changes after u[i - 1] up to u[i], and its entry their span.   *)
Block(file, ref, h, from, upto) ==
  /\ \E j \in 1 .. Len(file) :
       Names(file, ref, j) /\ file[j].data = SubSeq(h, from + 1, upto)
  /\ ref.begin = h[from + 1].time
  /\ ref.end = h[upto].time + 1

Cuts(u, refs, h) ==
  /\ u \in [0 .. Len(refs) -> 0 .. Len(h)]
  /\ u[0] = 0
  /\ \A i \in 1 .. Len(refs) :
       /\ u[i - 1] < u[i]
       /\ \A j \in 1 .. i - 1 : u[j] <= u[i - 1]

Kept(file, refs, h, rest) ==
  \E u \in [0 .. Len(refs) -> 0 .. Len(h)] :
    /\ Cuts(u, refs, h)
    /\ \A i \in 1 .. Len(refs) : Block(file, refs[i], h, u[i - 1], u[i])
    /\ rest = SubSeq(h, u[Len(refs)] + 1, Len(h))

AllKept ==
  out # "failed" => \A s \in Sids : Kept(written, index[s], history[s], block[s])

(* Where finish() is, and what it has written so far.                       *)
Drained == \A s \in Sids : block[s] = <<>>
MetaAt(j) ==
  /\ j \in 1 .. Len(written)
  /\ written[j].kind = "meta" /\ written[j].size = MetaSize
  /\ written[j].index = index
  /\ written[j].begin = (IF firstTime = NoTime THEN 0 ELSE firstTime)
  /\ written[j].end = (IF firstTime = NoTime THEN 0 ELSE lastTime + 1)
NoFooterUpto(n) == \A j \in 1 .. n : written[j].kind # "footer"
Complete ==
  LET n == Len(written)
  IN  /\ n >= 3
      /\ written[n].kind = "footer" /\ written[n].size = FooterSize
      /\ written[n].metaOffset = written[n - 1].off
      /\ written[n].metaSize = MetaSize
      /\ MetaAt(n - 1)
      /\ NoFooterUpto(n - 1)

Header ==
  /\ Len(written) > 0
  /\ written[1].kind = "header" /\ written[1].off = 0 /\ written[1].size = HeaderSize
Ended == Complete /\ Drained /\ finished /\ pc \in {"sync", "idle", "taken", "gone"}
InStage ==
  /\ pc \in {"flush", "relieve"} => ~finished
  /\ pc \in {"drain", "meta", "footer", "sync"} => finished
  /\ pc = "drain" => \A s \in Sids : s < sid => block[s] = <<>>
  /\ pc \in {"meta", "footer", "sync"} => Drained
  /\ pc = "footer" =>
       /\ out = "good" /\ Len(written) >= 2 /\ MetaAt(Len(written))
       /\ written[Len(written)].off = offset - MetaSize
  /\ pc = "sync" => out = "good" /\ Complete
  /\ \A s \in Sids : s >= allocated => block[s] = <<>>
Stages == Header /\ (NoFooterUpto(Len(written)) \/ Ended) /\ InStage

Published ==
  /\ out = "failed" /\ Complete => landed < Len(written)
  /\ outcome = "returned" =>
       /\ out = "closed" /\ Complete /\ finished /\ pc \in {"idle", "taken", "gone"}
       /\ landed = Len(written) /\ torn = 0

(* firstTime_ and lastTime_ bound the changes reported.                     *)
Spanned ==
  /\ firstTime = NoTime => \A s \in Sids : history[s] = <<>>
  /\ \A s \in Sids : \A k \in 1 .. Len(history[s]) :
       firstTime <= history[s][k].time /\ history[s][k].time <= lastTime
  /\ firstTime # NoTime => firstTime <= lastTime /\ lastTime <= now

----------------------------------------------------------------------------
(* A segment lies at some offset and takes some bytes; a change has a time. *)
LEMMA SegmentFields ==
  ASSUME NEW seg \in Segment
  PROVE  seg.off \in Nat /\ seg.size \in Nat
  BY DEF Segment

(* A change has a time and a number.                                      *)
LEMMA ChangeFields ==
  ASSUME NEW h \in Seq(Change)
  PROVE  \A k \in 1 .. Len(h) : h[k] \in Change /\ h[k].time \in Nat /\ h[k].n \in Nat
<1>1. \A c \in Change : c.time \in Nat /\ c.n \in Nat
  BY BoundsAssumption DEF Change, Times
<1> QED
  BY <1>1

(* Segments lie in order and without overlap.                               *)
LEMMA OrderedCorrect == Spec => []Ordered
<1>1. Init => Ordered
  BY LayoutAssumption DEF Init, Ordered, EndOf
<1>2. Ordered /\ Typed /\ [Next]_vars => Ordered'
  <2> SUFFICES ASSUME Ordered, Typed, [Next]_vars
               PROVE  Ordered'
    OBVIOUS
  <2>1. CASE UNCHANGED <<written, offset>>
    BY <2>1 DEF Ordered, EndOf
  <2>2. ASSUME NEW seg \in Segment, Writes(seg)
        PROVE  Ordered'
    <3>1. PICK n \in Nat : n = Len(written)
      BY DEF Typed, TypeOK
    <3>2. /\ Len(written') = n + 1
          /\ written'[n + 1] = seg
          /\ \A j \in 1 .. n : written'[j] = written[j]
      BY <2>2, <3>1 DEF Writes, Typed, TypeOK
    <3>3. /\ seg.off = offset /\ offset' = offset + seg.size
          /\ seg.size > 0 /\ seg.size \in Nat /\ offset \in Nat
      BY <2>2 DEF Writes, Segment, Typed, TypeOK
    <3>4. ASSUME NEW j \in 1 .. n
          PROVE  /\ EndOf(j)' = EndOf(j)
                 /\ EndOf(j) \in Nat /\ EndOf(j) <= offset
      <4>1. written[j] \in Segment /\ written'[j] = written[j] /\ EndOf(j) <= offset
        BY <3>1, <3>2 DEF Ordered, Typed, TypeOK
      <4>2. written[j].off \in Nat /\ written[j].size \in Nat
        BY <4>1, SegmentFields
      <4> QED
        BY <4>1, <4>2 DEF EndOf
    <3>5. EndOf(n + 1)' = offset'
      BY <3>2, <3>3 DEF EndOf
    <3>6. ASSUME NEW j \in 1 .. n
          PROVE  /\ written'[j].size > 0
                 /\ EndOf(j)' <= offset'
                 /\ \A i \in 1 .. j - 1 : EndOf(i)' <= written'[j].off
      <4>1. \A i \in 1 .. j - 1 : i \in 1 .. n
        BY <3>1
      <4> QED
        BY <3>1, <3>2, <3>3, <3>4, <4>1 DEF Ordered
    <3>7. \A i \in 1 .. n : EndOf(i)' <= written'[n + 1].off
      BY <3>2, <3>3, <3>4
    <3>8. \A j \in 1 .. n + 1 :
            /\ written'[j].size > 0
            /\ EndOf(j)' <= offset'
            /\ \A i \in 1 .. j - 1 : EndOf(i)' <= written'[j].off
      <4> TAKE j \in 1 .. n + 1
      <4>1. CASE j \in 1 .. n
        BY <3>6, <4>1
      <4>2. CASE j = n + 1
        <5>1. j - 1 = n
          BY <3>1, <4>2
        <5> QED
          BY <3>2, <3>3, <3>5, <3>7, <4>2, <5>1
      <4> QED
        BY <3>1, <4>1, <4>2
    <3> QED
      BY <3>2, <3>8 DEF Ordered
  <2> QED
    BY <2>1, <2>2, WrittenBySteps
<1> QED
  BY <1>1, <1>2, TypedCorrect, PTL DEF Spec
(* What a step that writes nothing, or one segment, does to the stages.     *)
LEMMA StagesUntouched ==
  ASSUME UNCHANGED <<written, index, firstTime, lastTime>>
  PROVE  /\ Header' <=> Header
         /\ NoFooterUpto(Len(written))' <=> NoFooterUpto(Len(written))
         /\ \A j \in Nat : MetaAt(j)' <=> MetaAt(j)
         /\ Complete' <=> Complete
  BY DEF Header, NoFooterUpto, MetaAt, Complete

(* An appended segment leaves the header of the file first and the others   *)
(* where they are.                                                        *)
LEMMA StagesAppended ==
  ASSUME Typed, Header, NEW seg \in Segment, written' = Append(written, seg)
  PROVE  /\ Header'
         /\ Len(written)' = Len(written) + 1 /\ Len(written) \in Nat
         /\ written'[Len(written) + 1] = seg
         /\ \A j \in 1 .. Len(written) : written'[j] = written[j]
         /\ seg.kind # "footer" /\ NoFooterUpto(Len(written)) => NoFooterUpto(Len(written))'
<1>1. PICK n \in Nat : n = Len(written)
  BY DEF Typed, TypeOK
<1>2. /\ Len(written') = n + 1
      /\ written'[n + 1] = seg
      /\ \A j \in 1 .. n : written'[j] = written[j]
  BY <1>1 DEF Typed, TypeOK
<1>3. Header'
  BY <1>1, <1>2 DEF Header
<1>4. ASSUME seg.kind # "footer", NoFooterUpto(Len(written))
      PROVE  NoFooterUpto(Len(written))'
  BY <1>1, <1>2, <1>4 DEF NoFooterUpto
<1> QED
  BY <1>1, <1>2, <1>3, <1>4

(* A flush, which does not happen once the file is complete.                *)
LEMMA FlushStages ==
  ASSUME Typed, Header, NoFooterUpto(Len(written)), NEW s \in Sids,
         FlushOk(s) \/ FlushFails(s)
  PROVE  /\ Header' /\ NoFooterUpto(Len(written))'
         /\ allocated' = allocated
         /\ \A r \in Sids : block[r] = <<>> => block'[r] = <<>>
         /\ FlushOk(s) => block'[s] = <<>>
<1>1. CASE FlushOk(s)
  <2>1. PICK size \in BlockSizes :
          /\ block[s] # <<>>
          /\ WriteOk(BlockSegment(block[s], offset, size))
          /\ block' = Emptied(block, s)
          /\ UNCHANGED <<allocated, kind>>
    BY <1>1 DEF FlushOk, AddBlock, NothingBuffered
  <2>2. BlockSegment(block[s], offset, size) \in Segment
    BY <2>1, BlockRefType DEF Typed, TypeOK
  <2>3. written' = Append(written, BlockSegment(block[s], offset, size))
    BY <2>1 DEF WriteOk
  <2>4. BlockSegment(block[s], offset, size).kind # "footer"
    BY DEF BlockSegment
  <2>5. Header' /\ NoFooterUpto(Len(written))'
    BY <2>2, <2>3, <2>4, StagesAppended
  <2> QED
    BY <2>1, <2>5 DEF Emptied, Typed, TypeOK
<1>2. ASSUME FlushFails(s)
      PROVE  /\ Header' /\ NoFooterUpto(Len(written))'
             /\ UNCHANGED <<allocated, block>>
  BY <1>2 DEF FlushFails, WriteFails, Header, NoFooterUpto, streamVars
<1>3. FlushOk(s) => block'[s] = <<>>
  BY DEF FlushOk, Emptied, Typed, TypeOK
<1> QED
  BY <1>1, <1>2, <1>3

(* The stages of finish().                                                  *)
LEMMA StagesCorrect == Spec => []Stages
<1>1. Init => Stages
  BY DEF Init, Stages, Header, NoFooterUpto, InStage
<1>2. Stages /\ Typed /\ [Next]_vars => Stages'
  <2> SUFFICES ASSUME Header, NoFooterUpto(Len(written)) \/ Ended, InStage,
                      Typed, [Next]_vars
               PROVE  Header' /\ (NoFooterUpto(Len(written))' \/ Ended') /\ InStage'
    BY DEF Stages
  <2> USE DEF callVars, streamVars, timeVars, fileVars
  <2>1. ASSUME NEW k \in Kinds, AllocStream(k)
        PROVE  Header' /\ (NoFooterUpto(Len(written))' \/ Ended') /\ InStage'
    <3>0. /\ pc = "idle" /\ pc' = "idle"
          /\ allocated \in Int /\ allocated' = allocated + 1 /\ block' = block
      BY <2>1 DEF AllocStream, Callable, Typed, TypeOK
    <3>1. InStage'
      BY <3>0 DEF InStage, Sids
    <3> QED
      BY <2>1, <3>1, StagesUntouched DEF AllocStream, Ended, Drained
  <2>2. ASSUME NEW t \in Times, SetTime(t)
        PROVE  Header' /\ (NoFooterUpto(Len(written))' \/ Ended') /\ InStage'
    BY <2>2, StagesUntouched DEF SetTime, Callable, InStage, Ended, Drained
  <2>3. ASSUME NEW s \in Sids, ValueChange(s)
        PROVE  Header' /\ (NoFooterUpto(Len(written))' \/ Ended') /\ InStage'
    <3>1. ~finished /\ UNCHANGED <<written, finished, allocated>> /\ s < allocated
      BY <2>3 DEF ValueChange, Callable
    <3>2. NoFooterUpto(Len(written))' /\ Header'
      BY <3>1 DEF Ended, NoFooterUpto, Header
    <3>3. pc' \in {"flush", "relieve", "idle"}
      BY <2>3 DEF ValueChange, Callable
    <3>4. \A r \in Sids : r >= allocated' => block'[r] = <<>>
      <4>1. \A r \in Sids : r # s => block'[r] = block[r]
        BY <2>3 DEF ValueChange, Typed, TypeOK
      <4>2. \A r \in Sids : r >= allocated => r # s /\ block[r] = <<>>
        BY <2>3, <3>1 DEF InStage, Typed, TypeOK, Sids
      <4> QED
        BY <3>1, <4>1, <4>2
    <3> QED
      BY <3>1, <3>2, <3>3, <3>4 DEF InStage
  <2>4. ASSUME FlushFull
        PROVE  Header' /\ (NoFooterUpto(Len(written))' \/ Ended') /\ InStage'
    <3>1. NoFooterUpto(Len(written)) /\ sid \in Sids
      BY <2>4, BoundsAssumption DEF FlushFull, Ended, Typed, TypeOK, Allocated, Sids
    <3>2. FlushOk(sid) \/ FlushFails(sid)
      BY <2>4 DEF FlushFull
    <3> QED
      BY <2>4, <3>1, <3>2, FlushStages DEF FlushFull, InStage
  <2>5. ASSUME RelieveFlush
        PROVE  Header' /\ (NoFooterUpto(Len(written))' \/ Ended') /\ InStage'
    <3>1. NoFooterUpto(Len(written)) /\ sid \in Sids
      BY <2>5, BoundsAssumption DEF RelieveFlush, Ended, Typed, TypeOK, Sids
    <3>2. FlushOk(sid) \/ FlushFails(sid)
      BY <2>5 DEF RelieveFlush
    <3>3. pc' \in {"relieve", "idle"} /\ finished' = finished
      BY <2>5 DEF RelieveFlush
    <3> QED
      BY <2>5, <3>1, <3>2, <3>3, FlushStages DEF RelieveFlush, InStage
  <2>6. ASSUME RelieveSkip \/ RelievePassEnds
        PROVE  Header' /\ (NoFooterUpto(Len(written))' \/ Ended') /\ InStage'
    <3>1. /\ pc = "relieve" /\ pc' \in {"relieve", "idle"}
          /\ UNCHANGED <<written, index, firstTime, lastTime, finished, block, allocated>>
      BY <2>6 DEF RelieveSkip, RelievePassEnds
    <3> QED
      BY <3>1, StagesUntouched DEF InStage, Ended
  <2>7. ASSUME Finish
        PROVE  Header' /\ (NoFooterUpto(Len(written))' \/ Ended') /\ InStage'
    <3>1. /\ ~finished /\ finished' /\ pc' = "drain" /\ sid' = 0
          /\ UNCHANGED <<written, index, firstTime, lastTime, block, allocated>>
      BY <2>7 DEF Finish, Callable
    <3>2. InStage'
      BY <3>1, BoundsAssumption DEF InStage, Sids
    <3> QED
      BY <3>1, <3>2, StagesUntouched DEF Ended
  <2>8. ASSUME DrainFlush
        PROVE  Header' /\ (NoFooterUpto(Len(written))' \/ Ended') /\ InStage'
    <3>1. NoFooterUpto(Len(written)) /\ sid \in Sids
      BY <2>8, BoundsAssumption DEF DrainFlush, Ended, Typed, TypeOK, Sids
    <3>2. FlushOk(sid) \/ FlushFails(sid)
      BY <2>8 DEF DrainFlush
    <3>3. CASE FlushOk(sid) /\ sid' = sid + 1 /\ pc' = pc
      <4>1. \A s \in Sids : s < sid' => block'[s] = <<>>
        BY <2>8, <3>1, <3>3, FlushStages DEF DrainFlush, InStage, Sids
      <4> QED
        BY <2>8, <3>1, <3>2, <3>3, <4>1, FlushStages DEF DrainFlush, InStage
    <3>4. CASE pc' = "idle"
      BY <2>8, <3>1, <3>2, <3>4, FlushStages DEF DrainFlush, InStage
    <3> QED
      BY <2>8, <3>3, <3>4 DEF DrainFlush, FinishThrows
  <2>9. ASSUME DrainSkip
        PROVE  Header' /\ (NoFooterUpto(Len(written))' \/ Ended') /\ InStage'
    <3>1. /\ pc = "drain" /\ pc' = "drain" /\ sid' = sid + 1 /\ block[sid] = <<>>
          /\ UNCHANGED <<written, index, firstTime, lastTime, finished, block, allocated>>
      BY <2>9 DEF DrainSkip, NothingBuffered
    <3>2. \A s \in Sids : s < sid' => block'[s] = <<>>
      BY <3>1 DEF InStage, Sids, Typed, TypeOK
    <3> QED
      BY <3>1, <3>2, StagesUntouched DEF InStage, Ended
  <2>10. ASSUME DrainEnds
         PROVE  Header' /\ (NoFooterUpto(Len(written))' \/ Ended') /\ InStage'
    <3>1. /\ pc = "drain" /\ pc' = "meta" /\ sid = allocated
          /\ UNCHANGED <<written, index, firstTime, lastTime, finished, block, allocated>>
      BY <2>10 DEF DrainEnds
    <3>2. Drained'
      BY <3>1 DEF InStage, Drained, Sids, Typed, TypeOK
    <3> QED
      BY <3>1, <3>2, StagesUntouched DEF InStage, Ended
  <2>11. ASSUME WriteMeta
         PROVE  Header' /\ (NoFooterUpto(Len(written))' \/ Ended') /\ InStage'
    <3>1. NoFooterUpto(Len(written)) /\ Drained /\ Drained' /\ finished /\ finished'
      BY <2>11 DEF WriteMeta, InStage, Ended, Drained
    <3>2. MetaSegment \in Segment /\ MetaSegment.kind # "footer"
      BY LayoutAssumption, BoundsAssumption, NoTimeAssumption
      DEF MetaSegment, Segment, Typed, TypeOK, Times
    <3>3. CASE WriteOk(MetaSegment) /\ pc' = "footer"
      <4>1. /\ written' = Append(written, MetaSegment)
            /\ offset' = offset + MetaSize /\ out' = "good"
        BY <3>3 DEF WriteOk, OffsetAfter, MetaSegment
      <4>2. /\ Header' /\ NoFooterUpto(Len(written))'
            /\ Len(written)' = Len(written) + 1 /\ Len(written) \in Nat
            /\ written'[Len(written)'] = MetaSegment
        BY <3>1, <3>2, <4>1, StagesAppended
      <4>3. Len(written)' >= 2 /\ Len(written)' \in 1 .. Len(written)'
        BY <4>2 DEF Header
      <4>4. MetaAt(Len(written))'
        BY <2>11, <4>2, <4>3 DEF WriteMeta, MetaAt, MetaSegment
      <4>5. written'[Len(written)'].off = offset' - MetaSize
        BY <4>1, <4>2, LayoutAssumption DEF MetaSegment, Typed, TypeOK
      <4> QED
        BY <2>11, <3>1, <3>3, <4>1, <4>2, <4>3, <4>4, <4>5 DEF WriteMeta, InStage
    <3>4. CASE WriteFails(MetaSegment) /\ pc' = "idle"
      <4>1. UNCHANGED <<written, index, firstTime, lastTime, block, allocated, finished>>
        BY <2>11, <3>4 DEF WriteMeta, WriteFails
      <4> QED
        BY <3>1, <3>4, <4>1, StagesUntouched DEF InStage
    <3> QED
      BY <2>11, <3>3, <3>4 DEF WriteMeta, FinishThrows
  <2>12. ASSUME WriteFooter
         PROVE  Header' /\ (NoFooterUpto(Len(written))' \/ Ended') /\ InStage'
    <3>1. /\ NoFooterUpto(Len(written)) /\ Drained /\ Drained' /\ finished /\ finished'
          /\ Len(written) >= 2 /\ MetaAt(Len(written))
          /\ written[Len(written)].off = offset - MetaSize
      BY <2>12 DEF WriteFooter, InStage, Ended, Drained
    <3>2. FooterSegment \in Segment
      BY <2>12, LayoutAssumption
      DEF WriteFooter, FooterSegment, Segment, Typed, TypeOK, Allocated
    <3>3. CASE WriteOk(FooterSegment) /\ pc' = "sync"
      <4>1. written' = Append(written, FooterSegment) /\ out' = "good"
        BY <3>3 DEF WriteOk
      <4>2. PICK n \in Nat : n = Len(written)
        BY <3>1, <3>2, <4>1, StagesAppended
      <4>3. /\ Header' /\ Len(written)' = n + 1
            /\ written'[n + 1] = FooterSegment
            /\ \A j \in 1 .. n : written'[j] = written[j]
        BY <3>1, <3>2, <4>1, <4>2, StagesAppended
      <4>4. NoFooterUpto(n)'
        BY <3>1, <4>2, <4>3 DEF NoFooterUpto
      <4>5. n \in 1 .. n + 1 /\ n \in 1 .. n /\ n + 1 >= 3
        BY <3>1, <4>2
      <4>6. MetaAt(n)'
        BY <2>12, <3>1, <4>2, <4>3, <4>5 DEF WriteFooter, MetaAt
      <4>7. /\ written'[n + 1].kind = "footer" /\ written'[n + 1].size = FooterSize
            /\ written'[n + 1].metaOffset = written'[n].off
            /\ written'[n + 1].metaSize = MetaSize
        BY <3>1, <4>2, <4>3, <4>5 DEF FooterSegment
      <4>8. Complete'
        <5>1. n + 1 - 1 = n
          BY <4>2
        <5> QED
          BY <4>3, <4>4, <4>5, <4>6, <4>7, <5>1 DEF Complete
      <4> QED
        BY <2>12, <3>1, <3>3, <4>1, <4>3, <4>8 DEF WriteFooter, InStage, Ended
    <3>4. CASE WriteFails(FooterSegment) /\ pc' = "idle"
      <4>1. UNCHANGED <<written, index, firstTime, lastTime, block, allocated, finished>>
        BY <2>12, <3>4 DEF WriteFooter, WriteFails
      <4> QED
        BY <3>1, <3>4, <4>1, StagesUntouched DEF InStage
    <3> QED
      BY <2>12, <3>3, <3>4 DEF WriteFooter, FinishThrows
  <2>13. ASSUME FlushAndClose \/ FlushThrows
         PROVE  Header' /\ (NoFooterUpto(Len(written))' \/ Ended') /\ InStage'
    <3>1. /\ pc = "sync" /\ pc' = "idle"
          /\ UNCHANGED <<written, index, firstTime, lastTime, finished, block, allocated>>
      BY <2>13 DEF FlushAndClose, FlushThrows, FinishThrows
    <3> QED
      BY <3>1, StagesUntouched DEF InStage, Ended, Drained
  <2>14. ASSUME TakeDatabase \/ Die
         PROVE  Header' /\ (NoFooterUpto(Len(written))' \/ Ended') /\ InStage'
    <3>1. /\ pc' \in {"taken", "gone"}
          /\ UNCHANGED <<written, index, firstTime, lastTime, finished, block, allocated>>
      BY <2>14 DEF TakeDatabase, Die
    <3> QED
      BY <3>1, StagesUntouched DEF InStage, Ended, Drained
  <2>15. CASE Land \/ UNCHANGED vars
    <3>1. UNCHANGED <<written, index, firstTime, lastTime, finished, block, allocated,
                      pc, sid, out, offset>>
      BY <2>15 DEF Land, vars
    <3>2. MetaAt(Len(written))' <=> MetaAt(Len(written))
      BY <3>1 DEF MetaAt
    <3> QED
      BY <3>1, <3>2, StagesUntouched DEF InStage, Ended, Drained
  <2> QED
    BY <2>1, <2>2, <2>3, <2>4, <2>5, <2>6, <2>7, <2>8, <2>9, <2>10, <2>11, <2>12,
       <2>13, <2>14, <2>15
    DEF Next, Calls, Internal
<1> QED
  BY <1>1, <1>2, TypedCorrect, PTL DEF Spec

----------------------------------------------------------------------------
(* What the steps do to the history, the accumulators, the index and the    *)
(* file, as long as no write failed: report a change, flush a block, or     *)
(* neither.                                                                 *)
NewChange(s) == [time |-> now, n |-> Len(history[s]) + 1]

Report(s) ==
  /\ ~finished /\ Len(history[s]) < MaxChanges
  /\ history' = [history EXCEPT ![s] = Append(@, NewChange(s))]
  /\ block' = [block EXCEPT ![s] = Append(@, NewChange(s))]
  /\ firstTime' = (IF firstTime = NoTime THEN now ELSE firstTime)
  /\ lastTime' = now
  /\ UNCHANGED <<now, index, written, out, finished>>

Flushes(s, size) ==
  /\ block[s] # <<>>
  /\ index' = [index EXCEPT ![s] = Append(@, RefOf(block[s], offset, size))]
  /\ written' = Append(written, BlockSegment(block[s], offset, size))
  /\ block' = [block EXCEPT ![s] = <<>>]
  /\ UNCHANGED <<history, timeVars, out>>

Elsewhere ==
  /\ UNCHANGED <<history, firstTime, lastTime>> /\ now <= now'
  /\ out' # "failed" => out # "failed" /\ UNCHANGED <<index, block>>

(* A step stores a change, flushes a block, or does neither.              *)
LEMMA StepKinds ==
  ASSUME Typed, Stages, [Next]_vars
  PROVE  \/ \E s \in Sids : Report(s)
         \/ \E s \in Sids, size \in BlockSizes : Flushes(s, size)
         \/ Elsewhere
<1> USE DEF callVars, streamVars, timeVars, fileVars
<1>0. now <= now
  BY BoundsAssumption DEF Typed, TypeOK, Times
<1>1. ASSUME NEW s \in Sids, FlushOk(s), UNCHANGED <<history, timeVars>>
      PROVE  \E size \in BlockSizes : Flushes(s, size)
  BY <1>1 DEF FlushOk, AddBlock, NothingBuffered, WriteOk, Indexed, Emptied, Flushes
<1>2. ASSUME NEW s \in Sids, FlushFails(s), UNCHANGED <<history, timeVars>>
      PROVE  Elsewhere
  BY <1>0, <1>2 DEF FlushFails, WriteFails, Elsewhere
<1>3. ASSUME NEW s \in Sids, ValueChange(s)
      PROVE  Report(s)
  BY <1>3 DEF ValueChange, Callable, Report, NewChange
<1>4. ASSUME NEW t \in Times, SetTime(t)
      PROVE  Elsewhere
  BY <1>4, BoundsAssumption DEF SetTime, Elsewhere, Typed, TypeOK, Times
<1>5. CASE (\E k \in Kinds : AllocStream(k)) \/ Finish \/ TakeDatabase
  BY <1>0, <1>5 DEF AllocStream, Finish, TakeDatabase, Elsewhere
<1>6. CASE FlushFull \/ RelieveFlush \/ DrainFlush
  <2>1. sid \in Sids
    BY <1>6, BoundsAssumption
    DEF FlushFull, RelieveFlush, DrainFlush, Typed, TypeOK, Allocated, Sids
  <2>2. (FlushOk(sid) \/ FlushFails(sid)) /\ UNCHANGED <<history, timeVars>>
    BY <1>6 DEF FlushFull, RelieveFlush, DrainFlush
  <2> QED
    BY <1>1, <1>2, <2>1, <2>2
<1>7. CASE RelieveSkip \/ RelievePassEnds \/ DrainSkip \/ DrainEnds
  BY <1>0, <1>7 DEF RelieveSkip, RelievePassEnds, DrainSkip, DrainEnds, Elsewhere
<1>8. CASE WriteMeta \/ WriteFooter
  BY <1>0, <1>8 DEF WriteMeta, WriteFooter, WriteOk, WriteFails, Elsewhere
<1>9. CASE FlushAndClose \/ FlushThrows
  BY <1>0, <1>9 DEF FlushAndClose, FlushThrows, Elsewhere, Stages, InStage
<1>10. CASE Land \/ Die \/ UNCHANGED vars
  BY <1>0, <1>10 DEF Land, Die, vars, Elsewhere
<1> QED
  BY <1>3, <1>4, <1>5, <1>6, <1>7, <1>8, <1>9, <1>10 DEF Next, Calls, Internal

(* A report appends the last change there is.                               *)
LEMMA ReportExtends ==
  ASSUME Typed, NEW s \in Sids, Report(s)
  PROVE  /\ NewChange(s) \in Change
         /\ history'[s] = Append(history[s], NewChange(s))
         /\ block'[s] = Append(block[s], NewChange(s))
         /\ \A r \in Sids \ {s} : history'[r] = history[r] /\ block'[r] = block[r]
  BY DEF Typed, TypeOK, Report, NewChange, Change

(* The changes of a stream are numbered and ordered by time.                *)
LEMMA NumberedCorrect == Spec => [](\A s \in Sids : Numbered(history[s]))
<1> DEFINE Inv == \A s \in Sids : Numbered(history[s])
<1>1. Init => Inv
  BY DEF Init, Numbered
<1>2. Inv /\ Typed /\ Typed' /\ Stages /\ [Next]_vars => Inv'
  <2> SUFFICES ASSUME Inv, Typed, Typed', Stages, [Next]_vars, NEW r \in Sids
               PROVE  Numbered(history[r])'
    OBVIOUS
  <2>0. /\ now \in Nat /\ history[r] \in Seq(Change)
        /\ \A k \in 1 .. Len(history[r]) : history[r][k].time \in Nat
    <3>1. now \in Nat /\ history[r] \in Seq(Change)
      BY BoundsAssumption DEF Typed, TypeOK, Times
    <3> QED
      BY <3>1, ChangeFields
  <2>1. ASSUME NEW s \in Sids, Report(s)
        PROVE  Numbered(history[r])'
    <3>1. CASE r = s
      <4> DEFINE h == history[r]
                 c == NewChange(s)
      <4>1. h \in Seq(Change) /\ history'[r] = Append(h, c) /\ now' = now
        BY <2>0, <2>1, <3>1, ReportExtends DEF Report
      <4>2. c.time = now /\ c.n = Len(h) + 1
        BY <3>1 DEF NewChange
      <4>3. Numbered(h)
        OBVIOUS
      <4>4. \A k \in 1 .. Len(h) : h[k].time \in Nat
        BY <2>0
      <4> HIDE DEF h, c
      <4>5. Numbered(Append(h, c))
        <5>1. PICK n \in Nat : n = Len(h)
          BY <4>1
        <5>2. /\ Len(Append(h, c)) = n + 1
              /\ Append(h, c)[n + 1] = c
              /\ \A k \in 1 .. n : Append(h, c)[k] = h[k]
          BY <4>1, <5>1
        <5> QED
          BY <2>0, <4>2, <4>3, <4>4, <5>1, <5>2 DEF Numbered
      <4> QED
        BY <4>1, <4>5 DEF Numbered
    <3>2. CASE r # s
      BY <2>1, <3>2, ReportExtends DEF Report, Numbered
    <3> QED
      BY <3>1, <3>2
  <2>2. ASSUME NEW s \in Sids, NEW size \in BlockSizes, Flushes(s, size)
        PROVE  Numbered(history[r])'
    BY <2>2 DEF Flushes, timeVars, Numbered
  <2>3. CASE Elsewhere
    <3>1. now' \in Int /\ now <= now' /\ history'[r] = history[r]
      BY <2>3, BoundsAssumption DEF Elsewhere, Typed, TypeOK, Times
    <3> QED
      BY <2>0, <3>1 DEF Numbered
  <2> QED
    BY <2>1, <2>2, <2>3, StepKinds
<1> QED
  BY <1>1, <1>2, TypedCorrect, StagesCorrect, PTL DEF Spec

(* The span the metadata will name covers every change.                     *)
LEMMA SpannedCorrect == Spec => []Spanned
<1>1. Init => Spanned
  BY DEF Init, Spanned
<1>2. Spanned /\ Typed /\ Typed' /\ Stages /\ [Next]_vars => Spanned'
  <2> SUFFICES ASSUME Spanned, Typed, Typed', Stages, [Next]_vars
               PROVE  Spanned'
    OBVIOUS
  <2>0. /\ now \in Nat /\ now' \in Nat
        /\ firstTime \in Nat \cup {NoTime} /\ lastTime \in Nat \cup {NoTime}
        /\ NoTime \in Int /\ NoTime \notin Nat
    BY BoundsAssumption, NoTimeAssumption DEF Typed, TypeOK, Times
  <2>1. ASSUME NEW s \in Sids, Report(s)
        PROVE  Spanned'
    <3>1. lastTime' = now /\ now' = now /\ firstTime' \in Nat /\ firstTime' <= now
      BY <2>0, <2>1 DEF Report, Spanned
    <3>2. ASSUME NEW r \in Sids, NEW k \in 1 .. Len(history[r])
          PROVE  firstTime' <= history[r][k].time /\ history[r][k].time <= lastTime'
      <4>1. history[r] \in Seq(Change) /\ history[r] # <<>>
        BY <3>2, SMTT(30) DEF Typed, TypeOK
      <4>2. firstTime # NoTime /\ firstTime' = firstTime
        BY <2>1, <4>1 DEF Spanned, Report
      <4>3. history[r][k].time \in Nat
        BY <4>1, ChangeFields
      <4> QED
        BY <2>0, <3>1, <4>2, <4>3 DEF Spanned
    <3>3. ASSUME NEW r \in Sids, NEW k \in 1 .. Len(history'[r])
          PROVE  firstTime' <= history'[r][k].time /\ history'[r][k].time <= lastTime'
      <4>1. CASE r # s
        BY <2>1, <3>2, <3>3, <4>1, ReportExtends
      <4>2. CASE r = s
        <5>1. PICK n \in Nat : n = Len(history[s])
          BY SMTT(30) DEF Typed, TypeOK
        <5>2. history[s] \in Seq(Change)
          BY DEF Typed, TypeOK
        <5>3. /\ Len(history'[s]) = n + 1
              /\ history'[s][n + 1] = NewChange(s)
              /\ \A i \in 1 .. n : history'[s][i] = history[s][i]
          BY <2>1, <5>1, <5>2, ReportExtends
        <5>4. CASE k \in 1 .. n
          BY <3>2, <4>2, <5>1, <5>3, <5>4
        <5>5. CASE k = n + 1
          <6>1. history'[r][k].time = now
            BY <4>2, <5>3, <5>5 DEF NewChange
          <6> QED
            BY <2>0, <3>1, <6>1
        <5> QED
          BY <3>3, <4>2, <5>1, <5>3, <5>4, <5>5
      <4> QED
        BY <4>1, <4>2
    <3>4. firstTime' # NoTime
      BY <2>0, <3>1
    <3> QED
      BY <2>0, <3>1, <3>3, <3>4 DEF Spanned
  <2>2. ASSUME NEW s \in Sids, NEW size \in BlockSizes, Flushes(s, size)
        PROVE  Spanned'
    BY <2>2 DEF Flushes, timeVars, Spanned
  <2>3. CASE Elsewhere
    BY <2>0, <2>3 DEF Elsewhere, Spanned
  <2> QED
    BY <2>1, <2>2, <2>3, StepKinds
<1> QED
  BY <1>1, <1>2, TypedCorrect, StagesCorrect, PTL DEF Spec

(* A failed write leaves a file without its footer, and finish() returns    *)
(* with the whole of it landed.                                             *)
LEMMA PublishedCorrect == Spec => []Published
<1>1. Init => Published
  BY DEF Init, Published
<1>2. Published /\ Typed /\ Stages /\ Stages' /\ [Next]_vars => Published'
  <2> SUFFICES ASSUME Published, Typed, Stages, Stages', [Next]_vars
               PROVE  Published'
    OBVIOUS
  <2> USE DEF callVars, streamVars, timeVars, fileVars
  <2>1. Len(written) \in Nat /\ landed \in 0 .. Len(written)
    BY DEF Typed, TypeOK
  <2>2. ASSUME NoFooterUpto(Len(written))'
        PROVE  ~Complete'
    BY <2>2 DEF NoFooterUpto, Complete, Stages, Header
  <2>3. ASSUME outcome = "returned"
        PROVE  ~Callable /\ ~Internal /\ ~Land
    BY <2>3 DEF Published, Callable, Land, Internal, FlushFull, RelieveFlush,
      RelieveSkip, RelievePassEnds, DrainFlush, DrainSkip, DrainEnds, WriteMeta,
      WriteFooter, FlushAndClose, FlushThrows
  <2>4. ASSUME Callable, UNCHANGED <<outcome, out, landed, written>>
        PROVE  Published'
    <3>1. ~finished /\ outcome # "returned"
      BY <2>3, <2>4 DEF Callable
    <3>2. NoFooterUpto(Len(written))'
      BY <2>4, <3>1 DEF Stages, Ended, NoFooterUpto
    <3> QED
      BY <2>2, <2>4, <3>1, <3>2 DEF Published
  <2>5. CASE (\E k \in Kinds : AllocStream(k)) \/ (\E t \in Times : SetTime(t))
             \/ (\E s \in Sids : ValueChange(s)) \/ Finish
    BY <2>4, <2>5 DEF AllocStream, SetTime, ValueChange, Finish
  <2>6. CASE TakeDatabase
    BY <2>6, StagesUntouched DEF TakeDatabase, Published
  <2>7. CASE FlushFull \/ RelieveFlush \/ RelieveSkip \/ RelievePassEnds
             \/ DrainFlush \/ DrainSkip \/ DrainEnds \/ WriteMeta
    <3>1. pc \in {"flush", "relieve", "drain", "meta"} /\ outcome' # "returned"
      BY <2>3, <2>7 DEF FlushFull, RelieveFlush, RelieveSkip, RelievePassEnds,
        DrainFlush, DrainSkip, DrainEnds, WriteMeta, FinishThrows, Internal
    <3>2. pc' \in {"flush", "relieve", "drain", "meta", "footer", "idle"}
      BY <2>7 DEF FlushFull, RelieveFlush, RelieveSkip, RelievePassEnds,
        DrainFlush, DrainSkip, DrainEnds, WriteMeta, FinishThrows
    <3>3. NoFooterUpto(Len(written))'
      <4>1. NoFooterUpto(Len(written)) /\ Header
        BY <3>1 DEF Stages, Ended
      <4>2. CASE FlushFull \/ RelieveFlush \/ DrainFlush
        <5>1. sid \in Sids /\ (FlushOk(sid) \/ FlushFails(sid))
          BY <4>2, BoundsAssumption
          DEF FlushFull, RelieveFlush, DrainFlush, Typed, TypeOK, Allocated, Sids
        <5> QED
          BY <4>1, <5>1, FlushStages
      <4>3. CASE WriteMeta
        <5>1. UNCHANGED written \/ written' = Append(written, MetaSegment)
          BY <4>3 DEF WriteMeta, WriteOk, WriteFails
        <5>2. MetaSegment \in Segment /\ MetaSegment.kind # "footer"
          BY LayoutAssumption, BoundsAssumption, NoTimeAssumption
          DEF MetaSegment, Segment, Typed, TypeOK, Times
        <5>3. pc' # "sync" /\ (written' = Append(written, MetaSegment) => ~Ended')
          <6>1. ASSUME written' = Append(written, MetaSegment)
                PROVE  ~Complete'
            <7>1. written'[Len(written)'].kind # "footer"
              BY <4>1, <5>2, <6>1, StagesAppended
            <7> QED
              BY <7>1 DEF Complete
          <6> QED
            BY <3>2, <6>1 DEF Ended
        <5> QED
          BY <4>1, <5>1, <5>3 DEF Stages, NoFooterUpto
      <4>4. CASE RelieveSkip \/ RelievePassEnds \/ DrainSkip \/ DrainEnds
        BY <4>1, <4>4 DEF RelieveSkip, RelievePassEnds, DrainSkip, DrainEnds, NoFooterUpto
      <4> QED
        BY <2>7, <4>2, <4>3, <4>4
    <3> QED
      BY <2>2, <3>1, <3>3 DEF Published
  <2>8. CASE WriteFooter
    <3>1. outcome' # "returned"
      BY <2>3, <2>8 DEF WriteFooter, FinishThrows, Internal
    <3>2. CASE WriteOk(FooterSegment)
      BY <3>1, <3>2 DEF WriteOk, Published
    <3>3. CASE WriteFails(FooterSegment)
      <4>1. NoFooterUpto(Len(written))'
        BY <2>8, <3>3 DEF WriteFooter, WriteFails, Stages, Ended, NoFooterUpto
      <4> QED
        BY <2>2, <3>1, <4>1 DEF Published
    <3> QED
      BY <2>8, <3>2, <3>3 DEF WriteFooter
  <2>9. CASE FlushAndClose
    <3>1. Complete' /\ finished'
      BY <2>9, StagesUntouched DEF FlushAndClose, Stages, InStage
    <3> QED
      BY <2>9, <3>1 DEF FlushAndClose, Published
  <2>10. CASE FlushThrows
    BY <2>1, <2>10 DEF FlushThrows, FinishThrows, Published
  <2>11. CASE Land
    BY <2>3, <2>11 DEF Land, Published
  <2>12. CASE Die \/ UNCHANGED vars
    <3>1. UNCHANGED <<written, index, firstTime, lastTime, landed, out, outcome, finished>>
      BY <2>12 DEF Die, vars
    <3>2. outcome = "returned" => torn' = torn /\ pc' \in {"idle", "taken", "gone"}
      BY <2>12 DEF Die, vars, Published
    <3> QED
      BY <3>1, <3>2, StagesUntouched DEF Published
  <2> QED
    BY <2>5, <2>6, <2>7, <2>8, <2>9, <2>10, <2>11, <2>12 DEF Next, Calls, Internal
<1> QED
  BY <1>1, <1>2, TypedCorrect, StagesCorrect, PTL DEF Spec

----------------------------------------------------------------------------
(* What lies after a mark of a history that has grown by one change.        *)
LEMMA LastBetweenMarks ==
  ASSUME NEW h \in Seq(Change), NEW c \in Change, NEW a \in 0 .. Len(h)
  PROVE  SubSeq(Append(h, c), a + 1, Len(h) + 1) = Append(SubSeq(h, a + 1, Len(h)), c)
<1>1. PICK n \in Nat : n = Len(h)
  OBVIOUS
<1>2. PICK hh : hh = Append(h, c)
  OBVIOUS
<1>3. /\ hh \in Seq(Change) /\ Len(hh) = n + 1
      /\ hh[n + 1] = c /\ \A k \in 1 .. n : hh[k] = h[k]
  BY <1>1, <1>2, AppendProperties
<1>4. PICK s : s = SubSeq(hh, a + 1, n + 1)
  OBVIOUS
<1>5. PICK t : t = SubSeq(h, a + 1, n)
  OBVIOUS
<1>6. a \in Nat /\ a <= n /\ a < n + 1 /\ a \in 0 .. n + 1 /\ n + 1 \in 0 .. n + 1
  BY <1>1
<1> DEFINE d == n - a
<1>7. d \in Nat /\ d = n - a
  BY <1>1, <1>6
<1> HIDE DEF d
<1>8. /\ s \in Seq(Change) /\ Len(s) = d + 1
      /\ \A i \in 1 .. d + 1 : s[i] = hh[a + i]
  <2>1. /\ s \in Seq(Change) /\ Len(s) = (IF a < n + 1 THEN n + 1 - a ELSE 0)
        /\ \A i \in 1 .. n + 1 - a : s[i] = hh[a + i]
    BY <1>3, <1>4, <1>6, BetweenMarks
  <2>2. n + 1 - a = d + 1
    BY <1>1, <1>6, <1>7
  <2> QED
    BY <1>6, <2>1, <2>2
<1>9. /\ t \in Seq(Change) /\ Len(t) = d
      /\ \A i \in 1 .. d : t[i] = h[a + i]
  <2>1. /\ t \in Seq(Change) /\ Len(t) = (IF a < n THEN n - a ELSE 0)
        /\ \A i \in 1 .. n - a : t[i] = h[a + i]
    BY <1>1, <1>5, <1>6, BetweenMarks
  <2> QED
    BY <1>1, <1>6, <1>7, <2>1
<1>0. PICK tt : tt = Append(t, c)
  OBVIOUS
<1>10. /\ tt \in Seq(Change) /\ Len(tt) = d + 1
       /\ tt[d + 1] = c
       /\ \A i \in 1 .. d : tt[i] = t[i]
  BY <1>0, <1>7, <1>9, AppendProperties
<1>11. ASSUME NEW i \in 1 .. d + 1
       PROVE  s[i] = tt[i]
  <2>1. CASE i = d + 1
    <3>1. a + i = n + 1
      BY <1>1, <1>6, <1>7, <2>1
    <3> QED
      BY <1>3, <1>8, <1>10, <1>11, <2>1, <3>1
  <2>2. CASE i \in 1 .. d
    <3>1. a + i \in 1 .. n
      BY <1>1, <1>6, <1>7, <2>2
    <3> QED
      BY <1>3, <1>8, <1>9, <1>10, <1>11, <2>2, <3>1
  <2> QED
    BY <1>7, <1>11, <2>1, <2>2
<1>12. s = tt
  BY <1>8, <1>10, <1>11, SeqEqual
<1> QED
  BY <1>0, <1>1, <1>2, <1>4, <1>5, <1>12

(* The cut of a history by an index survives each kind of step.  First a    *)
(* file that grew: what an entry names is where it was.                     *)
LEMMA KeptInLongerFile ==
  ASSUME NEW file, NEW longer, NEW refs, NEW h, NEW rest,
         Len(file) \in Nat, Len(longer) \in Nat, Len(file) <= Len(longer),
         \A j \in 1 .. Len(file) : longer[j] = file[j],
         Kept(file, refs, h, rest)
  PROVE  Kept(longer, refs, h, rest)
<1>1. PICK u \in [0 .. Len(refs) -> 0 .. Len(h)] :
        /\ Cuts(u, refs, h)
        /\ \A i \in 1 .. Len(refs) : Block(file, refs[i], h, u[i - 1], u[i])
        /\ rest = SubSeq(h, u[Len(refs)] + 1, Len(h))
  BY DEF Kept
<1>2. ASSUME NEW i \in 1 .. Len(refs)
      PROVE  Block(longer, refs[i], h, u[i - 1], u[i])
  <2>1. PICK j \in 1 .. Len(file) :
          Names(file, refs[i], j) /\ file[j].data = SubSeq(h, u[i - 1] + 1, u[i])
    BY <1>1 DEF Block
  <2>2. j \in 1 .. Len(longer) /\ longer[j] = file[j]
    BY <2>1
  <2> QED
    BY <1>1, <2>1, <2>2 DEF Block, Names
<1> QED
  BY <1>1, <1>2 DEF Kept

(* Then a report: the change is the last of the history and of what no      *)
(* block holds yet.                                                         *)
LEMMA KeptWithReport ==
  ASSUME NEW file, NEW refs \in Seq(BlockRef), NEW h \in Seq(Change), NEW rest,
         NEW c \in Change, Kept(file, refs, h, rest)
  PROVE  Kept(file, refs, Append(h, c), Append(rest, c))
<1> DEFINE hh == Append(h, c)
<1>1. PICK u \in [0 .. Len(refs) -> 0 .. Len(h)] :
        /\ Cuts(u, refs, h)
        /\ \A i \in 1 .. Len(refs) : Block(file, refs[i], h, u[i - 1], u[i])
        /\ rest = SubSeq(h, u[Len(refs)] + 1, Len(h))
  BY DEF Kept
<1>2. PICK m \in Nat, n \in Nat : m = Len(refs) /\ n = Len(h)
  OBVIOUS
<1>3. /\ hh \in Seq(Change) /\ Len(hh) = n + 1 /\ hh[n + 1] = c
      /\ \A k \in 1 .. n : hh[k] = h[k]
  BY <1>2
<1>4. u \in [0 .. m -> 0 .. n + 1]
  BY <1>1, <1>2
<1>5. Cuts(u, refs, hh)
  BY <1>1, <1>2, <1>3, <1>4 DEF Cuts
<1>6. ASSUME NEW a \in 0 .. n, NEW b \in 0 .. n
      PROVE  SubSeq(hh, a + 1, b) = SubSeq(h, a + 1, b)
  BY <1>2, <1>3
<1>7. ASSUME NEW a \in 0 .. n
      PROVE  SubSeq(hh, a + 1, n + 1) = Append(SubSeq(h, a + 1, n), c)
  BY <1>2, <1>7, LastBetweenMarks
<1> HIDE DEF hh
<1>8. ASSUME NEW i \in 1 .. m
      PROVE  Block(file, refs[i], hh, u[i - 1], u[i])
  <2>1. u[i - 1] \in 0 .. n /\ u[i] \in 0 .. n /\ u[i - 1] < u[i]
    BY <1>1, <1>2, SMTT(30) DEF Cuts
  <2>2. hh[u[i - 1] + 1] = h[u[i - 1] + 1] /\ hh[u[i]] = h[u[i]]
    BY <1>3, <2>1
  <2>3. SubSeq(hh, u[i - 1] + 1, u[i]) = SubSeq(h, u[i - 1] + 1, u[i])
    BY <1>6, <2>1
  <2> QED
    BY <1>1, <1>2, <2>2, <2>3 DEF Block
<1>9. Append(rest, c) = SubSeq(hh, u[m] + 1, n + 1)
  <2>1. u[m] \in 0 .. n
    BY <1>1, <1>2
  <2> QED
    BY <1>1, <1>2, <1>7, <2>1
<1>10. Kept(file, refs, hh, Append(rest, c))
  BY <1>2, <1>3, <1>4, <1>5, <1>8, <1>9 DEF Kept
<1> QED
  BY <1>10 DEF hh

(* And a flush: what no block held is the next block, with the last mark at *)
(* the end of the history.                                                  *)
LEMMA KeptWithFlush ==
  ASSUME NEW file \in Seq(Segment), NEW seg \in Segment,
         NEW refs \in Seq(BlockRef), NEW ref \in BlockRef,
         NEW h \in Seq(Change), NEW rest \in Seq(Change), rest # <<>>,
         Kept(file, refs, h, rest),
         seg.kind = "block", seg.data = rest,
         seg.off = ref.offset, seg.size = ref.storedSize,
         ref.begin = rest[1].time, ref.end = rest[Len(rest)].time + 1
  PROVE  Kept(Append(file, seg), Append(refs, ref), h, <<>>)
<1>1. PICK u \in [0 .. Len(refs) -> 0 .. Len(h)] :
        /\ Cuts(u, refs, h)
        /\ \A i \in 1 .. Len(refs) : Block(file, refs[i], h, u[i - 1], u[i])
        /\ rest = SubSeq(h, u[Len(refs)] + 1, Len(h))
  BY DEF Kept
<1>2. PICK m \in Nat, n \in Nat, f \in Nat : m = Len(refs) /\ n = Len(h) /\ f = Len(file)
  OBVIOUS
<1>13. u \in [0 .. m -> 0 .. n]
  BY <1>1, <1>2
<1> DEFINE longer == Append(file, seg)
           more == Append(refs, ref)
           v == [i \in 0 .. m + 1 |-> IF i = m + 1 THEN n ELSE u[i]]
<1>3. /\ Len(longer) = f + 1 /\ longer[f + 1] = seg
      /\ \A j \in 1 .. f : longer[j] = file[j]
  BY <1>2
<1>4. /\ Len(more) = m + 1 /\ more[m + 1] = ref
      /\ \A j \in 1 .. m : more[j] = refs[j]
  BY <1>2
<1>5. u[m] \in 0 .. n /\ u[m] < n
  <2>1. u[m] \in 0 .. n
    BY <1>1, <1>2, SMTT(30)
  <2>2. u[m] = n => SubSeq(h, n + 1, n) = <<>>
    BY <1>2
  <2> QED
    BY <1>1, <1>2, <2>1, <2>2
<1>6. /\ v \in [0 .. m + 1 -> 0 .. n] /\ v[m + 1] = n
      /\ \A i \in 0 .. m : v[i] = u[i]
  BY <1>1, <1>2
<1> HIDE DEF longer, more, v
<1>7. ASSUME NEW i \in 1 .. m + 1
      PROVE  v[i - 1] < v[i] /\ \A j \in 1 .. i - 1 : v[j] <= v[i - 1]
  <2>1. CASE i \in 1 .. m
    <3>1. u[i - 1] < u[i] /\ \A j \in 1 .. i - 1 : u[j] <= u[i - 1]
      BY <1>1, <1>2, <2>1 DEF Cuts
    <3>2. v[i - 1] = u[i - 1] /\ v[i] = u[i] /\ \A j \in 1 .. i - 1 : v[j] = u[j]
      BY <1>6, <2>1, SMTT(30)
    <3> QED
      BY <3>1, <3>2
  <2>2. CASE i = m + 1
    <3>1. i - 1 = m /\ v[i - 1] = u[m] /\ v[i] = n
      BY <1>2, <1>6, <2>2
    <3>2. ASSUME NEW j \in 1 .. m
          PROVE  u[j] <= u[m]
      <4>0. m \in 1 .. m /\ m - 1 \in 0 .. m /\ j \in 0 .. m /\ m \in 0 .. m
        BY <1>2, <3>2
      <4>1. u[m - 1] < u[m] /\ \A l \in 1 .. m - 1 : u[l] <= u[m - 1]
        BY <1>1, <1>2, <4>0 DEF Cuts
      <4>2. u[j] \in Nat /\ u[m - 1] \in Nat /\ u[m] \in Nat
        <5>1. u[j] \in 0 .. n /\ u[m - 1] \in 0 .. n /\ u[m] \in 0 .. n
          BY <1>13, <4>0
        <5> QED
          BY <1>2, <5>1
      <4>3. CASE j = m
        BY <4>2, <4>3
      <4>4. CASE j \in 1 .. m - 1
        BY <4>1, <4>2, <4>4
      <4> QED
        BY <1>2, <3>2, <4>3, <4>4
    <3> QED
      BY <1>5, <1>6, <3>1, <3>2
  <2>3. i \in 1 .. m \/ i = m + 1
    BY <1>2, <1>7
  <2> QED
    BY <2>1, <2>2, <2>3
<1>8. Cuts(v, more, h)
  BY <1>1, <1>2, <1>4, <1>6, <1>7 DEF Cuts
<1>9. ASSUME NEW i \in 1 .. m + 1
      PROVE  Block(longer, more[i], h, v[i - 1], v[i])
  <2>1. CASE i \in 1 .. m
    <3>1. PICK j \in 1 .. f :
            Names(file, refs[i], j) /\ file[j].data = SubSeq(h, u[i - 1] + 1, u[i])
      BY <1>1, <1>2, <2>1 DEF Block
    <3>2. j \in 1 .. f + 1 /\ longer[j] = file[j]
      BY <1>2, <1>3, <3>1
    <3>3. v[i - 1] = u[i - 1] /\ v[i] = u[i] /\ more[i] = refs[i]
      BY <1>4, <1>6, <2>1
    <3> QED
      BY <1>1, <1>2, <1>3, <2>1, <3>1, <3>2, <3>3 DEF Block, Names
  <2>2. CASE i = m + 1
    <3>1. i - 1 = m /\ v[i - 1] = u[m] /\ v[i] = n /\ more[i] = ref
      BY <1>2, <1>4, <1>6, <2>2
    <3>2. rest = SubSeq(h, u[m] + 1, n)
      BY <1>1, <1>2
    <3>3. /\ rest[1] = h[u[m] + 1]
          /\ rest[Len(rest)] = h[n]
      BY <1>2, <1>5, <3>2, SMTT(30)
    <3>4. Names(longer, ref, f + 1) /\ longer[f + 1].data = SubSeq(h, u[m] + 1, n)
      BY <1>2, <1>3, <3>2 DEF Names
    <3>5. \E j \in 1 .. Len(longer) :
            Names(longer, ref, j) /\ longer[j].data = SubSeq(h, u[m] + 1, n)
      BY <3>4 DEF Names
    <3>6. Block(longer, ref, h, u[m], n)
      BY <3>3, <3>5 DEF Block
    <3> QED
      BY <3>1, <3>6
  <2> QED
    BY <1>2, <1>9, <2>1, <2>2
<1>10. <<>> = SubSeq(h, v[m + 1] + 1, n)
  BY <1>2, <1>6
<1>11. Kept(longer, more, h, <<>>)
  BY <1>2, <1>4, <1>6, <1>8, <1>9, <1>10 DEF Kept
<1> QED
  BY <1>11 DEF longer, more

(* As long as no write failed, every stream is kept.                        *)
LEMMA KeptCorrect == Spec => []AllKept
<1>1. Init => AllKept
  <2> SUFFICES ASSUME Init, NEW s \in Sids
               PROVE  Kept(written, index[s], history[s], block[s])
    BY DEF AllKept
  <2>1. index[s] = <<>> /\ history[s] = <<>> /\ block[s] = <<>>
    BY DEF Init
  <2> DEFINE u == [i \in 0 .. 0 |-> 0]
  <2>2. u \in [0 .. 0 -> 0 .. 0] /\ u[0] = 0
    OBVIOUS
  <2>3. <<>> = SubSeq(<<>>, 1, 0) /\ Len(<<>>) = 0
    OBVIOUS
  <2>4. Cuts(u, <<>>, <<>>)
    BY <2>2, <2>3 DEF Cuts
  <2> HIDE DEF u
  <2>5. Kept(written, <<>>, <<>>, <<>>)
    BY <2>2, <2>3, <2>4 DEF Kept
  <2> QED
    BY <2>1, <2>5
<1>2. AllKept /\ Typed /\ Stages /\ [Next]_vars => AllKept'
  <2> SUFFICES ASSUME AllKept, Typed, Stages, [Next]_vars, out' # "failed", NEW r \in Sids
               PROVE  Kept(written', index'[r], history'[r], block'[r])
    BY DEF AllKept
  <2>1. /\ written \in Seq(Segment) /\ index[r] \in Seq(BlockRef)
        /\ history[r] \in Seq(Change) /\ block[r] \in Seq(Change) /\ offset \in Nat
    BY DEF Typed, TypeOK
  <2>2. /\ Len(written) \in Nat /\ Len(written') \in Nat
        /\ Len(written) <= Len(written')
        /\ \A j \in 1 .. Len(written) : written'[j] = written[j]
    <3>1. CASE UNCHANGED written
      BY <2>1, <3>1
    <3>2. ASSUME NEW seg \in Segment, written' = Append(written, seg)
          PROVE  /\ Len(written) \in Nat /\ Len(written') \in Nat
                 /\ Len(written) <= Len(written')
                 /\ \A j \in 1 .. Len(written) : written'[j] = written[j]
      BY <2>1, <3>2, AppendProperties
    <3> QED
      BY <3>1, <3>2, WrittenBySteps DEF Writes
  <2>3. ASSUME out # "failed", UNCHANGED <<index[r], history[r], block[r]>>
        PROVE  Kept(written', index'[r], history'[r], block'[r])
    <3>1. Kept(written, index[r], history[r], block[r])
      BY <2>3 DEF AllKept
    <3> QED
      BY <2>2, <2>3, <3>1, KeptInLongerFile
  <2>4. ASSUME NEW s \in Sids, Report(s)
        PROVE  Kept(written', index'[r], history'[r], block'[r])
    <3>1. out # "failed" /\ UNCHANGED <<index, written>>
      BY <2>4 DEF Report
    <3>2. CASE r = s
      <4>1. Kept(written, index[r], history[r], block[r])
        BY <3>1 DEF AllKept
      <4>2. NewChange(r) \in Change
        BY <2>4, <3>2, ReportExtends
      <4>3. Kept(written, index[r], Append(history[r], NewChange(r)),
                 Append(block[r], NewChange(r)))
        BY <2>1, <4>1, <4>2, KeptWithReport
      <4>4. /\ history'[r] = Append(history[r], NewChange(r))
            /\ block'[r] = Append(block[r], NewChange(r))
        BY <2>4, <3>2, ReportExtends
      <4> QED
        BY <3>1, <4>3, <4>4
    <3>3. CASE r # s
      BY <2>3, <2>4, <3>1, <3>3, ReportExtends
    <3> QED
      BY <3>2, <3>3
  <2>5. ASSUME NEW s \in Sids, NEW size \in BlockSizes, Flushes(s, size)
        PROVE  Kept(written', index'[r], history'[r], block'[r])
    <3>1. out # "failed" /\ UNCHANGED history
      BY <2>5 DEF Flushes
    <3>2. CASE r = s
      <4> DEFINE seg == BlockSegment(block[r], offset, size)
                 ref == RefOf(block[r], offset, size)
      <4>1. block[r] # <<>> /\ Kept(written, index[r], history[r], block[r])
        BY <2>5, <3>1, <3>2 DEF Flushes, AllKept
      <4>2. seg \in Segment /\ ref \in BlockRef
        BY <2>1, <4>1, BlockRefType
      <4>3. /\ seg.kind = "block" /\ seg.data = block[r]
            /\ seg.off = ref.offset /\ seg.size = ref.storedSize
            /\ ref.begin = block[r][1].time
            /\ ref.end = block[r][Len(block[r])].time + 1
        BY DEF BlockSegment, RefOf, SpanEnd
      <4>4. /\ written' = Append(written, seg)
            /\ index'[r] = Append(index[r], ref)
            /\ block'[r] = <<>>
        BY <2>5, <3>2 DEF Flushes, Typed, TypeOK
      <4> HIDE DEF seg, ref
      <4>5. Kept(Append(written, seg), Append(index[r], ref), history[r], <<>>)
        BY <2>1, <4>1, <4>2, <4>3, KeptWithFlush
      <4> QED
        BY <3>1, <4>4, <4>5
    <3>3. CASE r # s
      <4>1. UNCHANGED <<index[r], history[r], block[r]>>
        BY <2>5, <3>3 DEF Flushes, Typed, TypeOK
      <4> QED
        BY <2>3, <3>1, <4>1
    <3> QED
      BY <3>2, <3>3
  <2>6. CASE Elsewhere
    BY <2>3, <2>6 DEF Elsewhere
  <2> QED
    BY <2>4, <2>5, <2>6, StepKinds
<1> QED
  BY <1>1, <1>2, TypedCorrect, StagesCorrect, PTL DEF Spec

----------------------------------------------------------------------------
(* An offset belongs to one segment, so a reader of the file finds the      *)
(* block an entry names and no other.                                       *)
LEMMA OneSegmentAt ==
  ASSUME Typed, Ordered, NEW j \in 1 .. Len(written)
  PROVE  /\ SegmentsAt(Len(written), written[j].off) = {j}
         /\ (CHOOSE i \in SegmentsAt(Len(written), written[j].off) : TRUE) = j
<1>1. PICK n \in Nat : n = Len(written)
  BY DEF Typed, TypeOK
<1>2. \A i \in 1 .. n : written[i] \in Segment
  BY <1>1 DEF Typed, TypeOK
<1>3. \A i \in 1 .. n : /\ written[i].off \in Nat /\ written[i].size \in Nat
                        /\ written[i].size > 0
  BY <1>1, <1>2, SegmentFields DEF Ordered
<1>4. ASSUME NEW i \in 1 .. n, NEW k \in 1 .. n, i < k
      PROVE  written[i].off # written[k].off
  <2>1. i \in 1 .. k - 1
    BY <1>1, <1>4
  <2>2. written[i].off + written[i].size <= written[k].off
    BY <1>1, <2>1 DEF Ordered, EndOf
  <2> QED
    BY <1>3, <2>2
<1>5. ASSUME NEW i \in 1 .. n, written[i].off = written[j].off
      PROVE  i = j
  BY <1>1, <1>4, <1>5
<1>6. SegmentsAt(n, written[j].off) = {j}
  BY <1>1, <1>5 DEF SegmentsAt
<1>7. (CHOOSE i \in SegmentsAt(n, written[j].off) : TRUE) = j
  BY <1>6
<1> QED
  BY <1>1, <1>6, <1>7

(* A reference names the segment that holds its block, so reading at its  *)
(* place gives it back.                                                   *)
LEMMA NamedIsStored ==
  ASSUME Typed, Ordered, NEW ref, NEW j, Names(written, ref, j)
  PROVE  /\ Readable(Len(written), ref)
         /\ Stored(Len(written), ref) = written[j].data
<1>1. /\ j \in 1 .. Len(written) /\ written[j].off = ref.offset
      /\ written[j].kind = "block" /\ written[j].size = ref.storedSize
  BY DEF Names
<1>2. /\ SegmentsAt(Len(written), ref.offset) = {j}
      /\ (CHOOSE i \in SegmentsAt(Len(written), ref.offset) : TRUE) = j
  BY <1>1, OneSegmentAt
<1> QED
  BY <1>1, <1>2 DEF Readable, Stored

(* What an index that cuts the history gives to its readers: the blocks     *)
(* hold the history in order, and the entries can be searched by time.      *)
Searchable(refs, n) ==
  \A i \in 1 .. Len(refs) :
    /\ \A j \in 1 .. i - 1 :
         /\ refs[j].begin <= refs[i].begin
         /\ refs[j].end <= refs[i].end
         /\ refs[j].end <= refs[i].begin + 1
    /\ \A k \in DOMAIN Stored(n, refs[i]) :
         LET t == Stored(n, refs[i])[k].time
         IN refs[i].begin <= t /\ t < refs[i].end

(* Blocks that are kept can be read and searched.                         *)
LEMMA KeptIsRead ==
  ASSUME Typed, Ordered, NEW s \in Sids, Numbered(history[s]),
         NEW refs \in Seq(BlockRef), NEW rest,
         Kept(written, refs, history[s], rest)
  PROVE  /\ Holds(refs, Len(written), rest, s)
         /\ Searchable(refs, Len(written))
<1>1. PICK u \in [0 .. Len(refs) -> 0 .. Len(history[s])] :
        /\ Cuts(u, refs, history[s])
        /\ \A i \in 1 .. Len(refs) : Block(written, refs[i], history[s], u[i - 1], u[i])
        /\ rest = SubSeq(history[s], u[Len(refs)] + 1, Len(history[s]))
  BY DEF Kept
<1>2. PICK m \in Nat : m = Len(refs)
  OBVIOUS
<1>3. PICK h : h = history[s]
  OBVIOUS
<1>4. h \in Seq(Change)
  BY <1>3 DEF Typed, TypeOK
<1>5. PICK n \in Nat : n = Len(h)
  BY <1>4
<1>6. PICK f \in Nat : f = Len(written)
  BY DEF Typed, TypeOK
<1>7. u \in [0 .. m -> 0 .. n] /\ u[0] = 0
  BY <1>1, <1>2, <1>3, <1>5 DEF Cuts
<1>8. ASSUME NEW i \in 1 .. m
      PROVE  /\ i \in Nat /\ i - 1 \in 0 .. m /\ i \in 0 .. m
             /\ u[i - 1] \in Nat /\ u[i] \in Nat /\ u[i] <= n
             /\ u[i - 1] < u[i]
             /\ \A j \in 1 .. i - 1 : u[j] <= u[i - 1]
  <2>1. i \in Nat /\ i - 1 \in 0 .. m /\ i \in 0 .. m
    BY <1>2
  <2>2. u[i - 1] \in 0 .. n /\ u[i] \in 0 .. n
    BY <1>7, <2>1
  <2> QED
    BY <1>1, <1>2, <1>3, <1>5, <2>1, <2>2 DEF Cuts
<1>9. \A k \in 1 .. n : h[k].time \in Nat /\ h[k].n = k
  BY <1>3, <1>4, <1>5, ChangeFields DEF Numbered
<1>10. \A k \in 1 .. n : \A l \in 1 .. k : h[l].time <= h[k].time
  BY <1>3, <1>5 DEF Numbered
<1>11. ASSUME NEW i \in 1 .. m
       PROVE  /\ Readable(f, refs[i])
              /\ Stored(f, refs[i]) = SubSeq(h, u[i - 1] + 1, u[i])
              /\ refs[i].begin = h[u[i - 1] + 1].time
              /\ refs[i].end = h[u[i]].time + 1
  <2>1. Block(written, refs[i], h, u[i - 1], u[i])
    BY <1>1, <1>2, <1>3
  <2>2. PICK j \in 1 .. Len(written) :
          /\ Names(written, refs[i], j)
          /\ written[j].data = SubSeq(h, u[i - 1] + 1, u[i])
    BY <2>1 DEF Block
  <2> QED
    BY <1>6, <2>1, <2>2, NamedIsStored DEF Block
<1>12. ASSUME NEW i \in 1 .. m
       PROVE  /\ Len(Stored(f, refs[i])) = u[i] - u[i - 1]
              /\ \A k \in 1 .. u[i] - u[i - 1] : Stored(f, refs[i])[k] = h[u[i - 1] + k]
              /\ DOMAIN Stored(f, refs[i]) = 1 .. u[i] - u[i - 1]
  <2>1. u[i - 1] \in 0 .. Len(h) /\ u[i] \in 0 .. Len(h) /\ u[i - 1] < u[i]
    BY <1>5, <1>8
  <2>2. /\ SubSeq(h, u[i - 1] + 1, u[i]) \in Seq(Change)
        /\ Len(SubSeq(h, u[i - 1] + 1, u[i])) = u[i] - u[i - 1]
        /\ \A k \in 1 .. u[i] - u[i - 1] :
             SubSeq(h, u[i - 1] + 1, u[i])[k] = h[u[i - 1] + k]
    BY <1>4, <2>1, BetweenMarks
  <2> QED
    BY <1>11, <2>2, LenProperties
<1>13. ASSUME NEW i \in 1 .. m
       PROVE  Last(Stored(f, refs[i])).n = u[i]
  <2> DEFINE d == u[i] - u[i - 1]
  <2>1. d \in 1 .. d /\ u[i - 1] + d = u[i] /\ u[i] \in 1 .. n
    BY <1>5, <1>8
  <2>2. Last(Stored(f, refs[i])) = h[u[i]]
    BY <1>12, <2>1 DEF Last
  <2> QED
    BY <1>9, <2>1, <2>2
<1>14. ASSUME NEW i \in 0 .. m
       PROVE  Upto(refs, f, i) = u[i]
  BY <1>7, <1>13, <1>14 DEF Upto
<1>15. Holds(refs, Len(written), rest, s)
  <2>1. ASSUME NEW i \in 1 .. Len(refs)
        PROVE  /\ Readable(f, refs[i])
               /\ Upto(refs, f, i - 1) < Upto(refs, f, i)
               /\ Stored(f, refs[i]) =
                    SubSeq(history[s], Upto(refs, f, i - 1) + 1, Upto(refs, f, i))
    <3>1. Upto(refs, f, i - 1) = u[i - 1] /\ Upto(refs, f, i) = u[i]
      BY <1>2, <1>8, <1>14
    <3> QED
      BY <1>2, <1>3, <1>8, <1>11, <3>1
  <2>2. rest = SubSeq(history[s], Upto(refs, f, Len(refs)) + 1, Len(history[s]))
    BY <1>1, <1>2, <1>14, SMTT(30)
  <2> QED
    BY <1>6, <2>1, <2>2 DEF Holds
<1>16. ASSUME NEW i \in 1 .. m, NEW j \in 1 .. i - 1
       PROVE  /\ refs[j].begin <= refs[i].begin
              /\ refs[j].end <= refs[i].end
              /\ refs[j].end <= refs[i].begin + 1
  <2>1. j \in 1 .. m /\ u[j] <= u[i - 1]
    BY <1>2, <1>8
  <2>2. PICK a, b, c, d : a = u[j - 1] /\ b = u[j] /\ c = u[i - 1] /\ d = u[i]
    OBVIOUS
  <2>3. /\ a \in Nat /\ b \in Nat /\ c \in Nat /\ d \in Nat
        /\ a < b /\ b <= c /\ c < d /\ d <= n
    BY <1>8, <2>1, <2>2
  <2>4. /\ a + 1 \in 1 .. n /\ b \in 1 .. n /\ c + 1 \in 1 .. n /\ d \in 1 .. n
        /\ a + 1 \in 1 .. c + 1 /\ b \in 1 .. c + 1 /\ b \in 1 .. d
    BY <1>5, <2>3
  <2>5. /\ h[a + 1].time <= h[c + 1].time
        /\ h[b].time <= h[c + 1].time
        /\ h[b].time <= h[d].time
    BY <1>10, <2>4
  <2>6. /\ refs[j].begin = h[a + 1].time /\ refs[j].end = h[b].time + 1
        /\ refs[i].begin = h[c + 1].time /\ refs[i].end = h[d].time + 1
    BY <1>11, <2>1, <2>2
  <2>7. h[b].time \in Nat /\ h[d].time \in Nat /\ h[c + 1].time \in Nat
    BY <1>9, <2>4
  <2> QED
    BY <2>5, <2>6, <2>7, SMTT(30)
<1>17. ASSUME NEW i \in 1 .. m, NEW k \in DOMAIN Stored(f, refs[i])
       PROVE  /\ refs[i].begin <= Stored(f, refs[i])[k].time
              /\ Stored(f, refs[i])[k].time < refs[i].end
  <2>1. PICK a, b : a = u[i - 1] /\ b = u[i]
    OBVIOUS
  <2>2. a \in Nat /\ b \in Nat /\ a < b /\ b <= n /\ k \in 1 .. b - a
    BY <1>8, <1>12, <2>1
  <2>3. /\ a + 1 \in 1 .. a + k /\ a + k \in 1 .. n /\ b \in 1 .. n /\ a + k \in 1 .. b
    BY <1>5, <2>2
  <2>4. h[a + 1].time <= h[a + k].time /\ h[a + k].time <= h[b].time
    BY <1>10, <2>3
  <2>5. Stored(f, refs[i])[k] = h[a + k]
    BY <1>12, <2>1, <2>2
  <2>6. refs[i].begin = h[a + 1].time /\ refs[i].end = h[b].time + 1
    BY <1>11, <2>1
  <2>7. h[a + k].time \in Nat /\ h[b].time \in Nat
    BY <1>9, <2>3
  <2> QED
    BY <2>4, <2>5, <2>6, <2>7
<1>18. Searchable(refs, Len(written))
  BY <1>2, <1>6, <1>16, <1>17 DEF Searchable
<1> QED
  BY <1>15, <1>18

(* No change is lost, duplicated or reordered on its way to the file.       *)
THEOREM NothingLostCorrect == Spec => []NothingLost
<1>1. /\ Typed /\ Ordered /\ AllKept /\ (\A s \in Sids : Numbered(history[s]))
      => NothingLost
  <2> SUFFICES ASSUME Typed, Ordered, AllKept, out # "failed", NEW s \in Sids,
                      Numbered(history[s])
               PROVE  Holds(index[s], Len(written), block[s], s)
    BY DEF NothingLost
  <2>1. Kept(written, index[s], history[s], block[s]) /\ index[s] \in Seq(BlockRef)
    BY DEF AllKept, Typed, TypeOK
  <2> QED
    BY <2>1, KeptIsRead
<1> QED
  BY <1>1, TypedCorrect, OrderedCorrect, KeptCorrect, NumberedCorrect, PTL

(* The index can be searched by time: begins and ends are sorted, and the   *)
(* changes of a block lie in the span its entry gives.                      *)
THEOREM IndexSearchableCorrect == Spec => []IndexSearchable
<1>1. /\ Typed /\ Ordered /\ AllKept /\ (\A s \in Sids : Numbered(history[s]))
      => IndexSearchable
  <2> SUFFICES ASSUME Typed, Ordered, AllKept, \A s \in Sids : Numbered(history[s]),
                      out # "failed"
               PROVE  IndexSearchable
    BY DEF IndexSearchable
  <2>1. ASSUME NEW s \in Sids
        PROVE  Searchable(index[s], Len(written))
    <3>1. Kept(written, index[s], history[s], block[s]) /\ index[s] \in Seq(BlockRef)
      BY DEF AllKept, Typed, TypeOK
    <3> QED
      BY <3>1, KeptIsRead
  <2> QED
    BY <2>1 DEF Searchable, IndexSearchable
<1> QED
  BY <1>1, TypedCorrect, OrderedCorrect, KeptCorrect, NumberedCorrect, PTL

----------------------------------------------------------------------------
(* The footer is the last segment: a file that shows one has landed whole.  *)
LEMMA FooterMeansWhole ==
  ASSUME Typed, Stages, FooterReadable
  PROVE  Ended /\ landed = Len(written)
<1>1. landed \in 1 .. Len(written) /\ written[landed].kind = "footer"
  BY DEF FooterReadable, Typed, TypeOK
<1>2. Len(written) \in Nat
  BY DEF Typed, TypeOK
<1>3. Ended
  BY <1>1 DEF Stages, NoFooterUpto
<1>4. landed = Len(written)
  <2>1. NoFooterUpto(Len(written) - 1)
    BY <1>3 DEF Ended, Complete
  <2> QED
    BY <1>1, <1>2, <2>1 DEF NoFooterUpto
<1> QED
  BY <1>3, <1>4

(* The footer of a complete file leads to its metadata.                     *)
LEMMA FooterLeadsToMeta ==
  ASSUME Typed, Ordered, Complete, landed = Len(written)
  PROVE  /\ Len(written) - 1 \in 1 .. Len(written)
         /\ Footer = written[Len(written)]
         /\ MetaReadable /\ Meta = written[Len(written) - 1]
         /\ Meta.index = index
         /\ Meta.begin = (IF firstTime = NoTime THEN 0 ELSE firstTime)
         /\ Meta.end = (IF firstTime = NoTime THEN 0 ELSE lastTime + 1)
<1>0. Len(written) \in Nat
  BY DEF Typed, TypeOK
<1>1. PICK n \in Nat : n = Len(written)
  BY <1>0
<1>2. n - 1 \in 1 .. n
  BY <1>1 DEF Complete
<1>3. /\ MetaAt(n - 1)
      /\ written[n].metaOffset = written[n - 1].off /\ written[n].metaSize = MetaSize
  BY <1>1 DEF Complete
<1>4. /\ SegmentsAt(n, written[n].metaOffset) = {n - 1}
      /\ (CHOOSE i \in SegmentsAt(n, written[n].metaOffset) : TRUE) = n - 1
  BY <1>1, <1>2, <1>3, OneSegmentAt
<1>5. Footer = written[n]
  BY <1>1 DEF Footer
<1>6. Meta = written[n - 1]
  BY <1>1, <1>4, <1>5 DEF Meta
<1>7. MetaReadable
  BY <1>1, <1>3, <1>4, <1>5 DEF MetaReadable, MetaAt
<1> QED
  BY <1>1, <1>2, <1>3, <1>5, <1>6, <1>7 DEF MetaAt

(* The invariants the last theorem combines.                                *)
Contents ==
  /\ Typed /\ Ordered /\ Stages /\ Published /\ Spanned /\ AllKept
  /\ \A s \in Sids : Numbered(history[s])

(* Of a whole file every stream reads back.                                 *)
LEMMA WholeIsRead ==
  ASSUME Contents, Ended, landed = Len(written), NEW s \in Sids
  PROVE  Holds(index[s], landed, <<>>, s)
<1>1. out # "failed"
  BY DEF Contents, Published, Ended, Typed, TypeOK
<1>2. Kept(written, index[s], history[s], <<>>)
  BY <1>1 DEF Contents, AllKept, Ended, Drained
<1>3. index[s] \in Seq(BlockRef)
  BY DEF Contents, Typed, TypeOK
<1> QED
  BY <1>2, <1>3, KeptIsRead DEF Contents

(* openStore() takes no file for complete that is not: what it opens holds  *)
(* every change, in blocks that landed, within the time range it names.     *)
LEMMA OpenIsComplete ==
  ASSUME Contents
  PROVE  OpenOnlyWhenComplete
<1> SUFFICES ASSUME OpenResult = "opened"
             PROVE  /\ finished
                    /\ \A s \in Sids :
                         /\ Holds(Meta.index[s], landed, <<>>, s)
                         /\ \A k \in DOMAIN history[s] :
                              /\ Meta.begin <= history[s][k].time
                              /\ history[s][k].time < Meta.end
  BY DEF OpenOnlyWhenComplete
<1>1. FooterReadable
  BY DEF OpenResult
<1>2. Ended /\ landed = Len(written)
  BY <1>1, FooterMeansWhole DEF Contents
<1>3. /\ Meta.index = index
      /\ Meta.begin = (IF firstTime = NoTime THEN 0 ELSE firstTime)
      /\ Meta.end = (IF firstTime = NoTime THEN 0 ELSE lastTime + 1)
  BY <1>2, FooterLeadsToMeta DEF Contents, Ended
<1>4. ASSUME NEW s \in Sids
      PROVE  Holds(Meta.index[s], landed, <<>>, s)
  BY <1>2, <1>3, WholeIsRead
<1>5. ASSUME NEW s \in Sids, NEW k \in DOMAIN history[s]
      PROVE  Meta.begin <= history[s][k].time /\ history[s][k].time < Meta.end
  <2>1. history[s] \in Seq(Change)
    BY DEF Contents, Typed, TypeOK
  <2>2. k \in 1 .. Len(history[s]) /\ history[s] # <<>>
    BY <1>5, <2>1
  <2>3. firstTime # NoTime
    BY <2>2 DEF Contents, Spanned
  <2>4. lastTime \in Int /\ history[s][k].time \in Nat
    <3>1. lastTime \in Int
      BY BoundsAssumption, NoTimeAssumption DEF Contents, Typed, TypeOK, Times
    <3> QED
      BY <2>1, <2>2, <3>1, ChangeFields
  <2>5. firstTime <= history[s][k].time /\ history[s][k].time <= lastTime
    BY <2>2 DEF Contents, Spanned
  <2> QED
    BY <1>3, <2>3, <2>4, <2>5
<1> QED
  BY <1>2, <1>4, <1>5 DEF Ended

(* A file that shows its footer passes every check of openStore().          *)
LEMMA WholeOpens ==
  ASSUME Contents, FooterReadable
  PROVE  OpenResult = "opened"
<1>1. Complete /\ landed = Len(written) /\ torn = 0
  BY FooterMeansWhole DEF Contents, Ended, FooterReadable
<1>2. PICK n \in Nat : n = Len(written)
  BY DEF Contents, Typed, TypeOK
<1>3. /\ n >= 3 /\ written[n].kind = "footer" /\ written[n].size = FooterSize
      /\ written[n].metaOffset = written[n - 1].off /\ written[n].metaSize = MetaSize
      /\ written[n - 1].size = MetaSize
  BY <1>1, <1>2 DEF Complete, MetaAt
<1>4. /\ written[1].kind = "header" /\ EndOf(1) = HeaderSize
  BY LayoutAssumption DEF Contents, Stages, Header, EndOf
<1>5. written[n].off \in Nat /\ written[n - 1].off \in Nat
  <2>1. n \in 1 .. n /\ n - 1 \in 1 .. n
    BY <1>3
  <2>2. written[n] \in Segment /\ written[n - 1] \in Segment
    BY <1>2, <2>1 DEF Contents, Typed, TypeOK
  <2> QED
    BY <2>2, SegmentFields
<1>6. HeaderSize <= written[n - 1].off /\ written[n - 1].off + MetaSize <= written[n].off
  <2>1. 1 \in 1 .. n - 1 - 1 /\ n - 1 \in 1 .. n /\ n - 1 \in 1 .. n - 1 /\ n \in 1 .. n
    BY <1>3
  <2>2. EndOf(1) <= written[n - 1].off /\ EndOf(n - 1) <= written[n].off
    BY <1>2, <2>1 DEF Contents, Ordered
  <2> QED
    BY <1>3, <1>4, <2>2 DEF EndOf
<1>7. FileSize = written[n].off + FooterSize
  BY <1>1, <1>2, <1>3, <1>5, LayoutAssumption DEF FileSize, EndOf
<1>8. HeaderReadable /\ FooterReadable /\ Footer = written[n] /\ MetaReadable
  BY <1>1, <1>2, <1>3, <1>4, FooterLeadsToMeta
  DEF HeaderReadable, FooterReadable, Contents
<1>9. /\ ~(FileSize < HeaderSize + FooterSize)
      /\ ~(Footer.metaOffset < HeaderSize)
      /\ ~(Footer.metaOffset + Footer.metaSize + FooterSize > FileSize)
  BY <1>3, <1>5, <1>6, <1>7, <1>8, LayoutAssumption
<1> QED
  BY <1>8, <1>9 DEF OpenResult

(* Once finish() returned, every check of openStore() passes.               *)
LEMMA ReturnedIsOpen ==
  ASSUME Contents
  PROVE  FinishPublishes
<1> SUFFICES ASSUME outcome = "returned"
             PROVE  /\ OpenResult = "opened"
                    /\ \A s \in Sids : \A i \in DOMAIN index[s] : Readable(landed, index[s][i])
  BY DEF FinishPublishes
<1>1. Complete /\ landed = Len(written) /\ torn = 0
  BY DEF Contents, Published
<1>2. FooterReadable
  BY <1>1 DEF Complete, FooterReadable, Contents, Typed, TypeOK
<1>3. OpenResult = "opened"
  BY <1>2, WholeOpens
<1>4. ASSUME NEW s \in Sids, NEW i \in DOMAIN index[s]
      PROVE  Readable(landed, index[s][i])
  <2>1. Ended /\ index[s] \in Seq(BlockRef)
    BY <1>2, FooterMeansWhole DEF Contents, Typed, TypeOK
  <2>2. Holds(index[s], landed, <<>>, s)
    BY <1>1, <2>1, WholeIsRead
  <2> QED
    BY <1>4, <2>1, <2>2 DEF Holds
<1> QED
  BY <1>3, <1>4

(* A store opens exactly when its ingestion is complete, whatever was       *)
(* written, landed, failed or cut short by a crash.                         *)
THEOREM OpensExactlyCorrect == Spec => []OpensExactly
<1>1. Contents => OpensExactly
  BY OpenIsComplete, ReturnedIsOpen DEF OpensExactly
<1>2. /\ Typed /\ Ordered /\ Stages /\ Published /\ Spanned /\ AllKept
      /\ (\A s \in Sids : Numbered(history[s]))
      => Contents
  BY DEF Contents
<1> QED
  BY <1>1, <1>2, TypedCorrect, OrderedCorrect, StagesCorrect, PublishedCorrect,
     SpannedCorrect, KeptCorrect, NumberedCorrect, PTL

----------------------------------------------------------------------------
(* The blocks an index names, one after the other, are the history.         *)
LEMMA KeptReadsBack ==
  ASSUME Typed, Ordered, NEW h \in Seq(Change), NEW refs \in Seq(BlockRef),
         Kept(written, refs, h, <<>>)
  PROVE  FlattenSeq([i \in DOMAIN refs |-> Stored(Len(written), refs[i])]) = h
<1>1. PICK u \in [0 .. Len(refs) -> 0 .. Len(h)] :
        /\ Cuts(u, refs, h)
        /\ \A i \in 1 .. Len(refs) : Block(written, refs[i], h, u[i - 1], u[i])
        /\ <<>> = SubSeq(h, u[Len(refs)] + 1, Len(h))
  BY DEF Kept
<1>2. PICK m \in Nat : m = Len(refs)
  OBVIOUS
<1>3. PICK n \in Nat : n = Len(h)
  OBVIOUS
<1>4. u \in [0 .. m -> 0 .. n] /\ u[0] = 0 /\ \A i \in 1 .. m : u[i - 1] < u[i]
  BY <1>1, <1>2, <1>3 DEF Cuts
<1> DEFINE pieces == [i \in 1 .. m |-> Stored(Len(written), refs[i])]
<1>5. ASSUME NEW i \in 1 .. m
      PROVE  /\ pieces[i] = SubSeq(h, u[i - 1] + 1, u[i])
             /\ pieces[i] \in Seq(Change)
  <2>1. Block(written, refs[i], h, u[i - 1], u[i])
    BY <1>1, <1>2
  <2>2. PICK j \in 1 .. Len(written) :
          /\ Names(written, refs[i], j)
          /\ written[j].data = SubSeq(h, u[i - 1] + 1, u[i])
    BY <2>1 DEF Block
  <2>3. pieces[i] = SubSeq(h, u[i - 1] + 1, u[i])
    BY <2>2, NamedIsStored
  <2>4. i - 1 \in 0 .. m /\ i \in 0 .. m
    BY <1>2
  <2>5. u[i - 1] \in 0 .. Len(h) /\ u[i] \in 0 .. Len(h)
    BY <1>3, <1>4, <2>4
  <2>6. SubSeq(h, u[i - 1] + 1, u[i]) \in Seq(Change)
    BY <2>5, BetweenMarks
  <2> QED
    BY <2>3, <2>6
<1>6. pieces \in [1 .. m -> Seq(Change)]
  BY <1>5
<1>7. DOMAIN pieces = 1 .. m /\ Len(pieces) = m
  BY <1>6, FunctionIsSeq
<1>8. u[m] = n
  <2>1. m \in 0 .. m
    OBVIOUS
  <2>2. u[m] \in 0 .. n
    BY <1>4, <2>1
  <2>3. Len(SubSeq(h, u[m] + 1, n)) = (IF u[m] < n THEN n - u[m] ELSE 0)
    BY <1>3, <2>2, BetweenMarks
  <2>4. Len(SubSeq(h, u[m] + 1, n)) = 0
    BY <1>1, <1>2, <1>3
  <2> QED
    BY <2>2, <2>3, <2>4
<1>9. SubSeq(h, 1, n) = h
  BY <1>3, SubSeqFull
<1>10. FlattenSeq(pieces) = h
  <2>1. CASE m = 0
    <3>1. n = 0
      BY <1>4, <1>8, <2>1
    <3>2. h = <<>>
      BY <1>3, <3>1, EmptySeq
    <3>3. pieces = <<>>
      <4>1. pieces \in Seq(Seq(Change)) /\ Len(pieces) = 0
        BY <1>6, <1>7, <2>1, FunctionIsSeq
      <4> HIDE DEF pieces
      <4> QED
        BY <4>1, EmptySeq
    <3> QED
      BY <1>7, <2>1, <3>2, <3>3 DEF FlattenSeq
  <2>2. CASE m # 0
    <3>1. Pieces(pieces, h, u, m)
      <4> HIDE DEF pieces
      <4> QED
        BY <1>3, <1>4, <1>5, <1>7 DEF Pieces
    <3> HIDE DEF pieces
    <3> QED
      BY <1>8, <1>9, <2>2, <3>1, FlattenOfCuts
  <2> QED
    BY <2>1, <2>2
<1>11. DOMAIN refs = 1 .. m
  BY <1>2
<1> QED
  BY <1>10, <1>11

(* What a reader of a complete file finds is what was reported.             *)
LEMMA WholeReadsBack ==
  ASSUME Contents, FooterReadable
  PROVE  ReadBack = history
<1>1. Ended /\ landed = Len(written)
  BY FooterMeansWhole DEF Contents
<1>2. Meta.index = index
  BY <1>1, FooterLeadsToMeta DEF Contents, Ended
<1>3. ASSUME NEW s \in Sids
      PROVE  FlattenSeq([i \in DOMAIN index[s] |-> Stored(landed, index[s][i])])
               = history[s]
  <2>1. out # "failed" /\ block[s] = <<>>
    BY <1>1 DEF Contents, Published, Ended, Drained, Typed, TypeOK
  <2>2. Kept(written, index[s], history[s], <<>>)
    BY <2>1 DEF Contents, AllKept
  <2>3. index[s] \in Seq(BlockRef) /\ history[s] \in Seq(Change)
    BY DEF Contents, Typed, TypeOK
  <2> QED
    BY <1>1, <2>2, <2>3, KeptReadsBack DEF Contents
<1>4. ReadBack = [s \in Sids |-> history[s]]
  BY <1>2, <1>3 DEF ReadBack
<1> QED
  BY <1>4 DEF Contents, Typed, TypeOK

(* A file that shows its footer keeps it, and nothing is reported any more. *)
LEMMA FooterStays ==
  ASSUME Contents, FooterReadable, [Next]_vars
  PROVE  FooterReadable' /\ history' = history
<1>1. /\ finished /\ pc \in {"sync", "idle", "taken", "gone"}
      /\ landed = Len(written) /\ Len(written) \in Nat
  BY FooterMeansWhole DEF Contents, Ended, Typed, TypeOK
<1>2. /\ UNCHANGED <<written, history>>
      /\ \/ UNCHANGED <<landed, torn>>
         \/ landed' = Len(written) /\ torn' = 0
  <2> USE DEF fileVars
  <2>1. ~Calls \/ TakeDatabase
    BY <1>1 DEF Calls, AllocStream, SetTime, ValueChange, Finish, Callable
  <2>2. Internal => FlushAndClose \/ FlushThrows
    BY <1>1
    DEF Internal, FlushFull, RelieveFlush, RelieveSkip, RelievePassEnds, DrainFlush,
        DrainSkip, DrainEnds, WriteMeta, WriteFooter
  <2>3. ~FlushThrows
    <3>1. landed .. Len(written) - 1 = {}
      BY <1>1
    <3> QED
      BY <3>1 DEF FlushThrows
  <2>4. ~Land
    <3>1. ~(landed < Len(written))
      BY <1>1
    <3> QED
      BY <3>1 DEF Land
  <2>5. Die => UNCHANGED <<written, history, landed, torn>>
    BY <1>1 DEF Die
  <2> QED
    BY <2>1, <2>2, <2>3, <2>4, <2>5 DEF Next, TakeDatabase, FlushAndClose, vars
<1> QED
  BY <1>1, <1>2 DEF FooterReadable

(* What openStore() makes of the file is what the abstract store holds.     *)
StoreSeen == IF OpenResult = "opened" THEN ReadBack ELSE Unopenable

(* What openStore() shows is nothing, or the whole history once the       *)
(* footer can be read.                                                    *)
LEMMA SeenIsHistory ==
  Contents => /\ StoreSeen = IF FooterReadable THEN history ELSE Unopenable
              /\ FooterReadable => finished
<1> SUFFICES ASSUME Contents
             PROVE  /\ StoreSeen = IF FooterReadable THEN history ELSE Unopenable
                    /\ FooterReadable => finished
  OBVIOUS
<1>1. CASE FooterReadable
  BY <1>1, WholeOpens, WholeReadsBack, FooterMeansWhole DEF StoreSeen, Contents, Ended
<1>2. CASE ~FooterReadable
  BY <1>2 DEF StoreSeen, OpenResult
<1> QED
  BY <1>1, <1>2

(* Each step of the builder, seen through openStore(), records a change,    *)
(* publishes the whole record, or is not seen.                              *)
LEMMA StepsImplementHistory ==
  ASSUME Contents, Contents', [Next]_vars
  PROVE  \/ \E s \in Sids : History!Record(s)
         \/ History!Publish
         \/ UNCHANGED <<history, StoreSeen>>
<1>1. /\ StoreSeen = IF FooterReadable THEN history ELSE Unopenable
      /\ (StoreSeen = IF FooterReadable THEN history ELSE Unopenable)'
      /\ (FooterReadable => finished)'
  <2>1. Contents' => /\ (StoreSeen = IF FooterReadable THEN history ELSE Unopenable)'
                     /\ (FooterReadable => finished)'
    BY SeenIsHistory, PTL
  <2> QED
    BY <2>1, SeenIsHistory
<1>2. CASE FooterReadable
  BY <1>1, <1>2, FooterStays
<1>3. CASE ~FooterReadable
  <2>1. ASSUME NEW s \in Sids, Report(s)
        PROVE  History!Record(s)
    <3>1. ~FooterReadable'
      BY <1>1, <2>1 DEF Report
    <3>2. NewChange(s) \in [time : Times, n : 1 .. MaxChanges]
      BY <2>1, BoundsAssumption, SMTT(30) DEF Report, NewChange, Contents, Typed, TypeOK
    <3> QED
      BY <1>1, <1>3, <2>1, <3>1, <3>2 DEF History!Record, Report, StoreSeen
  <2>2. CASE history' = history
    BY <1>1, <1>3, <2>2 DEF History!Publish, StoreSeen
  <2> QED
    BY <2>1, <2>2, StepKinds DEF Contents, Flushes, Elsewhere
<1> QED
  BY <1>2, <1>3

(* The builder, its file and openStore() implement the abstract history:    *)
(* whatever is flushed, relieved, lost or cut short, a reader of the file   *)
(* sees nothing until the whole record appears, and then that record for    *)
(* ever.                                                                    *)
THEOREM ImplementsHistoryCorrect == Spec => ImplementsHistory
<1>1. Init => History!Init
  <2> SUFFICES ASSUME Init
               PROVE  History!Init
    OBVIOUS
  <2>1. FileSize = 0
    BY DEF Init, FileSize
  <2>2. OpenResult # "opened"
    BY <2>1, LayoutAssumption DEF OpenResult
  <2> QED
    BY <2>2 DEF Init, History!Init
<1>2. ASSUME Contents, Contents', [Next]_vars
      PROVE  [History!Next]_<<history, StoreSeen>>
  BY <1>2, StepsImplementHistory DEF History!Next
<1>3. Spec => []Contents
  <2>1. /\ Typed /\ Ordered /\ Stages /\ Published /\ Spanned /\ AllKept
        /\ (\A s \in Sids : Numbered(history[s]))
        => Contents
    BY DEF Contents
  <2> QED
    BY <2>1, TypedCorrect, OrderedCorrect, StagesCorrect, PublishedCorrect,
       SpannedCorrect, KeptCorrect, NumberedCorrect, PTL
<1> QED
  BY <1>1, <1>2, <1>3, PTL DEF Spec, ImplementsHistory, History!Spec, StoreSeen
=============================================================================
