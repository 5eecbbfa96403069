-------------------------- MODULE ArrayQueueProofs --------------------------
(***************************************************************************)
(* Proofs about ArrayQueue and QueueIterators for every item type, buffer  *)
(* length and width of size_type.                                          *)
(*                                                                         *)
(* RingInv speaks of `%` with a variable divisor.  The proofs work with    *)
(* LinearInv, the same invariant with every `%` replaced by a case         *)
(* distinction, which is inductive together with TypeOK.                   *)
(*                                                                         *)
(* The refinement mapping reads the queue out of the ring with `%` too.    *)
(* Under the invariant the j-th item is in slot SlotOf(j), which says the  *)
(* same without it; a step is simulated by comparing SlotOf(j) before and  *)
(* after it.  What is known about a second iterator is then stated over    *)
(* the abstract queue (HeldInv), and the recursive Walk is shown to read   *)
(* exactly that.                                                           *)
(***************************************************************************)
EXTENDS QueueIterators, NatRecursion, SequenceTheorems

\* What x % n is for an x that overshoots n at most once.
Wrap(x, n) == IF x < n THEN x ELSE x - n

LinearOffset(s) == IF s >= aq_front THEN s - aq_front ELSE s + aq_size - aq_front

LinearInv ==
  /\ aq_len <= aq_size
  /\ aq_size = 0 => aq_front = 0 /\ aq_back = 0
  /\ aq_size # 0 => /\ aq_front < aq_size
                    /\ aq_back = Wrap(aq_front + aq_len, aq_size)
  /\ iter # NULL => iter \in RingSlot /\ LinearOffset(iter) < aq_len
  /\ rm_i # NULL => /\ iter # NULL
                    /\ rm_i \in RingSlot
                    /\ LinearOffset(iter) <= LinearOffset(rm_i)
                    /\ LinearOffset(rm_i) + 1 < aq_len

Inv == TypeOK /\ LinearInv

-----------------------------------------------------------------------------
(* Arithmetic of the ring.                                                 *)

\* `%` on a sum of two ring positions.
LEMMA ModWrap ==
  ASSUME NEW n \in Nat, NEW x \in Nat, n # 0, x < 2 * n
  PROVE  x % n = Wrap(x, n)
BY DEF Wrap

\* A value that fits size_type is stored unchanged.
LEMMA StoreFits ==
  ASSUME NEW n \in 0..(SizeMod - 1)
  PROVE  Store(n) = n
BY SizeModAssumption DEF Store

\* Whatever is assigned, a size_type field holds a value of its width.
LEMMA StoreRange ==
  ASSUME NEW n \in Int
  PROVE  Store(n) \in 0..(SizeMod - 1)
BY SizeModAssumption DEF Store

\* The expression (i + 1) % aq_size on a slot of the ring.
LEMMA IncWraps ==
  ASSUME TypeOK, NEW i \in RingSlot
  PROVE  Inc(i) = Wrap(i + 1, aq_size) /\ Inc(i) \in RingSlot
<1>1. aq_size \in Nat /\ aq_size # 0 /\ i \in Nat /\ i < aq_size
  BY SizeModAssumption DEF RingSlot, TypeOK
<1>2. (i + 1) % aq_size = Wrap(i + 1, aq_size)
  BY <1>1, ModWrap
<1> QED
  BY <1>1, <1>2 DEF Inc, RingSlot, Wrap

\* Offset without `%`.
LEMMA OffsetLinear ==
  ASSUME TypeOK, aq_front < aq_size, NEW s \in RingSlot
  PROVE  Offset(s) = LinearOffset(s)
<1>1. s + aq_size - aq_front \in Nat /\ s + aq_size - aq_front < 2 * aq_size
  BY DEF RingSlot, TypeOK
<1>2. (s + aq_size - aq_front) % aq_size = Wrap(s + aq_size - aq_front, aq_size)
  BY <1>1, ModWrap DEF TypeOK
<1> QED
  BY <1>2 DEF Offset, LinearOffset, Wrap, TypeOK, RingSlot

\* Ring without `%`.
LEMMA RingLinear ==
  ASSUME TypeOK, aq_front < aq_size, NEW k \in 0..aq_size
  PROVE  Ring(k) = Wrap(aq_front + k, aq_size)
BY ModWrap DEF Ring, TypeOK

\* LinearInv is RingInv.
LEMMA RingInvLinear ==
  ASSUME TypeOK
  PROVE  RingInv <=> LinearInv
<1>0. NULL \notin Int
  BY NullAssumption
<1>1. WindowInv <=> /\ aq_len <= aq_size
                    /\ aq_size = 0 => aq_front = 0 /\ aq_back = 0
                    /\ aq_size # 0 => /\ aq_front < aq_size
                                      /\ aq_back = Wrap(aq_front + aq_len, aq_size)
  BY RingLinear DEF WindowInv, RingSlot, TypeOK
<1>2. CASE aq_size = 0
  BY <1>1, <1>2 DEF RingInv, LinearInv, IterInv, RingSlot
<1>3. CASE aq_size # 0 /\ aq_front < aq_size
  <2>1. \A s \in RingSlot : Offset(s) = LinearOffset(s)
    BY <1>3, OffsetLinear
  <2> QED
    BY <1>1, <2>1 DEF RingInv, LinearInv, IterInv
<1>4. CASE aq_size # 0 /\ ~(aq_front < aq_size)
  BY <1>1, <1>4 DEF RingInv, LinearInv
<1> QED
  BY <1>2, <1>3, <1>4

-----------------------------------------------------------------------------
(* The inductive invariant.                                                *)

\* An initialised queue satisfies the invariant, whatever siz narrows to.
LEMMA InitInv == Init => Inv
<1> SUFFICES ASSUME Init PROVE Inv
  OBVIOUS
<1>1. PICK siz \in 0..BufLen : aq_size = Store(siz)
  BY DEF Init
<1>2. aq_size \in 0..(SizeMod - 1) /\ aq_size <= BufLen
  BY <1>1, SizeModAssumption, BufLenAssumption DEF Store
<1>3. TypeOK
  BY <1>2, SizeModAssumption DEF Init, TypeOK
<1>4. LinearInv
  BY <1>2, SizeModAssumption DEF Init, LinearInv, Wrap
<1> QED
  BY <1>3, <1>4 DEF Inv

\* Every macro, and every turn of the loop of ARRAY_QUEUE_ITER_REMOVE,
\* preserves the invariant.
LEMMA NextInv == Inv /\ [Next]_vars => Inv'
<1> SUFFICES ASSUME Inv, [Next]_vars PROVE Inv'
  OBVIOUS
<1> USE DEF Inv
<1>0. /\ aq_size \in Nat /\ aq_front \in Nat /\ aq_back \in Nat /\ aq_len \in Nat
      /\ NULL \notin Int /\ BufLen \in Nat /\ SizeMod \in Nat
      /\ aq_size < SizeMod /\ aq_len <= aq_size
  BY SizeModAssumption, BufLenAssumption, NullAssumption DEF TypeOK, LinearInv
<1>1. ASSUME NEW siz \in 0..BufLen, ARRAY_QUEUE_INIT(siz) PROVE Inv'
  <2>1. aq_size' \in 0..(SizeMod - 1) /\ aq_size' <= BufLen
    BY <1>1, SizeModAssumption, BufLenAssumption DEF ARRAY_QUEUE_INIT, Store
  <2>2. TypeOK'
    BY <1>1, <2>1, <1>0, SizeModAssumption DEF ARRAY_QUEUE_INIT, Idle, TypeOK
  <2>3. LinearInv'
    BY <1>1, <2>1, <1>0 DEF ARRAY_QUEUE_INIT, Idle, LinearInv, Wrap
  <2> QED
    BY <2>2, <2>3
<1>2. ASSUME NEW x \in Item, NEW want \in BOOLEAN, ARRAY_QUEUE_ENQUEUE(x, want)
      PROVE  Inv'
  <2> USE <1>2 DEF ARRAY_QUEUE_ENQUEUE
  <2>1. CASE ARRAY_QUEUE_IS_FULL
    BY <2>1, <1>0 DEF Report, TypeOK, LinearInv, RingSlot, LinearOffset, ARRAY_QUEUE_IS_FULL, Idle
  <2>2. CASE ~ARRAY_QUEUE_IS_FULL
    <3>1. aq_size # 0 /\ aq_len < aq_size /\ aq_back \in RingSlot
      BY <2>2, <1>0 DEF ARRAY_QUEUE_IS_FULL, LinearInv, RingSlot, Wrap
    <3>2. /\ aq_item' = [aq_item EXCEPT ![aq_back] = x]
          /\ aq_back' = Store(Inc(aq_back)) /\ aq_len' = Store(aq_len + 1)
          /\ ret' \in {TRUE, ret}
          /\ UNCHANGED <<aq_size, aq_front, iter, rm_i, data>>
      BY <2>2 DEF Report
    <3>3. aq_back' = Wrap(aq_back + 1, aq_size) /\ aq_back' \in RingSlot
      BY <3>1, <3>2, <1>0, IncWraps, StoreFits DEF RingSlot
    <3>4. aq_len' = aq_len + 1
      BY <3>1, <3>2, <1>0, StoreFits
    <3>5. TypeOK'
      <4>1. ret' \in BOOLEAN \cup {NULL}
        BY <3>2 DEF TypeOK
      <4>2. aq_item' \in [Slot -> Item]
        BY <3>2 DEF TypeOK
      <4> QED
        BY <4>1, <4>2, <3>1, <3>2, <3>3, <3>4, <1>0 DEF TypeOK, RingSlot
    <3>6. LinearInv'
      BY <3>1, <3>2, <3>3, <3>4, <1>0 DEF LinearInv, LinearOffset, RingSlot, Wrap, Idle
    <3> QED
      BY <3>5, <3>6
  <2> QED
    BY <2>1, <2>2
<1>3. ASSUME NEW want \in BOOLEAN, ARRAY_QUEUE_DEQUEUE(want) PROVE Inv'
  <2> USE <1>3 DEF ARRAY_QUEUE_DEQUEUE
  <2>1. CASE ARRAY_QUEUE_IS_EMPTY
    BY <2>1, <1>0 DEF Report, TypeOK, LinearInv, RingSlot, LinearOffset, ARRAY_QUEUE_IS_EMPTY
  <2>2. CASE ~ARRAY_QUEUE_IS_EMPTY
    <3>1. aq_size # 0 /\ aq_len > 0 /\ aq_front \in RingSlot
      BY <2>2, <1>0 DEF ARRAY_QUEUE_IS_EMPTY, LinearInv, RingSlot
    <3>2. /\ data' = aq_item[aq_front]
          /\ aq_front' = Store(Inc(aq_front)) /\ aq_len' = Store(aq_len - 1)
          /\ iter' = IF iter = aq_front THEN NULL ELSE iter
          /\ ret' \in {TRUE, ret}
          /\ UNCHANGED <<aq_item, aq_size, aq_back, rm_i>>
      BY <2>2 DEF Report
    <3>3. aq_front' = Wrap(aq_front + 1, aq_size) /\ aq_front' \in RingSlot
      BY <3>1, <3>2, <1>0, IncWraps, StoreFits DEF RingSlot
    <3>4. aq_len' = aq_len - 1
      BY <3>1, <3>2, <1>0, StoreFits
    <3>5. data' \in Item
      BY <3>1, <3>2, <1>0 DEF TypeOK, RingSlot, Slot
    <3>6. TypeOK'
      <4>1. ret' \in BOOLEAN \cup {NULL}
        BY <3>2 DEF TypeOK
      <4>2. iter' \in Slot \cup {NULL}
        BY <3>2 DEF TypeOK
      <4> QED
        BY <4>1, <4>2, <3>1, <3>2, <3>3, <3>4, <3>5, <1>0 DEF TypeOK, RingSlot
    <3>7. rm_i' = NULL
      BY <3>2 DEF Idle
    <3>8. LinearInv'
      BY <3>1, <3>2, <3>3, <3>4, <3>7, <1>0 DEF LinearInv, LinearOffset, RingSlot, Wrap
    <3> QED
      BY <3>6, <3>8
  <2> QED
    BY <2>1, <2>2
<1>4. CASE ARRAY_QUEUE_FRONT
  <2>1. aq_front \in Slot
    BY <1>4, <1>0 DEF ARRAY_QUEUE_FRONT, ARRAY_QUEUE_IS_EMPTY, LinearInv, Slot, TypeOK
  <2> QED
    BY <1>4, <1>0, <2>1 DEF ARRAY_QUEUE_FRONT, TypeOK, LinearInv, RingSlot, LinearOffset, queueFields
<1>5. CASE ARRAY_QUEUE_ITER
  <2>1. CASE ARRAY_QUEUE_IS_EMPTY
    BY <1>5, <1>0, <2>1 DEF ARRAY_QUEUE_ITER, Idle, TypeOK, LinearInv, queueFields
  <2>2. CASE ~ARRAY_QUEUE_IS_EMPTY
    BY <1>5, <1>0, <2>2 DEF ARRAY_QUEUE_ITER, ARRAY_QUEUE_IS_EMPTY, Idle, TypeOK, Slot, RingSlot,
                            LinearOffset, LinearInv, queueFields
  <2> QED
    BY <2>1, <2>2
<1>6. CASE IterRead
  BY <1>6, <1>0 DEF IterRead, TypeOK, LinearInv, RingSlot, LinearOffset, queueFields
<1>7. CASE ARRAY_QUEUE_ITER_NEXT
  <2>1. iter \in RingSlot /\ Inc(iter) = Wrap(iter + 1, aq_size) /\ Inc(iter) \in RingSlot
    BY <1>7, IncWraps DEF ARRAY_QUEUE_ITER_NEXT, AfterIter, LinearInv
  <2>2. TypeOK'
    BY <1>7, <1>0, <2>1 DEF ARRAY_QUEUE_ITER_NEXT, AfterIter, TypeOK, RingSlot, Slot, queueFields
  <2>3. LinearInv'
    BY <1>7, <1>0, <2>1 DEF ARRAY_QUEUE_ITER_NEXT, AfterIter, Idle, LinearInv, LinearOffset, RingSlot, Wrap,
                            queueFields
  <2> QED
    BY <2>2, <2>3
<1>8. CASE ARRAY_QUEUE_ITER_REMOVE
  <2>1. iter \in RingSlot /\ Inc(iter) = Wrap(iter + 1, aq_size)
    BY <1>8, IncWraps DEF ARRAY_QUEUE_ITER_REMOVE, LinearInv
  <2>2. CASE Inc(iter) = aq_back
    <3>1. aq_back' = iter /\ aq_len' = aq_len - 1
      BY <1>8, <2>1, <2>2, <1>0, StoreFits
         DEF ARRAY_QUEUE_ITER_REMOVE, RemoveEnd, RingSlot, LinearInv, LinearOffset
    <3>2. TypeOK'
      BY <1>8, <2>1, <2>2, <1>0, <3>1
         DEF ARRAY_QUEUE_ITER_REMOVE, RemoveEnd, TypeOK, RingSlot, LinearInv, LinearOffset
    <3>3. LinearInv'
      BY <1>8, <2>1, <2>2, <1>0, <3>1
         DEF ARRAY_QUEUE_ITER_REMOVE, RemoveEnd, RingSlot, LinearInv, LinearOffset, Wrap
    <3> QED
      BY <3>2, <3>3
  <2>3. CASE Inc(iter) # aq_back
    <3>1. TypeOK'
      BY <1>8, <2>3 DEF ARRAY_QUEUE_ITER_REMOVE, TypeOK
    <3>2. LinearInv'
      BY <1>8, <2>1, <2>3, <1>0
         DEF ARRAY_QUEUE_ITER_REMOVE, RingSlot, LinearInv, LinearOffset, Wrap
    <3> QED
      BY <3>1, <3>2
  <2> QED
    BY <2>2, <2>3
<1>9. CASE IterRemoveShift
  <2> DEFINE i_next == Inc(rm_i)
  <2>1. /\ rm_i # NULL /\ rm_i \in RingSlot /\ iter \in RingSlot
        /\ i_next = Wrap(rm_i + 1, aq_size) /\ i_next \in RingSlot
        /\ Inc(i_next) = Wrap(i_next + 1, aq_size)
    BY <1>9, IncWraps DEF IterRemoveShift, LoopEnds, Idle, LinearInv
  <2> HIDE DEF i_next
  <2>2. aq_item' \in [Slot -> Item]
    BY <1>9, <2>1, <1>0 DEF IterRemoveShift, LoopEnds, TypeOK, RingSlot, Slot, i_next
  <2>3. CASE Inc(i_next) # aq_back
    <3>1. rm_i' = i_next /\ UNCHANGED <<aq_back, aq_len, aq_size, aq_front, iter, data, ret>>
      BY <1>9, <2>3 DEF IterRemoveShift, LoopEnds, i_next
    <3>2. TypeOK'
      BY <2>1, <2>2, <1>0, <3>1 DEF TypeOK, RingSlot, Slot
    <3>3. LinearInv'
      BY <2>1, <2>3, <1>0, <3>1 DEF LinearInv, LinearOffset, RingSlot, Wrap
    <3> QED
      BY <3>2, <3>3
  <2>4. CASE Inc(i_next) = aq_back
    <3>1. /\ rm_i' = NULL /\ aq_back' = i_next /\ aq_len' = aq_len - 1
          /\ UNCHANGED <<aq_size, aq_front, iter, data, ret>>
      BY <1>9, <2>1, <2>4, <1>0, StoreFits
         DEF IterRemoveShift, LoopEnds, RemoveEnd, i_next, RingSlot, Idle, LinearInv, LinearOffset
    <3>2. TypeOK'
      BY <2>1, <2>2, <1>0, <3>1, <1>9
         DEF TypeOK, RingSlot, LinearInv, LinearOffset, IterRemoveShift, LoopEnds, Idle
    <3>3. LinearInv'
      BY <2>1, <2>4, <1>0, <3>1 DEF LinearInv, LinearOffset, RingSlot, Wrap
    <3> QED
      BY <3>2, <3>3
  <2> QED
    BY <2>3, <2>4
<1>10. CASE UNCHANGED vars
  BY <1>10 DEF vars, TypeOK, LinearInv, RingSlot, LinearOffset
<1> QED
  BY <1>1, <1>2, <1>3, <1>4, <1>5, <1>6, <1>7, <1>8, <1>9, <1>10 DEF Next

\* The invariant holds throughout.
LEMMA InvAlways == Spec => []Inv
BY InitInv, NextInv, PTL DEF Spec

\* For every buffer length and size_type: the fields keep their width, and
\* every index array_queue.h dereferences lies inside the caller's buffer.
THEOREM TypeCorrect == Spec => []TypeOK
<1>1. Inv => TypeOK
  BY DEF Inv
<1> QED
  BY <1>1, InvAlways, PTL

\* For every buffer length and size_type: front, back and length describe one
\* window of the ring, and live iterators stand on items of it, through every
\* wrap-around and every turn of the loop of ARRAY_QUEUE_ITER_REMOVE.
THEOREM RingSafe == Spec => []RingInv
<1>1. Inv => RingInv
  BY RingInvLinear DEF Inv
<1> QED
  BY <1>1, InvAlways, PTL

-----------------------------------------------------------------------------
(* The refinement.                                                         *)

\* How many items the queue holds.
Count == IF rm_i = NULL THEN aq_len ELSE aq_len - 1

\* The slot of its j-th item, without `%`.
SlotOf(j) ==
  IF rm_i = NULL \/ j - 1 < LinearOffset(rm_i) THEN Wrap(aq_front + (j - 1), aq_size)
                                               ELSE Wrap(aq_front + j, aq_size)

\* The cursor of the FIFO, as the refinement mapping gives it.
Cursor == IF iter = NULL THEN 0 ELSE Offset(iter) + 1

\* The j-th item is in a slot of the ring.
LEMMA SlotInRing ==
  ASSUME Inv, NEW j \in 1..Count
  PROVE  SlotOf(j) \in RingSlot /\ SlotOf(j) \in Slot
BY NullAssumption, BufLenAssumption, SizeModAssumption
   DEF Inv, TypeOK, LinearInv, Count, SlotOf, LinearOffset, Wrap, RingSlot, Slot

\* The abstract queue, in terms of Count and SlotOf.
ContentsShape ==
  /\ Contents = [j \in 1..Count |-> aq_item[SlotOf(j)]]
  /\ Count \in Nat
  /\ Contents \in Seq(Item)
  /\ Len(Contents) = Count

\* ContentsShape follows from the invariant of the ring.
LEMMA ContentsLinear == Inv => ContentsShape
<1> SUFFICES ASSUME Inv PROVE ContentsShape
  OBVIOUS
<1>1. Count \in Nat /\ Count <= aq_size
  BY NullAssumption, SizeModAssumption DEF Inv, TypeOK, LinearInv, Count, LinearOffset, RingSlot
<1>2. ASSUME NEW j \in 1..Count
      PROVE  (IF Idle \/ j - 1 < Offset(rm_i) THEN aq_item[Ring(j - 1)] ELSE aq_item[Ring(j)])
               = aq_item[SlotOf(j)]
  <2>1. aq_size # 0 /\ aq_front < aq_size /\ j - 1 \in 0..aq_size /\ j \in 0..aq_size
    BY <1>1, <1>2, SizeModAssumption DEF Inv, TypeOK, LinearInv
  <2>2. Ring(j - 1) = Wrap(aq_front + (j - 1), aq_size) /\ Ring(j) = Wrap(aq_front + j, aq_size)
    BY <2>1, RingLinear DEF Inv
  <2>3. rm_i # NULL => Offset(rm_i) = LinearOffset(rm_i)
    BY <2>1, OffsetLinear DEF Inv, LinearInv
  <2> QED
    BY <2>2, <2>3 DEF SlotOf, Idle
<1>3. Contents = [j \in 1..Count |-> aq_item[SlotOf(j)]]
  BY <1>2 DEF Contents, Count, Idle
<1>4. \A j \in 1..Count : aq_item[SlotOf(j)] \in Item
  BY SlotInRing DEF Inv, TypeOK
<1>5. Contents \in [1..Count -> Item]
  BY <1>3, <1>4
<1>6. Contents \in Seq(Item) /\ Len(Contents) = Count
  BY <1>1, <1>5
<1> QED
  BY <1>1, <1>3, <1>6 DEF ContentsShape

\* The abstract cursor without `%`.
CursorShape == Cursor = IF iter = NULL THEN 0 ELSE LinearOffset(iter) + 1

\* CursorShape follows from the invariant of the ring.
LEMMA CursorLinear == Inv => CursorShape
BY OffsetLinear DEF Inv, LinearInv, Cursor, CursorShape, TypeOK, RingSlot

-----------------------------------------------------------------------------
\* An initialised queue is an empty FIFO.
LEMMA InitRefines == Init => Fifo!Init
<1> SUFFICES ASSUME Init PROVE Fifo!Init
  OBVIOUS
<1>1. Inv
  BY InitInv
<1>2. Contents = <<>>
  <2>1. Contents \in Seq(Item) /\ Len(Contents) = 0
    BY <1>1, ContentsLinear DEF ContentsShape, Count, Init
  <2> QED
    BY <2>1, EmptySeq
<1> QED
  BY <1>1, <1>2 DEF Init, Fifo!Init, Fifo!Fresh, Inv, TypeOK

\* Every macro is one step of the FIFO.  ARRAY_QUEUE_ITER_REMOVE takes effect
\* when it starts, and the turns of its loop leave the queue as it is.
LEMMA StepRefines ==
  ASSUME Inv, Inv'
  PROVE  /\ \A siz \in 0..BufLen : ARRAY_QUEUE_INIT(siz) => Fifo!Reset
         /\ \A x \in Item, want \in BOOLEAN : ARRAY_QUEUE_ENQUEUE(x, want) => Fifo!Enqueue(x, want)
         /\ \A want \in BOOLEAN : ARRAY_QUEUE_DEQUEUE(want) => Fifo!Dequeue(want)
         /\ ARRAY_QUEUE_FRONT => Fifo!Front
         /\ ARRAY_QUEUE_ITER => Fifo!StartWalk
         /\ IterRead => Fifo!ReadAtCursor
         /\ ARRAY_QUEUE_ITER_NEXT => Fifo!Advance
         /\ ARRAY_QUEUE_ITER_REMOVE => Fifo!RemoveAtCursor
         /\ IterRemoveShift \/ UNCHANGED vars => UNCHANGED Fifo!fifoVars
<1>0. /\ aq_size \in Nat /\ aq_front \in Nat /\ aq_back \in Nat /\ aq_len \in Nat
      /\ aq_len <= aq_size /\ aq_size < SizeMod /\ aq_size <= BufLen
      /\ NULL \notin Int /\ BufLen \in Nat /\ SizeMod \in Nat
  BY SizeModAssumption, BufLenAssumption, NullAssumption DEF Inv, TypeOK, LinearInv
<1>1. ContentsShape /\ ContentsShape'
  BY ContentsLinear, PTL
<1>2. CursorShape /\ CursorShape'
  BY CursorLinear, PTL
<1>3. /\ Fifo!fifoVars = <<aq_size, Contents, Cursor, data, ret>>
      /\ Fifo!fifoVars' = <<aq_size', Contents', Cursor', data', ret'>>
  BY DEF Fifo!fifoVars, Cursor
<1>4. ASSUME aq_item' = aq_item, aq_front' = aq_front, aq_len' = aq_len, aq_size' = aq_size,
             rm_i' = rm_i
      PROVE  Contents' = Contents
  BY <1>4 DEF Contents, Idle, Offset, Ring
<1>5. Contents = <<>> <=> Count = 0
  BY <1>1, EmptySeq DEF ContentsShape
<1>6. ASSUME NEW siz \in 0..BufLen, ARRAY_QUEUE_INIT(siz) PROVE Fifo!Reset
  <2>1. Contents' = <<>>
    BY <1>1, <1>6, <1>0, EmptySeq DEF ContentsShape, Count, ARRAY_QUEUE_INIT, Idle
  <2> QED
    BY <2>1, <1>6 DEF ARRAY_QUEUE_INIT, Fifo!Reset, Fifo!Fresh, Inv, TypeOK
<1>7. ASSUME NEW x \in Item, NEW want \in BOOLEAN, ARRAY_QUEUE_ENQUEUE(x, want)
      PROVE  Fifo!Enqueue(x, want)
  <2>0. Count = aq_len /\ rm_i = NULL /\ Cursor' = Cursor
    BY <1>7 DEF ARRAY_QUEUE_ENQUEUE, Idle, Count, Cursor, Offset
  <2>1. CASE ARRAY_QUEUE_IS_FULL
    <3>1. Contents' = Contents
      BY <1>7, <1>4, <2>1 DEF ARRAY_QUEUE_ENQUEUE
    <3> QED
      BY <1>7, <1>1, <2>0, <2>1, <3>1
         DEF ARRAY_QUEUE_ENQUEUE, ARRAY_QUEUE_IS_FULL, ContentsShape, Fifo!Enqueue, Fifo!Report,
             Report, Cursor
  <2>2. CASE ~ARRAY_QUEUE_IS_FULL
    <3>1. /\ aq_len < aq_size /\ aq_back = Wrap(aq_front + aq_len, aq_size) /\ aq_back \in Slot
          /\ aq_front < aq_size
      BY <2>2, <1>0 DEF ARRAY_QUEUE_IS_FULL, Inv, LinearInv, Wrap, TypeOK, Slot
    <3>2. Store(aq_len + 1) = aq_len + 1
      BY <3>1, <1>0, StoreFits
    <3>3. /\ aq_item' = [aq_item EXCEPT ![aq_back] = x] /\ aq_len' = aq_len + 1
          /\ UNCHANGED <<aq_size, aq_front, iter, rm_i, data>>
      BY <1>7, <2>2, <3>2 DEF ARRAY_QUEUE_ENQUEUE
    <3>4. Count' = Count + 1
      BY <3>3, <2>0 DEF Count
    <3>5. \A j \in 1..(Count + 1) : Contents'[j] = Append(Contents, x)[j]
      <4>1. ASSUME NEW j \in 1..Count
            PROVE  Contents'[j] = Contents[j]
        <5>1. SlotOf(j)' = SlotOf(j) /\ SlotOf(j) # aq_back
          BY <2>0, <3>1, <3>3, <1>0 DEF SlotOf, Wrap
        <5> QED
          BY <5>1, <3>3, <3>4, <1>1, SlotInRing DEF ContentsShape, Inv, TypeOK
      <4>2. ASSUME NEW j \in Nat, j = Count + 1 PROVE Contents'[j] = x
        <5>1. SlotOf(j)' = aq_back
          BY <4>2, <2>0, <3>1, <3>3, <1>0 DEF SlotOf, Wrap
        <5> QED
          BY <4>2, <5>1, <3>1, <3>3, <3>4, <1>1 DEF ContentsShape, Inv, TypeOK
      <4> QED
        BY <4>1, <4>2, <1>1, AppendProperties DEF ContentsShape
    <3>6. Contents' = Append(Contents, x)
      BY <3>4, <3>5, <1>1, AppendProperties, SeqEqual DEF ContentsShape
    <3> QED
      BY <1>7, <1>1, <2>0, <2>2, <3>1, <3>6
         DEF ARRAY_QUEUE_ENQUEUE, ARRAY_QUEUE_IS_FULL, ContentsShape, Fifo!Enqueue, Fifo!Report,
             Report, Cursor
  <2> QED
    BY <2>1, <2>2
<1>8. ASSUME NEW want \in BOOLEAN, ARRAY_QUEUE_DEQUEUE(want) PROVE Fifo!Dequeue(want)
  <2>0. Count = aq_len /\ rm_i = NULL /\ rm_i' = NULL
    BY <1>8 DEF ARRAY_QUEUE_DEQUEUE, Idle, Count
  <2>1. CASE ARRAY_QUEUE_IS_EMPTY
    <3>1. Contents' = Contents /\ Contents = <<>> /\ Cursor' = Cursor
      BY <1>8, <1>4, <1>5, <2>0, <2>1
         DEF ARRAY_QUEUE_DEQUEUE, ARRAY_QUEUE_IS_EMPTY, Cursor, Offset
    <3> QED
      BY <1>8, <2>1, <3>1 DEF ARRAY_QUEUE_DEQUEUE, Fifo!Dequeue, Fifo!Report, Report, Cursor
  <2>2. CASE ~ARRAY_QUEUE_IS_EMPTY
    <3>1. /\ aq_len > 0 /\ aq_front \in RingSlot /\ aq_front < aq_size
      BY <2>2, <1>0 DEF ARRAY_QUEUE_IS_EMPTY, Inv, LinearInv, RingSlot
    <3>2. /\ Store(aq_len - 1) = aq_len - 1
          /\ Store(Inc(aq_front)) = Wrap(aq_front + 1, aq_size)
      BY <3>1, <1>0, IncWraps, StoreFits DEF Inv, RingSlot
    <3>3. /\ aq_front' = Wrap(aq_front + 1, aq_size) /\ aq_len' = aq_len - 1
          /\ data' = aq_item[aq_front]
          /\ iter' = IF iter = aq_front THEN NULL ELSE iter
          /\ UNCHANGED <<aq_item, aq_size>>
      BY <1>8, <2>2, <3>2 DEF ARRAY_QUEUE_DEQUEUE
    <3>4. Contents # <<>> /\ Count' = Count - 1
      BY <1>5, <2>0, <3>1, <3>3, <1>0 DEF Count
    <3>5. Head(Contents) = aq_item[aq_front]
      <4>1. SlotOf(1) = aq_front
        BY <2>0, <3>1, <1>0 DEF SlotOf, Wrap
      <4> QED
        BY <4>1, <3>1, <2>0, <1>1, <1>0 DEF ContentsShape
    <3>6. ASSUME NEW j \in 1..Count' PROVE Contents'[j] = Tail(Contents)[j]
      <4>1. SlotOf(j)' = SlotOf(j + 1)
        BY <2>0, <3>1, <3>3, <3>4, <1>0 DEF SlotOf, Wrap
      <4>2. Contents'[j] = Contents[j + 1]
        BY <4>1, <3>3, <3>4, <1>1 DEF ContentsShape
      <4> QED
        BY <4>2, <3>4, <1>1, HeadTailProperties DEF ContentsShape
    <3>7. Contents' = Tail(Contents)
      BY <3>4, <3>6, <1>1, HeadTailProperties, SeqEqual DEF ContentsShape
    <3>8. Cursor' = IF Cursor = 0 THEN 0 ELSE Cursor - 1
      BY <1>0, <1>2, <3>1, <3>3 DEF CursorShape, LinearOffset, Wrap, Inv, LinearInv, RingSlot
    <3> QED
      BY <1>8, <2>2, <3>3, <3>4, <3>5, <3>7, <3>8
         DEF ARRAY_QUEUE_DEQUEUE, Fifo!Dequeue, Fifo!Report, Report, Cursor
  <2> QED
    BY <2>1, <2>2
<1>9. ASSUME ARRAY_QUEUE_FRONT PROVE Fifo!Front
  <2>1. Contents' = Contents /\ Cursor' = Cursor
    BY <1>9, <1>4 DEF ARRAY_QUEUE_FRONT, queueFields, Cursor, Offset
  <2>2. Count = aq_len /\ aq_len > 0 /\ SlotOf(1) = aq_front
    BY <1>9, <1>0
       DEF ARRAY_QUEUE_FRONT, ARRAY_QUEUE_IS_EMPTY, Idle, Count, SlotOf, Wrap, Inv, LinearInv
  <2>3. Contents # <<>> /\ Head(Contents) = aq_item[aq_front]
    BY <2>2, <1>1, <1>5, <1>0 DEF ContentsShape
  <2> QED
    BY <1>9, <2>1, <2>3 DEF ARRAY_QUEUE_FRONT, queueFields, Fifo!Front, Cursor
<1>10. ASSUME ARRAY_QUEUE_ITER PROVE Fifo!StartWalk
  <2>1. Contents' = Contents
    BY <1>10, <1>4 DEF ARRAY_QUEUE_ITER, queueFields
  <2>2. Contents = <<>> <=> aq_len = 0
    BY <1>10, <1>5 DEF ARRAY_QUEUE_ITER, Idle, Count
  <2>3. Cursor' = IF aq_len = 0 THEN 0 ELSE 1
    BY <1>10, <1>0, <1>2
       DEF ARRAY_QUEUE_ITER, ARRAY_QUEUE_IS_EMPTY, queueFields, CursorShape, LinearOffset
  <2> QED
    BY <1>10, <2>1, <2>2, <2>3 DEF ARRAY_QUEUE_ITER, queueFields, Fifo!StartWalk, Cursor
<1>11. ASSUME IterRead PROVE Fifo!ReadAtCursor
  <2>1. Contents' = Contents /\ Cursor' = Cursor
    BY <1>11, <1>4 DEF IterRead, queueFields, Cursor, Offset
  <2>2. /\ rm_i = NULL /\ Count = aq_len /\ iter \in RingSlot
        /\ Cursor = LinearOffset(iter) + 1 /\ LinearOffset(iter) < aq_len
    BY <1>11, <1>2 DEF IterRead, Idle, Count, CursorShape, Inv, LinearInv
  <2>3. Cursor \in 1..Count /\ SlotOf(Cursor) = iter
    BY <2>2, <1>0 DEF SlotOf, Wrap, LinearOffset, RingSlot, Inv, LinearInv
  <2>4. Contents[Cursor] = aq_item[iter]
    BY <2>3, <1>1 DEF ContentsShape
  <2>5. Cursor # 0
    BY <2>3, <1>1 DEF ContentsShape
  <2> QED
    BY <1>11, <2>1, <2>4, <2>5 DEF IterRead, queueFields, Fifo!ReadAtCursor, Cursor
<1>12. ASSUME ARRAY_QUEUE_ITER_NEXT PROVE Fifo!Advance
  <2>1. Contents' = Contents
    BY <1>12, <1>4 DEF ARRAY_QUEUE_ITER_NEXT, AfterIter, queueFields
  <2>2. /\ Count = aq_len /\ iter \in RingSlot /\ Inc(iter) = Wrap(iter + 1, aq_size)
        /\ Cursor = LinearOffset(iter) + 1 /\ LinearOffset(iter) < aq_len
    BY <1>12, <1>2, IncWraps DEF ARRAY_QUEUE_ITER_NEXT, AfterIter, Idle, Count, CursorShape, Inv, LinearInv
  <2>3. Cursor # 0 /\ Cursor' = IF Cursor = Count THEN 0 ELSE Cursor + 1
    BY <1>12, <1>0, <1>2, <2>2
       DEF ARRAY_QUEUE_ITER_NEXT, AfterIter, queueFields, CursorShape, LinearOffset, Wrap, RingSlot, Inv, LinearInv
  <2> QED
    BY <1>12, <1>1, <2>1, <2>3
       DEF ARRAY_QUEUE_ITER_NEXT, AfterIter, queueFields, ContentsShape, Fifo!Advance, Cursor
<1>13. ASSUME ARRAY_QUEUE_ITER_REMOVE PROVE Fifo!RemoveAtCursor
  <2>1. /\ rm_i = NULL /\ Count = aq_len /\ iter \in RingSlot
        /\ Inc(iter) = Wrap(iter + 1, aq_size)
        /\ Cursor = LinearOffset(iter) + 1 /\ LinearOffset(iter) < aq_len
        /\ aq_front < aq_size
    BY <1>13, <1>2, <1>0, IncWraps
       DEF ARRAY_QUEUE_ITER_REMOVE, Idle, Count, CursorShape, Inv, LinearInv, RingSlot
  <2>2. Cursor \in Nat \ {0} /\ aq_len > 0
    BY <2>1, <1>0 DEF LinearOffset, RingSlot
  <2>3. UNCHANGED <<aq_item, aq_size, aq_front, data, ret>>
    BY <1>13 DEF ARRAY_QUEUE_ITER_REMOVE
  <2>4. CASE Inc(iter) = aq_back
    <3>1. Store(aq_len - 1) = aq_len - 1
      BY <2>2, <1>0, StoreFits
    <3>2. aq_len' = aq_len - 1 /\ rm_i' = NULL /\ iter' = NULL
      BY <1>13, <2>4, <3>1 DEF ARRAY_QUEUE_ITER_REMOVE, RemoveEnd
    <3>3. Cursor = Count /\ Cursor' = 0 /\ Count' = Count - 1
      BY <2>1, <2>4, <3>2, <1>0 DEF LinearOffset, Wrap, RingSlot, Inv, LinearInv, Cursor, Count
    <3>4. ASSUME NEW j \in 1..(Count - 1)
          PROVE  Contents'[j] = Contents[j] /\ j < Cursor
      <4>1. SlotOf(j)' = SlotOf(j)
        BY <2>1, <2>3, <3>2 DEF SlotOf
      <4> QED
        BY <4>1, <2>1, <2>3, <3>3, <1>0, <1>1 DEF ContentsShape
    <3>5. Contents' = [j \in 1..(Len(Contents) - 1) |->
                         IF j < Cursor THEN Contents[j] ELSE Contents[j + 1]]
      BY <3>3, <3>4, <1>1 DEF ContentsShape
    <3> QED
      BY <1>1, <2>2, <2>3, <3>3, <3>5 DEF Fifo!RemoveAtCursor, Cursor, ContentsShape
  <2>5. CASE Inc(iter) # aq_back
    <3>1. aq_len' = aq_len /\ rm_i' = iter /\ iter' = iter
      BY <1>13, <2>5 DEF ARRAY_QUEUE_ITER_REMOVE
    <3>2. Cursor # Count /\ Cursor' = Cursor /\ Count' = Count - 1
      <4>1. Cursor # Count
        BY <2>1, <2>5, <1>0 DEF LinearOffset, Wrap, RingSlot, Inv, LinearInv
      <4> QED
        BY <4>1, <2>1, <2>3, <3>1, <1>0 DEF Cursor, Offset, Count, RingSlot
    <3>3. ASSUME NEW j \in 1..(Count - 1)
          PROVE  Contents'[j] = IF j < Cursor THEN Contents[j] ELSE Contents[j + 1]
      <4>1. SlotOf(j)' = IF j < Cursor THEN SlotOf(j) ELSE SlotOf(j + 1)
        BY <2>1, <2>3, <3>1, <1>0 DEF SlotOf, LinearOffset, RingSlot
      <4> QED
        BY <4>1, <2>1, <2>3, <3>2, <1>0, <1>1 DEF ContentsShape
    <3>4. Contents' = [j \in 1..(Len(Contents) - 1) |->
                         IF j < Cursor THEN Contents[j] ELSE Contents[j + 1]]
      BY <3>2, <3>3, <1>1 DEF ContentsShape
    <3> QED
      BY <1>1, <2>2, <2>3, <3>2, <3>4 DEF Fifo!RemoveAtCursor, Cursor, ContentsShape
  <2> QED
    BY <2>4, <2>5
<1>14. ASSUME IterRemoveShift PROVE UNCHANGED Fifo!fifoVars
  <2> DEFINE i_next == Inc(rm_i)
  <2>1. /\ rm_i # NULL /\ rm_i \in RingSlot /\ Count = aq_len - 1
        /\ LinearOffset(rm_i) + 1 < aq_len /\ aq_front < aq_size
        /\ i_next = Wrap(rm_i + 1, aq_size) /\ i_next \in RingSlot
        /\ Inc(i_next) = Wrap(i_next + 1, aq_size)
    BY <1>14, <1>0, IncWraps DEF IterRemoveShift, Idle, Count, Inv, LinearInv, RingSlot
  <2>2. /\ aq_item' = [aq_item EXCEPT ![rm_i] = aq_item[i_next]]
        /\ UNCHANGED <<aq_size, aq_front, iter, data, ret>>
    BY <1>14 DEF IterRemoveShift
  <2>3. LinearOffset(i_next) = LinearOffset(rm_i) + 1
    BY <2>1, <1>0 DEF LinearOffset, Wrap, RingSlot
  <2>4. /\ Count' = Count
        /\ \/ rm_i' = i_next
           \/ rm_i' = NULL /\ LinearOffset(rm_i) + 2 = aq_len
    <3>1. CASE LoopEnds(i_next)
      <4>1. Store(aq_len - 1) = aq_len - 1
        BY <2>1, <1>0, StoreFits DEF LinearOffset, RingSlot
      <4>2. aq_len' = aq_len - 1 /\ rm_i' = NULL
        BY <1>14, <3>1, <4>1 DEF IterRemoveShift, RemoveEnd
      <4>3. LinearOffset(rm_i) + 2 = aq_len
        BY <2>1, <2>3, <3>1, <1>0 DEF LoopEnds, LinearOffset, Wrap, RingSlot, Inv, LinearInv
      <4> QED
        BY <4>2, <4>3, <2>1 DEF Count
    <3>2. CASE ~LoopEnds(i_next)
      <4>1. rm_i' = i_next /\ aq_len' = aq_len
        BY <1>14, <3>2 DEF IterRemoveShift
      <4> QED
        BY <4>1, <2>1, <1>0 DEF Count, RingSlot
    <3> QED
      BY <3>1, <3>2
  <2> HIDE DEF i_next
  <2>5. ASSUME NEW j \in 1..Count PROVE Contents'[j] = Contents[j]
    <3>1. \/ SlotOf(j)' = SlotOf(j) /\ SlotOf(j) # rm_i
          \/ SlotOf(j)' = rm_i /\ SlotOf(j) = i_next
      <4>0. j \in Int /\ 1 <= j /\ j <= aq_len - 1 /\ rm_i \in Int /\ i_next \in Int
        BY <2>1, <1>0 DEF RingSlot
      <4>1. CASE rm_i' = i_next
        <5>1. rm_i' # NULL /\ LinearOffset(rm_i)' = LinearOffset(rm_i) + 1
          BY <4>0, <4>1, <2>2, <2>3, <1>0 DEF LinearOffset
        <5>2. LinearOffset(rm_i) \in Int
          BY <4>0, <1>0 DEF LinearOffset
        <5>3. CASE j - 1 = LinearOffset(rm_i)
          <6>1. SlotOf(j)' = Wrap(aq_front + (j - 1), aq_size)
            BY <5>1, <5>2, <5>3, <4>0, <2>2 DEF SlotOf, Wrap
          <6>2. SlotOf(j) = Wrap(aq_front + j, aq_size)
            BY <5>2, <5>3, <4>0, <2>1 DEF SlotOf
          <6> QED
            BY <6>1, <6>2, <5>3, <4>0, <2>1, <1>0 DEF Wrap, LinearOffset, RingSlot
        <5>4. CASE j - 1 # LinearOffset(rm_i)
          <6>1. SlotOf(j)' = SlotOf(j)
            BY <5>1, <5>2, <5>4, <4>0, <2>1, <2>2 DEF SlotOf, Wrap
          <6> QED
            BY <6>1, <5>4, <4>0, <2>1, <1>0 DEF SlotOf, Wrap, LinearOffset, RingSlot
        <5> QED
          BY <5>3, <5>4
      <4>2. CASE rm_i' = NULL /\ LinearOffset(rm_i) + 2 = aq_len
        BY <4>0, <4>2, <2>1, <2>2, <1>0 DEF SlotOf, Wrap, LinearOffset, RingSlot
      <4> QED
        BY <4>1, <4>2, <2>4
    <3>2. rm_i \in Slot /\ aq_item \in [Slot -> Item]
      BY <2>1 DEF Inv, TypeOK
    <3> QED
      BY <3>1, <3>2, <2>2, <2>4, <1>1, SlotInRing DEF ContentsShape
  <2>6. Contents' = Contents
    BY <2>4, <2>5, <1>1, SeqEqual DEF ContentsShape
  <2>7. Cursor' = Cursor
    BY <2>2 DEF Cursor, Offset
  <2> QED
    BY <2>2, <2>6, <2>7, <1>3
<1>15. ASSUME UNCHANGED vars PROVE UNCHANGED Fifo!fifoVars
  BY <1>15, <1>3, <1>4 DEF vars, Cursor, Offset
<1> QED
  BY <1>6, <1>7, <1>8, <1>9, <1>10, <1>11, <1>12, <1>13, <1>14, <1>15

\* So every step is a step of the FIFO, or none.
LEMMA NextRefines == Inv /\ Inv' /\ [Next]_vars => [Fifo!Next]_Fifo!fifoVars
<1> SUFFICES ASSUME Inv, Inv', [Next]_vars PROVE [Fifo!Next]_Fifo!fifoVars
  OBVIOUS
<1> QED
  BY StepRefines DEF Next, Fifo!Next

\* For every item type, buffer length and size_type, the macros of
\* array_queue.h behave like the bounded FIFO with a cursor: through every
\* wrap-around, and in the middle of a removal, nothing is lost, duplicated or
\* reordered, and a walk visits what is queued.
THEOREM Refinement == Spec => ImplementsFifo
BY InitRefines, NextRefines, InvAlways, PTL DEF Spec, ImplementsFifo, Fifo!Spec

-----------------------------------------------------------------------------
(* The second iterator.                                                    *)

\* The slot of the p-th queued item; for p = 0 the slot before the front.
Place(p) ==
  IF p = 0 THEN (IF aq_front = 0 THEN aq_size - 1 ELSE aq_front - 1)
  ELSE Wrap(aq_front + (p - 1), aq_size)

\* Number of items of the abstract queue that held has passed.
Behind == Count - Len(owed)

\* held stands at a place of the ring, and owed is the rest of the abstract
\* queue behind that place.  An iterator before the front needs a free slot:
\* in a full ring ARRAY_QUEUE_ITER_NEXT would stop there.
HeldInv ==
  /\ held = NULL <=> owed = NULL
  /\ held # NULL => /\ aq_size # 0
                    /\ owed \in Seq(Item)
                    /\ Behind \in 0..Count
                    /\ held = Place(Behind)
                    /\ Behind = 0 => Count < aq_size
                    /\ \A j \in 1..Len(owed) : owed[j] = Contents[Behind + j]

\* What Drop leaves.
LEMMA DropProperties ==
  ASSUME NEW s \in Seq(Item), NEW k \in 1..Len(s)
  PROVE  /\ Drop(s, k) \in Seq(Item)
         /\ Len(Drop(s, k)) = Len(s) - 1
         /\ \A j \in 1..(Len(s) - 1) : Drop(s, k)[j] = IF j < k THEN s[j] ELSE s[j + 1]
<1> DEFINE n == Len(s)
           a == SubSeq(s, 1, k - 1)
           b == SubSeq(s, k + 1, n)
<1>0. n \in Nat /\ s \in [1..n -> Item] /\ k \in Nat /\ 1 <= k /\ k <= n
  BY LenProperties
<1>1. a \in Seq(Item) /\ Len(a) = k - 1 /\ \A i \in 1..(k - 1) : a[i] = s[i]
  BY <1>0, SubSeqProperties
<1>2. b \in Seq(Item) /\ Len(b) = n - k /\ \A i \in 1..(n - k) : b[i] = s[k + i]
  <2>1. \A i \in (k + 1)..n : s[i] \in Item
    BY <1>0
  <2>2. /\ b \in Seq(Item)
        /\ Len(b) = IF k + 1 <= n THEN n - (k + 1) + 1 ELSE 0
        /\ \A i \in 1..(n - (k + 1) + 1) : b[i] = s[(k + 1) + i - 1]
    BY <2>1, <1>0, SubSeqProperties
  <2>3. n - (k + 1) + 1 = n - k /\ \A i \in 1..(n - k) : (k + 1) + i - 1 = k + i
    BY <1>0
  <2> HIDE DEF b, n
  <2> QED
    BY <2>2, <2>3, <1>0
<1>3. Drop(s, k) = a \o b
  BY DEF Drop
<1> HIDE DEF a, b, n
<1>4. /\ a \o b \in Seq(Item) /\ Len(a \o b) = Len(a) + Len(b)
      /\ \A i \in 1..(Len(a) + Len(b)) :
           (a \o b)[i] = IF i <= Len(a) THEN a[i] ELSE b[i - Len(a)]
  BY <1>1, <1>2, ConcatProperties
<1>5. Len(a) + Len(b) = n - 1
  BY <1>0, <1>1, <1>2
<1>6. ASSUME NEW j \in 1..(n - 1)
      PROVE  (a \o b)[j] = IF j < k THEN s[j] ELSE s[j + 1]
  <2>0. (a \o b)[j] = IF j <= k - 1 THEN a[j] ELSE b[j - (k - 1)]
    BY <1>1, <1>4, <1>5
  <2>1. CASE j < k
    BY <2>0, <2>1, <1>0, <1>1
  <2>2. CASE ~(j < k)
    <3>1. j - (k - 1) \in 1..(n - k) /\ k + (j - (k - 1)) = j + 1 /\ ~(j <= k - 1)
      BY <2>2, <1>0
    <3> QED
      BY <2>0, <3>1, <2>2, <1>2
  <2> QED
    BY <2>1, <2>2
<1> QED
  BY <1>3, <1>4, <1>5, <1>6 DEF n

\* With the second iterator the macros still do what they do without it.
LEMMA HeldStepIsNext == HeldStep => Next \/ UNCHANGED vars
BY DEF HeldStep, HeldEnqueue, HeldDequeue, HeldRemove, Hold, HeldNext, Next

\* So HeldSpec is a Spec with a history, and its queue still a FIFO.
LEMMA HeldIsSpec == HeldSpec => Spec
<1>1. HeldInit => Init
  BY DEF HeldInit
<1>2. [HeldStep]_<<vars, iterVars>> => [Next]_vars
  BY HeldStepIsNext DEF vars
<1> QED
  BY <1>1, <1>2, PTL DEF HeldSpec, Spec

\* The numbers of the ring, and what its abstract queue looks like.
RingNumbers ==
  /\ aq_size \in Nat /\ aq_front \in Nat /\ aq_len \in Nat /\ aq_back \in Nat
  /\ aq_len <= aq_size /\ aq_size <= BufLen /\ BufLen \in Nat
  /\ Count \in Nat /\ Count <= aq_size /\ NULL \notin Int
  /\ aq_size # 0 => aq_front < aq_size /\ aq_back = Wrap(aq_front + aq_len, aq_size)
  /\ Contents \in Seq(Item) /\ Len(Contents) = Count
  /\ Fifo!fifoVars = <<aq_size, Contents, Cursor, data, ret>>

\* They follow from the invariant of the ring.
LEMMA RingFacts == Inv => RingNumbers
<1> SUFFICES ASSUME Inv PROVE RingNumbers
  OBVIOUS
<1>1. ContentsShape
  BY ContentsLinear
<1>2. Count <= aq_size
  BY NullAssumption, SizeModAssumption DEF Inv, TypeOK, LinearInv, Count, LinearOffset, RingSlot
<1> QED
  BY <1>1, <1>2, NullAssumption, SizeModAssumption, BufLenAssumption
     DEF Inv, TypeOK, LinearInv, ContentsShape, Fifo!fifoVars, Cursor, RingNumbers

\* ARRAY_QUEUE_ITER_NEXT goes from place p to the slot of item p + 1.
LEMMA PlaceNext ==
  ASSUME Inv, aq_size # 0, NEW p \in Nat, p <= aq_size
  PROVE  /\ Place(p) \in RingSlot
         /\ Inc(Place(p)) = Wrap(aq_front + p, aq_size)
<1>1. aq_size \in Nat /\ aq_front \in Nat /\ aq_front < aq_size
  BY RingFacts DEF RingNumbers
<1>2. Place(p) \in RingSlot /\ Wrap(Place(p) + 1, aq_size) = Wrap(aq_front + p, aq_size)
  BY <1>1 DEF Place, Wrap, RingSlot
<1> QED
  BY <1>2, IncWraps DEF Inv

\* HeldInv survives what moves neither the abstract queue nor its front.
LEMMA HeldInvUnchanged ==
  ASSUME HeldInv, held' = held, owed' = owed, Contents' = Contents, Count' = Count,
         aq_front' = aq_front, aq_size' = aq_size
  PROVE  HeldInv'
BY DEF HeldInv, Behind, Place, Wrap

\* Giving the iterator up is always fine.
LEMMA HeldInvGiveUp == GiveUp => HeldInv'
BY DEF GiveUp, HeldInv

\* No iterator yet.
LEMMA HeldInvInit == HeldInit => HeldInv
BY DEF HeldInit, HeldInv

\* Every macro, and every step of the client with its second iterator,
\* preserves HeldInv.
LEMMA HeldInvNext ==
  Inv /\ Inv' /\ HeldInv /\ [HeldStep]_<<vars, iterVars>> => HeldInv'
<1> SUFFICES ASSUME Inv, Inv', HeldInv, [HeldStep]_<<vars, iterVars>> PROVE HeldInv'
  OBVIOUS
<1>1. /\ aq_size \in Nat /\ aq_front \in Nat /\ aq_len \in Nat /\ aq_back \in Nat
      /\ aq_len <= aq_size /\ Count \in Nat /\ Count <= aq_size /\ NULL \notin Int
      /\ aq_size # 0 => aq_front < aq_size /\ aq_back = Wrap(aq_front + aq_len, aq_size)
      /\ Contents \in Seq(Item) /\ Len(Contents) = Count
      /\ Fifo!fifoVars = <<aq_size, Contents, Cursor, data, ret>>
  BY RingFacts DEF RingNumbers
<1>2. /\ aq_size' \in Nat /\ aq_front' \in Nat /\ aq_len' \in Nat /\ Count' \in Nat
      /\ Count' <= aq_size' /\ (aq_size' # 0 => aq_front' < aq_size')
      /\ Contents' \in Seq(Item) /\ Len(Contents') = Count'
      /\ Fifo!fifoVars' = <<aq_size', Contents', Cursor', data', ret'>>
  <2>1. RingNumbers'
    BY RingFacts, PTL
  <2> QED
    BY <2>1 DEF RingNumbers
<1>3. held # NULL => /\ Len(owed) \in Nat /\ Behind \in Nat /\ Behind + Len(owed) = Count
                     /\ owed \in Seq(Item) /\ aq_size # 0 /\ aq_front < aq_size
  <2> SUFFICES ASSUME held # NULL PROVE /\ Len(owed) \in Nat /\ Behind \in Nat
                                        /\ Behind + Len(owed) = Count
                                        /\ owed \in Seq(Item) /\ aq_size # 0
    BY <1>1
  <2>1. owed \in Seq(Item) /\ Behind \in 0..Count /\ aq_size # 0
    BY DEF HeldInv
  <2>2. Len(owed) \in Nat
    BY <2>1, LenProperties
  <2> QED
    BY <2>1, <2>2, <1>1 DEF Behind
<1>4. ASSUME NEW siz \in 0..BufLen, ARRAY_QUEUE_INIT(siz), GiveUp PROVE HeldInv'
  BY <1>4, HeldInvGiveUp
<1>5. ASSUME NEW x \in Item, NEW want \in BOOLEAN, HeldEnqueue(x, want) PROVE HeldInv'
  <2>1. ARRAY_QUEUE_ENQUEUE(x, want) /\ Fifo!Enqueue(x, want)
    BY <1>5, StepRefines DEF HeldEnqueue
  <2>2. /\ aq_size' = aq_size /\ aq_front' = aq_front /\ rm_i = NULL /\ rm_i' = NULL
        /\ Count = aq_len
    BY <2>1 DEF ARRAY_QUEUE_ENQUEUE, Idle, Count
  <2>3. CASE ARRAY_QUEUE_IS_FULL
    <3>1. Contents' = Contents
      BY <2>1, <2>2, <2>3, <1>1 DEF ARRAY_QUEUE_IS_FULL, Fifo!Enqueue
    <3>2. Count' = Count
      BY <2>1, <2>2, <2>3 DEF ARRAY_QUEUE_ENQUEUE, Count
    <3>3. held' = held /\ owed' = owed
      BY <1>5, <2>3 DEF HeldEnqueue, iterVars
    <3> QED
      BY <3>1, <3>2, <3>3, <2>2, HeldInvUnchanged
  <2>4. CASE ~ARRAY_QUEUE_IS_FULL /\ held = NULL
    BY <2>4, <1>5 DEF HeldEnqueue, iterVars, HeldInv
  <2>5. CASE ~ARRAY_QUEUE_IS_FULL /\ held # NULL /\ Passed = 0 /\ aq_len + 1 = aq_size
    BY <2>5, <1>5, HeldInvGiveUp DEF HeldEnqueue
  <2>6. CASE ~ARRAY_QUEUE_IS_FULL /\ held # NULL /\ ~(Passed = 0 /\ aq_len + 1 = aq_size)
    <3>1. held' = held /\ owed' = Append(owed, x)
      BY <2>6, <1>5 DEF HeldEnqueue
    <3>2. Contents' = Append(Contents, x)
      BY <2>1, <2>2, <2>6, <1>1 DEF ARRAY_QUEUE_IS_FULL, Fifo!Enqueue
    <3>3. /\ owed' \in Seq(Item) /\ Len(owed') = Len(owed) + 1
          /\ \A j \in 1..Len(owed) : owed'[j] = owed[j]
          /\ owed'[Len(owed) + 1] = x
      BY <3>1, <2>6, <1>3, AppendProperties
    <3>4. /\ Count' = Count + 1
          /\ \A j \in 1..Count : Contents'[j] = Contents[j]
          /\ Contents'[Count + 1] = x
      BY <3>2, <1>1, <1>2, AppendProperties
    <3>5. Behind' = Behind /\ Behind = Passed
      BY <3>3, <3>4, <2>2, <2>6, <1>1, <1>3 DEF Behind, Passed
    <3>6. Behind' = 0 => Count' < aq_size'
      BY <3>4, <3>5, <2>2, <2>6, <1>1, <1>2 DEF ARRAY_QUEUE_IS_FULL
    <3>7. held' = Place(Behind)'
      BY <3>1, <3>5, <2>2, <2>6 DEF HeldInv, Place, Wrap
    <3>8. ASSUME NEW j \in 1..Len(owed') PROVE owed'[j] = Contents'[Behind' + j]
      <4>0. j \in Nat /\ 1 <= j /\ j <= Len(owed) + 1
        BY <3>3, <2>6, <1>3
      <4>1. CASE j = Len(owed) + 1
        BY <4>1, <3>3, <3>4, <3>5, <2>6, <1>3
      <4>2. CASE j # Len(owed) + 1
        <5>1. owed[j] = Contents[Behind + j] /\ Behind + j \in 1..Count /\ j \in 1..Len(owed)
          BY <4>0, <4>2, <2>6, <1>1, <1>3, SMTT(30) DEF HeldInv
        <5> QED
          BY <5>1, <3>3, <3>4, <3>5
      <4> QED
        BY <4>1, <4>2
    <3>9. held' # NULL /\ owed' # NULL /\ aq_size' # 0 /\ Behind' \in 0..Count'
      <4>1. Behind \in Nat /\ Behind <= Count
        BY <2>6, <1>1, <1>3
      <4>2. Behind' \in 0..Count'
        BY <4>1, <3>4, <3>5, <1>1
      <4> QED
        BY <4>2, <3>1, <3>3, <2>2, <2>6, <1>3, OwedAssumption
    <3> QED
      BY <3>3, <3>6, <3>7, <3>8, <3>9 DEF HeldInv
  <2> QED
    BY <2>3, <2>4, <2>5, <2>6
<1>6. ASSUME NEW want \in BOOLEAN, HeldDequeue(want) PROVE HeldInv'
  <2>1. ARRAY_QUEUE_DEQUEUE(want) /\ Fifo!Dequeue(want)
    BY <1>6, StepRefines DEF HeldDequeue
  <2>2. /\ aq_size' = aq_size /\ rm_i = NULL /\ rm_i' = NULL /\ Count = aq_len /\ Count' = aq_len'
    BY <2>1 DEF ARRAY_QUEUE_DEQUEUE, Idle, Count
  <2>3. CASE ARRAY_QUEUE_IS_EMPTY
    <3>1. UNCHANGED <<aq_len, aq_front, aq_item>> /\ held' = held /\ owed' = owed
      BY <2>1, <2>3, <1>6 DEF ARRAY_QUEUE_DEQUEUE, HeldDequeue, iterVars, ARRAY_QUEUE_IS_EMPTY
    <3>2. Contents' = Contents
      BY <3>1, <2>2 DEF Contents, Idle, Offset, Ring
    <3> QED
      BY <3>1, <3>2, <2>2, HeldInvUnchanged
  <2>4. CASE ~ARRAY_QUEUE_IS_EMPTY /\ held = NULL
    BY <2>4, <1>6 DEF HeldDequeue, iterVars, HeldInv
  <2>5. CASE ~ARRAY_QUEUE_IS_EMPTY /\ held # NULL /\ Passed = 0
    BY <2>5, <1>6, HeldInvGiveUp DEF HeldDequeue
  <2>6. CASE ~ARRAY_QUEUE_IS_EMPTY /\ held # NULL /\ Passed # 0
    <3>1. held' = held /\ owed' = owed
      BY <2>6, <1>6 DEF HeldDequeue, iterVars
    <3>2. Contents # <<>>
      BY <2>2, <2>6, <1>1, EmptySeq DEF ARRAY_QUEUE_IS_EMPTY
    <3>3. Contents' = Tail(Contents)
      BY <2>1, <3>2 DEF Fifo!Dequeue
    <3>4. Count' = Count - 1 /\ \A j \in 1..(Count - 1) : Contents'[j] = Contents[j + 1]
      BY <3>2, <3>3, <1>1, <1>2, HeadTailProperties
    <3>5. Behind = Passed /\ Behind' = Behind - 1 /\ Behind > 0 /\ Behind' \in 0..Count'
      <4>1. Behind = Passed /\ Behind' = (Count - 1) - Len(owed)
        BY <3>1, <3>4, <2>2 DEF Behind, Passed
      <4>2. Len(owed) \in Nat /\ Behind \in Nat /\ Behind + Len(owed) = Count /\ Behind # 0
        BY <4>1, <2>6, <1>3
      <4> QED
        BY <4>1, <4>2, <3>4, <1>1, SMTT(30)
    <3>6. aq_front' = Wrap(aq_front + 1, aq_size)
      <4>1. aq_front \in RingSlot
        BY <2>6, <1>1, <1>3 DEF RingSlot
      <4>2. Store(Inc(aq_front)) = Wrap(aq_front + 1, aq_size)
        BY <4>1, IncWraps, StoreFits, SizeModAssumption DEF Inv, TypeOK, RingSlot
      <4> QED
        BY <4>2, <2>1, <2>6 DEF ARRAY_QUEUE_DEQUEUE
    <3>7. held' = Place(Behind)'
      <4>1. Behind \in Nat /\ Behind <= aq_size /\ aq_front < aq_size
        BY <2>6, <1>1, <1>3
      <4>2. held = Wrap(aq_front + (Behind - 1), aq_size)
        BY <3>5, <2>6 DEF HeldInv, Place
      <4>3. Place(Behind)' = IF Behind - 1 = 0
                             THEN (IF aq_front' = 0 THEN aq_size - 1 ELSE aq_front' - 1)
                             ELSE Wrap(aq_front' + (Behind - 1 - 1), aq_size)
        BY <3>5, <2>2 DEF Place, Wrap
      <4> QED
        BY <4>1, <4>2, <4>3, <3>1, <3>5, <3>6, <1>1 DEF Wrap
    <3>8. ASSUME NEW j \in 1..Len(owed) PROVE owed[j] = Contents'[Behind' + j]
      <4>1. owed[j] = Contents[Behind + j]
        BY <2>6 DEF HeldInv
      <4>2. Len(owed) \in Nat /\ Behind \in Nat /\ Behind + Len(owed) = Count
        BY <2>6, <1>3
      <4>3. Behind' + j \in 1..(Count - 1) /\ (Behind' + j) + 1 = Behind + j
        BY <4>2, <3>5
      <4> QED
        BY <4>1, <4>3, <3>4
    <3>9. held' # NULL /\ owed' # NULL /\ owed' \in Seq(Item) /\ aq_size' # 0 /\ Count' < aq_size'
      BY <3>1, <3>4, <2>2, <2>6, <1>1, <1>3, OwedAssumption
    <3> QED
      BY <3>1, <3>5, <3>7, <3>8, <3>9 DEF HeldInv
  <2> QED
    BY <2>3, <2>4, <2>5, <2>6
<1>7. CASE HeldRemove
  <2>1. ARRAY_QUEUE_ITER_REMOVE /\ Fifo!RemoveAtCursor
    BY <1>7, StepRefines DEF HeldRemove
  <2>2. /\ aq_size' = aq_size /\ aq_front' = aq_front /\ rm_i = NULL /\ Count = aq_len
        /\ iter # NULL /\ Cursor = Offset(iter) + 1
    BY <2>1 DEF ARRAY_QUEUE_ITER_REMOVE, Idle, Count, Cursor
  <2>3. Cursor \in 1..Count
    <3>1. CursorShape
      BY CursorLinear
    <3> QED
      BY <3>1, <2>2, <1>1, SMTT(30) DEF CursorShape, Inv, LinearInv, LinearOffset, RingSlot
  <2>4. Contents' = [j \in 1..(Count - 1) |-> IF j < Cursor THEN Contents[j] ELSE Contents[j + 1]]
    BY <2>1, <1>1 DEF Fifo!RemoveAtCursor, Cursor
  <2>5. Count' = Count - 1
    <3>1. DOMAIN Contents' = 1..(Count - 1) /\ DOMAIN Contents' = 1..Count'
      BY <2>4, <1>2, LenProperties
    <3> QED
      BY <3>1, <1>1, <1>2, <2>3
  <2>6. Count' < aq_size'
    BY <2>2, <2>3, <2>5, <1>1
  <2>7. CASE held = NULL
    BY <2>7, <1>7 DEF HeldRemove, iterVars, HeldInv
  <2>8. CASE held # NULL /\ Cursor > Passed
    <3>1. held' = held /\ owed' = Drop(owed, Cursor - Passed)
      BY <2>8, <2>2, <2>3, <1>1, <1>7, <1>3 DEF HeldRemove, Passed
    <3>2. Behind = Passed /\ Cursor - Passed \in 1..Len(owed)
      BY <2>2, <2>3, <2>8, <1>1, <1>3 DEF Behind, Passed
    <3>3. /\ owed' \in Seq(Item) /\ Len(owed') = Len(owed) - 1
          /\ \A j \in 1..(Len(owed) - 1) :
               owed'[j] = IF j < Cursor - Passed THEN owed[j] ELSE owed[j + 1]
      BY <3>1, <3>2, <2>8, <1>3, DropProperties
    <3>4. Behind' = Behind /\ Behind' \in 0..Count'
      BY <3>2, <3>3, <2>5, <2>8, <1>1, <1>3 DEF Behind
    <3>5. held' = Place(Behind)'
      BY <3>1, <3>4, <2>2, <2>8 DEF HeldInv, Place, Wrap
    <3>6. ASSUME NEW j \in 1..Len(owed') PROVE owed'[j] = Contents'[Behind' + j]
      <4>0. j \in Nat /\ 1 <= j /\ j <= Len(owed) - 1 /\ Passed \in Nat /\ Cursor \in Nat
        BY <3>2, <3>3, <2>3, <2>8, <1>1, <1>3
      <4>a. j \in 1..Len(owed) /\ j + 1 \in 1..Len(owed) /\ Behind + (j + 1) = (Behind + j) + 1
        BY <4>0, <2>8, <1>3
      <4>1. /\ owed[j] = Contents[Behind + j] /\ owed[j + 1] = Contents[(Behind + j) + 1]
        <5>1. owed[j + 1] = Contents[Behind + (j + 1)] /\ owed[j] = Contents[Behind + j]
          BY <4>a, <2>8 DEF HeldInv
        <5> QED
          BY <5>1, <4>a
      <4>2. Behind + j \in 1..(Count - 1)
        BY <4>0, <2>8, <1>1, <1>3, SMTT(30)
      <4>3. Contents'[Behind + j] = IF Behind + j < Cursor THEN Contents[Behind + j]
                                    ELSE Contents[(Behind + j) + 1]
        BY <4>2, <2>4
      <4>4. owed'[j] = IF j < Cursor - Passed THEN owed[j] ELSE owed[j + 1]
        BY <4>0, <3>3, <2>8, <1>3
      <4>5. j < Cursor - Passed <=> Behind + j < Cursor
        BY <4>0, <3>2
      <4> QED
        BY <4>1, <4>3, <4>4, <4>5, <3>4
    <3> QED
      BY <3>1, <3>3, <3>4, <3>5, <3>6, <2>2, <2>6, <2>8, <1>3, OwedAssumption DEF HeldInv
  <2>9. CASE held # NULL /\ ~(Cursor > Passed) /\ owed # <<>>
    <3>1. held' = held /\ owed' = Tail(owed)
      BY <2>9, <2>2, <2>3, <1>1, <1>7, <1>3 DEF HeldRemove, Passed
    <3>2. Behind = Passed /\ Cursor <= Behind
      BY <2>2, <2>3, <2>9, <1>1, <1>3 DEF Behind, Passed
    <3>3. /\ owed' \in Seq(Item) /\ Len(owed') = Len(owed) - 1
          /\ \A j \in 1..(Len(owed) - 1) : owed'[j] = owed[j + 1]
      BY <3>1, <2>9, <1>3, HeadTailProperties
    <3>4. Behind' = Behind /\ Behind' \in 0..Count'
      <4>1. Len(owed') \in Nat
        BY <3>3, LenProperties
      <4> QED
        BY <4>1, <3>2, <3>3, <2>5, <2>9, <1>1, <1>3 DEF Behind
    <3>5. held' = Place(Behind)'
      BY <3>1, <3>4, <2>2, <2>9 DEF HeldInv, Place, Wrap
    <3>6. ASSUME NEW j \in 1..Len(owed') PROVE owed'[j] = Contents'[Behind' + j]
      <4>0. j \in Nat /\ 1 <= j /\ j <= Len(owed) - 1 /\ Cursor \in Nat
        BY <3>2, <3>3, <2>3, <2>9, <1>1, <1>3
      <4>a. /\ j + 1 \in 1..Len(owed) /\ Behind + (j + 1) = (Behind + j) + 1
            /\ Behind + j \in 1..(Count - 1)
        BY <4>0, <2>9, <1>1, <1>3, SMTT(30)
      <4>1. owed[j + 1] = Contents[(Behind + j) + 1] /\ Behind + j \in 1..(Count - 1)
        <5>1. owed[j + 1] = Contents[Behind + (j + 1)]
          BY <4>a, <2>9 DEF HeldInv
        <5> QED
          BY <5>1, <4>a
      <4>2. Contents'[Behind + j] = Contents[(Behind + j) + 1]
        BY <4>0, <4>1, <3>2, <2>4, <2>9, <1>3
      <4> QED
        BY <4>0, <4>1, <4>2, <3>3, <3>4, <2>9, <1>3
    <3> QED
      BY <3>1, <3>3, <3>4, <3>5, <3>6, <2>2, <2>6, <2>9, <1>3, OwedAssumption DEF HeldInv
  <2>10. CASE held # NULL /\ ~(Cursor > Passed) /\ owed = <<>>
    BY <2>10, <2>2, <2>3, <1>1, <1>3, <1>7, HeldInvGiveUp DEF HeldRemove, Passed
  <2> QED
    BY <2>7, <2>8, <2>9, <2>10
<1>8. CASE Hold
  <2>1. /\ rm_i = NULL /\ iter # NULL /\ held' = iter /\ UNCHANGED vars /\ Count = aq_len
        /\ owed' = [j \in 1..(aq_len - Offset(iter) - 1) |-> aq_item[Ring(Offset(iter) + j)]]
    BY <1>8 DEF Hold, Idle, Count
  <2>2. Contents' = Contents /\ Count' = Count /\ aq_front' = aq_front /\ aq_size' = aq_size
    BY <2>1 DEF vars, Contents, Idle, Offset, Ring, Count
  <2>3. iter \in RingSlot /\ LinearOffset(iter) < aq_len /\ aq_size # 0 /\ aq_front < aq_size
    <3>1. iter \in RingSlot /\ LinearOffset(iter) < aq_len
      BY <2>1 DEF Inv, LinearInv
    <3>2. aq_size # 0
      BY <3>1, <1>1 DEF RingSlot
    <3> QED
      BY <3>1, <3>2, <1>1
  <2> DEFINE k == LinearOffset(iter)
  <2>4. Offset(iter) = k /\ k \in Nat /\ k < aq_len
    BY <2>3, <1>1, OffsetLinear DEF Inv, LinearOffset, RingSlot
  <2>5. iter = Wrap(aq_front + k, aq_size)
    BY <2>3, <1>1 DEF LinearOffset, RingSlot, Wrap
  <2> HIDE DEF k
  <2>6. ASSUME NEW j \in 1..(aq_len - k - 1)
        PROVE  aq_item[Ring(k + j)] = Contents[(k + 1) + j] /\ aq_item[Ring(k + j)] \in Item
    <3>1. (k + 1) + j \in 1..Count /\ k + j \in 0..aq_size
      BY <2>1, <2>4, <1>1
    <3>2. Ring(k + j) = SlotOf((k + 1) + j)
      BY <3>1, <2>1, <2>3, <2>4, <1>1, RingLinear DEF Inv, SlotOf
    <3>3. SlotOf((k + 1) + j) \in Slot
      BY <3>1, SlotInRing
    <3>4. Contents[(k + 1) + j] = aq_item[SlotOf((k + 1) + j)]
      BY <3>1, ContentsLinear DEF ContentsShape
    <3> QED
      BY <3>2, <3>3, <3>4 DEF Inv, TypeOK
  <2>7. /\ owed' \in Seq(Item) /\ Len(owed') = aq_len - k - 1
        /\ \A j \in 1..(aq_len - k - 1) : owed'[j] = Contents[(k + 1) + j]
    <3>1. owed' \in [1..(aq_len - k - 1) -> Item] /\ aq_len - k - 1 \in Nat
      BY <2>1, <2>4, <2>6, <1>1
    <3>2. \A j \in 1..(aq_len - k - 1) : owed'[j] = Contents[(k + 1) + j]
      BY <2>1, <2>4, <2>6
    <3> QED
      BY <3>1, <3>2
  <2>8. Behind' = k + 1
    BY <2>1, <2>2, <2>4, <2>7, <1>1 DEF Behind
  <2>9. Behind' \in 0..Count' /\ Behind' # 0
    BY <2>1, <2>2, <2>4, <2>8, <1>1
  <2>10. held' = Place(Behind)'
    <3>1. Place(Behind)' = Wrap(aq_front + ((k + 1) - 1), aq_size)
      BY <2>2, <2>4, <2>8 DEF Place, Wrap
    <3>2. (k + 1) - 1 = k
      BY <2>4
    <3> QED
      BY <3>1, <3>2, <2>1, <2>5
  <2>11. ASSUME NEW j \in 1..Len(owed') PROVE owed'[j] = Contents'[Behind' + j]
    BY <2>2, <2>7, <2>8
  <2> QED
    BY <2>1, <2>2, <2>3, <2>7, <2>9, <2>10, <2>11, OwedAssumption DEF HeldInv
<1>9. CASE HeldNext
  <2>1. /\ rm_i = NULL /\ held # NULL /\ held' = AfterIter(held) /\ UNCHANGED vars
        /\ owed' = IF owed = <<>> THEN NULL ELSE Tail(owed)
        /\ Count = aq_len
    BY <1>9 DEF HeldNext, Idle, Count
  <2>2. Contents' = Contents /\ Count' = Count /\ aq_front' = aq_front /\ aq_size' = aq_size
    BY <2>1 DEF vars, Contents, Idle, Offset, Ring, Count
  <2>3. /\ held \in RingSlot /\ Inc(held) = Wrap(aq_front + Behind, aq_size)
        /\ held = Place(Behind) /\ (Behind = 0 => aq_len < aq_size)
    <3>1. held = Place(Behind) /\ (Behind = 0 => aq_len < aq_size)
      BY <2>1 DEF HeldInv
    <3>2. Behind \in Nat /\ Behind <= aq_size /\ aq_size # 0
      BY <2>1, <1>1, <1>3
    <3> QED
      BY <3>1, <3>2, PlaceNext
  <2>5. CASE owed = <<>>
    <3>1. Behind = aq_len
      BY <2>1, <2>5, <1>1, <1>3 DEF Behind
    <3>2. held' = NULL
      BY <3>1, <2>1, <2>3, <1>1, <1>3 DEF AfterIter
    <3> QED
      BY <3>2, <2>1, <2>5 DEF HeldInv
  <2>6. CASE owed # <<>>
    <3>1. /\ owed' = Tail(owed) /\ owed' \in Seq(Item) /\ Len(owed') = Len(owed) - 1
          /\ \A j \in 1..(Len(owed) - 1) : owed'[j] = owed[j + 1] /\ Len(owed) > 0
      <4>1. Len(owed) # 0
        BY <2>1, <2>6, <1>3, EmptySeq
      <4> QED
        BY <4>1, <2>1, <2>6, <1>3, HeadTailProperties
    <3>2. Behind < aq_len /\ Behind' = Behind + 1
      BY <3>1, <2>1, <2>2, <1>1, <1>3, EmptySeq, <2>6 DEF Behind
    <3>3. held' = Wrap(aq_front + Behind, aq_size)
      <4>1. Wrap(aq_front + Behind, aq_size) # aq_back
        <5>1. aq_back = Wrap(aq_front + aq_len, aq_size) /\ Behind \in Nat /\ Behind < aq_len
          BY <3>2, <2>1, <1>1, <1>3
        <5>2. Behind = 0 => aq_len < aq_size
          BY <2>3
        <5> QED
          BY <5>1, <5>2, <2>1, <1>1, <1>3 DEF Wrap
      <4> QED
        BY <4>1, <2>1, <2>3 DEF AfterIter
    <3>4. held' \in Int
      BY <3>3, <2>1, <1>1, <1>3 DEF Wrap
    <3>5. held' = Place(Behind)' /\ Behind' \in 0..Count' /\ Behind' # 0
      <4>1. Behind \in Nat /\ Behind' \in Nat /\ Behind' # 0 /\ Behind' - 1 = Behind
        BY <3>2, <2>1, <1>3
      <4>2. Place(Behind)' = Wrap(aq_front + (Behind' - 1), aq_size)
        BY <4>1, <2>2 DEF Place, Wrap
      <4> QED
        BY <4>1, <4>2, <3>2, <3>3, <2>1, <2>2, <1>1
    <3>6. ASSUME NEW j \in 1..Len(owed') PROVE owed'[j] = Contents'[Behind' + j]
      <4>1. j \in Nat /\ j + 1 \in 1..Len(owed) /\ j \in 1..(Len(owed) - 1)
            /\ Behind + (j + 1) = Behind' + j
        BY <3>1, <3>2, <2>1, <1>3
      <4> QED
        BY <4>1, <3>1, <2>1, <2>2 DEF HeldInv
    <3> QED
      BY <3>1, <3>4, <3>5, <3>6, <2>1, <2>2, <1>1, <1>3, OwedAssumption DEF HeldInv
  <2> QED
    BY <2>5, <2>6
<1>10. ASSUME ARRAY_QUEUE_FRONT \/ ARRAY_QUEUE_ITER \/ ARRAY_QUEUE_ITER_NEXT \/ IterRead,
              UNCHANGED iterVars
       PROVE  HeldInv'
  <2>1. UNCHANGED <<aq_item, aq_size, aq_front, aq_len, rm_i, held, owed>>
    BY <1>10 DEF ARRAY_QUEUE_FRONT, ARRAY_QUEUE_ITER, ARRAY_QUEUE_ITER_NEXT, IterRead, queueFields,
                 iterVars
  <2>2. Contents' = Contents /\ Count' = Count
    BY <2>1 DEF Contents, Idle, Offset, Ring, Count
  <2> QED
    BY <2>1, <2>2, HeldInvUnchanged
<1>11. ASSUME IterRemoveShift, UNCHANGED iterVars PROVE HeldInv'
  <2>1. Contents' = Contents
    BY <1>11, <1>1, <1>2, StepRefines
  <2>2. UNCHANGED <<aq_size, aq_front, held, owed>> /\ Count' = Count
    BY <1>11, <2>1, <1>1, <1>2 DEF IterRemoveShift, iterVars
  <2> QED
    BY <2>1, <2>2, HeldInvUnchanged
<1>12. CASE UNCHANGED <<vars, iterVars>>
  <2>1. UNCHANGED <<aq_item, aq_size, aq_front, aq_len, rm_i, held, owed>>
    BY <1>12 DEF vars, iterVars
  <2>2. Contents' = Contents /\ Count' = Count
    BY <2>1 DEF Contents, Idle, Offset, Ring, Count
  <2> QED
    BY <2>1, <2>2, HeldInvUnchanged
<1> QED
  BY <1>4, <1>5, <1>6, <1>7, <1>8, <1>9, <1>10, <1>11, <1>12 DEF HeldStep

-----------------------------------------------------------------------------
(* What the recursive Walk reads.                                          *)

\* The abstract queue behind its p-th item.
Rest(p) == [j \in 1..(Count - p) |-> Contents[p + j]]

\* ARRAY_QUEUE_ITER_NEXT at place p: the end behind the last item, and the
\* place of the next item otherwise.
LEMMA AfterPlace ==
  ASSUME Inv, rm_i = NULL, aq_size # 0, NEW p \in 0..aq_len, p = 0 => aq_len < aq_size
  PROVE  /\ p = aq_len => AfterIter(Place(p)) = NULL
         /\ p # aq_len => /\ AfterIter(Place(p)) = Place(p + 1)
                          /\ Place(p + 1) \in Slot /\ Place(p + 1) # NULL
                          /\ aq_item[Place(p + 1)] = Contents[p + 1]
<1>1. /\ aq_size \in Nat /\ aq_front \in Nat /\ aq_front < aq_size /\ aq_len \in Nat
      /\ aq_len <= aq_size /\ aq_back = Wrap(aq_front + aq_len, aq_size) /\ NULL \notin Int
      /\ Count = aq_len
  BY RingFacts DEF RingNumbers, Count
<1>2. p \in Nat /\ p <= aq_len /\ p <= aq_size
  BY <1>1
<1>3. Inc(Place(p)) = Wrap(aq_front + p, aq_size)
  BY <1>2, PlaceNext
<1>4. CASE p = aq_len
  BY <1>1, <1>3, <1>4 DEF AfterIter
<1>5. CASE p # aq_len
  <2>1. Wrap(aq_front + p, aq_size) # aq_back
    BY <1>1, <1>2, <1>5 DEF Wrap
  <2>2. Place(p + 1) = Wrap(aq_front + p, aq_size)
    <3>1. Place(p + 1) = Wrap(aq_front + ((p + 1) - 1), aq_size) /\ (p + 1) - 1 = p
      BY <1>2 DEF Place
    <3> QED
      BY <3>1
  <2>3. p + 1 \in 1..Count /\ SlotOf(p + 1) = Wrap(aq_front + p, aq_size)
    <3>1. SlotOf(p + 1) = Wrap(aq_front + ((p + 1) - 1), aq_size) /\ (p + 1) - 1 = p
      BY <1>2 DEF SlotOf
    <3> QED
      BY <3>1, <1>1, <1>2, <1>5
  <2>4. Contents[p + 1] = aq_item[SlotOf(p + 1)] /\ SlotOf(p + 1) \in Slot
    BY <2>3, SlotInRing, ContentsLinear DEF ContentsShape
  <2>5. Wrap(aq_front + p, aq_size) # NULL
    BY <1>1, <1>2 DEF Wrap
  <2> QED
    BY <2>1, <2>2, <2>3, <2>4, <2>5, <1>3, <1>5 DEF AfterIter
<1> QED
  BY <1>4, <1>5

\* From a place of the ring, Walk reads the rest of the queue.
LEMMA WalkReads ==
  ASSUME Inv, rm_i = NULL, aq_size # 0, NEW p \in 0..aq_len, p = 0 => aq_len < aq_size
  PROVE  Walk(Place(p)) = Rest(p)
<1>1. /\ aq_size \in Nat /\ aq_len \in Nat /\ aq_len <= aq_size /\ aq_size <= BufLen
      /\ BufLen \in Nat /\ Count = aq_len /\ NULL \notin Int
      /\ Contents \in Seq(Item) /\ Len(Contents) = aq_len
  BY RingFacts DEF RingNumbers, Count
<1> DEFINE S == [Slot -> Seq(Item)]
           f0 == [t \in Slot |-> <<>>]
           F == [g \in S |-> [t \in Slot |-> IF AfterIter(t) = NULL THEN <<>>
                                             ELSE <<aq_item[AfterIter(t)]>> \o g[AfterIter(t)]]]
           Is(w) == w = [n \in Nat |->
                           [t \in Slot |-> IF n = 0 \/ AfterIter(t) = NULL THEN <<>>
                                           ELSE <<aq_item[AfterIter(t)]>> \o w[n - 1][AfterIter(t)]]]
           walk == CHOOSE w : Is(w)
<1>2. \A t \in Slot : AfterIter(t) # NULL => AfterIter(t) \in Slot
  BY <1>1, BufLenAssumption DEF AfterIter, Inc, Slot
<1>3. f0 \in S
  OBVIOUS
<1>4. F \in [S -> S]
  <2>1. ASSUME NEW g \in S, NEW t \in Slot, AfterIter(t) # NULL
        PROVE  <<aq_item[AfterIter(t)]>> \o g[AfterIter(t)] \in Seq(Item)
    <3>1. aq_item[AfterIter(t)] \in Item /\ g[AfterIter(t)] \in Seq(Item)
      BY <2>1, <1>2 DEF Inv, TypeOK
    <3>2. <<aq_item[AfterIter(t)]>> \in Seq(Item)
      BY <3>1
    <3> QED
      BY <3>1, <3>2, ConcatProperties
  <2>2. ASSUME NEW g \in S
        PROVE  [t \in Slot |-> IF AfterIter(t) = NULL THEN <<>>
                               ELSE <<aq_item[AfterIter(t)]>> \o g[AfterIter(t)]] \in S
    BY <2>1
  <2> QED
    BY <2>2
<1>5. \E w : Is(w)
  <2> HIDE DEF S, f0, F
  <2>0. PICK f : Iterates(f, S, f0, F)
    BY <1>3, <1>4, Iteration
  <2>1. f \in [Nat -> S] /\ f[0] = f0 /\ \A n \in Nat : f[n + 1] = F[f[n]]
    BY <2>0 DEF Iterates
  <2>2. ASSUME NEW n \in Nat
        PROVE  f[n] = [t \in Slot |-> IF n = 0 \/ AfterIter(t) = NULL THEN <<>>
                                      ELSE <<aq_item[AfterIter(t)]>> \o f[n - 1][AfterIter(t)]]
    <3>1. CASE n = 0
      BY <3>1, <2>1 DEF f0
    <3>2. CASE n # 0
      <4>1. n - 1 \in Nat /\ (n - 1) + 1 = n
        BY <3>2
      <4>2. f[n] = F[f[n - 1]] /\ f[n - 1] \in S
        BY <4>1, <2>1
      <4>3. F[f[n - 1]] = [t \in Slot |-> IF AfterIter(t) = NULL THEN <<>>
                                          ELSE <<aq_item[AfterIter(t)]>> \o f[n - 1][AfterIter(t)]]
        BY <4>2 DEF F
      <4> QED
        BY <4>2, <4>3, <3>2
    <3> QED
      BY <3>1, <3>2
  <2>3. Is(f)
    BY <2>1, <2>2
  <2> QED
    BY <2>3
<1>6. Is(walk)
  <2> HIDE DEF Is
  <2> QED
    BY <1>5
<1>7. Walk(Place(p)) = walk[BufLen][Place(p)]
  BY DEF Walk
<1> HIDE DEF walk
<1>8. /\ \A t \in Slot : walk[0][t] = <<>>
      /\ \A n \in Nat : \A t \in Slot :
           walk[n + 1][t] = IF AfterIter(t) = NULL THEN <<>>
                            ELSE <<aq_item[AfterIter(t)]>> \o walk[n][AfterIter(t)]
  <2>1. \A t \in Slot : walk[0][t] = <<>>
    BY <1>6
  <2>2. ASSUME NEW n \in Nat, NEW t \in Slot
        PROVE  walk[n + 1][t] = IF AfterIter(t) = NULL THEN <<>>
                                ELSE <<aq_item[AfterIter(t)]>> \o walk[n][AfterIter(t)]
    <3>1. n + 1 \in Nat /\ n + 1 # 0 /\ (n + 1) - 1 = n
      OBVIOUS
    <3>2. walk[n + 1] = [u \in Slot |-> IF n + 1 = 0 \/ AfterIter(u) = NULL THEN <<>>
                                        ELSE <<aq_item[AfterIter(u)]>>
                                               \o walk[(n + 1) - 1][AfterIter(u)]]
      BY <3>1, <1>6, Zenon
    <3> QED
      BY <3>1, <3>2
  <2> QED
    BY <2>1, <2>2
<1> HIDE DEF Is
<1> DEFINE Good == {n \in Nat : \A q \in 0..aq_len :
                      (q = 0 => aq_len < aq_size) /\ aq_len - q <= n => walk[n][Place(q)] = Rest(q)}
<1>9. \A q \in 0..aq_len : Place(q) \in Slot
  <2>1. ASSUME NEW q \in 0..aq_len PROVE q \in Nat /\ q <= aq_size
    BY <1>1
  <2>2. \A q \in 0..aq_len : Place(q) \in RingSlot
    BY <2>1, PlaceNext
  <2> QED
    BY <2>2, <1>1 DEF RingSlot, Slot
<1>10. Rest(aq_len) = <<>>
  BY <1>1 DEF Rest
<1>11. 0 \in Good
  <2> SUFFICES ASSUME NEW q \in 0..aq_len, aq_len - q <= 0 PROVE walk[0][Place(q)] = Rest(q)
    OBVIOUS
  <2>1. q = aq_len
    BY <1>1
  <2> QED
    BY <2>1, <1>8, <1>9, <1>10
<1>12. ASSUME NEW n \in Nat, n \in Good PROVE n + 1 \in Good
  <2> SUFFICES ASSUME NEW q \in 0..aq_len, q = 0 => aq_len < aq_size, aq_len - q <= n + 1
               PROVE  walk[n + 1][Place(q)] = Rest(q)
    OBVIOUS
  <2>1. CASE q = aq_len
    <3>1. AfterIter(Place(q)) = NULL
      BY <2>1, AfterPlace
    <3> QED
      BY <3>1, <2>1, <1>8, <1>9, <1>10
  <2>2. CASE q # aq_len
    <3>1. /\ AfterIter(Place(q)) = Place(q + 1) /\ Place(q + 1) # NULL
          /\ aq_item[Place(q + 1)] = Contents[q + 1]
      BY <2>2, AfterPlace
    <3>2. q + 1 \in 0..aq_len /\ q + 1 # 0 /\ aq_len - (q + 1) <= n /\ q \in Nat /\ q < aq_len
      BY <2>2, <1>1
    <3>3. walk[n][Place(q + 1)] = Rest(q + 1)
      BY <3>2, <1>12
    <3>4. walk[n + 1][Place(q)] = <<Contents[q + 1]>> \o Rest(q + 1)
      <4>1. walk[n + 1][Place(q)] = <<aq_item[Place(q + 1)]>> \o walk[n][Place(q + 1)]
        BY <3>1, <1>8, <1>9
      <4> QED
        BY <4>1, <3>1, <3>3
    <3>5. /\ \A j \in 1..aq_len : Contents[j] \in Item
      BY <1>1, ElementOfSeq
    <3>6. Rest(q + 1) \in Seq(Item) /\ Len(Rest(q + 1)) = aq_len - (q + 1)
          /\ \A j \in 1..(aq_len - (q + 1)) : Rest(q + 1)[j] = Contents[(q + 1) + j]
      <4>1. aq_len - (q + 1) \in Nat /\ \A j \in 1..(aq_len - (q + 1)) : (q + 1) + j \in 1..aq_len
        BY <3>2, <1>1
      <4>2. Rest(q + 1) \in [1..(aq_len - (q + 1)) -> Item]
        BY <4>1, <3>5, <1>1 DEF Rest
      <4> QED
        BY <4>1, <4>2, <1>1 DEF Rest
    <3>7. Rest(q) \in Seq(Item) /\ Len(Rest(q)) = aq_len - q
          /\ \A j \in 1..(aq_len - q) : Rest(q)[j] = Contents[q + j]
      <4>1. aq_len - q \in Nat /\ \A j \in 1..(aq_len - q) : q + j \in 1..aq_len
        BY <3>2, <1>1
      <4>2. Rest(q) \in [1..(aq_len - q) -> Item]
        BY <4>1, <3>5, <1>1 DEF Rest
      <4> QED
        BY <4>1, <4>2, <1>1 DEF Rest
    <3> DEFINE one == <<Contents[q + 1]>>
               two == Rest(q + 1)
    <3>8. one \in Seq(Item) /\ Len(one) = 1 /\ one[1] = Contents[q + 1]
      <4>1. q + 1 \in 1..aq_len
        BY <3>2, <1>1
      <4>2. Contents[q + 1] \in Item
        BY <4>1, <3>5
      <4> QED
        BY <4>2
    <3> HIDE DEF one, two
    <3>9. /\ one \o two \in Seq(Item) /\ Len(one \o two) = Len(one) + Len(two)
          /\ \A i \in 1..(Len(one) + Len(two)) :
               (one \o two)[i] = IF i <= Len(one) THEN one[i] ELSE two[i - Len(one)]
      <4>1. two \in Seq(Item)
        BY <3>6 DEF two
      <4> QED
        BY <4>1, <3>8, ConcatProperties
    <3>10. Len(one) + Len(two) = aq_len - q
      BY <3>2, <3>6, <3>8, <1>1 DEF two
    <3>11. ASSUME NEW j \in 1..(aq_len - q) PROVE (one \o two)[j] = Rest(q)[j]
      <4>1. (one \o two)[j] = IF j <= 1 THEN one[j] ELSE two[j - 1]
        BY <3>8, <3>9, <3>10
      <4>2. CASE j = 1
        BY <4>1, <4>2, <3>7, <3>8
      <4>3. CASE j # 1
        <5>1. j - 1 \in 1..(aq_len - (q + 1)) /\ (q + 1) + (j - 1) = q + j /\ ~(j <= 1)
          BY <4>3, <3>2, <1>1
        <5> QED
          BY <5>1, <4>1, <3>6, <3>7 DEF two
      <4> QED
        BY <4>2, <4>3
    <3>12. one \o two = Rest(q)
      BY <3>7, <3>9, <3>10, <3>11, SeqEqual
    <3> QED
      BY <3>4, <3>12 DEF one, two
  <2> QED
    BY <2>1, <2>2
<1>13. BufLen \in Good
  <2> HIDE DEF Good
  <2>1. Nat \subseteq Good
    BY <1>11, <1>12, SetInduction
  <2> QED
    BY <2>1, <1>1
<1>14. aq_len - p <= BufLen
  BY <1>1
<1> QED
  BY <1>7, <1>13, <1>14

\* HeldInv says of the second iterator what HeldWalk says.
LEMMA HeldInvWalks == Inv /\ HeldInv => HeldWalk
<1> SUFFICES ASSUME Inv, HeldInv PROVE HeldWalk
  OBVIOUS
<1>1. held = NULL <=> owed = NULL
  BY DEF HeldInv
<1>2. ASSUME Idle, held # NULL
      PROVE  Walk(held) = owed /\ (Passed > 0 => held = Ring(Passed - 1))
  <2>1. /\ rm_i = NULL /\ Count = aq_len /\ aq_len \in Nat /\ aq_size \in Nat
        /\ aq_len <= aq_size
    BY <1>2, RingFacts DEF RingNumbers, Idle, Count
  <2>2. /\ aq_size # 0 /\ owed \in Seq(Item) /\ Behind \in 0..aq_len /\ held = Place(Behind)
        /\ (Behind = 0 => aq_len < aq_size)
        /\ \A j \in 1..Len(owed) : owed[j] = Contents[Behind + j]
    BY <1>2, <2>1 DEF HeldInv
  <2>3. Walk(held) = Rest(Behind)
    BY <2>1, <2>2, WalkReads
  <2>4. Len(owed) \in Nat /\ aq_len - Behind = Len(owed) /\ Passed = Behind
    <3>1. Len(owed) \in Nat
      BY <2>2, LenProperties
    <3> QED
      BY <3>1, <2>1 DEF Behind, Passed
  <2>5. Rest(Behind) = [j \in 1..Len(owed) |-> Contents[Behind + j]]
    BY <2>1, <2>4 DEF Rest
  <2>6. owed = [j \in 1..Len(owed) |-> owed[j]]
    BY <2>2, LenProperties
  <2>7. Rest(Behind) = owed
    BY <2>2, <2>5, <2>6
  <2>8. ASSUME Passed > 0 PROVE held = Ring(Passed - 1)
    <3>1. Passed - 1 \in 0..aq_size /\ aq_front < aq_size
      BY <2>8, <2>1, <2>2, <2>4, RingFacts DEF RingNumbers
    <3>2. Ring(Passed - 1) = Wrap(aq_front + (Passed - 1), aq_size)
      BY <3>1, RingLinear DEF Inv
    <3> QED
      BY <3>2, <2>2, <2>4, <2>8, <2>1 DEF Place
  <2> QED
    BY <2>3, <2>7, <2>8
<1> QED
  BY <1>1, <1>2 DEF HeldWalk

\* For every item type, buffer length and size_type: an iterator kept through
\* enqueues, dequeues and removals by another iterator delivers, by
\* ARRAY_QUEUE_ITER_NEXT, exactly the items that are still to come.
THEOREM HeldWalks == HeldSpec => []HeldWalk
<1>1. HeldSpec => []Inv
  BY HeldIsSpec, InvAlways, PTL
<1> QED
  BY <1>1, HeldInvInit, HeldInvNext, HeldInvWalks, PTL DEF HeldSpec

\* The client with the second iterator sees a bounded FIFO.
THEOREM HeldRefinement == HeldSpec => ImplementsFifo
BY HeldIsSpec, Refinement, PTL
=============================================================================
