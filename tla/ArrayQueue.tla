---------------------------- MODULE ArrayQueue -----------------------------
(***************************************************************************)
(* array_utils/array_queue.h: a ring buffer over a caller-supplied array,  *)
(* with an iterator that can remove the item it points at.                 *)
(*                                                                         *)
(* The macros are not re-entrant and the header keeps no lock, so one      *)
(* client calls them one after the other.  ARRAY_QUEUE_ITER_REMOVE is the  *)
(* only macro with a loop; each turn of its do-while is a step, and while  *)
(* rm_i # NULL no other macro runs.                                        *)
(*                                                                         *)
(* Pointers into the buffer are the slot numbers they point at; NULL is    *)
(* ARRAY_QUEUE_ITER_END.  The client keeps one iterator, and gives it up   *)
(* when it dequeues the item under it or re-initialises the queue: the     *)
(* header offers no way to tell such an iterator from a live one.          *)
(* QueueIterators has a second iterator that is kept for longer.           *)
(***************************************************************************)
EXTENDS Integers

CONSTANTS Item,     \* the values of `type`
          NULL,     \* the null pointer
          BufLen,   \* number of slots of the caller's array
          SizeMod   \* 2^w for size_type = uintw_t (ARRAY_QUEUE_TYPE_8/16/32)

ASSUME BufLenAssumption  == BufLen \in Nat
ASSUME SizeModAssumption == SizeMod \in Nat \ {0, 1}
ASSUME NullAssumption    == NULL \notin Int /\ NULL \notin Item

VARIABLES aq_item,   \* the caller's array
          aq_size, aq_front, aq_back, aq_len,  \* size_type fields of the queue
          iter,      \* the client's iterator
          rm_i,      \* local i of ARRAY_QUEUE_ITER_REMOVE; NULL outside it
          data,      \* the client's *pdata (or what it read through iter)
          ret        \* the client's ret

queueFields == <<aq_size, aq_front, aq_back, aq_len>>
vars == <<aq_item, aq_size, aq_front, aq_back, aq_len, iter, rm_i, data, ret>>

Slot == 0..(BufLen - 1)

----------------------------------------------------------------------------
ARRAY_QUEUE_IS_EMPTY == aq_len = 0

\* Mutant: one slot is kept free.
ARRAY_QUEUE_IS_FULL_Spare == aq_len + 1 >= aq_size

ARRAY_QUEUE_IS_FULL == aq_len = aq_size

\* Successor of a slot in the ring.  A slot is below aq_size <= SizeMod - 1, so
\* i + 1 does not wrap, not even where size_type is as wide as int.
Inc(i) == (i + 1) % aq_size

\* Mutant: the value is not narrowed.
Store_NoNarrow(n) == n

Store(n) == n % SizeMod                \* assignment to a size_type field

Idle == rm_i = NULL

\* ret_func is _ARRAY_QUEUE_RET in the _RET macros and drops the value otherwise.
Report(want, val) == ret' = IF want THEN val ELSE ret

Init ==
  /\ aq_item \in [Slot -> Item]        \* whatever the caller's memory holds
  /\ aq_size \in {Store(siz) : siz \in 0..BufLen}
  /\ aq_front = 0
  /\ aq_back = 0
  /\ aq_len = 0
  /\ iter = NULL
  /\ rm_i = NULL
  /\ data = NULL
  /\ ret = NULL

\* (q)->aq_size = (siz) narrows siz to size_type; buf may be longer than siz.
ARRAY_QUEUE_INIT(siz) ==
  /\ Idle
  /\ aq_size' = Store(siz)
  /\ aq_front' = 0
  /\ aq_back' = 0
  /\ aq_len' = 0
  /\ iter' = NULL
  /\ UNCHANGED <<aq_item, rm_i, data, ret>>

ARRAY_QUEUE_ENQUEUE(x, want) ==
  /\ Idle
  /\ \/ /\ ARRAY_QUEUE_IS_FULL
        /\ Report(want, FALSE)
        /\ UNCHANGED <<aq_item, aq_back, aq_len>>
     \/ /\ ~ARRAY_QUEUE_IS_FULL
        /\ aq_item' = [aq_item EXCEPT ![aq_back] = x]
        /\ aq_back' = Store(Inc(aq_back))
        /\ aq_len' = Store(aq_len + 1)
        /\ Report(want, TRUE)
  /\ UNCHANGED <<aq_size, aq_front, iter, rm_i, data>>

ARRAY_QUEUE_DEQUEUE(want) ==
  /\ Idle
  /\ \/ /\ ARRAY_QUEUE_IS_EMPTY
        /\ Report(want, FALSE)
        /\ UNCHANGED <<aq_front, aq_len, iter, data>>
     \/ /\ ~ARRAY_QUEUE_IS_EMPTY
        /\ data' = aq_item[aq_front]
        /\ aq_front' = Store(Inc(aq_front))
        /\ aq_len' = Store(aq_len - 1)
        /\ iter' = IF iter = aq_front THEN NULL ELSE iter
        /\ Report(want, TRUE)
  /\ UNCHANGED <<aq_item, aq_size, aq_back, rm_i>>

\* Unchecked read: the client looks at ARRAY_QUEUE_IS_EMPTY first.
ARRAY_QUEUE_FRONT ==
  /\ Idle
  /\ ~ARRAY_QUEUE_IS_EMPTY
  /\ data' = aq_item[aq_front]
  /\ UNCHANGED <<aq_item, queueFields, iter, rm_i, ret>>

ARRAY_QUEUE_ITER ==
  /\ Idle
  /\ iter' = IF ARRAY_QUEUE_IS_EMPTY THEN NULL ELSE aq_front
  /\ UNCHANGED <<aq_item, queueFields, rm_i, data, ret>>

\* The client reads *iter after comparing iter with ARRAY_QUEUE_ITER_END.
IterRead ==
  /\ Idle
  /\ iter # NULL
  /\ data' = aq_item[iter]
  /\ UNCHANGED <<aq_item, queueFields, iter, rm_i, ret>>

\* Mutant: looks for the end before it advances.
AfterIter_TestFirst(it) == IF it = aq_back THEN NULL ELSE Inc(it)

\* Where ARRAY_QUEUE_ITER_NEXT takes an iterator.
AfterIter(it) == IF Inc(it) = aq_back THEN NULL ELSE Inc(it)

ARRAY_QUEUE_ITER_NEXT ==
  /\ Idle
  /\ iter # NULL
  /\ iter' = AfterIter(iter)
  /\ UNCHANGED <<aq_item, queueFields, rm_i, data, ret>>

\* Mutant: forgets --aq_len.
RemoveEnd_KeepLen(i) == aq_back' = Store(i) /\ rm_i' = NULL /\ UNCHANGED aq_len

\* ARRAY_QUEUE_ITER_REMOVE: the assignments after the loop, with its final i.
RemoveEnd(i) ==
  /\ aq_back' = Store(i)
  /\ aq_len' = Store(aq_len - 1)
  /\ rm_i' = NULL

\* The last item of the queue goes without moving anything; otherwise the
\* loop starts at the slot under the iterator, which stays where it is.
ARRAY_QUEUE_ITER_REMOVE ==
  /\ Idle
  /\ iter # NULL
  /\ \/ /\ Inc(iter) = aq_back
        /\ iter' = NULL
        /\ RemoveEnd(iter)
     \/ /\ Inc(iter) # aq_back
        /\ rm_i' = iter
        /\ UNCHANGED <<iter, aq_back, aq_len>>
  /\ UNCHANGED <<aq_item, aq_size, aq_front, data, ret>>

\* Mutant: computes i_next without wrapping.
LoopEnds_NoWrap(i) == i + 1 = aq_back

\* The negation of the loop's condition i_next != aq_back, for the new i.
LoopEnds(i) == Inc(i) = aq_back

\* One turn of the do-while: pull the next item back, test the condition.
IterRemoveShift ==
  /\ ~Idle
  /\ LET i_next == Inc(rm_i) IN
       /\ aq_item' = [aq_item EXCEPT ![rm_i] = aq_item[i_next]]
       /\ \/ /\ ~LoopEnds(i_next)
             /\ rm_i' = i_next
             /\ UNCHANGED <<aq_back, aq_len>>
          \/ /\ LoopEnds(i_next)
             /\ RemoveEnd(i_next)
  /\ UNCHANGED <<aq_size, aq_front, iter, data, ret>>

Next ==
  \/ \E siz \in 0..BufLen : ARRAY_QUEUE_INIT(siz)
  \/ \E x \in Item, want \in BOOLEAN : ARRAY_QUEUE_ENQUEUE(x, want)
  \/ \E want \in BOOLEAN : ARRAY_QUEUE_DEQUEUE(want)
  \/ ARRAY_QUEUE_FRONT
  \/ ARRAY_QUEUE_ITER
  \/ IterRead
  \/ ARRAY_QUEUE_ITER_NEXT
  \/ ARRAY_QUEUE_ITER_REMOVE
  \/ IterRemoveShift

Spec == Init /\ [][Next]_vars

\* A macro that has started runs to its end: nothing can preempt the loop.
FairSpec == Spec /\ WF_vars(IterRemoveShift)

----------------------------------------------------------------------------
(* Correctness.                                                            *)

RingSlot == 0..(aq_size - 1)

\* The slot k places behind the front, and how far a slot is behind it.
Ring(k) == (aq_front + k) % aq_size
Offset(s) == (s + aq_size - aq_front) % aq_size

\* Type invariant: every size_type field holds a value of its width, and the
\* indexes array_queue.h dereferences stay inside the caller's buffer.
TypeOK ==
  /\ aq_item \in [Slot -> Item]
  /\ aq_size \in 0..(SizeMod - 1) /\ aq_size <= BufLen
  /\ aq_front \in 0..(SizeMod - 1)
  /\ aq_back \in 0..(SizeMod - 1)
  /\ aq_len \in 0..(SizeMod - 1)
  /\ iter \in Slot \cup {NULL}
  /\ rm_i \in Slot \cup {NULL}
  /\ data \in Item \cup {NULL}
  /\ ret \in BOOLEAN \cup {NULL}

\* The four counters of ARRAY_QUEUE_TYPE_IMPL always describe one window of
\* the ring: aq_back is aq_len slots behind aq_front.  A queue of size 0 keeps
\* everything at 0, so that `% aq_size` is never reached.
WindowInv ==
  /\ aq_len <= aq_size
  /\ aq_size = 0 => aq_front = 0 /\ aq_back = 0
  /\ aq_size # 0 => /\ aq_front \in RingSlot
                    /\ aq_back = Ring(aq_len)

\* A live iterator stands on an item of the window, also in a full ring where
\* aq_front = aq_back, and ARRAY_QUEUE_ITER_REMOVE only moves items between
\* the iterator and the back of the queue.
IterInv ==
  /\ iter # NULL => iter \in RingSlot /\ Offset(iter) < aq_len
  /\ rm_i # NULL => /\ iter # NULL
                    /\ rm_i \in RingSlot
                    /\ Offset(iter) <= Offset(rm_i)
                    /\ Offset(rm_i) + 1 < aq_len

\* Ring-buffer safety of array_queue.h: window and iterators are consistent.
RingInv == WindowInv /\ IterInv

\* While ARRAY_QUEUE_ITER_REMOVE shifts, slot rm_i holds nothing of interest:
\* the queue is what is left of the window without it.
Contents ==
  [j \in 1..(IF Idle THEN aq_len ELSE aq_len - 1) |->
     IF Idle \/ j - 1 < Offset(rm_i) THEN aq_item[Ring(j - 1)]
                                     ELSE aq_item[Ring(j)]]

Fifo == INSTANCE BoundedFifo
          WITH capacity <- aq_size, queue <- Contents,
               cursor <- IF iter = NULL THEN 0 ELSE Offset(iter) + 1

\* Refinement: through wrap-around, full and empty rings, narrowing of
\* size_type and removals in the middle of a walk, the macros behave like a
\* bounded FIFO with a cursor: nothing is lost, duplicated or reordered, and a
\* walk visits every item still queued exactly once.
ImplementsFifo == Fifo!Spec

\* Liveness: the do-while of ARRAY_QUEUE_ITER_REMOVE meets aq_back and ends,
\* although it tests for equality with an index and not for an order.
RemoveReturns == ~Idle ~> Idle
============================================================================
