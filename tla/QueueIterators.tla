--------------------------- MODULE QueueIterators ---------------------------
(***************************************************************************)
(* A client of array_queue.h with a second iterator, `held`, which it does *)
(* not give up when its item is dequeued, nor when items are removed       *)
(* through the first one.  array_queue.h says nothing about such           *)
(* iterators; this module finds out for how long one can be used.          *)
(*                                                                         *)
(* `owed` is what the walk has still to deliver: the items behind the one  *)
(* held stands on, including items enqueued later and without those taken  *)
(* out since.  It is a history variable, NULL when held is.                *)
(***************************************************************************)
EXTENDS ArrayQueue, Sequences

ASSUME OwedAssumption == NULL \notin Seq(Item)

VARIABLES held, owed

iterVars == <<held, owed>>

\* How many items of the queue the walk has passed, the one under held
\* included; 0 once that one is dequeued, so that held is a slot before the
\* front.
Passed == aq_len - Len(owed)

GiveUp == held' = NULL /\ owed' = NULL

\* s without its k-th element
Drop(s, k) == SubSeq(s, 1, k - 1) \o SubSeq(s, k + 1, Len(s))

\* The client copies its iterator.
Hold ==
  /\ Idle
  /\ iter # NULL
  /\ held' = iter
  /\ owed' = [j \in 1..(aq_len - Offset(iter) - 1) |-> aq_item[Ring(Offset(iter) + j)]]
  /\ UNCHANGED vars

\* ARRAY_QUEUE_ITER_NEXT(q, held)
HeldNext ==
  /\ Idle
  /\ held # NULL
  /\ held' = AfterIter(held)
  /\ owed' = IF owed = <<>> THEN NULL ELSE Tail(owed)
  /\ UNCHANGED vars

\* The enqueue that fills the ring writes into the slot before the front.
HeldEnqueue(x, want) ==
  /\ ARRAY_QUEUE_ENQUEUE(x, want)
  /\ \/ /\ held = NULL \/ ARRAY_QUEUE_IS_FULL
        /\ UNCHANGED iterVars
     \/ /\ held # NULL /\ ~ARRAY_QUEUE_IS_FULL
        /\ IF Passed = 0 /\ aq_len + 1 = aq_size
           THEN GiveUp ELSE held' = held /\ owed' = Append(owed, x)

\* The item under held may go, but not a second one after it.
HeldDequeue(want) ==
  /\ ARRAY_QUEUE_DEQUEUE(want)
  /\ IF held # NULL /\ Passed = 0 /\ ~ARRAY_QUEUE_IS_EMPTY
     THEN GiveUp ELSE UNCHANGED iterVars

\* A removal behind held shortens the rest of the walk; one at held or before
\* it moves held on to the next item, and there must be one.
HeldRemove ==
  /\ ARRAY_QUEUE_ITER_REMOVE
  /\ LET k == Offset(iter) + 1
     IN  \/ held = NULL /\ UNCHANGED iterVars
         \/ held # NULL /\ k > Passed /\ held' = held /\ owed' = Drop(owed, k - Passed)
         \/ held # NULL /\ k <= Passed /\ owed # <<>> /\ held' = held /\ owed' = Tail(owed)
         \/ held # NULL /\ k <= Passed /\ owed = <<>> /\ GiveUp

HeldInit == Init /\ held = NULL /\ owed = NULL

HeldStep ==
  \/ \E siz \in 0..BufLen : ARRAY_QUEUE_INIT(siz) /\ GiveUp
  \/ \E x \in Item, want \in BOOLEAN : HeldEnqueue(x, want)
  \/ \E want \in BOOLEAN : HeldDequeue(want)
  \/ HeldRemove
  \/ Hold
  \/ HeldNext
  \/ /\ ARRAY_QUEUE_FRONT \/ ARRAY_QUEUE_ITER \/ ARRAY_QUEUE_ITER_NEXT \/ IterRead \/ IterRemoveShift
     /\ UNCHANGED iterVars

HeldSpec ==
  /\ HeldInit /\ [][HeldStep]_<<vars, iterVars>>
  /\ WF_vars(IterRemoveShift)     \* as in FairSpec

----------------------------------------------------------------------------
(* Correctness.                                                            *)

\* The items ARRAY_QUEUE_ITER_NEXT delivers from slot s on.
Walk(s) ==
  LET w[n \in Nat] ==
        [t \in Slot |-> IF n = 0 \/ AfterIter(t) = NULL THEN <<>>
                        ELSE <<aq_item[AfterIter(t)]>> \o w[n - 1][AfterIter(t)]]
  IN  w[BufLen][s]

\* An iterator kept by the rules of this module walks over exactly the items
\* that are still to come, each once and in order, and ends after them:
\* dequeueing the item under it is fine until the next dequeue or until the
\* ring fills up, and so are removals through another iterator, unless they
\* leave it without an item.  While its item is queued it points at that item,
\* through all shifts.
HeldWalk ==
  /\ held = NULL <=> owed = NULL
  /\ Idle /\ held # NULL => /\ Walk(held) = owed
                            /\ Passed > 0 => held = Ring(Passed - 1)
============================================================================
