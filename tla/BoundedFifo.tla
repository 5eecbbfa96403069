---------------------------- MODULE BoundedFifo ----------------------------
(***************************************************************************)
(* What array_queue.h promises its client: a first-in first-out queue of   *)
(* at most `capacity` items with one cursor walking over it.  The cursor   *)
(* is 0 when the walk has ended, otherwise the position of the item the    *)
(* walk is at; it survives enqueues, dequeues of earlier items, and the    *)
(* removal of the item it points at.                                       *)
(***************************************************************************)
EXTENDS Naturals, Sequences

CONSTANTS Item,   \* what the queue stores
          NULL    \* "nothing read / nothing reported yet"

VARIABLES capacity,  \* how many items fit
          queue,     \* the items, oldest first
          cursor,    \* position of the walk, 0 once it has ended
          data,      \* what the last read operation delivered
          ret        \* the success flag the last reporting operation delivered

fifoVars == <<capacity, queue, cursor, data, ret>>

Report(want, val) == ret' = IF want THEN val ELSE ret

Fresh == capacity \in Nat /\ queue = <<>> /\ cursor = 0

Init == Fresh /\ data = NULL /\ ret = NULL

Reset == Fresh' /\ UNCHANGED <<data, ret>>

Enqueue(x, want) ==
  /\ queue' = IF Len(queue) = capacity THEN queue ELSE Append(queue, x)
  /\ Report(want, Len(queue) # capacity)
  /\ UNCHANGED <<capacity, cursor, data>>

Dequeue(want) ==
  \/ /\ queue = <<>>
     /\ Report(want, FALSE)
     /\ UNCHANGED <<capacity, queue, cursor, data>>
  \/ /\ queue # <<>>
     /\ data' = Head(queue)
     /\ queue' = Tail(queue)
     /\ cursor' = IF cursor = 0 THEN 0 ELSE cursor - 1
     /\ Report(want, TRUE)
     /\ UNCHANGED capacity

Front ==
  /\ queue # <<>>
  /\ data' = Head(queue)
  /\ UNCHANGED <<capacity, queue, cursor, ret>>

StartWalk ==
  /\ cursor' = IF queue = <<>> THEN 0 ELSE 1
  /\ UNCHANGED <<capacity, queue, data, ret>>

ReadAtCursor ==
  /\ cursor # 0
  /\ data' = queue[cursor]
  /\ UNCHANGED <<capacity, queue, cursor, ret>>

Advance ==
  /\ cursor # 0
  /\ cursor' = IF cursor = Len(queue) THEN 0 ELSE cursor + 1
  /\ UNCHANGED <<capacity, queue, data, ret>>

RemoveAtCursor ==
  /\ cursor # 0
  /\ queue' = [j \in 1..(Len(queue) - 1) |-> IF j < cursor THEN queue[j] ELSE queue[j + 1]]
  /\ cursor' = IF cursor = Len(queue) THEN 0 ELSE cursor
  /\ UNCHANGED <<capacity, data, ret>>

Next ==
  \/ Reset \/ Front \/ StartWalk \/ ReadAtCursor \/ Advance \/ RemoveAtCursor
  \/ \E want \in BOOLEAN : Dequeue(want) \/ \E x \in Item : Enqueue(x, want)

Spec == Init /\ [][Next]_fifoVars
============================================================================
