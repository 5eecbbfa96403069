---------------------------- MODULE MCRbTreeDrain ----------------------------
(***************************************************************************)
(* RbTree under a client that fills the tree in a given order, then takes  *)
(* the nodes out again in every possible order, and starts over.  The      *)
(* trees are large enough for rb_remove_color to climb and then rotate     *)
(* above the leaves, which trees of fewer than ten nodes never make it do. *)
(***************************************************************************)
EXTENDS RbTree, Sequences

CONSTANTS N,       \* number of nodes
          Strides  \* orders of filling, see Order

VARIABLE todo      \* the nodes still to be inserted, in order

MCNode == 1..N
MCVal == [n \in MCNode |-> n]

\* 1..N counted through in strides of s, N + 1 prime to s: s = 1 ascending,
\* s = N descending.
Order(s) == [i \in 1..N |-> (i * s) % (N + 1)]

DrainInit == Init /\ todo \in {Order(s) : s \in Strides}

Fill ==
  /\ todo # <<>>
  /\ Insert(Head(todo))
  /\ todo' = Tail(todo)

Drain ==
  /\ todo = <<>>
  /\ \E n \in Node : RemoveNode(n)
  /\ UNCHANGED todo

Refill ==
  /\ pc = "idle" /\ linked = {} /\ todo = <<>>
  /\ todo' \in {Order(s) : s \in Strides}
  /\ UNCHANGED vars

Work == Library /\ UNCHANGED todo

DrainNext == Fill \/ Drain \/ Refill \/ Work

DrainSpec == DrainInit /\ [][DrainNext]_<<vars, todo>>
==============================================================================
