------------------------------- MODULE RbNode -------------------------------
(***************************************************************************)
(* What rbtree.h and rbtree_compact.h have in common: the nodes, and the   *)
(* accessors of a node, as functions of the tree t they change.            *)
(*                                                                         *)
(* The headers pack a colour bit into a pointer: rb_parent_color in        *)
(* rbtree.h, the left word of rb_child_color in rbtree_compact.h.  Here    *)
(* pointer and colour are two fields, and an accessor changes the fields   *)
(* its name says.  NodeWord shows that the words behave like that.         *)
(***************************************************************************)
EXTENDS Integers, FiniteSets

CONSTANTS Node,   \* the client's nodes
          NULL,
          Val     \* Val[n]: the key stored in node n

ASSUME NodeAssumption == IsFiniteSet(Node)
ASSUME NullAssumption == NULL \notin Node
ASSUME ValAssumption  == Val \in [Node -> Int]

RB_RED == 0
RB_BLACK == 1
RB_LEFT == 0
RB_RIGHT == 1
Dir == {RB_LEFT, RB_RIGHT}
Opp(dir) == 1 - dir          \* dir ^ 1
Ptr == Node \cup {NULL}
Key == {Val[n] : n \in Node}
None == [op |-> "none", arg |-> NULL]

RB_EMPTY(t) == t.root = NULL
IsRed(t, n) == n # NULL /\ t.color[n] = RB_RED
IsBlack(t, n) == ~IsRed(t, n)

\* Mutant: adds the colour to the word instead of masking the old one out.
rb_set_color_Add(t, n, c) == [t EXCEPT !.color[n] = @ + c]

rb_set_color(t, n, c) == [t EXCEPT !.color[n] = c]
rb_set_child(t, n, dir, c) == [t EXCEPT !.child[n][dir] = c]

\* The direction a search for key k takes at node p, whose key is not k.
SearchDir(k, p) == IF k < Val[p] THEN RB_LEFT ELSE RB_RIGHT

\* rbtree.h only.
rb_set_parent(t, n, q) == [t EXCEPT !.parent[n] = q]
rb_set_parent_color(t, n, q, c) == [t EXCEPT !.parent[n] = q, !.color[n] = c]

\* rbtree_compact.h only.
rb_set_left_child_color(t, n, child, c) ==
  [t EXCEPT !.child[n][RB_LEFT] = child, !.color[n] = c]

\* Mutant: copies the pointer without the colour bit.
rb_copy_left_child_color_NoColor(t, dest, src) ==
  [t EXCEPT !.child[dest][RB_LEFT] = t.child[src][RB_LEFT]]

rb_copy_left_child_color(t, dest, src) ==
  [t EXCEPT !.child[dest][RB_LEFT] = t.child[src][RB_LEFT], !.color[dest] = t.color[src]]
rb_set_right_child(t, n, child) == [t EXCEPT !.child[n][RB_RIGHT] = child]
rb_copy_right_child(t, dest, src) == [t EXCEPT !.child[dest][RB_RIGHT] = t.child[src][RB_RIGHT]]
=============================================================================
