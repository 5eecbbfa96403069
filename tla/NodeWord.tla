------------------------------ MODULE NodeWord ------------------------------
(***************************************************************************)
(* How rbtree.h and rbtree_compact.h pack a colour into a pointer word:    *)
(* rb_parent_color of the one, rb_child_color[2] of the other.  A word is  *)
(* an intptr_t, here its bits as a number below WordMod; a pointer is the  *)
(* address it holds, and NULL is 0.                                        *)
(*                                                                         *)
(* The accessors of both headers are applied in any order to nodes whose   *)
(* words start as anything, as the client's memory does.  RbNode has the   *)
(* same accessors on separate fields, which is what the trees are modelled *)
(* with.                                                                   *)
(***************************************************************************)
EXTENDS Integers

CONSTANTS Addr,     \* the addresses of the nodes
          WordMod   \* 2^w for a pointer of w bits

ASSUME WordAssumption == WordMod \in Nat /\ WordMod % 2 = 0

\* The lowest bit of a pointer is free only where nodes have even addresses.
\* Neither header says or checks it, and a target with byte alignment need not
\* give it.
ASSUME AlignAssumption == Addr \subseteq {a \in 1..(WordMod - 1) : a % 2 = 0}

VARIABLES header,            \* the header the program includes; it can be only one
          rb_parent_color,   \* of every node, as in rbtree.h
          rb_child_color     \* of every node and side, as in rbtree_compact.h

vars == <<header, rb_parent_color, rb_child_color>>

Word == 0..(WordMod - 1)

Fields == INSTANCE RbNode WITH Node <- Addr, NULL <- 0, Val <- [a \in Addr |-> a]
Dir == Fields!Dir
Ptr == Fields!Ptr
Color == {Fields!RB_RED, Fields!RB_BLACK}

-----------------------------------------------------------------------------
LowBit(w) == w % 2                                          \* w & 0x1
Address(w) == w - (w % 2)                                   \* w & ~0x1
WithBit(p, c) == IF p % 2 = 1 THEN p ELSE p + c             \* p | c for a bit c

\* Mutant: the new pointer comes without the old colour.
SetPtr_Plain(w, p) == p

\* Replace the pointer of a word, or its colour.
SetPtr(w, p) == WithBit(p, LowBit(w))

SetBit(w, c) == WithBit(Address(w), c)

(* rbtree.h *)
SetParentWord(n, w) ==
  /\ header = "rbtree"
  /\ rb_parent_color' = [rb_parent_color EXCEPT ![n] = w]
  /\ UNCHANGED <<header, rb_child_color>>

rb_set_parent(n, p) == SetParentWord(n, SetPtr(rb_parent_color[n], p))
rb_set_parent_color(n, p, c) == SetParentWord(n, WithBit(p, LowBit(c)))
rb_set_color(n, c) == SetParentWord(n, SetBit(rb_parent_color[n], c))

(* rbtree_compact.h; L and R are the left and the right word. *)
L == Fields!RB_LEFT
R == Fields!RB_RIGHT
SetChildWord(n, dir, w) ==
  /\ header = "compact"
  /\ rb_child_color' = [rb_child_color EXCEPT ![n][dir] = w]
  /\ UNCHANGED <<header, rb_parent_color>>

compact_rb_set_child(n, dir, p) == SetChildWord(n, dir, SetPtr(rb_child_color[n][dir], p))
rb_set_left_child_color(n, p, c) == SetChildWord(n, L, WithBit(p, c))
rb_copy_left_child_color(dest, src) == SetChildWord(dest, L, rb_child_color[src][L])
rb_set_right_child(n, p) == SetChildWord(n, R, p)
rb_copy_right_child(dest, src) == SetChildWord(dest, R, rb_child_color[src][R])
compact_rb_set_color(n, c) == SetChildWord(n, L, SetBit(rb_child_color[n][L], c))

NoParent == [n \in Addr |-> 0]
NoChild == [n \in Addr |-> [dir \in Dir |-> 0]]

Init ==
  \/ header = "rbtree" /\ rb_parent_color \in [Addr -> Word] /\ rb_child_color = NoChild
  \/ header = "compact" /\ rb_child_color \in [Addr -> [Dir -> Word]] /\ rb_parent_color = NoParent

ParentStep(n) ==
  \E p \in Ptr, c \in Color : rb_set_parent(n, p) \/ rb_set_parent_color(n, p, c) \/ rb_set_color(n, c)

ChildStep(n) ==
  \/ \E p \in Ptr, dir \in Dir : compact_rb_set_child(n, dir, p)
  \/ \E p \in Ptr, c \in Color : rb_set_left_child_color(n, p, c)
  \/ \E p \in Ptr : rb_set_right_child(n, p)
  \/ \E src \in Addr : rb_copy_left_child_color(n, src) \/ rb_copy_right_child(n, src)
  \/ \E c \in Color : compact_rb_set_color(n, c)

Next == \E n \in Addr : ParentStep(n) \/ ChildStep(n)

Spec == Init /\ [][Next]_vars

-----------------------------------------------------------------------------
(* Correctness.                                                            *)

\* What the getters rb_parent, rb_child and rb_color read.
ParentView ==
  [parent |-> [n \in Addr |-> Address(rb_parent_color[n])],
   color  |-> [n \in Addr |-> LowBit(rb_parent_color[n])]]
ChildView ==
  [child |-> [n \in Addr |-> [dir \in Dir |-> Address(rb_child_color[n][dir])]],
   color |-> [n \in Addr |-> LowBit(rb_child_color[n][L])]]

\* What the getters of rbtree.h see of a step.
ParentStepFaithful ==
  \A n \in Addr, p \in Ptr, c \in Color :
    /\ rb_set_parent(n, p) => ParentView' = Fields!rb_set_parent(ParentView, n, p)
    /\ rb_set_parent_color(n, p, c) => ParentView' = Fields!rb_set_parent_color(ParentView, n, p, c)
    /\ rb_set_color(n, c) => ParentView' = Fields!rb_set_color(ParentView, n, c)

\* The same for rbtree_compact.h, where the colour lives in the left word only
\* and the lowest bit of the right one is never looked at.
ChildStepFaithful ==
  \A n, src \in Addr, p \in Ptr, c \in Color :
    /\ \A dir \in Dir : compact_rb_set_child(n, dir, p) =>
         ChildView' = Fields!rb_set_child(ChildView, n, dir, p)
    /\ rb_set_left_child_color(n, p, c) =>
         ChildView' = Fields!rb_set_left_child_color(ChildView, n, p, c)
    /\ rb_copy_left_child_color(n, src) =>
         ChildView' = Fields!rb_copy_left_child_color(ChildView, n, src)
    /\ rb_set_right_child(n, p) => ChildView' = Fields!rb_set_right_child(ChildView, n, p)
    /\ rb_copy_right_child(n, src) => ChildView' = Fields!rb_copy_right_child(ChildView, n, src)
    /\ compact_rb_set_color(n, c) => ChildView' = Fields!rb_set_color(ChildView, n, c)

\* Whatever the words held before, the getters see an accessor change the field
\* it names and no other: a colour survives every change of a pointer, and a
\* pointer every change of the colour.
WordsFaithful == [][ParentStepFaithful /\ ChildStepFaithful]_vars
=============================================================================
