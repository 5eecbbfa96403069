------------------------------- MODULE RbTree -------------------------------
(***************************************************************************)
(* rbtree/rbtree.h and rbtree.c: an intrusive red-black tree with parent   *)
(* pointers.                                                               *)
(*                                                                         *)
(* `tree` is the memory the library works on: the RB_ROOT and the RB_NODE  *)
(* embedded in every node, with rb_parent_color as the two fields parent   *)
(* and color (see RbNode).                                                 *)
(*                                                                         *)
(* Every turn of a loop is one step, with the locals that live across      *)
(* turns in cur, parent and target.  Calls do not overlap: a call runs     *)
(* from pc = "idle" back to pc = "idle".                                   *)
(*                                                                         *)
(* A node outside the tree belongs to the client, who may do anything to   *)
(* its memory.  Poison stands for that: links that lead nowhere but back,  *)
(* and black, so that whatever rb_insert fails to overwrite shows.         *)
(***************************************************************************)
EXTENDS RbNode

VARIABLES tree,    \* root, and child, parent, color of every node
          linked,  \* client's ledger: the nodes it has handed to the tree
          pc,      \* where the running call is
          call,    \* the running call, [op, arg]
          target,  \* the node being inserted or removed
          cur,     \* p of the searches and walks, node of the fix-up loops
          parent,  \* parent of rb_remove_color
          ret      \* what the last call returned

vars == <<tree, linked, pc, call, target, cur, parent, ret>>

-----------------------------------------------------------------------------
(* Links and rotations.                                                    *)

rb_set_root(t, n) == [t EXCEPT !.root = n]
DirOf(t, q, n) == IF t.child[q][RB_LEFT] = n THEN RB_LEFT ELSE RB_RIGHT

Poison(t, n) ==
  [t EXCEPT !.child[n] = [dir \in Dir |-> n], !.parent[n] = n, !.color[n] = RB_BLACK]

\* Mutant: the inner grandchild keeps its old parent.
rb_rotate_NoInner(t, node, dir) ==
  LET pivot == t.child[node][Opp(dir)]
      up    == t.parent[node]
      t1 == rb_set_child(t, node, Opp(dir), t.child[pivot][dir])
      t2 == rb_set_parent(t1, pivot, up)
      t3 == IF up = NULL THEN rb_set_root(t2, pivot)
            ELSE rb_set_child(t2, up, DirOf(t2, up, node), pivot)
  IN  rb_set_parent(rb_set_child(t3, pivot, dir, node), node, pivot)

\* rb_rotate: node goes down in `dir`, its other child takes its place.
rb_rotate(t, node, dir) ==
  LET pivot == t.child[node][Opp(dir)]
      inner == t.child[pivot][dir]
      up    == t.parent[node]
      t1 == rb_set_child(t, node, Opp(dir), inner)
      t2 == IF inner = NULL THEN t1 ELSE rb_set_parent(t1, inner, node)
      t3 == rb_set_parent(t2, pivot, up)
      t4 == IF up = NULL THEN rb_set_root(t3, pivot)
            ELSE rb_set_child(t3, up, IF t3.child[up][dir] = node THEN dir ELSE Opp(dir), pivot)
      t5 == rb_set_child(t4, pivot, dir, node)
  IN  rb_set_parent(t5, node, pivot)

rb_change_child(t, q, old, new) == rb_set_child(t, q, DirOf(t, q, old), new)

\* Where the subtree of `old` hung, hangs `new` (the tail of rb_remove).
ReplaceChild(t, q, old, new) ==
  IF q = NULL THEN rb_set_root(t, new) ELSE rb_change_child(t, q, old, new)

-----------------------------------------------------------------------------
(* Calling and returning.                                                  *)

EmptyTree == [root   |-> NULL,
              child  |-> [n \in Node |-> [dir \in Dir |-> n]],
              parent |-> [n \in Node |-> n],
              color  |-> [n \in Node |-> RB_BLACK]]

Init ==
  /\ tree = EmptyTree
  /\ linked = {}
  /\ pc = "idle"
  /\ call = None
  /\ target = NULL
  /\ cur = NULL
  /\ parent = NULL
  /\ ret = NULL

\* The client starts over; the nodes of the old tree are its own again.
RB_ROOT_INIT ==
  /\ pc = "idle"
  /\ tree' = EmptyTree
  /\ linked' = {}
  /\ UNCHANGED <<pc, call, target, cur, parent, ret>>

Call(op, arg) ==
  /\ pc = "idle"
  /\ call' = [op |-> op, arg |-> arg]
  /\ ret' = NULL

Return(r) ==
  /\ pc' = "idle"
  /\ call' = None
  /\ target' = NULL
  /\ cur' = NULL
  /\ parent' = NULL
  /\ ret' = r

-----------------------------------------------------------------------------
(* name##_rb_insert and rb_insert_color.                                   *)

\* Mutant: the child words of the client's node are not cleared.
MakeLeaf_KeepChildren(t, n, q) == rb_set_parent_color(t, n, q, RB_RED)

\* Node n becomes a red leaf; `t` already points at it from q or from the root.
MakeLeaf(t, n, q) ==
  [rb_set_parent_color(t, n, q, RB_RED) EXCEPT !.child[n] = [dir \in Dir |-> NULL]]

\* n may be in the tree already: the search then ends at n itself.
Insert(n) ==
  /\ Call("insert", n)
  /\ pc' = "insert_descend"
  /\ target' = n
  /\ cur' = tree.root
  /\ UNCHANGED <<tree, linked, parent>>

\* t is the tree with a link from q, or from the root, to the new node.
Link(t, q) ==
  /\ tree' = MakeLeaf(t, target, q)
  /\ linked' = linked \cup {target}
  /\ pc' = "insert_color"
  /\ cur' = target
  /\ UNCHANGED <<call, target, parent, ret>>

InsertDescend ==
  /\ pc = "insert_descend"
  /\ LET dir == SearchDir(Val[target], cur)
         p   == tree.child[cur][dir]
     IN  \/ /\ cur = NULL
            /\ Link(rb_set_root(tree, target), NULL)
         \/ /\ cur # NULL /\ Val[target] = Val[cur]
            /\ Return(cur)
            /\ UNCHANGED <<tree, linked>>
         \/ /\ cur # NULL /\ Val[target] # Val[cur] /\ p # NULL
            /\ cur' = p
            /\ UNCHANGED <<tree, linked, pc, call, target, parent, ret>>
         \/ /\ cur # NULL /\ Val[target] # Val[cur] /\ p = NULL
            /\ Link(rb_set_child(tree, cur, dir, target), cur)

\* Mutant: the grandparent stays black.
InsertCase1_KeepBlack(t, q, uncle, g) ==
  rb_set_color(rb_set_color(t, q, RB_BLACK), uncle, RB_BLACK)

\* Uncle red: push the red up two levels.
InsertCase1(t, q, uncle, g) ==
  rb_set_color(rb_set_color(rb_set_color(t, q, RB_BLACK), uncle, RB_BLACK), g, RB_RED)

\* Uncle black: straighten the path when it is bent, then rotate at the
\* grandparent.  q and n are parent and node after the swap of case 2.
InsertCase23(t, n, q, g, dir) ==
  LET bent == t.child[q][Opp(dir)] = n
      t1 == IF bent THEN rb_rotate(t, q, dir) ELSE t
      q1 == IF bent THEN n ELSE q
  IN  rb_rotate(rb_set_color(rb_set_color(t1, q1, RB_BLACK), g, RB_RED), g, Opp(dir))

InsertColor ==
  /\ pc = "insert_color"
  /\ LET q     == tree.parent[cur]
         g     == tree.parent[q]
         dir   == DirOf(tree, g, q)
         uncle == tree.child[g][Opp(dir)]
     IN  \/ /\ IsBlack(tree, q)
            /\ tree' = rb_set_color(tree, tree.root, RB_BLACK)
            /\ Return(target)
         \/ /\ IsRed(tree, q)
            /\ IsRed(tree, uncle)
            /\ tree' = InsertCase1(tree, q, uncle, g)
            /\ cur' = g
            /\ UNCHANGED <<pc, call, target, parent, ret>>
         \/ /\ IsRed(tree, q)
            /\ IsBlack(tree, uncle)
            /\ tree' = InsertCase23(tree, cur, q, g, dir)
            /\ cur' = IF tree.child[q][Opp(dir)] = cur THEN q ELSE cur
            /\ UNCHANGED <<pc, call, target, parent, ret>>
  /\ UNCHANGED linked

-----------------------------------------------------------------------------
(* name##_rb_find, the search of name##_rb_remove, and rb_remove.          *)

Find(op, k) ==
  /\ Call(op, k)
  /\ pc' = "find"
  /\ cur' = tree.root
  /\ UNCHANGED <<tree, linked, target, parent>>

FindStep ==
  /\ pc = "find"
  /\ \/ /\ cur = NULL
        /\ Return(NULL)
     \/ /\ cur # NULL
        /\ Val[cur] # call.arg
        /\ cur' = tree.child[cur][SearchDir(call.arg, cur)]
        /\ UNCHANGED <<pc, call, target, parent, ret>>
     \/ /\ cur # NULL
        /\ Val[cur] = call.arg
        /\ call.op = "find"
        /\ Return(cur)
     \/ /\ cur # NULL
        /\ Val[cur] = call.arg
        /\ call.op = "remove"
        /\ pc' = "rb_remove"
        /\ target' = cur
        /\ cur' = NULL
        /\ UNCHANGED <<call, parent, ret>>
  /\ UNCHANGED <<tree, linked>>

\* The client calls rb_remove itself, on a node it holds.
RemoveNode(n) ==
  /\ n \in linked
  /\ Call("rb_remove", n)
  /\ pc' = "rb_remove"
  /\ target' = n
  /\ UNCHANGED <<tree, linked, cur, parent>>

\* The node is out of tree t.  A black one leaves a black too few above
\* `replacement`, below q; otherwise rb_remove is done.
Unlink(t, deleted_color, q, replacement) ==
  /\ linked' = linked \ {target}
  /\ \/ /\ deleted_color = RB_RED
        /\ tree' = Poison(t, target)
        /\ Return(target)
     \/ /\ deleted_color = RB_BLACK
        /\ tree' = t
        /\ pc' = "remove_color"
        /\ parent' = q
        /\ cur' = replacement
        /\ UNCHANGED <<call, target, ret>>

\* The only child, or NULL, takes the place of n.
Splice(t, n, transplanter) ==
  LET q == t.parent[n]
  IN  ReplaceChild(IF transplanter = NULL THEN t ELSE rb_set_parent(t, transplanter, q),
                   q, n, transplanter)

RbRemove ==
  /\ pc = "rb_remove"
  /\ LET left  == tree.child[target][RB_LEFT]
         right == tree.child[target][RB_RIGHT]
         transplanter == IF left = NULL THEN right ELSE left
     IN  \/ /\ left = NULL \/ right = NULL
            /\ Unlink(Splice(tree, target, transplanter), tree.color[target],
                      tree.parent[target], transplanter)
         \/ /\ left # NULL /\ right # NULL
            /\ pc' = "successor"
            /\ cur' = right
            /\ UNCHANGED <<tree, linked, call, target, parent, ret>>

\* Where the successor s of n loses its black: at its old parent, or at s
\* itself when that parent was n.
HoleParent(t, n, s) == IF t.parent[s] = n THEN s ELSE t.parent[s]

\* Mutant: n's right child keeps n as its parent.
Detach_KeepParent(t, n, s) ==
  LET q     == t.parent[s]
      child == t.child[s][RB_RIGHT]
      t1 == rb_change_child(t, q, s, child)
      t2 == IF child = NULL THEN t1 ELSE rb_set_parent(t1, child, q)
  IN  IF q = n THEN t ELSE rb_set_child(t2, s, RB_RIGHT, t.child[n][RB_RIGHT])

\* Take s out from below n's right child, leaving its right child there.
Detach(t, n, s) ==
  LET q     == t.parent[s]
      child == t.child[s][RB_RIGHT]
      right == t.child[n][RB_RIGHT]
      t1 == rb_change_child(t, q, s, child)
      t2 == IF child = NULL THEN t1 ELSE rb_set_parent(t1, child, q)
  IN  IF q = n THEN t
      ELSE rb_set_parent(rb_set_child(t2, s, RB_RIGHT, right), right, s)

\* s takes n's left subtree, parent, colour and place.
Transplant(t, n, s) ==
  LET left == t.child[n][RB_LEFT]
      t1 == rb_set_parent(rb_set_child(Detach(t, n, s), s, RB_LEFT, left), left, s)
      t2 == rb_set_color(rb_set_parent(t1, s, t1.parent[n]), s, t1.color[n])
  IN  ReplaceChild(t2, t.parent[n], n, s)

Successor ==
  /\ pc = "successor"
  /\ \/ /\ tree.child[cur][RB_LEFT] # NULL
        /\ cur' = tree.child[cur][RB_LEFT]
        /\ UNCHANGED <<tree, linked, pc, call, target, parent, ret>>
     \/ /\ tree.child[cur][RB_LEFT] = NULL
        /\ Unlink(Transplant(tree, target, cur), tree.color[cur],
                  HoleParent(tree, target, cur), tree.child[cur][RB_RIGHT])

-----------------------------------------------------------------------------
(* rb_remove_color.                                                        *)

\* Sibling red: rotate it up, so that the sibling is black.
RemoveCase1(t, q, sibling, dir) ==
  rb_rotate(rb_set_color(rb_set_color(t, sibling, RB_BLACK), q, RB_RED), q, dir)

\* The near nephew is the red one: rotate it into the sibling's place.
RemoveCase3(t, sibling, dir) ==
  rb_rotate(rb_set_color(rb_set_color(t, t.child[sibling][dir], RB_BLACK),
                         sibling, RB_RED), sibling, Opp(dir))

\* Mutant: the sibling turns black whatever the parent was.
RemoveCase4_Black(t, q, sibling, dir) ==
  LET t1 == rb_set_color(rb_set_color(t, sibling, RB_BLACK), q, RB_BLACK)
      t2 == rb_set_color(t1, t1.child[sibling][Opp(dir)], RB_BLACK)
  IN  rb_rotate(t2, q, dir)

\* The far nephew is red: rotate the sibling up in the parent's colour.
RemoveCase4(t, q, sibling, dir) ==
  LET t1 == rb_set_color(t, sibling, t.color[q])
      t2 == rb_set_color(t1, q, RB_BLACK)
      t3 == rb_set_color(t2, t2.child[sibling][Opp(dir)], RB_BLACK)
  IN  rb_rotate(t3, q, dir)

\* Mutant: climbs past the root.
RemoveLoops_NoRoot == IsBlack(tree, cur)

\* while ((node == NULL || black) && node != root)
RemoveLoops == IsBlack(tree, cur) /\ cur # tree.root

\* The tree and the sibling once case 1 is out of the way.
AfterCase1(t, q, dir) ==
  LET sibling == t.child[q][Opp(dir)]
  IN  IF t.color[sibling] = RB_RED THEN RemoveCase1(t, q, sibling, dir) ELSE t

\* The paint of the last line and the return of rb_remove.
RemoveDone(t, node) ==
  /\ tree' = Poison(IF node = NULL THEN t ELSE rb_set_color(t, node, RB_BLACK), target)
  /\ Return(target)

\* One turn of the loop below q, on tree t, where the sibling is black.
RemoveCases(t, q, dir) ==
  LET sibling == t.child[q][Opp(dir)]
      far     == t.child[sibling][Opp(dir)]
      near    == t.child[sibling][dir]
      t3      == IF IsBlack(t, far) THEN RemoveCase3(t, sibling, dir) ELSE t
      t4      == RemoveCase4(t3, q, t3.child[q][Opp(dir)], dir)
  IN  \/ /\ IsBlack(t, far) /\ IsBlack(t, near)           \* case 2
         /\ tree' = rb_set_color(t, sibling, RB_RED)
         /\ cur' = q
         /\ parent' = t.parent[q]
         /\ UNCHANGED <<pc, call, target, ret>>
      \/ /\ IsRed(t, far) \/ IsRed(t, near)               \* cases 3 and 4
         /\ RemoveDone(t4, t4.root)

RemoveColor ==
  /\ pc = "remove_color"
  /\ \/ ~RemoveLoops /\ RemoveDone(tree, cur)
     \/ /\ RemoveLoops
        /\ LET dir == DirOf(tree, parent, cur)
           IN  \E t \in {AfterCase1(tree, parent, dir)} : RemoveCases(t, parent, dir)
  /\ UNCHANGED linked

-----------------------------------------------------------------------------
(* rb_iter (rb_first, rb_last) and rb_iter_next (rb_next, rb_prev).        *)

\* The side rb_iter runs down to; rb_iter_next steps to the other side first.
DownDir(op) == IF op \in {"first", "next"} THEN RB_LEFT ELSE RB_RIGHT

Iter(op) ==
  /\ Call(op, NULL)
  /\ pc' = "iter_down"
  /\ cur' = tree.root
  /\ UNCHANGED <<tree, linked, target, parent>>

IterNext(op, n) ==
  /\ n \in linked \cup {NULL}
  /\ Call(op, n)
  /\ LET p == tree.child[n][Opp(DownDir(op))]
     IN  \/ n = NULL /\ pc' = "iter_down" /\ cur' = NULL
         \/ n # NULL /\ p # NULL /\ pc' = "iter_down" /\ cur' = p
         \/ n # NULL /\ p = NULL /\ pc' = "iter_up" /\ cur' = n
  /\ UNCHANGED <<tree, linked, target, parent>>

IterDown ==
  /\ pc = "iter_down"
  /\ LET q == tree.child[cur][DownDir(call.op)]
     IN  \/ cur = NULL /\ Return(NULL)
         \/ cur # NULL /\ q = NULL /\ Return(cur)
         \/ /\ cur # NULL /\ q # NULL
            /\ cur' = q
            /\ UNCHANGED <<pc, call, target, parent, ret>>
  /\ UNCHANGED <<tree, linked>>

\* Mutant: climbs one level only.
Climbs_Never(p) == FALSE

\* The walk goes on up while it comes from the side it walks towards.
Climbs(p) == p # NULL /\ tree.child[p][Opp(DownDir(call.op))] = cur

IterUp ==
  /\ pc = "iter_up"
  /\ LET p == tree.parent[cur]
     IN  \/ ~Climbs(p) /\ Return(p)
         \/ Climbs(p) /\ cur' = p /\ UNCHANGED <<pc, call, target, parent, ret>>
  /\ UNCHANGED <<tree, linked>>

-----------------------------------------------------------------------------
Client ==
  \/ RB_ROOT_INIT
  \/ \E n \in Node : Insert(n) \/ RemoveNode(n)
  \/ \E k \in Key, op \in {"find", "remove"} : Find(op, k)
  \/ \E op \in {"first", "last"} : Iter(op)
  \/ \E op \in {"next", "prev"}, n \in Ptr : IterNext(op, n)

Library ==
  \/ InsertDescend \/ InsertColor
  \/ FindStep \/ RbRemove \/ Successor \/ RemoveColor
  \/ IterDown \/ IterUp

Next == Client \/ Library

Spec == Init /\ [][Next]_vars

\* A call that has started keeps running; the client need not call again.
FairSpec == Spec /\ WF_vars(Library)

-----------------------------------------------------------------------------
(* Correctness.                                                            *)

Tree == [root : Ptr, child : [Node -> [Dir -> Ptr]],
         parent : [Node -> Ptr], color : [Node -> {RB_RED, RB_BLACK}]]

\* Type invariant of the memory of rbtree.c and the locals of its functions.
TypeOK ==
  /\ tree \in Tree
  /\ linked \subseteq Node
  /\ pc \in {"idle", "insert_descend", "insert_color", "find", "rb_remove",
             "successor", "remove_color", "iter_down", "iter_up"}
  /\ call \in [op : {"none", "insert", "find", "remove", "rb_remove",
                     "first", "last", "next", "prev"}, arg : Ptr \cup Key]
  /\ {target, cur, parent, ret} \subseteq Ptr

\* n and everything above it, along the parent pointers.
Ancestors(n) ==
  LET up[k \in Nat] ==
        [m \in Ptr |-> IF k = 0 \/ m = NULL THEN {} ELSE {m} \cup up[k - 1][tree.parent[m]]]
  IN  up[Cardinality(Node)][n]

\* The child links and the parent links are the same tree, it holds exactly
\* the nodes inserted and not removed, and all of them hang below the root.
Links ==
  /\ RB_EMPTY(tree) <=> linked = {}
  /\ ~RB_EMPTY(tree) => tree.root \in linked /\ tree.parent[tree.root] = NULL
  /\ \A n \in linked :
       /\ tree.root \in Ancestors(n)
       /\ \A dir \in Dir : LET c == tree.child[n][dir]
                           IN  c # NULL => c \in linked /\ tree.parent[c] = n
       /\ n # tree.root => /\ tree.parent[n] \in linked
                           /\ \E dir \in Dir : tree.child[tree.parent[n]][dir] = n
       /\ tree.child[n][RB_LEFT] = tree.child[n][RB_RIGHT] => tree.child[n][RB_LEFT] = NULL

\* A node is below an ancestor on the side its key says; keys are distinct.
SearchOrder ==
  \A n \in linked : LET above == Ancestors(n) IN
    \A a \in above \ {n} :
      /\ tree.child[a][RB_LEFT] \in above <=> Val[n] < Val[a]
      /\ tree.child[a][RB_RIGHT] \in above <=> Val[n] > Val[a]

\* After every loop turn of rb_insert_color and rb_remove_color, after every
\* rotation and after the pointer surgery of rb_remove, the links form one
\* search tree of the right nodes.
TreeShape == Links /\ SearchOrder

\* A red node has a black parent, and the root is black, except where a
\* fix-up loop is working: at the node rb_insert_color pushes up, and around
\* the node whose black rb_remove_color is about to repay.
RedRule ==
  \A n \in linked :
    IsRed(tree, n) => \/ tree.parent[n] # NULL /\ IsBlack(tree, tree.parent[n])
                      \/ pc = "insert_color" /\ cur = n
                      \/ pc = "remove_color" /\ cur \in {n, tree.parent[n]}

\* The one black missing while rb_remove_color runs: on every path through the
\* link it is working below.
Missing(n, dir) ==
  IF /\ pc = "remove_color"
     /\ IF cur # NULL THEN cur \in Ancestors(n)
        ELSE n = parent /\ dir = DirOf(tree, parent, NULL)
  THEN 1 ELSE 0

Blacks(n) == Cardinality({a \in Ancestors(n) : IsBlack(tree, a)})

\* Every path from the root to a NULL link passes the same number of black
\* nodes, in every turn of both loops, counting the black still owed.
BlackRule ==
  LET ends == {e \in linked \X Dir : tree.child[e[1]][e[2]] = NULL}
  IN  Cardinality({Blacks(e[1]) + Missing(e[1], e[2]) : e \in ends}) <= 1

\* The red-black rules, with the exceptions of the running fix-up loop.
ColorRules == RedRule /\ BlackRule

\* rbtree.c:99-102 and the unchecked gparent of rb_insert_color: the nodes the
\* fix-up loops dereference without a test are there.
NoNullDereference ==
  /\ pc = "insert_color" /\ IsRed(tree, tree.parent[cur])
       => tree.parent[tree.parent[cur]] # NULL
  /\ pc = "remove_color" /\ RemoveLoops =>
       /\ parent # NULL
       /\ LET sibling == tree.child[parent][Opp(DirOf(tree, parent, cur))]
          IN  /\ sibling # NULL
              /\ IsRed(tree, sibling) => NULL \notin {tree.child[sibling][dir] : dir \in Dir}

Set == INSTANCE OrderedSet
         WITH nodes <- linked,
              call <- IF pc \in {"insert_color", "remove_color"}
                      THEN [op |-> "reply", arg |-> target] ELSE call

\* Refinement: every call answers as the ordered set does.  Insert refuses a
\* second node with the key and names the first, find and remove find exactly
\* the keys present, and rb_first, rb_last, rb_next, rb_prev give the
\* neighbours in key order, whatever rotations went before.
ImplementsOrderedSet == Set!Spec

\* Liveness: every call returns.  The fix-up loops climb, and a search or a
\* walk never turns round.
CallReturns == pc # "idle" ~> pc = "idle"
=============================================================================
