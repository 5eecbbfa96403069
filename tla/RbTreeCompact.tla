--------------------------- MODULE RbTreeCompact ---------------------------
(***************************************************************************)
(* rbtree/rbtree_compact.h and rbtree_compact.c: the red-black tree without *)
(* parent pointers.  A node is two words, the left one with the colour in   *)
(* its low bit: the fields child[n] and color[n] (see RbNode).              *)
(*                                                                          *)
(* What the parent pointers did is done by an RB_PATH, the stack of nodes   *)
(* and directions from the root.  rp is that stack up to rp->cur; entries   *)
(* above are written before they are read again.  The entry at the bottom   *)
(* is {NULL, ?}: RB_PATH_INIT leaves its dir uninitialised.                 *)
(*                                                                          *)
(* The client keeps one RB_PATH, standing at the node `at` that rb_first,   *)
(* rb_last, rb_next, rb_prev or RB_FIND returned with it, and drops it when *)
(* it changes the tree.  RB_INSERT and RB_REMOVE use a stack of their own,  *)
(* which therefore shares the variable rp.                                  *)
(*                                                                          *)
(* As in RbTree, a turn of a loop is a step, calls do not overlap, and the  *)
(* memory of nodes outside the tree is the client's, see Poison there.      *)
(***************************************************************************)
EXTENDS RbNode, FiniteSets, Sequences

\* An uninitialised direction, written NULL, is no direction.
ASSUME DirAssumption == NULL \notin Dir

VARIABLES tree,    \* root, and child and color of every node
          linked,  \* client's ledger: the nodes it has handed to the tree
          rp,      \* the RB_PATH in use
          at,      \* the node the client's RB_PATH stands at, or NULL
          pc,      \* where the running call is
          call,    \* the running call, [op, arg]
          target,  \* the node being inserted or removed
          cur,     \* p, successor, or node of the running loop
          ret      \* what the last call returned

vars == <<tree, linked, rp, at, pc, call, target, cur, ret>>

-----------------------------------------------------------------------------
(* The stack, and rotations.                                                *)

Poison(t, n) == [t EXCEPT !.child[n] = [dir \in Dir |-> n], !.color[n] = RB_BLACK]

RB_PATH_INIT == <<[parent |-> NULL, dir |-> NULL]>>
Push(path, n, dir) == Append(path, [parent |-> n, dir |-> dir])
Pop(path, k) == SubSeq(path, 1, Len(path) - k)
Entry(path, k) == path[Len(path) + k]        \* rp->cur[k]

\* rb_rotate returns the pivot; the caller hangs it where node hung.
Pivot(t, node, dir) == t.child[node][Opp(dir)]

\* Mutant: the inner grandchild is dropped.
rb_rotate_NoInner(t, node, dir) ==
  rb_set_child(rb_set_child(t, node, Opp(dir), NULL), Pivot(t, node, dir), dir, node)

rb_rotate(t, node, dir) ==
  LET pivot == Pivot(t, node, dir)
  IN  rb_set_child(rb_set_child(t, node, Opp(dir), t.child[pivot][dir]), pivot, dir, node)

\* Mutant: the sides are mixed up.
Hang_Opp(t, e, n) ==
  IF e.parent = NULL THEN [t EXCEPT !.root = n] ELSE rb_set_child(t, e.parent, Opp(e.dir), n)

\* Put n where stack entry e says, which is at the root for the bottom one.
Hang(t, e, n) ==
  IF e.parent = NULL THEN [t EXCEPT !.root = n] ELSE rb_set_child(t, e.parent, e.dir, n)

-----------------------------------------------------------------------------
(* Calling and returning.                                                   *)

EmptyTree == [root  |-> NULL,
              child |-> [n \in Node |-> [dir \in Dir |-> n]],
              color |-> [n \in Node |-> RB_BLACK]]

Init ==
  /\ tree = EmptyTree
  /\ linked = {}
  /\ rp = <<>> /\ at = NULL
  /\ pc = "idle"
  /\ call = None
  /\ target = NULL
  /\ cur = NULL
  /\ ret = NULL

\* The client starts over; the nodes of the old tree are its own again.
RB_ROOT_INIT ==
  /\ pc = "idle"
  /\ tree' = EmptyTree
  /\ linked' = {}
  /\ rp' = <<>> /\ at' = NULL
  /\ UNCHANGED <<pc, call, target, cur, ret>>

Call(op, arg) ==
  /\ pc = "idle"
  /\ call' = [op |-> op, arg |-> arg]
  /\ at' = NULL
  /\ ret' = NULL

\* The client keeps the stack of a walk that has found a node.
Return(r, path) ==
  /\ pc' = "idle"
  /\ call' = None
  /\ target' = NULL
  /\ cur' = NULL
  /\ ret' = r
  /\ IF r = NULL \/ path = <<>> THEN at' = NULL /\ rp' = <<>>
                                ELSE at' = r /\ rp' = path

\* A loop that goes on, at node p with the stack `path`.
Continue(p, path) ==
  /\ cur' = p
  /\ rp' = path
  /\ UNCHANGED <<at, pc, call, target, ret>>

-----------------------------------------------------------------------------
(* name##_rb_insert and rb_insert_color.                                    *)

\* n may be in the tree already: the search then ends at n itself.
Insert(n) ==
  /\ Call("insert", n)
  /\ pc' = "insert_descend"
  /\ target' = n
  /\ cur' = tree.root
  /\ rp' = RB_PATH_INIT
  /\ UNCHANGED <<tree, linked>>

\* The new node becomes a red leaf.
MakeLeaf(t, n) == rb_set_right_child(rb_set_left_child_color(t, n, NULL, RB_RED), n, NULL)

InsertDescend ==
  /\ pc = "insert_descend"
  /\ \/ /\ cur = NULL
        /\ tree' = MakeLeaf(Hang(tree, Entry(rp, 0), target), target)
        /\ linked' = linked \cup {target}
        /\ pc' = "insert_color"
        /\ UNCHANGED <<rp, at, call, target, cur, ret>>
     \/ /\ cur # NULL /\ Val[target] = Val[cur]
        /\ Return(cur, <<>>)
        /\ UNCHANGED <<tree, linked>>
     \/ /\ cur # NULL /\ Val[target] # Val[cur]
        /\ LET dir == SearchDir(Val[target], cur)
           IN  Continue(tree.child[cur][dir], Push(rp, cur, dir))
        /\ UNCHANGED <<tree, linked>>

InsertCase1(t, q, uncle, g) ==
  rb_set_color(rb_set_color(rb_set_color(t, q, RB_BLACK), uncle, RB_BLACK), g, RB_RED)

\* Mutant: paints as case 3 does, without rotating.
InsertCase23_PaintOnly(t, path) ==
  rb_set_color(rb_set_color(t, Entry(path, 0).parent, RB_BLACK), Entry(path, -1).parent, RB_RED)

\* A bent path is straightened first, then the grandparent goes down.
InsertCase23(t, path) ==
  LET q   == Entry(path, 0).parent
      g   == Entry(path, -1).parent
      dir == Entry(path, -1).dir
      bent == Entry(path, 0).dir # dir
      q1 == IF bent THEN Pivot(t, q, dir) ELSE q
      t1 == IF bent THEN rb_set_child(rb_rotate(t, q, dir), g, dir, q1) ELSE t
      t2 == rb_set_color(rb_set_color(t1, q1, RB_BLACK), g, RB_RED)
  IN  Hang(rb_rotate(t2, g, Opp(dir)), Entry(path, -2), Pivot(t2, g, Opp(dir)))

InsertDone(t) == tree' = rb_set_color(t, t.root, RB_BLACK) /\ Return(target, <<>>)

InsertColor ==
  /\ pc = "insert_color"
  /\ LET q     == Entry(rp, 0).parent
         g     == Entry(rp, -1).parent
         uncle == tree.child[g][Opp(Entry(rp, -1).dir)]
     IN  \/ /\ IsBlack(tree, q)
            /\ InsertDone(tree)
         \/ /\ IsRed(tree, q)
            /\ IsRed(tree, uncle)
            /\ tree' = InsertCase1(tree, q, uncle, g)
            /\ Continue(cur, Pop(rp, 2))
         \/ /\ IsRed(tree, q)
            /\ IsBlack(tree, uncle)
            /\ InsertDone(InsertCase23(tree, rp))
  /\ UNCHANGED linked

-----------------------------------------------------------------------------
(* name##_rb_find, name##_rb_remove and rb_remove.                          *)

Find(op, k) ==
  /\ Call(op, k)
  /\ pc' = "find"
  /\ cur' = tree.root
  /\ rp' = RB_PATH_INIT
  /\ UNCHANGED <<tree, linked, target>>

FindStep ==
  /\ pc = "find"
  /\ \/ /\ cur = NULL
        /\ Return(NULL, rp)
     \/ /\ cur # NULL /\ Val[cur] # call.arg
        /\ LET dir == SearchDir(call.arg, cur)
           IN  Continue(tree.child[cur][dir], Push(rp, cur, dir))
     \/ /\ cur # NULL /\ Val[cur] = call.arg
        /\ call.op = "find"
        /\ Return(cur, rp)
     \/ /\ cur # NULL /\ Val[cur] = call.arg
        /\ call.op = "remove"
        /\ pc' = "rb_remove"
        /\ target' = cur
        /\ cur' = NULL
        /\ UNCHANGED <<rp, at, call, ret>>
  /\ UNCHANGED <<tree, linked>>

\* The client calls rb_remove itself, on the node its stack stands at.
RemoveNode ==
  /\ at # NULL
  /\ Call("rb_remove", at)
  /\ pc' = "rb_remove"
  /\ target' = at
  /\ UNCHANGED <<tree, linked, rp, cur>>

\* The node is out of tree t.  A black one leaves a black too few above
\* `replacement`, at the end of the stack; otherwise rb_remove is done.
Unlink(t, path, deleted_color, replacement) ==
  /\ linked' = linked \ {target}
  /\ \/ /\ deleted_color = RB_RED
        /\ tree' = Poison(t, target)
        /\ Return(target, <<>>)
     \/ /\ deleted_color = RB_BLACK
        /\ tree' = t
        /\ pc' = "remove_color"
        /\ rp' = path
        /\ cur' = replacement
        /\ UNCHANGED <<at, call, target, ret>>

RbRemove ==
  /\ pc = "rb_remove"
  /\ LET left  == tree.child[target][RB_LEFT]
         right == tree.child[target][RB_RIGHT]
         transplanter == IF left = NULL THEN right ELSE left
     IN  \/ /\ left = NULL \/ right = NULL
            /\ Unlink(Hang(tree, Entry(rp, 0), transplanter), rp,
                      tree.color[target], transplanter)
         \/ /\ left # NULL /\ right # NULL
            /\ pc' = "successor"
            /\ cur' = right
            /\ rp' = Push(rp, target, RB_RIGHT)
            /\ UNCHANGED <<tree, linked, at, call, target, ret>>

\* Mutant: the entry at the top of the stack.
NodeEntry_Top == Len(rp)

\* node_rpe: the stack entry of the node being removed.
NodeEntry == CHOOSE k \in 1..Len(rp) : rp[k].parent = target

\* The successor s takes n's children, colour and place; its right child has
\* taken its own place before.
Transplant(t, n, s) ==
  LET e == Entry(rp, 0)
      t1 == IF e.parent = n THEN t
            ELSE rb_copy_right_child(rb_set_child(t, e.parent, e.dir, t.child[s][RB_RIGHT]), s, n)
  IN  Hang(rb_copy_left_child_color(t1, s, n), rp[NodeEntry - 1], s)

Successor ==
  /\ pc = "successor"
  /\ LET left == tree.child[cur][RB_LEFT]
     IN  \/ /\ left # NULL
            /\ Continue(left, Push(rp, cur, RB_LEFT))
            /\ UNCHANGED <<tree, linked>>
         \/ /\ left = NULL
            /\ Unlink(Transplant(tree, target, cur), [rp EXCEPT ![NodeEntry].parent = cur],
                      tree.color[cur], tree.child[cur][RB_RIGHT])

-----------------------------------------------------------------------------
(* rb_remove_color.                                                         *)

\* Sibling red: rotate it up, which puts one more entry on the stack.
IsCase1(t, path) ==
  LET e == Entry(path, 0) IN t.color[t.child[e.parent][Opp(e.dir)]] = RB_RED

RemoveCase1(t, path) ==
  LET q   == Entry(path, 0).parent
      dir == Entry(path, 0).dir
      t1  == rb_set_color(rb_set_color(t, Pivot(t, q, dir), RB_BLACK), q, RB_RED)
  IN  Hang(rb_rotate(t1, q, dir), Entry(path, -1), Pivot(t1, q, dir))

\* Mutant: the stack stays as it was before the rotation.
PathCase1_Keep(t, path) == path

PathCase1(t, path) ==
  LET q   == Entry(path, 0).parent
      dir == Entry(path, 0).dir
  IN  Push(Push(Pop(path, 1), Pivot(t, q, dir), dir), q, dir)

\* The near nephew is the red one: rotate it into the sibling's place.
RemoveCase3(t, q, sibling, dir) ==
  LET near == t.child[sibling][dir]
      t1   == rb_set_color(rb_set_color(t, near, RB_BLACK), sibling, RB_RED)
  IN  rb_set_child(rb_rotate(t1, sibling, Opp(dir)), q, Opp(dir), near)

\* Mutant: the far nephew stays red.
RemoveCase4_KeepRed(t, path) ==
  LET q   == Entry(path, 0).parent
      dir == Entry(path, 0).dir
      sibling == Pivot(t, q, dir)
      t1 == rb_set_color(rb_set_color(t, sibling, t.color[q]), q, RB_BLACK)
  IN  Hang(rb_rotate(t1, q, dir), Entry(path, -1), sibling)

\* The far nephew is red: rotate the sibling up in the parent's colour.
RemoveCase4(t, path) ==
  LET q   == Entry(path, 0).parent
      dir == Entry(path, 0).dir
      sibling == Pivot(t, q, dir)
      t1 == rb_set_color(t, sibling, t.color[q])
      t2 == rb_set_color(t1, q, RB_BLACK)
      t3 == rb_set_color(t2, t.child[sibling][Opp(dir)], RB_BLACK)
  IN  Hang(rb_rotate(t3, q, dir), Entry(path, -1), sibling)

\* Mutant: climbs past the root.
RemoveLoops_NoRoot == IsBlack(tree, cur)

\* while ((node == NULL || black) && node != root)
RemoveLoops == IsBlack(tree, cur) /\ cur # tree.root

RemoveDone(t, node) ==
  /\ tree' = Poison(IF node = NULL THEN t ELSE rb_set_color(t, node, RB_BLACK), target)
  /\ Return(target, <<>>)

RemoveColor ==
  /\ pc = "remove_color"
  /\ LET case1 == IsCase1(tree, rp)
         t    == IF case1 THEN RemoveCase1(tree, rp) ELSE tree
         path == IF case1 THEN PathCase1(tree, rp) ELSE rp
         q    == Entry(path, 0).parent
         dir  == Entry(path, 0).dir
         sibling == Pivot(t, q, dir)
         far  == t.child[sibling][Opp(dir)]
         near == t.child[sibling][dir]
         t3   == IF IsBlack(t, far) THEN RemoveCase3(t, q, sibling, dir) ELSE t
         t4   == RemoveCase4(t3, path)
     IN  \/ /\ ~RemoveLoops
            /\ RemoveDone(tree, cur)
         \/ /\ RemoveLoops
            /\ IsBlack(t, far) /\ IsBlack(t, near)           \* case 2
            /\ tree' = rb_set_color(t, sibling, RB_RED)
            /\ Continue(q, Pop(path, 1))
         \/ /\ RemoveLoops
            /\ IsRed(t, far) \/ IsRed(t, near)               \* cases 3 and 4
            /\ RemoveDone(t4, t4.root)
  /\ UNCHANGED linked

-----------------------------------------------------------------------------
(* rb_iter (rb_first, rb_last) and rb_iter_next (rb_next, rb_prev).         *)

\* The side a walk runs down to; rb_iter_next steps to the other side first.
DownDir(op) == IF op \in {"first", "next"} THEN RB_LEFT ELSE RB_RIGHT

Iter(op) ==
  /\ Call(op, NULL)
  /\ pc' = "iter_down"
  /\ cur' = tree.root
  /\ rp' = RB_PATH_INIT
  /\ UNCHANGED <<tree, linked, target>>

IterNext(op) ==
  /\ Call(op, at)
  /\ LET dir == Opp(DownDir(op))
         p   == tree.child[at][dir]
     IN  \/ at = NULL /\ pc' = "iter_down" /\ UNCHANGED <<cur, rp>>
         \/ at # NULL /\ p # NULL /\ pc' = "iter_down" /\ cur' = p /\ rp' = Push(rp, at, dir)
         \/ at # NULL /\ p = NULL /\ pc' = "iter_up" /\ UNCHANGED <<cur, rp>>
  /\ UNCHANGED <<tree, linked, target>>

IterDown ==
  /\ pc = "iter_down"
  /\ LET dir == DownDir(call.op)
         q   == tree.child[cur][dir]
     IN  \/ cur = NULL /\ Return(NULL, rp)
         \/ cur # NULL /\ q = NULL /\ Return(cur, rp)
         \/ cur # NULL /\ q # NULL /\ Continue(q, Push(rp, cur, dir))
  /\ UNCHANGED <<tree, linked>>

\* Mutant: leaves the entry of the node it returns on the stack.
IterUp_NoPop ==
  /\ pc = "iter_up"
  /\ LET e == Entry(rp, 0)
     IN  \/ e.parent = NULL /\ Return(NULL, rp)
         \/ e.parent # NULL /\ e.dir = DownDir(call.op) /\ Return(e.parent, rp)
         \/ e.parent # NULL /\ e.dir # DownDir(call.op) /\ Continue(cur, Pop(rp, 1))
  /\ UNCHANGED <<tree, linked>>

\* Mutant: climbs without taking entries off the stack.
IterUp_Stuck ==
  /\ pc = "iter_up"
  /\ LET e == Entry(rp, 0)
     IN  \/ e.parent = NULL /\ Return(NULL, rp)
         \/ e.parent # NULL /\ e.dir = DownDir(call.op) /\ Return(e.parent, Pop(rp, 1))
         \/ e.parent # NULL /\ e.dir # DownDir(call.op) /\ Continue(cur, rp)
  /\ UNCHANGED <<tree, linked>>

IterUp ==
  /\ pc = "iter_up"
  /\ LET e == Entry(rp, 0)
     IN  \/ e.parent = NULL /\ Return(NULL, rp)
         \/ e.parent # NULL /\ e.dir = DownDir(call.op) /\ Return(e.parent, Pop(rp, 1))
         \/ e.parent # NULL /\ e.dir # DownDir(call.op) /\ Continue(cur, Pop(rp, 1))
  /\ UNCHANGED <<tree, linked>>

-----------------------------------------------------------------------------
Client ==
  \/ RB_ROOT_INIT
  \/ \E n \in Node : Insert(n)
  \/ RemoveNode
  \/ \E k \in Key, op \in {"find", "remove"} : Find(op, k)
  \/ \E op \in {"first", "last"} : Iter(op)
  \/ \E op \in {"next", "prev"} : IterNext(op)

Library ==
  \/ InsertDescend \/ InsertColor
  \/ FindStep \/ RbRemove \/ Successor \/ RemoveColor
  \/ IterDown \/ IterUp

Next == Client \/ Library

Spec == Init /\ [][Next]_vars

\* A call that has started keeps running; the client need not call again.
FairSpec == Spec /\ WF_vars(Library)

-----------------------------------------------------------------------------
(* Correctness.                                                             *)

Tree == [root : Ptr, child : [Node -> [Dir -> Ptr]], color : [Node -> {RB_RED, RB_BLACK}]]

\* Type invariant of the memory of rbtree_compact.c and the locals of its
\* functions; only the bottom entry of a stack has no node and no direction.
TypeOK ==
  /\ tree \in Tree
  /\ linked \subseteq Node
  /\ rp # <<>> => /\ Head(rp) = [parent |-> NULL, dir |-> NULL]
                  /\ \A k \in 2..Len(rp) : rp[k] \in [parent : Node, dir : Dir]
  /\ pc \in {"idle", "insert_descend", "insert_color", "find", "rb_remove",
             "successor", "remove_color", "iter_down", "iter_up"}
  /\ call \in [op : {"none", "insert", "find", "remove", "rb_remove",
                     "first", "last", "next", "prev"}, arg : Ptr \cup Key]
  /\ {at, target, cur, ret} \subseteq Ptr

\* The nodes reached from n along child links.
Below(n) ==
  LET down[k \in Nat] ==
        [m \in Ptr |->
           IF k = 0 \/ m = NULL THEN {}
           ELSE {m} \cup UNION {down[k - 1][tree.child[m][dir]] : dir \in Dir}]
  IN  down[Cardinality(Node)][n]

\* The child links form one tree, of exactly the nodes inserted and not removed.
Links ==
  /\ RB_EMPTY(tree) <=> linked = {}
  /\ Below(tree.root) = linked
  /\ \A n \in linked : Cardinality({e \in linked \X Dir : tree.child[e[1]][e[2]] = n})
                         = IF n = tree.root THEN 0 ELSE 1

\* A node is below another on the side its key says.
SearchOrder ==
  \A n \in linked :
    /\ \A m \in Below(tree.child[n][RB_LEFT]) : Val[m] < Val[n]
    /\ \A m \in Below(tree.child[n][RB_RIGHT]) : Val[m] > Val[n]

\* After every loop turn, after every rotation and after a successor has moved
\* up in rb_remove, the links form one search tree of the right nodes.
TreeShape == Links /\ SearchOrder

\* The link a fix-up loop works at, the end of its stack.
WorkLink == Entry(rp, 0)

\* A red node has black children and the root is black, except where a fix-up
\* loop is working: at the end of its stack.
RedRule ==
  /\ IsRed(tree, tree.root) =>
       pc \in {"insert_color", "remove_color"} /\ WorkLink.parent = NULL
  /\ \A n \in linked, dir \in Dir :
       IsRed(tree, n) /\ IsRed(tree, tree.child[n][dir]) =>
         \/ /\ pc \in {"insert_color", "remove_color"}
            /\ WorkLink = [parent |-> n, dir |-> dir]
         \/ pc = "remove_color" /\ cur = n

\* The black that rb_remove_color still owes below the link it works at.
Missing(n, dir) ==
  IF pc = "remove_color" /\ WorkLink = [parent |-> n, dir |-> dir] THEN 1 ELSE 0

\* The numbers of black nodes on the paths from the root to a NULL link,
\* counting the one owed; one owed above the root is missing on all of them.
Heights ==
  LET h[k \in Nat] ==
        [m \in Ptr |->
           IF k = 0 \/ m = NULL THEN {0}
           ELSE UNION {{b + Missing(m, dir) + (IF IsBlack(tree, m) THEN 1 ELSE 0) :
                          b \in h[k - 1][tree.child[m][dir]]} : dir \in Dir}]
  IN  h[Cardinality(Node)][tree.root]

\* Every path from the root to a NULL link passes the same number of black
\* nodes, in every turn of both loops.
BlackRule == Cardinality(Heights) = 1

\* The red-black rules, with the exceptions of the running fix-up loop.
ColorRules == RedRule /\ BlackRule

\* The node the stack leads to.
Tip ==
  CASE pc = "idle" -> at
    [] pc = "rb_remove" -> target
    [] pc = "iter_up" \/ pc = "insert_color" -> tree.child[WorkLink.parent][WorkLink.dir]
    [] OTHER -> cur

\* The stack is the path from the root to the node it is about, and replaces
\* the parent pointers: after every push and pop of searches and walks, when
\* rb_remove exchanges a node for its successor in the middle of the stack,
\* and when case 1 of rb_remove_color lengthens the path.
PathMatches ==
  \A k \in 1..Len(rp) :
    LET child == IF rp[k].parent = NULL THEN tree.root
                                        ELSE tree.child[rp[k].parent][rp[k].dir]
    IN  child = IF k < Len(rp) THEN rp[k + 1].parent
                ELSE IF k = 1 /\ pc \in {"iter_up", "insert_color"} THEN tree.root ELSE Tip

\* The nodes counted by the balance bound: rb_remove still balances for the
\* node it has unlinked.
Size == Cardinality(linked) + IF pc = "remove_color" THEN 1 ELSE 0

Pow2[k \in Nat] == IF k = 0 THEN 1 ELSE 2 * Pow2[k - 1]

\* The entries above the bottom one; case 1 of rb_remove_color pushes one
\* more for the rest of its turn.
Depth == Len(rp) - IF pc = "remove_color" THEN 0 ELSE 1

\* The stack never needs more than 2 * log2(n + 1) entries above its bottom,
\* so the sizeof(void *) * 8 entries of an RB_PATH hold it for as long as
\* (n + 1)^2 < 2^(sizeof(void *) * 8); the header sets no limit on n.
PathBound == rp # <<>> => Pow2[Depth] <= (Size + 1) * (Size + 1)

\* The nodes the fix-up loops dereference without a test are there.
NoNullDereference ==
  /\ pc = "insert_color" /\ IsRed(tree, Entry(rp, 0).parent) => Entry(rp, -1).parent # NULL
  /\ pc = "remove_color" /\ RemoveLoops =>
       /\ WorkLink.parent # NULL
       /\ LET sibling == tree.child[WorkLink.parent][Opp(WorkLink.dir)]
          IN  /\ sibling # NULL
              /\ IsRed(tree, sibling) => NULL \notin {tree.child[sibling][dir] : dir \in Dir}

Set == INSTANCE OrderedSet
         WITH nodes <- linked,
              call <- IF pc \in {"insert_color", "remove_color"}
                      THEN [op |-> "reply", arg |-> target] ELSE call

\* Refinement: every call answers as the ordered set does, and so does every
\* walk that goes on from a stack an earlier call left.
ImplementsOrderedSet == Set!Spec

\* Liveness: every call returns.
CallReturns == pc # "idle" ~> pc = "idle"
=============================================================================
