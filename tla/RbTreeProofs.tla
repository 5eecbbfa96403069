---------------------------- MODULE RbTreeProofs ----------------------------
(***************************************************************************)
(* Proofs about RbTree, for any finite set of nodes and any keys: the      *)
(* memory stays well typed, no fix-up loop dereferences NULL, the links    *)
(* are always one search tree of the right nodes, the red-black rules hold *)
(* but where a fix-up loop is at work, and every call answers as the       *)
(* ordered set does.                                                       *)
(***************************************************************************)
EXTENDS RbTree, RbNodeProofs

-----------------------------------------------------------------------------
(* The accessors.                                                          *)

\* rb_set_child changes one link.
LEMMA SetChild ==
  ASSUME NEW t \in Tree, NEW n \in Node, NEW dir \in Dir, NEW c \in Ptr
  PROVE  /\ rb_set_child(t, n, dir, c) \in Tree
         /\ rb_set_child(t, n, dir, c).root = t.root
         /\ rb_set_child(t, n, dir, c).parent = t.parent
         /\ rb_set_child(t, n, dir, c).color = t.color
         /\ \A x \in Node, d \in Dir :
              rb_set_child(t, n, dir, c).child[x][d] =
                IF x = n /\ d = dir THEN c ELSE t.child[x][d]
BY DEF rb_set_child, Tree

\* rb_set_parent changes one parent.
LEMMA SetParent ==
  ASSUME NEW t \in Tree, NEW n \in Node, NEW q \in Ptr
  PROVE  /\ rb_set_parent(t, n, q) \in Tree
         /\ rb_set_parent(t, n, q).root = t.root
         /\ rb_set_parent(t, n, q).child = t.child
         /\ rb_set_parent(t, n, q).color = t.color
         /\ \A x \in Node : rb_set_parent(t, n, q).parent[x] = IF x = n THEN q ELSE t.parent[x]
BY DEF rb_set_parent, Tree

\* rb_set_color changes one colour.
LEMMA SetColor ==
  ASSUME NEW t \in Tree, NEW n \in Node, NEW c \in {RB_RED, RB_BLACK}
  PROVE  /\ rb_set_color(t, n, c) \in Tree
         /\ rb_set_color(t, n, c).root = t.root
         /\ rb_set_color(t, n, c).child = t.child
         /\ rb_set_color(t, n, c).parent = t.parent
         /\ \A x \in Node : rb_set_color(t, n, c).color[x] = IF x = n THEN c ELSE t.color[x]
BY DEF rb_set_color, Tree

\* rb_set_root changes the root.
LEMMA SetRoot ==
  ASSUME NEW t \in Tree, NEW n \in Ptr
  PROVE  /\ rb_set_root(t, n) \in Tree
         /\ rb_set_root(t, n).root = n
         /\ rb_set_root(t, n).child = t.child
         /\ rb_set_root(t, n).parent = t.parent
         /\ rb_set_root(t, n).color = t.color
BY DEF rb_set_root, Tree

\* The client scribbles over node n only.
LEMMA PoisonFields ==
  ASSUME NEW t \in Tree, NEW n \in Node
  PROVE  /\ Poison(t, n) \in Tree
         /\ Poison(t, n).root = t.root
         /\ \A x \in Node \ {n} : /\ Poison(t, n).child[x] = t.child[x]
                                  /\ Poison(t, n).parent[x] = t.parent[x]
                                  /\ Poison(t, n).color[x] = t.color[x]
BY DEF Poison, Tree, Ptr

\* The fields of a tree.
LEMMA TreeFields ==
  ASSUME NEW t \in Tree
  PROVE  /\ t.root \in Ptr
         /\ \A x \in Node, d \in Dir : t.child[x][d] \in Ptr
         /\ \A x \in Node : t.parent[x] \in Ptr /\ t.color[x] \in {RB_RED, RB_BLACK}
BY DEF Tree

-----------------------------------------------------------------------------
(* The parent links.                                                       *)

\* The parent links of the nodes L are the child links turned round.
Parents(t, L) ==
  /\ t.root # NULL => t.parent[t.root] = NULL
  /\ \A n \in L, d \in Dir : t.child[n][d] # NULL => t.parent[t.child[n][d]] = n

\* The parent of a node is the one node that has it as a child.
LEMMA UpLink ==
  ASSUME NEW t, NEW L \in SUBSET Node, NEW D, IsTree(t.child, t.root, L, D), Parents(t, L),
         NEW n \in L
  PROVE  /\ Above(t.child, t.root, L, n, t.parent[n], DirOf(t, t.parent[n], n))
         /\ n = t.root => t.parent[n] = NULL
         /\ n # t.root => /\ t.parent[n] \in L
                          /\ t.child[t.parent[n]][DirOf(t, t.parent[n], n)] = n
         /\ DirOf(t, t.parent[n], n) \in Dir
<1>0. n # NULL /\ n \in Node
  BY NullAssumption
<1>1. DirOf(t, t.parent[n], n) \in Dir
  BY DEF DirOf, Dir
<1>2. CASE n = t.root
  BY <1>0, <1>1, <1>2 DEF Parents, Above
<1>3. CASE n # t.root
  <2>1. PICK p \in L, d \in Dir : t.child[p][d] = n
    BY <1>3, HasParent
  <2>2. t.parent[n] = p
    BY <2>1, <1>0 DEF Parents
  <2>3. t.child[p][DirOf(t, p, n)] = n
    BY <2>1 DEF DirOf, Dir
  <2> QED
    BY <1>1, <1>3, <2>2, <2>3 DEF Above
<1> QED
  BY <1>2, <1>3

\* A step that leaves links, root and parents of L alone keeps them in step.
LEMMA SameParents ==
  ASSUME NEW t, NEW u, NEW L \in SUBSET Node, NEW D, IsTree(t.child, t.root, L, D), Parents(t, L),
         u.root = t.root, SameOn(t.child, u.child, L), SameOn(t.parent, u.parent, L)
  PROVE  Parents(u, L)
<1>1. t.root \in L \cup {NULL} /\ \A n \in L, d \in Dir : t.child[n][d] \in L \cup {NULL}
  BY DEF IsTree
<1>2. \A n \in L : u.child[n] = t.child[n] /\ u.parent[n] = t.parent[n]
  BY DEF SameOn
<1> QED
  BY <1>1, <1>2 DEF Parents

\* What rb_rotate(t, a, dir) makes of t.
Rotated(t, u, L, a, dir) ==
  /\ u \in Tree
  /\ u.color = t.color
  /\ Rotates(t.child, t.root, u.child, u.root, L, a, dir)
  /\ Parents(u, L)

\* rb_rotate changes the links, both ways, as a rotation does.
LEMMA RotateFields ==
  ASSUME NEW t \in Tree, NEW L \in SUBSET Node, NEW D, IsTree(t.child, t.root, L, D),
         Parents(t, L), NEW a \in L, NEW dir \in Dir, NEW p \in L, t.child[a][Opp(dir)] = p
  PROVE  Rotated(t, rb_rotate(t, a, dir), L, a, dir)
<1> DEFINE inner == t.child[p][dir]
           up == t.parent[a]
           t1 == rb_set_child(t, a, Opp(dir), inner)
           t2 == IF inner = NULL THEN t1 ELSE rb_set_parent(t1, inner, a)
           t3 == rb_set_parent(t2, p, up)
           k  == IF t3.child[up][dir] = a THEN dir ELSE Opp(dir)
           t4 == IF up = NULL THEN rb_set_root(t3, p) ELSE rb_set_child(t3, up, k, p)
           t5 == rb_set_child(t4, p, dir, a)
           u  == rb_set_parent(t5, a, p)
<1>0. rb_rotate(t, a, dir) = u
  BY DEF rb_rotate
<1>1. /\ Opp(dir) \in Dir /\ Opp(dir) # dir /\ \A d \in Dir : d = dir \/ d = Opp(dir)
      /\ a \in Node /\ p \in Node /\ a # NULL /\ p # NULL
  BY Sides, NullAssumption
<1>l. LinkFacts(t.child, t.root, L, D)
  BY TreeLinks
<1>2. inner \in L \cup {NULL} /\ inner \in Ptr /\ inner # a /\ inner # p /\ p # a
  BY <1>1, <1>l DEF IsTree, LinkFacts, Ptr
<1>3. /\ up \in Ptr
      /\ a = t.root => up = NULL
      /\ a # t.root => /\ up \in L /\ up # NULL /\ up # a /\ up # p
                       /\ t.child[up][DirOf(t, up, a)] = a /\ DirOf(t, up, a) \in Dir
  <2>1. a = t.root => up = NULL
    BY UpLink
  <2>2. ASSUME a # t.root
        PROVE up \in L /\ t.child[up][DirOf(t, up, a)] = a /\ DirOf(t, up, a) \in Dir
    BY <2>2, UpLink
  <2>3. up \in L => up # NULL
    BY NullAssumption
  <2>4. ASSUME a # t.root PROVE up # a /\ up # p
    BY <2>2, <2>4, <1>1, <1>l DEF LinkFacts
  <2> QED
    BY <2>1, <2>2, <2>3, <2>4 DEF Ptr
<1>4. /\ t1 \in Tree /\ t1.root = t.root /\ t1.parent = t.parent /\ t1.color = t.color
      /\ \A x \in Node, d \in Dir :
           t1.child[x][d] = IF x = a /\ d = Opp(dir) THEN inner ELSE t.child[x][d]
  BY <1>1, <1>2, SetChild, SMTT(30)
<1> HIDE DEF t1
<1>5. /\ t2 \in Tree /\ t2.root = t.root /\ t2.child = t1.child /\ t2.color = t.color
      /\ \A x \in Node : t2.parent[x] = IF x = inner THEN a ELSE t.parent[x]
  <2>1. CASE inner = NULL
    BY <2>1, <1>4, NullAssumption
  <2>2. CASE inner # NULL
    <3>1. inner \in Node /\ a \in Ptr /\ t2 = rb_set_parent(t1, inner, a)
      BY <2>2, <1>1, <1>2 DEF Ptr
    <3> QED
      BY <3>1, <1>4, SetParent, SMTT(30)
  <2> QED
    BY <2>1, <2>2
<1> HIDE DEF t2
<1>6. /\ t3 \in Tree /\ t3.root = t.root /\ t3.child = t1.child /\ t3.color = t.color
      /\ \A x \in Node :
           t3.parent[x] = IF x = p THEN up ELSE IF x = inner THEN a ELSE t.parent[x]
  BY <1>1, <1>3, <1>5, SetParent, SMTT(30)
<1> HIDE DEF t3
<1>7. /\ t4 \in Tree /\ t4.parent = t3.parent /\ t4.color = t.color
      /\ t4.root = IF t.root = a THEN p ELSE t.root
      /\ \A x \in L, d \in Dir :
           t4.child[x][d] = IF x = a /\ d = Opp(dir) THEN inner
                            ELSE IF t.child[x][d] = a THEN p ELSE t.child[x][d]
  <2>1. CASE a = t.root
    <3>1. up = NULL /\ t4 = rb_set_root(t3, p) /\ p \in Ptr
      BY <2>1, <1>1, <1>3 DEF Ptr
    <3> HIDE DEF t4
    <3>2. /\ t4 \in Tree /\ t4.parent = t3.parent /\ t4.color = t3.color
          /\ t4.root = p /\ t4.child = t3.child
      BY <3>1, <1>6, SetRoot
    <3>3. \A x \in L, d \in Dir : t.child[x][d] # a
      BY <2>1, <1>1, <1>l DEF LinkFacts
    <3> QED
      BY <3>2, <3>3, <2>1, <1>4, <1>6
  <2>2. CASE a # t.root
    <3>1. up \in Node /\ p \in Ptr /\ k \in Dir /\ t4 = rb_set_child(t3, up, k, p)
      BY <2>2, <1>1, <1>3 DEF Ptr
    <3>2. t.child[up][k] = a
      <4>1. t3.child[up][dir] = t.child[up][dir]
        BY <3>1, <1>4, <1>6, <2>2, <1>3
      <4> QED
        BY <4>1, <2>2, <1>3, <1>1
    <3> HIDE DEF t4, k
    <3>3. /\ t4 \in Tree /\ t4.parent = t3.parent /\ t4.color = t3.color /\ t4.root = t3.root
          /\ \A x \in Node, d \in Dir :
               t4.child[x][d] = IF x = up /\ d = k THEN p ELSE t3.child[x][d]
      <4>1. t3 \in Tree
        BY <1>6
      <4> DEFINE v == rb_set_child(t3, up, k, p)
      <4>0. up \in Node /\ k \in Dir /\ p \in Ptr
        BY <3>1
      <4> HIDE DEF up
      <4>2. /\ v \in Tree /\ v.parent = t3.parent /\ v.color = t3.color /\ v.root = t3.root
            /\ \A x \in Node, d \in Dir :
                 v.child[x][d] = IF x = up /\ d = k THEN p ELSE t3.child[x][d]
        BY <4>0, <4>1, SetChild
      <4> HIDE DEF v
      <4> QED
        BY <3>1, <4>2 DEF v
    <3>4. \A x \in L, d \in Dir : t.child[x][d] = a <=> x = up /\ d = k
      BY <3>1, <3>2, <1>3, <2>2, <1>1, <1>l DEF LinkFacts
    <3> QED
      BY <3>1, <3>3, <3>4, <2>2, <1>3, <1>4, <1>6
  <2> QED
    BY <2>1, <2>2
<1> HIDE DEF t4, k
<1>8. /\ t5 \in Tree /\ t5.parent = t3.parent /\ t5.color = t.color /\ t5.root = t4.root
      /\ \A x \in Node, d \in Dir :
           t5.child[x][d] = IF x = p /\ d = dir THEN a ELSE t4.child[x][d]
  <2>1. a \in Ptr
    BY <1>1 DEF Ptr
  <2> QED
    BY <2>1, <1>1, <1>7, SetChild
<1> HIDE DEF t5
<1>9. /\ u \in Tree /\ u.color = t.color /\ u.root = t4.root /\ u.child = t5.child
      /\ \A x \in Node :
           u.parent[x] = IF x = a THEN p ELSE IF x = p THEN up
                         ELSE IF x = inner THEN a ELSE t.parent[x]
  <2>1. p \in Ptr
    BY <1>1 DEF Ptr
  <2> QED
    BY <2>1, <1>1, <1>6, <1>8, SetParent
<1> HIDE DEF u
<1>10. Rotates(t.child, t.root, u.child, u.root, L, a, dir)
  BY <1>1, <1>2, <1>7, <1>8, <1>9 DEF Rotates
<1>11. AroundPivot(t.child, t.root, u.child, L, a, p, dir)
  BY <1>10, RotateLinks
<1>12. Parents(u, L)
  <2>1. u.root # NULL => u.parent[u.root] = NULL
    <3>1. CASE t.root = a
      BY <3>1, <1>1, <1>2, <1>3, <1>7, <1>9
    <3>2. CASE t.root # a
      <4>1. u.root = t.root /\ t.root # p /\ t.root \in L
        BY <3>2, <1>7, <1>9, <1>11 DEF AroundPivot
      <4>2. t.root # inner
        BY <4>1, <1>1, <1>l, NullAssumption DEF LinkFacts
      <4>3. t.parent[t.root] = NULL
        BY <4>1, NullAssumption DEF Parents
      <4> QED
        BY <4>1, <4>2, <4>3, <3>2, <1>9
    <3> QED
      BY <3>1, <3>2
  <2>2. ASSUME NEW n \in L, NEW d \in Dir, u.child[n][d] # NULL
        PROVE  u.parent[u.child[n][d]] = n
    <3>0. t.child[n][d] \in L \cup {NULL} /\ (t.child[n][d] # NULL => t.parent[t.child[n][d]] = n)
      BY DEF IsTree, Parents
    <3>1. CASE n = a /\ d = dir
      <4>1. u.child[n][d] = t.child[a][dir] /\ t.child[a][dir] \notin {a, p}
        BY <3>1, <1>11 DEF AroundPivot
      <4>2. t.child[a][dir] # inner
        BY <4>1, <2>2, <1>1, <1>2, <1>l DEF LinkFacts
      <4> QED
        BY <4>1, <4>2, <3>0, <3>1, <2>2, <1>9
    <3>2. CASE n = a /\ d = Opp(dir)
      <4>1. u.child[n][d] = inner
        BY <3>2, <1>11 DEF AroundPivot
      <4> QED
        BY <4>1, <3>2, <2>2, <1>2, <1>9
    <3>3. CASE n = p /\ d = dir
      <4>1. u.child[n][d] = a
        BY <3>3, <1>11 DEF AroundPivot
      <4> QED
        BY <4>1, <3>3, <1>1, <1>9
    <3>4. CASE n = p /\ d = Opp(dir)
      <4>1. u.child[n][d] = t.child[p][Opp(dir)] /\ t.child[p][Opp(dir)] \notin {a, p}
        BY <3>4, <1>11 DEF AroundPivot
      <4>2. t.child[p][Opp(dir)] # inner
        BY <4>1, <2>2, <1>1, <1>2, <1>l DEF LinkFacts
      <4> QED
        BY <4>1, <4>2, <3>0, <3>4, <2>2, <1>9
    <3>5. CASE n \notin {a, p}
      <4>1. t.child[n][d] # p /\ u.child[n][d] = IF t.child[n][d] = a THEN p ELSE t.child[n][d]
        BY <3>5, <1>11 DEF AroundPivot
      <4>2. CASE t.child[n][d] = a
        <5>1. up = n /\ u.child[n][d] = p
          BY <4>1, <4>2, <3>0, <1>1
        <5> QED
          BY <5>1, <1>1, <1>2, <1>9
      <4>3. CASE t.child[n][d] # a
        <5>1. t.child[n][d] # inner
          BY <4>1, <4>3, <3>5, <2>2, <1>1, <1>2, <1>l DEF LinkFacts
        <5> QED
          BY <5>1, <4>1, <4>3, <3>0, <2>2, <1>9
      <4> QED
        BY <4>2, <4>3
    <3> QED
      BY <3>1, <3>2, <3>3, <3>4, <3>5, <1>1
  <2> QED
    BY <2>1, <2>2 DEF Parents
<1> QED
  BY <1>0, <1>9, <1>10, <1>12 DEF Rotated

-----------------------------------------------------------------------------
(* The invariant.                                                          *)

\* Where a black is owed: at the link rb_remove_color works below.
OwedAt == IF pc = "remove_color" THEN parent ELSE NULL
OwedDir == IF pc = "remove_color" THEN DirOf(tree, parent, cur) ELSE RB_LEFT

\* The nodes that may be red where the rules want black.
Exempt == IF pc = "insert_color" THEN {cur}
          ELSE IF pc = "remove_color" /\ cur # NULL
               THEN {cur} \cup {tree.child[cur][d] : d \in Dir}
          ELSE {}

\* The linked nodes among which a walk looks for the outermost one.
Candidates ==
  IF call.op \in {"first", "last"} THEN linked
  ELSE IF call.arg = NULL THEN {}
  ELSE {m \in linked : Before(DownDir(call.op), call.arg, m)}

\* A search for key k has not passed the node that has it.
Seeks(D, k) == \A m \in linked : Val[m] = k => m \in D[cur]

\* What the locals of the running call mean, for each place it can be at.
IdleInv == call = None /\ target = NULL /\ cur = NULL /\ parent = NULL

InsertDescendInv(D) ==
  /\ target \in Node /\ call = [op |-> "insert", arg |-> target]
  /\ cur \in linked \cup {NULL}
  /\ cur = NULL => linked = {}
  /\ OnPath(tree.child, linked, D, Val[target], cur)
  /\ Seeks(D, Val[target])

InsertColorInv == target \in Node /\ cur \in linked /\ tree.color[cur] = RB_RED

FindInv(D) ==
  /\ call.op \in {"find", "remove"} /\ call.arg \in Key
  /\ cur \in linked \cup {NULL}
  /\ Seeks(D, call.arg)

RemoveInv ==
  /\ target \in linked
  /\ call \in {[op |-> "remove", arg |-> Val[target]], [op |-> "rb_remove", arg |-> target]}

\* cur is on the way from the right child of target to its leftmost node.
SuccessorInv(D) ==
  LET right == tree.child[target][RB_RIGHT]
  IN  /\ RemoveInv
      /\ tree.child[target][RB_LEFT] # NULL
      /\ cur \in D[right]
      /\ \A m \in D[right] \ D[cur] : \A k \in D[cur] : Val[k] < Val[m]

RemoveColorInv ==
  /\ target \in Node \ linked
  /\ cur \in linked \cup {NULL}
  /\ parent = NULL => cur = tree.root
  /\ parent # NULL => parent \in linked /\ tree.child[parent][OwedDir] = cur

\* The outermost candidate is below cur.
IterDownInv(D) ==
  /\ call.op \in {"first", "last", "next", "prev"}
  /\ call.op \in {"next", "prev"} => call.arg \in linked \cup {NULL}
  /\ call.op \in {"first", "last"} => call.arg = NULL
  /\ cur \in linked \cup {NULL}
  /\ cur = NULL => Candidates = {}
  /\ D[cur] \subseteq Candidates
  /\ \A m \in Candidates \ D[cur] : \A k \in D[cur] : Before(DownDir(call.op), k, m)

\* No candidate is below cur.
IterUpInv(D) ==
  /\ call.op \in {"next", "prev"}
  /\ call.arg \in linked
  /\ cur \in linked
  /\ call.arg \in D[cur]
  /\ D[cur] \cap Candidates = {}

CallInv(D) ==
  /\ pc = "idle" => IdleInv
  /\ pc = "insert_descend" => InsertDescendInv(D)
  /\ pc = "insert_color" => InsertColorInv
  /\ pc = "find" => FindInv(D)
  /\ pc = "rb_remove" => RemoveInv
  /\ pc = "successor" => SuccessorInv(D)
  /\ pc = "remove_color" => RemoveColorInv
  /\ pc = "iter_down" => IterDownInv(D)
  /\ pc = "iter_up" => IterUpInv(D)

\* The links are a red-black tree of the linked nodes, but for what the
\* running fix-up loop still owes, and D and B are its subtrees and heights.
Shape(D, B) ==
  IsRb(tree.child, tree.root, tree.color, linked, D, B, OwedAt, OwedDir, Exempt)

Inv ==
  /\ TypeOK
  /\ Parents(tree, linked)
  /\ \E D, B : Shape(D, B) /\ CallInv(D)

\* A step that only reads the tree.
LEMMA ReadStep ==
  ASSUME NEW D, NEW B, TypeOK', Parents(tree, linked), Shape(D, B),
         pc \notin {"insert_color", "remove_color"},
         pc' \notin {"insert_color", "remove_color"},
         UNCHANGED <<tree, linked>>, CallInv(D)'
  PROVE  Inv'
<1>1. OwedAt' = OwedAt /\ OwedDir' = OwedDir /\ Exempt' = Exempt
  BY DEF OwedAt, OwedDir, Exempt
<1>2. Shape(D, B)'
  BY <1>1 DEF Shape
<1>3. Parents(tree, linked)'
  OBVIOUS
<1> QED
  BY <1>2, <1>3 DEF Inv

\* A step after which the call is in a place that does not look at subtrees.
LEMMA WriteStep ==
  ASSUME TypeOK', Parents(tree', linked'),
         SomeRb(tree'.child, tree'.root, tree'.color, linked', OwedAt', OwedDir', Exempt'),
         \/ pc' = "idle" /\ IdleInv'
         \/ pc' = "insert_color" /\ InsertColorInv'
         \/ pc' = "remove_color" /\ RemoveColorInv'
  PROVE  Inv'
<1>1. PICK D, B : IsRb(tree'.child, tree'.root, tree'.color, linked', D, B,
                       OwedAt', OwedDir', Exempt')
  BY DEF SomeRb
<1>2. Shape(D, B)'
  BY <1>1 DEF Shape
<1>3. CallInv(D)'
  BY DEF CallInv
<1>4. Parents(tree, linked)'
  OBVIOUS
<1> QED
  BY <1>2, <1>3, <1>4 DEF Inv

\* A call returns: the tree is in order again.
LEMMA Returns ==
  ASSUME TypeOK, NEW r \in Ptr, Return(r), tree' \in Tree, linked' \subseteq Node,
         Parents(tree', linked'),
         SomeRb(tree'.child, tree'.root, tree'.color, linked', NULL, RB_LEFT, {})
  PROVE  Inv'
<1>1. TypeOK'
  BY DEF TypeOK, Return, None, Ptr
<1>2. OwedAt' = NULL /\ OwedDir' = RB_LEFT /\ Exempt' = {}
  BY DEF Return, OwedAt, OwedDir, Exempt
<1>3. pc' = "idle" /\ IdleInv'
  BY DEF Return, IdleInv
<1> QED
  BY <1>1, <1>2, <1>3, WriteStep

\* A call returns that has changed nothing.
LEMMA ReturnsRead ==
  ASSUME Inv, NEW r \in Ptr, Return(r), UNCHANGED <<tree, linked>>,
         pc \notin {"insert_color", "remove_color"}
  PROVE  Inv'
<1>1. PICK D, B : Shape(D, B)
  BY DEF Inv
<1>2. TypeOK'
  BY DEF Inv, TypeOK, Return, None, Ptr
<1>3. CallInv(D)'
  BY DEF CallInv, Return, IdleInv
<1> QED
  BY <1>1, <1>2, <1>3, ReadStep DEF Inv, Return

-----------------------------------------------------------------------------
(* The client's steps.                                                     *)

\* The empty tree.
LEMMA EmptyRb ==
  /\ EmptyTree \in Tree
  /\ Parents(EmptyTree, {})
  /\ SomeRb(EmptyTree.child, EmptyTree.root, EmptyTree.color, {}, NULL, RB_LEFT, {})
<1>1. EmptyTree \in Tree
  BY DEF EmptyTree, Tree, Ptr
<1>2. Parents(EmptyTree, {})
  BY DEF EmptyTree, Parents
<1> DEFINE D == [x \in Ptr |-> {}]
           B == [x \in Ptr |-> 0]
<1>3. IsTree(EmptyTree.child, NULL, {}, D)
  BY DEF IsTree, Ptr
<1>4. Balanced(EmptyTree.child, EmptyTree.color, {}, B, NULL, RB_LEFT)
  BY DEF Balanced, Ptr
<1>5. RedsApart(EmptyTree.child, NULL, EmptyTree.color, {}, {})
  BY DEF RedsApart
<1> HIDE DEF D, B
<1>6. IsRb(EmptyTree.child, NULL, EmptyTree.color, {}, D, B, NULL, RB_LEFT, {})
  BY <1>3, <1>4, <1>5 DEF IsRb
<1>7. EmptyTree.root = NULL
  BY DEF EmptyTree
<1> QED
  BY <1>1, <1>2, <1>6, <1>7 DEF SomeRb

\* The invariant holds of an empty tree with no call running.
LEMMA InvInit == Init => Inv
<1> SUFFICES ASSUME Init PROVE Inv
  OBVIOUS
<1>1. TypeOK
  BY EmptyRb DEF Init, TypeOK, None, Ptr
<1>2. Parents(tree, linked) /\ SomeRb(tree.child, tree.root, tree.color, linked, NULL, RB_LEFT, {})
  BY EmptyRb DEF Init
<1>3. PICK D, B : IsRb(tree.child, tree.root, tree.color, linked, D, B, NULL, RB_LEFT, {})
  BY <1>2 DEF SomeRb
<1>4. OwedAt = NULL /\ OwedDir = RB_LEFT /\ Exempt = {}
  BY DEF Init, OwedAt, OwedDir, Exempt
<1>5. Shape(D, B)
  BY <1>3, <1>4 DEF Shape
<1>6. CallInv(D)
  BY DEF Init, CallInv, IdleInv
<1> QED
  BY <1>1, <1>2, <1>5, <1>6 DEF Inv

\* RB_ROOT_INIT empties the tree: nothing is linked and nothing owed.
LEMMA RootInitStep == ASSUME Inv, RB_ROOT_INIT PROVE Inv'
<1>1. TypeOK'
  BY EmptyRb DEF Inv, TypeOK, RB_ROOT_INIT
<1>2. OwedAt' = NULL /\ OwedDir' = RB_LEFT /\ Exempt' = {}
  BY DEF RB_ROOT_INIT, OwedAt, OwedDir, Exempt
<1>3. tree' = EmptyTree /\ linked' = {}
  BY DEF RB_ROOT_INIT
<1>4. pc' = "idle" /\ IdleInv'
  BY DEF RB_ROOT_INIT, Inv, CallInv, IdleInv
<1> QED
  BY <1>1, <1>2, <1>3, <1>4, EmptyRb, WriteStep

\* While no fix-up loop runs, the links are a red-black tree.
LEMMA QuietShape ==
  ASSUME NEW D, NEW B, Shape(D, B), pc \notin {"insert_color", "remove_color"}
  PROVE  /\ IsRb(tree.child, tree.root, tree.color, linked, D, B, NULL, RB_LEFT, {})
         /\ IsTree(tree.child, tree.root, linked, D)
BY DEF Shape, OwedAt, OwedDir, Exempt, IsRb

\* Entering insert: the root is on the search path of every key.
LEMMA InsertStep == ASSUME Inv, NEW n \in Node, Insert(n) PROVE Inv'
<1>1. PICK D, B : Shape(D, B) /\ CallInv(D)
  BY DEF Inv
<1>2. /\ pc = "idle" /\ pc' = "insert_descend" /\ UNCHANGED <<tree, linked, parent>>
      /\ call' = [op |-> "insert", arg |-> n] /\ target' = n /\ cur' = tree.root /\ ret' = NULL
  BY DEF Insert, Call
<1>3. IsTree(tree.child, tree.root, linked, D) /\ linked \in SUBSET Node /\ tree \in Tree
  BY <1>1, <1>2, QuietShape DEF Inv, TypeOK
<1>4. TypeOK'
  BY <1>2, <1>3 DEF Inv, TypeOK, Ptr, Tree
<1>5. InsertDescendInv(D)'
  <2>1. tree.root \in linked \cup {NULL} /\ (tree.root = NULL => linked = {}) /\ D[tree.root] = linked
    BY <1>3 DEF IsTree
  <2>2. OnPath(tree.child, linked, D, Val[n], tree.root)
    BY <1>3, RootAtTop DEF OnPath
  <2> QED
    BY <1>2, <2>1, <2>2 DEF InsertDescendInv, Seeks
<1>6. CallInv(D)'
  BY <1>2, <1>5 DEF CallInv
<1> QED
  BY <1>1, <1>2, <1>4, <1>6, ReadStep DEF Inv

\* Entering find or remove by key: the root's subtree holds all that is sought.
LEMMA FindCall == ASSUME Inv, NEW k \in Key, NEW op \in {"find", "remove"}, Find(op, k) PROVE Inv'
<1>1. PICK D, B : Shape(D, B) /\ CallInv(D)
  BY DEF Inv
<1>2. /\ pc = "idle" /\ pc' = "find" /\ UNCHANGED <<tree, linked, target, parent>>
      /\ call' = [op |-> op, arg |-> k] /\ cur' = tree.root /\ ret' = NULL
  BY DEF Find, Call
<1>3. IsTree(tree.child, tree.root, linked, D) /\ tree \in Tree
  BY <1>1, <1>2, QuietShape DEF Inv, TypeOK
<1>4. TypeOK'
  BY <1>2, <1>3 DEF Inv, TypeOK, Ptr, Tree
<1>5. FindInv(D)'
  BY <1>2, <1>3 DEF FindInv, Seeks, IsTree
<1>6. CallInv(D)'
  BY <1>2, <1>5 DEF CallInv
<1> QED
  BY <1>1, <1>2, <1>4, <1>6, ReadStep DEF Inv

\* Entering rb_remove with a node of the tree.
LEMMA RemoveNodeStep == ASSUME Inv, NEW n \in Node, RemoveNode(n) PROVE Inv'
<1>1. PICK D, B : Shape(D, B) /\ CallInv(D)
  BY DEF Inv
<1>2. /\ n \in linked /\ pc = "idle" /\ pc' = "rb_remove" /\ UNCHANGED <<tree, linked, cur, parent>>
      /\ call' = [op |-> "rb_remove", arg |-> n] /\ target' = n /\ ret' = NULL
  BY DEF RemoveNode, Call
<1>3. TypeOK'
  BY <1>2 DEF Inv, TypeOK, Ptr
<1>4. RemoveInv'
  BY <1>2 DEF RemoveInv
<1>5. CallInv(D)'
  BY <1>2, <1>4 DEF CallInv
<1> QED
  BY <1>1, <1>2, <1>3, <1>5, ReadStep DEF Inv

\* Entering rb_first or rb_last: all nodes are candidates, all below the root.
LEMMA IterStep == ASSUME Inv, NEW op \in {"first", "last"}, Iter(op) PROVE Inv'
<1>1. PICK D, B : Shape(D, B) /\ CallInv(D)
  BY DEF Inv
<1>2. /\ pc = "idle" /\ pc' = "iter_down" /\ UNCHANGED <<tree, linked, target, parent>>
      /\ call' = [op |-> op, arg |-> NULL] /\ cur' = tree.root /\ ret' = NULL
  BY DEF Iter, Call
<1>3. IsTree(tree.child, tree.root, linked, D) /\ tree \in Tree
  BY <1>1, <1>2, QuietShape DEF Inv, TypeOK
<1>4. TypeOK'
  BY <1>2, <1>3 DEF Inv, TypeOK, Ptr, Tree
<1>5. IterDownInv(D)'
  <2>1. tree.root \in linked \cup {NULL} /\ (tree.root = NULL => linked = {}) /\ D[tree.root] = linked
    BY <1>3 DEF IsTree
  <2>2. Candidates' = linked
    BY <1>2 DEF Candidates
  <2> QED
    BY <1>2, <2>1, <2>2 DEF IterDownInv
<1>6. CallInv(D)'
  BY <1>2, <1>5 DEF CallInv
<1> QED
  BY <1>1, <1>2, <1>4, <1>6, ReadStep DEF Inv

\* Entering rb_next or rb_prev, which go down a child if there is one, else up.
LEMMA IterNextStep ==
  ASSUME Inv, NEW op \in {"next", "prev"}, NEW n \in Ptr, IterNext(op, n)
  PROVE  Inv'
<1>1. PICK D, B : Shape(D, B) /\ CallInv(D)
  BY DEF Inv
<1> DEFINE dd == DownDir(op)
           p == tree.child[n][Opp(dd)]
<1>2. /\ pc = "idle" /\ n \in linked \cup {NULL} /\ UNCHANGED <<tree, linked, target, parent>>
      /\ call' = [op |-> op, arg |-> n] /\ ret' = NULL
      /\ \/ n = NULL /\ pc' = "iter_down" /\ cur' = NULL
         \/ n # NULL /\ p # NULL /\ pc' = "iter_down" /\ cur' = p
         \/ n # NULL /\ p = NULL /\ pc' = "iter_up" /\ cur' = n
  BY DEF IterNext, Call
<1>3. /\ IsTree(tree.child, tree.root, linked, D) /\ tree \in Tree
      /\ linked \in SUBSET Node
  BY <1>1, <1>2, QuietShape DEF Inv, TypeOK
<1>4. dd \in Dir /\ Opp(dd) \in Dir /\ DownDir(call'.op) = dd
  BY <1>2, Sides DEF DownDir, Dir
<1>5. ASSUME n \in linked PROVE p \in linked \cup {NULL}
  BY <1>5, <1>3, <1>4 DEF IsTree
<1>6. TypeOK'
  <2>1. cur' \in Ptr /\ pc' \in {"iter_down", "iter_up"}
    BY <1>2, <1>3, <1>5 DEF Ptr
  <2> HIDE DEF p, dd
  <2> QED
    BY <2>1, <1>2, <1>3 DEF Inv, TypeOK, Ptr
<1>7. Candidates' = IF n = NULL THEN {} ELSE {m \in linked : Before(dd, n, m)}
  BY <1>2 DEF Candidates
<1>8. CASE n = NULL
  <2>1. D[NULL] = {}
    BY <1>3 DEF IsTree
  <2>2. pc' = "iter_down" /\ cur' = NULL /\ Candidates' = {}
    BY <1>2, <1>7, <1>8
  <2>3. IterDownInv(D)'
    BY <1>2, <1>8, <2>1, <2>2 DEF IterDownInv
  <2>4. CallInv(D)'
    BY <2>2, <2>3 DEF CallInv
  <2> QED
    BY <2>2, <2>4, <1>1, <1>2, <1>6, ReadStep DEF Inv
<1>9. CASE n # NULL
  <2>0. n \in linked
    BY <1>2, <1>9
  <2>1. /\ D[p] \subseteq {m \in linked : Before(dd, n, m)}
        /\ \A m \in D[tree.child[n][dd]] \cup {n} : ~Before(dd, n, m)
        /\ \A m \in linked : Before(dd, n, m) /\ m \notin D[p] =>
             m \notin D[n] /\ \A k \in D[n] : Before(dd, k, m)
    <3> HIDE DEF dd
    <3>1. BeyondNode(tree.child, linked, D, n, dd)
      BY <2>0, <1>3, <1>4, Beyond
    <3> QED
      BY <3>1 DEF BeyondNode
  <2>2. Candidates' = {m \in linked : Before(dd, n, m)}
    BY <1>7, <1>9
  <2> HIDE DEF dd
  <2>3. CASE p # NULL
    <3>1. pc' = "iter_down" /\ cur' = p
      BY <1>2, <1>9, <2>3
    <3>2. D[p] \subseteq D[n]
      BY <2>0, <1>3, <1>4, ChildBelow
    <3>3. p \in linked
      BY <1>5, <2>0, <2>3
    <3> HIDE DEF p
    <3>4. \A m \in Candidates' \ D[p] : \A k \in D[p] : Before(dd, k, m)
      BY <2>1, <2>2, <3>2
    <3>5. IterDownInv(D)'
      BY <1>2, <1>4, <2>0, <2>1, <2>2, <2>3, <3>1, <3>3, <3>4 DEF IterDownInv
    <3>6. CallInv(D)'
      BY <3>1, <3>5 DEF CallInv
    <3> QED
      BY <3>1, <3>6, <1>1, <1>2, <1>6, ReadStep DEF Inv
  <2>4. CASE p = NULL
    <3>1. pc' = "iter_up" /\ cur' = n
      BY <1>2, <1>9, <2>4
    <3>2. D[p] = {} /\ n \in D[n]
      BY <2>0, <2>4, <1>3, BelowNode DEF IsTree
    <3>3. \A m \in D[n] : m \in D[tree.child[n][dd]] \cup {n}
      BY <2>0, <3>2, <1>3, <1>4, BelowNode, Sides
    <3> HIDE DEF p
    <3>4. D[n] \cap Candidates' = {}
      BY <2>1, <2>2, <3>3
    <3>5. IterUpInv(D)'
      BY <1>2, <2>0, <3>1, <3>2, <3>4 DEF IterUpInv
    <3>6. CallInv(D)'
      BY <3>1, <3>5 DEF CallInv
    <3> QED
      BY <3>1, <3>6, <1>1, <1>2, <1>6, ReadStep DEF Inv
  <2> QED
    BY <2>3, <2>4
<1> QED
  BY <1>8, <1>9

-----------------------------------------------------------------------------
(* Searches and walks.                                                     *)

\* A turn of the search loop keeps the sought key below cur.
LEMMA FindStepStep == ASSUME Inv, FindStep PROVE Inv'
<1>1. PICK D, B : Shape(D, B) /\ CallInv(D)
  BY DEF Inv
<1>2. pc = "find" /\ UNCHANGED <<tree, linked>>
  BY DEF FindStep
<1>3. /\ IsTree(tree.child, tree.root, linked, D)
      /\ linked \in SUBSET Node /\ TypeOK /\ FindInv(D)
  BY <1>1, <1>2, QuietShape DEF Inv, TypeOK, CallInv
<1>4. cur \in Ptr /\ NULL \in Ptr
  BY DEF Inv, TypeOK, Ptr
<1>5. CASE cur = NULL /\ Return(NULL)
  BY <1>2, <1>4, <1>5, ReturnsRead
<1>6. CASE cur # NULL /\ Val[cur] = call.arg /\ call.op = "find" /\ Return(cur)
  BY <1>2, <1>4, <1>6, ReturnsRead
<1>7. CASE /\ cur # NULL /\ Val[cur] # call.arg
           /\ cur' = tree.child[cur][SearchDir(call.arg, cur)]
           /\ UNCHANGED <<pc, call, target, parent, ret>>
  <2>1. cur \in linked /\ call.arg \in Int
    BY <1>3, <1>7, Keys DEF FindInv
  <2>2. SearchDir(call.arg, cur) \in Dir
    BY DEF SearchDir, Dir
  <2>3. \A m \in D[cur] : Val[m] = call.arg => m \in D[cur']
    BY <2>1, <1>3, <1>7, SearchSide
  <2>4. cur' \in linked \cup {NULL}
    BY <2>1, <2>2, <1>3, <1>7 DEF IsTree
  <2>5. FindInv(D)'
    BY <2>3, <2>4, <1>2, <1>3, <1>7 DEF FindInv, Seeks
  <2>6. CallInv(D)'
    BY <2>5, <1>2, <1>7 DEF CallInv
  <2>7. TypeOK'
    BY <2>4, <1>2, <1>3, <1>7 DEF TypeOK, Ptr
  <2> QED
    BY <2>6, <2>7, <1>1, <1>2, <1>7, ReadStep DEF Inv
<1>8. CASE /\ cur # NULL /\ Val[cur] = call.arg /\ call.op = "remove"
           /\ pc' = "rb_remove" /\ target' = cur /\ cur' = NULL
           /\ UNCHANGED <<call, parent, ret>>
  <2>1. call = [op |-> "remove", arg |-> Val[cur]]
    BY <1>3, <1>8 DEF TypeOK
  <2>2. RemoveInv'
    BY <2>1, <1>2, <1>3, <1>8 DEF RemoveInv, FindInv
  <2>3. CallInv(D)'
    BY <2>2, <1>8 DEF CallInv
  <2>4. TypeOK'
    BY <1>2, <1>3, <1>4, <1>8 DEF TypeOK
  <2> QED
    BY <2>3, <2>4, <1>1, <1>2, <1>8, ReadStep DEF Inv
<1> QED
  BY <1>5, <1>6, <1>7, <1>8 DEF FindStep

\* A turn down keeps the outermost candidate below cur.
LEMMA IterDownStep == ASSUME Inv, IterDown PROVE Inv'
<1>1. PICK D, B : Shape(D, B) /\ CallInv(D)
  BY DEF Inv
<1> DEFINE dd == DownDir(call.op)
           q == tree.child[cur][dd]
<1>2. /\ pc = "iter_down" /\ UNCHANGED <<tree, linked>>
      /\ \/ cur = NULL /\ Return(NULL)
         \/ cur # NULL /\ q = NULL /\ Return(cur)
         \/ cur # NULL /\ q # NULL /\ cur' = q /\ UNCHANGED <<pc, call, target, parent, ret>>
  BY DEF IterDown
<1>3. /\ IsTree(tree.child, tree.root, linked, D)
      /\ linked \in SUBSET Node /\ TypeOK /\ IterDownInv(D)
  BY <1>1, <1>2, QuietShape DEF Inv, TypeOK, CallInv
<1>4. cur \in Ptr /\ NULL \in Ptr
  BY DEF Inv, TypeOK, Ptr
<1>5. CASE cur = NULL /\ Return(NULL)
  BY <1>2, <1>4, <1>5, ReturnsRead
<1>6. CASE cur # NULL /\ q = NULL /\ Return(cur)
  BY <1>2, <1>4, <1>6, ReturnsRead
<1>7. CASE cur # NULL /\ q # NULL /\ cur' = q /\ UNCHANGED <<pc, call, target, parent, ret>>
  <2>1. cur \in linked /\ dd \in Dir /\ Opp(dd) \in Dir
    BY <1>3, <1>7, Sides DEF IterDownInv, DownDir, Dir
  <2>2. q \in linked
    BY <2>1, <1>3, <1>7 DEF IsTree
  <2>3. /\ D[q] \subseteq D[cur] /\ D[cur] \subseteq linked
        /\ \A m \in D[cur] : m = cur \/ m \in D[q] \/ m \in D[tree.child[cur][Opp(dd)]]
    <3>1. D[q] \subseteq D[cur]
      BY <2>1, <1>3, ChildBelow
    <3>2. \A m \in D[cur] : m = cur \/ \E d \in Dir : m \in D[tree.child[cur][d]]
      BY <2>1, <1>3 DEF IsTree, Dir
    <3>3. \A d \in Dir : d = dd \/ d = Opp(dd)
      BY <2>1, Sides
    <3>4. D[cur] \subseteq linked
      BY <2>1, <1>3 DEF IsTree, Ptr
    <3> QED
      BY <3>1, <3>2, <3>3, <3>4
  <2>4. /\ \A m \in D[q] : Before(dd, m, cur)
        /\ \A m \in D[tree.child[cur][Opp(dd)]] : Before(Opp(dd), m, cur)
    BY <2>1, <1>3 DEF IsTree
  <2> HIDE DEF q, dd
  <2>5. \A k \in D[q] : \A m \in D[cur] : m \notin D[q] => Before(dd, k, m)
    <3> SUFFICES ASSUME NEW k \in D[q], NEW m \in D[cur], m \notin D[q] PROVE Before(dd, k, m)
      OBVIOUS
    <3>1. k \in Node /\ m \in Node /\ cur \in Node /\ Before(dd, k, cur)
      BY <2>1, <2>3, <2>4, <1>3
    <3>2. CASE m = cur
      BY <3>1, <3>2
    <3>3. CASE m \in D[tree.child[cur][Opp(dd)]]
      <4>1. Before(Opp(dd), m, cur)
        BY <3>3, <2>4
      <4>2. Before(dd, cur, m)
        BY <4>1, <3>1, <2>1, BeforeFacts
      <4> QED
        BY <4>2, <3>1, <2>1, BeforeFacts
    <3> QED
      BY <3>2, <3>3, <2>3
  <2>6. Candidates' = Candidates /\ DownDir(call'.op) = dd
    BY <1>2, <1>7 DEF Candidates, dd
  <2>7. \A m \in Candidates \ D[q] : \A k \in D[q] : Before(dd, k, m)
    BY <2>3, <2>5, <1>3 DEF IterDownInv, dd
  <2>8. D[q] \subseteq Candidates
    BY <2>3, <1>3 DEF IterDownInv
  <2>9. q # NULL
    BY <1>7
  <2>10. IterDownInv(D)'
    BY <2>2, <2>6, <2>7, <2>8, <2>9, <1>2, <1>3, <1>7 DEF IterDownInv
  <2>11. CallInv(D)'
    BY <2>10, <1>2, <1>7 DEF CallInv
  <2>12. TypeOK'
    BY <2>2, <1>2, <1>3, <1>7 DEF TypeOK, Ptr
  <2> QED
    BY <2>11, <2>12, <1>1, <1>2, <1>7, ReadStep DEF Inv
<1> QED
  BY <1>2, <1>5, <1>6, <1>7

\* A turn up ends at the first ancestor that lies beyond, else keeps climbing.
LEMMA IterUpStep == ASSUME Inv, IterUp PROVE Inv'
<1>1. PICK D, B : Shape(D, B) /\ CallInv(D)
  BY DEF Inv
<1> DEFINE dd == DownDir(call.op)
           p == tree.parent[cur]
<1>2. /\ pc = "iter_up" /\ UNCHANGED <<tree, linked>>
      /\ \/ Return(p)
         \/ /\ p # NULL /\ tree.child[p][Opp(dd)] = cur
            /\ cur' = p /\ UNCHANGED <<pc, call, target, parent, ret>>
  BY DEF IterUp, Climbs
<1>3. /\ IsTree(tree.child, tree.root, linked, D) /\ Parents(tree, linked)
      /\ linked \in SUBSET Node /\ TypeOK /\ IterUpInv(D)
  BY <1>1, <1>2, QuietShape DEF Inv, TypeOK, CallInv
<1>4. cur \in linked /\ dd \in Dir /\ Opp(dd) \in Dir
  BY <1>3, Sides DEF IterUpInv, DownDir, Dir
<1>5. p \in Ptr /\ (p # NULL => p \in linked)
  <2>1. cur # tree.root => p \in linked
    BY <1>3, <1>4, UpLink
  <2>2. cur = tree.root => p = NULL
    BY <1>3, <1>4, UpLink
  <2> QED
    BY <2>1, <2>2, <1>3 DEF Ptr
<1>6. CASE Return(p)
  BY <1>2, <1>5, <1>6, ReturnsRead
<1>7. CASE /\ p # NULL /\ tree.child[p][Opp(dd)] = cur
           /\ cur' = p /\ UNCHANGED <<pc, call, target, parent, ret>>
  <2>1. p \in linked
    BY <1>5, <1>7
  <2>2. /\ D[cur] \subseteq D[p] /\ D[p] \subseteq linked
        /\ \A m \in D[p] : m = p \/ m \in D[tree.child[p][dd]] \/ m \in D[cur]
    <3> HIDE DEF p
    <3>1. D[tree.child[p][Opp(dd)]] \subseteq D[p]
      BY <2>1, <1>3, <1>4, ChildBelow
    <3>2. \A m \in D[p] : m = p \/ \E d \in Dir : m \in D[tree.child[p][d]]
      BY <2>1, <1>3 DEF IsTree, Dir
    <3>3. \A d \in Dir : d = dd \/ d = Opp(dd)
      BY <1>4, Sides
    <3>4. D[p] \subseteq linked
      BY <2>1, <1>3 DEF IsTree, Ptr
    <3> QED
      BY <3>1, <3>2, <3>3, <3>4, <1>7
  <2>3. /\ \A m \in D[tree.child[p][dd]] : Before(dd, m, p)
        /\ \A m \in D[cur] : Before(Opp(dd), m, p)
    BY <2>1, <1>3, <1>4, <1>7 DEF IsTree
  <2>4. call.arg \in D[cur] /\ call.arg \in linked /\ call.arg # NULL
    BY <1>3, NullAssumption DEF IterUpInv
  <2>5. Candidates = {m \in linked : Before(dd, call.arg, m)}
    BY <2>4, <1>3 DEF Candidates, IterUpInv
  <2> HIDE DEF p, dd
  <2>6. \A m \in D[p] : m \notin Candidates
    <3> SUFFICES ASSUME NEW m \in D[p], m \in Candidates PROVE FALSE
      OBVIOUS
    <3>1. m \in Node /\ p \in Node /\ call.arg \in Node /\ Before(dd, call.arg, m)
      BY <2>1, <2>2, <2>4, <2>5, <1>3
    <3>2. Before(dd, p, call.arg)
      BY <3>1, <2>3, <2>4, <1>4, BeforeFacts
    <3>3. CASE m = p
      BY <3>1, <3>2, <3>3, <1>4, BeforeFacts
    <3>4. CASE m \in D[tree.child[p][dd]]
      <4>1. Before(dd, m, p)
        BY <3>4, <2>3
      <4>2. Before(dd, m, call.arg)
        BY <4>1, <3>1, <3>2, <1>4, BeforeFacts
      <4> QED
        BY <4>2, <3>1, <1>4, BeforeFacts
    <3>5. CASE m \in D[cur]
      BY <3>5, <1>3 DEF IterUpInv
    <3> QED
      BY <3>3, <3>4, <3>5, <2>2
  <2>7. Candidates' = Candidates
    BY <1>2, <1>7 DEF Candidates
  <2>8. IterUpInv(D)'
    BY <2>1, <2>2, <2>4, <2>6, <2>7, <1>2, <1>3, <1>7 DEF IterUpInv
  <2>9. CallInv(D)'
    BY <2>8, <1>2, <1>7 DEF CallInv
  <2>10. TypeOK'
    BY <2>1, <1>2, <1>3, <1>7 DEF TypeOK, Ptr
  <2> QED
    BY <2>9, <2>10, <1>1, <1>2, <1>7, ReadStep DEF Inv
<1> QED
  BY <1>2, <1>6, <1>7

-----------------------------------------------------------------------------
(* Inserting.                                                              *)

\* MakeLeaf changes node n only.
LEMMA MakeLeafFields ==
  ASSUME NEW t \in Tree, NEW n \in Node, NEW q \in Ptr
  PROVE  /\ MakeLeaf(t, n, q) \in Tree
         /\ MakeLeaf(t, n, q).root = t.root
         /\ \A d \in Dir : MakeLeaf(t, n, q).child[n][d] = NULL
         /\ MakeLeaf(t, n, q).color[n] = RB_RED
         /\ MakeLeaf(t, n, q).parent[n] = q
         /\ \A x \in Node \ {n} : /\ MakeLeaf(t, n, q).child[x] = t.child[x]
                                  /\ MakeLeaf(t, n, q).color[x] = t.color[x]
                                  /\ MakeLeaf(t, n, q).parent[x] = t.parent[x]
BY DEF MakeLeaf, rb_set_parent_color, Tree, Ptr

\* The new node is a red leaf, out of place at most.
LEMMA Linked ==
  ASSUME TypeOK, target \in Node, NEW t, NEW q, Link(t, q), pc = "insert_descend",
         MakeLeaf(t, target, q) \in Tree,
         MakeLeaf(t, target, q).color[target] = RB_RED,
         Parents(MakeLeaf(t, target, q), linked \cup {target}),
         SomeRb(MakeLeaf(t, target, q).child, MakeLeaf(t, target, q).root,
                MakeLeaf(t, target, q).color, linked \cup {target}, NULL, RB_LEFT, {target})
  PROVE  Inv'
<1>1. /\ tree' = MakeLeaf(t, target, q) /\ linked' = linked \cup {target}
      /\ pc' = "insert_color" /\ cur' = target /\ UNCHANGED <<call, target, parent, ret>>
  BY DEF Link
<1>2. TypeOK'
  BY <1>1 DEF TypeOK, Ptr
<1>3. OwedAt' = NULL /\ OwedDir' = RB_LEFT /\ Exempt' = {target}
  BY <1>1 DEF OwedAt, OwedDir, Exempt
<1>4. InsertColorInv'
  BY <1>1 DEF InsertColorInv
<1> QED
  BY <1>1, <1>2, <1>3, <1>4, WriteStep

\* A turn of insert's search, and the linking of a new red leaf at its end.
LEMMA InsertDescendStep == ASSUME Inv, InsertDescend PROVE Inv'
<1>1. PICK D, B : Shape(D, B) /\ CallInv(D)
  BY DEF Inv
<1> DEFINE dir == SearchDir(Val[target], cur)
           p == tree.child[cur][dir]
<1>2. /\ pc = "insert_descend"
      /\ \/ cur = NULL /\ Link(rb_set_root(tree, target), NULL)
         \/ /\ cur # NULL /\ Val[target] = Val[cur] /\ Return(cur)
            /\ UNCHANGED <<tree, linked>>
         \/ /\ cur # NULL /\ Val[target] # Val[cur] /\ p # NULL /\ cur' = p
            /\ UNCHANGED <<tree, linked, pc, call, target, parent, ret>>
         \/ /\ cur # NULL /\ Val[target] # Val[cur] /\ p = NULL
            /\ Link(rb_set_child(tree, cur, dir, target), cur)
  BY DEF InsertDescend
<1>3. /\ IsRb(tree.child, tree.root, tree.color, linked, D, B, NULL, RB_LEFT, {})
      /\ IsTree(tree.child, tree.root, linked, D) /\ Parents(tree, linked)
      /\ linked \in SUBSET Node /\ TypeOK /\ tree \in Tree /\ InsertDescendInv(D)
  BY <1>1, <1>2, QuietShape DEF Inv, TypeOK, CallInv
<1>4. /\ cur \in Ptr /\ NULL \in Ptr /\ target \in Node /\ Val[target] \in Int
      /\ cur \in linked \cup {NULL} /\ target # NULL /\ target \in Ptr
      /\ D[NULL] = {} /\ NULL \notin linked
  BY <1>3, ValAssumption, NullAssumption DEF InsertDescendInv, Ptr, IsTree
<1>5. CASE cur = NULL /\ Link(rb_set_root(tree, target), NULL)
  <2> DEFINE t == rb_set_root(tree, target)
             u == MakeLeaf(t, target, NULL)
  <2>1. linked = {}
    BY <1>3, <1>5 DEF InsertDescendInv
  <2>2. t \in Tree /\ t.root = target
    BY <1>3, <1>4, SetRoot
  <2> HIDE DEF t
  <2>3. /\ u \in Tree /\ u.root = target /\ (\A d \in Dir : u.child[target][d] = NULL)
        /\ u.color[target] = RB_RED /\ u.parent[target] = NULL
    BY <2>2, <1>4, MakeLeafFields
  <2> HIDE DEF u
  <2>4. SomeRb(u.child, target, u.color, {target}, NULL, RB_LEFT, {target})
    BY <2>3, <1>4, AddFirst
  <2>5. Parents(u, {target})
    BY <2>3 DEF Parents
  <2>6. linked \cup {target} = {target}
    BY <2>1
  <2> QED
    BY <2>3, <2>4, <2>5, <2>6, <1>2, <1>3, <1>4, <1>5, Linked DEF u, t
<1>6. CASE cur # NULL /\ Return(cur) /\ UNCHANGED <<tree, linked>>
  BY <1>2, <1>4, <1>6, ReturnsRead
<1>7. ASSUME cur # NULL, Val[target] # Val[cur]
      PROVE  /\ cur \in linked /\ dir \in Dir /\ p \in linked \cup {NULL}
             /\ \A m \in D[cur] : Val[m] = Val[target] => m \in D[p]
             /\ IF dir = RB_LEFT THEN Val[target] < Val[cur] ELSE Val[cur] < Val[target]
  <2>1. cur \in linked
    BY <1>4, <1>7
  <2>2. /\ dir \in Dir
        /\ \A m \in D[cur] : Val[m] = Val[target] => m \in D[p]
        /\ IF dir = RB_LEFT THEN Val[target] < Val[cur] ELSE Val[cur] < Val[target]
    BY <2>1, <1>3, <1>4, <1>7, SearchSide
  <2>3. p \in linked \cup {NULL}
    BY <2>1, <2>2, <1>3 DEF IsTree
  <2> QED
    BY <2>1, <2>2, <2>3
<1>8. CASE /\ cur # NULL /\ Val[target] # Val[cur] /\ p # NULL /\ cur' = p
           /\ UNCHANGED <<tree, linked, pc, call, target, parent, ret>>
  <2> HIDE DEF dir
  <2>1. /\ cur \in linked /\ dir \in Dir /\ p \in linked
        /\ \A m \in D[cur] : Val[m] = Val[target] => m \in D[p]
        /\ IF dir = RB_LEFT THEN Val[target] < Val[cur] ELSE Val[cur] < Val[target]
    BY <1>7, <1>8
  <2>2. OnPath(tree.child, linked, D, Val[target], p)
    <3> SUFFICES ASSUME NEW x \in linked, NEW d \in Dir, p \in D[tree.child[x][d]]
                 PROVE  IF d = RB_LEFT THEN Val[target] < Val[x] ELSE Val[x] < Val[target]
      BY DEF OnPath
    <3>1. CASE tree.child[x][d] = p
      <4>1. x = cur /\ d = dir
        BY <3>1, <2>1, <1>3, <1>8, OneParent
      <4> QED
        BY <4>1, <2>1
    <3>2. CASE tree.child[x][d] # p
      <4>1. tree.child[x][d] \in linked
        BY <1>3 DEF IsTree
      <4>2. cur \in D[tree.child[x][d]]
        <5> DEFINE y == tree.child[x][d]
        <5>1. y \in linked /\ tree.child[cur][dir] \in D[y] /\ tree.child[cur][dir] # y
          BY <4>1, <3>2
        <5> HIDE DEF y
        <5>2. cur \in D[y]
          BY <5>1, <2>1, <1>3, ParentIn
        <5> QED
          BY <5>2 DEF y
      <4> QED
        BY <4>2, <1>3 DEF InsertDescendInv, OnPath
    <3> QED
      BY <3>1, <3>2
  <2> HIDE DEF p
  <2>3. \A m \in linked : Val[m] = Val[target] => m \in D[p]
    BY <2>1, <1>3 DEF InsertDescendInv, Seeks
  <2>4. InsertDescendInv(D)'
    BY <2>1, <2>2, <2>3, <1>3, <1>4, <1>8 DEF InsertDescendInv, Seeks
  <2>5. CallInv(D)'
    BY <2>4, <1>2, <1>8 DEF CallInv
  <2>6. TypeOK'
    BY <2>1, <1>3, <1>8 DEF TypeOK, Ptr
  <2> QED
    BY <2>5, <2>6, <1>1, <1>2, <1>8, ReadStep DEF Inv
<1>9. CASE /\ cur # NULL /\ Val[target] # Val[cur] /\ p = NULL
           /\ Link(rb_set_child(tree, cur, dir, target), cur)
  <2> DEFINE t == rb_set_child(tree, cur, dir, target)
             u == MakeLeaf(t, target, cur)
  <2>1. /\ cur \in linked /\ cur \in Node /\ dir \in Dir /\ D[p] = {}
        /\ \A m \in D[cur] : Val[m] = Val[target] => m \in D[p]
        /\ IF dir = RB_LEFT THEN Val[target] < Val[cur] ELSE Val[cur] < Val[target]
    BY <1>3, <1>4, <1>7, <1>9
  <2>2. target \notin linked
    BY <2>1, <1>3 DEF InsertDescendInv, Seeks
  <2>3. Before(dir, target, cur) /\ tree.child[cur][dir] = NULL
    BY <2>1, <1>9 DEF Before
  <2>4. OnPath(tree.child, linked, D, Val[target], cur)
    BY <1>3 DEF InsertDescendInv
  <2> HIDE DEF dir, p
  <2>5. /\ t \in Tree /\ t.root = tree.root /\ t.parent = tree.parent /\ t.color = tree.color
        /\ \A x \in Node, d \in Dir :
             t.child[x][d] = IF x = cur /\ d = dir THEN target ELSE tree.child[x][d]
    BY <2>1, <1>3, <1>4, SetChild
  <2> HIDE DEF t
  <2>6. /\ u \in Tree /\ u.root = tree.root /\ (\A d \in Dir : u.child[target][d] = NULL)
        /\ u.color[target] = RB_RED /\ u.parent[target] = cur
        /\ \A x \in Node \ {target} : /\ u.child[x] = t.child[x]
                                      /\ u.color[x] = tree.color[x]
                                      /\ u.parent[x] = tree.parent[x]
    <3>1. t \in Tree
      BY <2>5
    <3>2. /\ u \in Tree /\ u.root = t.root /\ (\A d \in Dir : u.child[target][d] = NULL)
          /\ u.color[target] = RB_RED /\ u.parent[target] = cur
          /\ \A x \in Node \ {target} : /\ u.child[x] = t.child[x]
                                        /\ u.color[x] = t.color[x]
                                        /\ u.parent[x] = t.parent[x]
      BY <3>1, <1>4, MakeLeafFields
    <3> QED
      BY <3>2, <2>5
  <2> HIDE DEF u
  <2>7. Hangs(tree.child, u.child, linked, target, cur, dir)
    BY <2>2, <2>5, <2>6, <1>3 DEF Hangs
  <2>8. SameOn(tree.color, u.color, linked)
    BY <2>2, <2>6, <1>3 DEF SameOn
  <2>9. SomeRb(u.child, u.root, u.color, linked \cup {target}, NULL, RB_LEFT, {target})
    BY <2>1, <2>2, <2>3, <2>4, <2>6, <2>7, <2>8, <1>3, <1>4, AddLeaf
  <2>10. Parents(u, linked \cup {target})
    <3>1. ASSUME u.root # NULL PROVE u.parent[u.root] = NULL
      <4>1. tree.root \in linked
        BY <3>1, <2>6, <1>3 DEF IsTree
      <4> QED
        BY <3>1, <4>1, <2>2, <2>6, <1>3 DEF Parents
    <3>2. ASSUME NEW x \in linked, NEW d \in Dir, u.child[x][d] # NULL
          PROVE  u.parent[u.child[x][d]] = x
      <4>1. u.child[x][d] = IF x = cur /\ d = dir THEN target ELSE tree.child[x][d]
        BY <2>7 DEF Hangs
      <4>2. CASE x = cur /\ d = dir
        BY <4>1, <4>2, <2>6
      <4>3. CASE ~(x = cur /\ d = dir)
        <5>1. tree.child[x][d] \in linked /\ tree.parent[tree.child[x][d]] = x
          BY <4>1, <4>3, <3>2, <1>3 DEF IsTree, Parents
        <5> QED
          BY <5>1, <4>1, <4>3, <2>2, <2>6, <1>3
      <4> QED
        BY <4>2, <4>3
    <3> QED
      BY <3>1, <3>2, <2>6 DEF Parents
  <2>11. Link(t, cur)
    BY <1>9 DEF t
  <2> QED
    BY <2>6, <2>9, <2>10, <2>11, <1>2, <1>3, <1>4, Linked DEF u
<1> QED
  BY <1>2, <1>5, <1>6, <1>8, <1>9

\* Repainting leaves the links alone.
LEMMA PaintFields ==
  ASSUME NEW t \in Tree, NEW L \in SUBSET Node, Parents(t, L), NEW n \in Node,
         NEW c \in {RB_RED, RB_BLACK}
  PROVE  /\ rb_set_color(t, n, c) \in Tree
         /\ rb_set_color(t, n, c).root = t.root
         /\ rb_set_color(t, n, c).child = t.child
         /\ rb_set_color(t, n, c).parent = t.parent
         /\ Parents(rb_set_color(t, n, c), L)
         /\ Paints(t.color, rb_set_color(t, n, c).color, L, n, c)
<1>1. /\ rb_set_color(t, n, c) \in Tree
      /\ rb_set_color(t, n, c).root = t.root
      /\ rb_set_color(t, n, c).child = t.child
      /\ rb_set_color(t, n, c).parent = t.parent
      /\ \A x \in Node : rb_set_color(t, n, c).color[x] = IF x = n THEN c ELSE t.color[x]
  BY SetColor, ZenonT(40)
<1> HIDE DEF rb_set_color
<1> QED
  BY <1>1 DEF Parents, Paints

\* The tree u after a rotation of t at the black node a, whose child p is red,
\* when they have exchanged their colours.
SwappedUp(t, u, L, a, p, dir, q, e) ==
  /\ u \in Tree
  /\ Parents(u, L)
  /\ AroundPivot(t.child, t.root, u.child, L, a, p, dir)
  /\ SwapsColors(t.color, u.color, L, a, p)
  /\ SomeRb(u.child, u.root, u.color, L, q, e, {})

\* The last case of rb_insert_color, cases 1 and 3 of rb_remove_color.
LEMMA SwapUp ==
  ASSUME NEW t \in Tree, NEW L \in SUBSET Node, NEW D, NEW B, NEW q, NEW e, NEW X,
         IsRb(t.child, t.root, t.color, L, D, B, q, e, X), Parents(t, L),
         NEW a \in L, NEW dir \in Dir, NEW p \in L, t.child[a][Opp(dir)] = p,
         t.color[a] = RB_BLACK, t.color[p] = RB_RED,
         t.child[a][dir] \in L => t.color[t.child[a][dir]] = RB_BLACK,
         t.child[p][dir] \in L => t.color[t.child[p][dir]] = RB_BLACK,
         X \subseteq {t.child[p][Opp(dir)]},
         q # p, ~(q = a /\ e = Opp(dir))
  PROVE  SwappedUp(t, rb_rotate(rb_set_color(rb_set_color(t, p, RB_BLACK), a, RB_RED), a, dir),
                   L, a, p, dir, q, e)
<1> DEFINE t1 == rb_set_color(t, p, RB_BLACK)
           t2 == rb_set_color(t1, a, RB_RED)
           u == rb_rotate(t2, a, dir)
<1>1. a \in Node /\ p \in Node /\ IsTree(t.child, t.root, L, D)
  BY DEF IsRb
<1>2. /\ t1 \in Tree /\ t1.root = t.root /\ t1.child = t.child /\ Parents(t1, L)
      /\ Paints(t.color, t1.color, L, p, RB_BLACK)
  BY <1>1, PaintFields
<1> HIDE DEF t1
<1>3. /\ t2 \in Tree /\ t2.root = t1.root /\ t2.child = t1.child /\ Parents(t2, L)
      /\ Paints(t1.color, t2.color, L, a, RB_RED)
  BY <1>1, <1>2, PaintFields
<1> HIDE DEF t2
<1>4. SwapsColors(t.color, t2.color, L, a, p)
  BY <1>2, <1>3 DEF Paints, SwapsColors
<1>5. Rotated(t2, u, L, a, dir)
  <2>1. IsTree(t2.child, t2.root, L, D) /\ t2.child[a][Opp(dir)] = p
    BY <1>1, <1>2, <1>3
  <2> QED
    BY <2>1, <1>3, RotateFields
<1> HIDE DEF u
<1>6. /\ u \in Tree /\ u.color = t2.color /\ Parents(u, L)
      /\ Rotates(t.child, t.root, u.child, u.root, L, a, dir)
  BY <1>2, <1>3, <1>5 DEF Rotated
<1>7. AroundPivot(t.child, t.root, u.child, L, a, p, dir)
  BY <1>1, <1>6, RotateLinks
<1>8. SomeRb(u.child, u.root, u.color, L, q, e, {})
  BY <1>4, <1>6, RotateSwap
<1>9. SwappedUp(t, u, L, a, p, dir, q, e)
  BY <1>4, <1>6, <1>7, <1>8 DEF SwappedUp
<1> QED
  BY <1>9 DEF u, t2, t1

\* A red node below a red parent has a grandparent, which is black.
RedUp(t, L, n, q, g, dir) ==
  /\ q \in L /\ g \in L /\ dir \in Dir
  /\ t.color[q] = RB_RED /\ t.color[g] = RB_BLACK
  /\ t.child[g][dir] = q
  /\ \E f \in Dir : t.child[q][f] = n
  /\ n # q /\ n # g /\ q # g

\* A red parent is not the root, so the grandparent rb_insert_color reads exists.
LEMMA RedParent ==
  ASSUME NEW t \in Tree, NEW L \in SUBSET Node, NEW D, NEW B, NEW n \in L,
         IsRb(t.child, t.root, t.color, L, D, B, NULL, RB_LEFT, {n}), Parents(t, L),
         t.color[n] = RB_RED, IsRed(t, t.parent[n])
  PROVE  RedUp(t, L, n, t.parent[n], t.parent[t.parent[n]],
               DirOf(t, t.parent[t.parent[n]], t.parent[n]))
<1> DEFINE q == t.parent[n]
           g == t.parent[q]
           dir == DirOf(t, g, q)
<1>1. IsTree(t.child, t.root, L, D) /\ RedsApart(t.child, t.root, t.color, L, {n})
  BY DEF IsRb
<1>2. LinkFacts(t.child, t.root, L, D)
  BY <1>1, TreeLinks
<1>3. n # t.root
  BY <1>1, UpLink DEF IsRed
<1>4. q \in L /\ t.child[q][DirOf(t, q, n)] = n /\ DirOf(t, q, n) \in Dir
  BY <1>1, <1>3, UpLink
<1>5. q # n
  BY <1>2, <1>4 DEF LinkFacts
<1>6. t.color[q] = RB_RED
  BY DEF IsRed
<1>7. q # t.root
  BY <1>1, <1>4, <1>5, <1>6 DEF RedsApart, RB_RED, RB_BLACK
<1> HIDE DEF q
<1>8. g \in L /\ t.child[g][dir] = q /\ dir \in Dir
  BY <1>1, <1>4, <1>7, UpLink
<1>9. g # q /\ g # n
  BY <1>2, <1>4, <1>8 DEF LinkFacts
<1> HIDE DEF g, dir
<1>10. t.color[g] = RB_BLACK
  <2>1. t.color[g] \in {RB_RED, RB_BLACK}
    BY <1>8 DEF IsRb
  <2> QED
    BY <2>1, <1>1, <1>4, <1>5, <1>6, <1>8 DEF RedsApart, RB_RED, RB_BLACK
<1>11. RedUp(t, L, n, q, g, dir)
  BY <1>4, <1>5, <1>6, <1>8, <1>9, <1>10 DEF RedUp
<1> QED
  BY <1>11 DEF q, g, dir

\* What InsertCase23 makes of t.
Straightened(t, u, L, n, q, dir) ==
  /\ u \in Tree
  /\ Parents(u, L)
  /\ SomeRb(u.child, u.root, u.color, L, NULL, RB_LEFT, {})
  /\ u.color[IF t.child[q][Opp(dir)] = n THEN q ELSE n] = RB_RED

\* Cases 2 and 3 of rb_insert_color as changes of the links, red outer child first.
LEMMA Case23 ==
  ASSUME NEW t \in Tree, NEW L \in SUBSET Node, NEW D, NEW B, NEW n \in L,
         IsRb(t.child, t.root, t.color, L, D, B, NULL, RB_LEFT, {n}), Parents(t, L),
         t.color[n] = RB_RED, NEW q, NEW g, NEW dir, RedUp(t, L, n, q, g, dir),
         IsBlack(t, t.child[g][Opp(dir)]),
         NEW u, u = InsertCase23(t, n, q, g, dir)
  PROVE  Straightened(t, u, L, n, q, dir)
<1>1. /\ q \in L /\ g \in L /\ dir \in Dir /\ t.color[q] = RB_RED /\ t.color[g] = RB_BLACK
      /\ t.child[g][dir] = q /\ n # q /\ n # g /\ q # g
  BY DEF RedUp
<1>2. PICK f \in Dir : t.child[q][f] = n
  BY DEF RedUp
<1>3. /\ Opp(dir) \in Dir /\ Opp(Opp(dir)) = dir /\ Opp(dir) # dir
      /\ \A d \in Dir : d = dir \/ d = Opp(dir)
  BY <1>1, Sides
<1>4. /\ IsTree(t.child, t.root, L, D) /\ RedsApart(t.child, t.root, t.color, L, {n})
      /\ \A x \in L : t.color[x] \in {RB_RED, RB_BLACK}
  BY DEF IsRb
<1>l. LinkFacts(t.child, t.root, L, D)
  BY <1>4, TreeLinks
<1>5. t.child[g][Opp(dir)] \in L => t.color[t.child[g][Opp(dir)]] = RB_BLACK
  BY <1>4, NullAssumption DEF IsBlack, IsRed
<1>6. \A x \in L, d \in Dir :
        t.child[x][d] \in L /\ t.color[x] = RB_RED /\ t.child[x][d] # n
          => t.color[t.child[x][d]] = RB_BLACK
  BY <1>4 DEF RedsApart
<1>7. CASE t.child[q][Opp(dir)] # n
  <2>1. f = dir
    BY <1>2, <1>3, <1>7
  <2>2. u = rb_rotate(rb_set_color(rb_set_color(t, q, RB_BLACK), g, RB_RED), g, Opp(dir))
    BY <1>7 DEF InsertCase23
  <2>3. t.child[q][Opp(dir)] \in L => t.color[t.child[q][Opp(dir)]] = RB_BLACK
    BY <1>1, <1>3, <1>6, <1>7
  <2>4. SwappedUp(t, u, L, g, q, Opp(dir), NULL, RB_LEFT)
    <3> DEFINE od == Opp(dir)
               v == rb_rotate(rb_set_color(rb_set_color(t, q, RB_BLACK), g, RB_RED), g, od)
    <3>1. {n} \subseteq {t.child[q][Opp(od)]} /\ NULL # q /\ NULL # g
      BY <2>1, <1>1, <1>2, <1>3, NullAssumption
    <3>2. t.child[g][Opp(od)] = q /\ od \in Dir
      BY <1>1, <1>3
    <3>3. /\ t.child[g][od] \in L => t.color[t.child[g][od]] = RB_BLACK
          /\ t.child[q][od] \in L => t.color[t.child[q][od]] = RB_BLACK
      BY <2>3, <1>5
    <3> HIDE DEF od
    <3>4. SwappedUp(t, v, L, g, q, od, NULL, RB_LEFT)
      BY <3>1, <3>2, <3>3, <1>1, SwapUp
    <3> QED
      BY <3>4, <2>2 DEF od
  <2> QED
    BY <2>4, <1>1, <1>7 DEF SwappedUp, SwapsColors, Straightened
<1>8. CASE t.child[q][Opp(dir)] = n
  <2> DEFINE t1 == rb_rotate(t, q, dir)
  <2>1. u = rb_rotate(rb_set_color(rb_set_color(t1, n, RB_BLACK), g, RB_RED), g, Opp(dir))
    BY <1>8 DEF InsertCase23
  <2>2. Rotated(t, t1, L, q, dir)
    BY <1>1, <1>4, <1>8, RotateFields
  <2> HIDE DEF t1
  <2>3. /\ t1 \in Tree /\ t1.color = t.color /\ Parents(t1, L)
        /\ Rotates(t.child, t.root, t1.child, t1.root, L, q, dir)
    BY <2>2 DEF Rotated
  <2>4. AroundPivot(t.child, t.root, t1.child, L, q, n, dir)
    BY <2>3, <1>1, <1>4, <1>8, RotateLinks
  <2>5. SomeRb(t1.child, t1.root, t.color, L, NULL, RB_LEFT, {q})
    <3>1. NULL # q /\ NULL # n
      BY <1>1, NullAssumption
    <3> QED
      BY <3>1, <2>3, <1>1, <1>8, RotateBent
  <2>6. PICK D1, B1 : IsRb(t1.child, t1.root, t1.color, L, D1, B1, NULL, RB_LEFT, {q})
    BY <2>3, <2>5 DEF SomeRb
  <2>7. /\ t1.child[g][dir] = n /\ t1.child[n][dir] = q
        /\ t1.child[n][Opp(dir)] = t.child[n][Opp(dir)]
    BY <2>4, <1>1, <1>3 DEF AroundPivot
  <2>8. t1.child[g][Opp(dir)] = t.child[g][Opp(dir)]
    <3>1. t.child[g][Opp(dir)] # q
      BY <1>1, <1>3, <1>l, NullAssumption DEF LinkFacts
    <3> QED
      BY <3>1, <2>4, <1>1, <1>3 DEF AroundPivot
  <2>9. t1.child[n][Opp(dir)] \in L => t1.color[t1.child[n][Opp(dir)]] = RB_BLACK
    <3>1. t.child[n][Opp(dir)] # n
      BY <1>3, <1>l DEF LinkFacts
    <3> QED
      BY <3>1, <2>3, <2>7, <1>3, <1>6
  <2>10. t1.child[g][Opp(dir)] \in L => t1.color[t1.child[g][Opp(dir)]] = RB_BLACK
    BY <2>3, <2>8, <1>5
  <2>11. SwappedUp(t1, u, L, g, n, Opp(dir), NULL, RB_LEFT)
    <3> DEFINE od == Opp(dir)
               v == rb_rotate(rb_set_color(rb_set_color(t1, n, RB_BLACK), g, RB_RED), g, od)
    <3>1. {q} \subseteq {t1.child[n][Opp(od)]} /\ NULL # n /\ NULL # g
      BY <2>7, <1>1, <1>3, NullAssumption
    <3>2. /\ t1.child[g][Opp(od)] = n /\ od \in Dir
          /\ t1.color[g] = RB_BLACK /\ t1.color[n] = RB_RED
      BY <2>3, <2>7, <1>1, <1>3
    <3>3. t1 \in Tree /\ Parents(t1, L)
      BY <2>3
    <3>4. /\ t1.child[g][od] \in L => t1.color[t1.child[g][od]] = RB_BLACK
          /\ t1.child[n][od] \in L => t1.color[t1.child[n][od]] = RB_BLACK
      BY <2>9, <2>10
    <3> HIDE DEF od
    <3>5. SwappedUp(t1, v, L, g, n, od, NULL, RB_LEFT)
      BY <2>6, <3>1, <3>2, <3>3, <3>4, <1>1, SwapUp
    <3> QED
      BY <3>5, <2>1 DEF od
  <2> QED
    BY <2>3, <2>11, <1>1, <1>8 DEF SwappedUp, SwapsColors, Straightened
<1> QED
  BY <1>7, <1>8

\* A turn of the loop of rb_insert_color leaves a red at node n, out of place
\* at most.
LEMMA InsertTurn ==
  ASSUME TypeOK, pc = "insert_color", UNCHANGED <<linked, pc, call, target, parent, ret>>,
         target \in Node, cur' \in linked, tree' \in Tree, Parents(tree', linked),
         SomeRb(tree'.child, tree'.root, tree'.color, linked, NULL, RB_LEFT, {cur'}),
         tree'.color[cur'] = RB_RED
  PROVE  Inv'
<1>1. TypeOK'
  BY DEF TypeOK, Ptr
<1>2. OwedAt' = NULL /\ OwedDir' = RB_LEFT /\ Exempt' = {cur'}
  BY DEF OwedAt, OwedDir, Exempt
<1>3. InsertColorInv'
  BY DEF InsertColorInv
<1> QED
  BY <1>1, <1>2, <1>3, WriteStep

\* The state at the top of the loop of rb_insert_color.
LEMMA InsertColorFacts ==
  ASSUME Inv, pc = "insert_color"
  PROVE  /\ TypeOK /\ tree \in Tree /\ linked \in SUBSET Node /\ Parents(tree, linked)
         /\ target \in Node /\ cur \in linked /\ tree.color[cur] = RB_RED
         /\ SomeRb(tree.child, tree.root, tree.color, linked, NULL, RB_LEFT, {cur})
<1>1. PICK D, B : Shape(D, B) /\ CallInv(D)
  BY DEF Inv
<1>2. IsRb(tree.child, tree.root, tree.color, linked, D, B, NULL, RB_LEFT, {cur})
  BY <1>1 DEF Shape, OwedAt, OwedDir, Exempt
<1> QED
  BY <1>1, <1>2 DEF SomeRb, Inv, TypeOK, CallInv, InsertColorInv

\* A turn of rb_insert_color moves the one red-red pair up or removes it.
LEMMA InsertColorStep == ASSUME Inv, InsertColor PROVE Inv'
<1> DEFINE q == tree.parent[cur]
           g == tree.parent[q]
           dir == DirOf(tree, g, q)
           uncle == tree.child[g][Opp(dir)]
<1>1. /\ pc = "insert_color" /\ linked' = linked
      /\ \/ /\ IsBlack(tree, q) /\ tree' = rb_set_color(tree, tree.root, RB_BLACK)
            /\ Return(target)
         \/ /\ IsRed(tree, q) /\ IsRed(tree, uncle)
            /\ tree' = InsertCase1(tree, q, uncle, g) /\ cur' = g
            /\ UNCHANGED <<pc, call, target, parent, ret>>
         \/ /\ IsRed(tree, q) /\ IsBlack(tree, uncle)
            /\ tree' = InsertCase23(tree, cur, q, g, dir)
            /\ cur' = IF tree.child[q][Opp(dir)] = cur THEN q ELSE cur
            /\ UNCHANGED <<pc, call, target, parent, ret>>
  BY DEF InsertColor
<1>2. /\ TypeOK /\ tree \in Tree /\ linked \in SUBSET Node /\ Parents(tree, linked)
      /\ target \in Node /\ cur \in linked /\ tree.color[cur] = RB_RED
      /\ SomeRb(tree.child, tree.root, tree.color, linked, NULL, RB_LEFT, {cur})
  BY <1>1, InsertColorFacts
<1>3. PICK D, B : IsRb(tree.child, tree.root, tree.color, linked, D, B, NULL, RB_LEFT, {cur})
  BY <1>2 DEF SomeRb
<1>4. IsTree(tree.child, tree.root, linked, D) /\ RedsApart(tree.child, tree.root, tree.color, linked, {cur})
  BY <1>3 DEF IsRb
<1>5. target \in Ptr
  BY <1>2 DEF Ptr
<1>6. CASE /\ IsBlack(tree, q) /\ tree' = rb_set_color(tree, tree.root, RB_BLACK)
           /\ Return(target)
  <2>1. tree.root \in linked /\ tree.root \in Node
    BY <1>2, <1>4 DEF IsTree
  <2>2. /\ tree' \in Tree /\ tree'.root = tree.root /\ tree'.child = tree.child /\ Parents(tree', linked)
        /\ Paints(tree.color, tree'.color, linked, tree.root, RB_BLACK)
    <3>1. RB_BLACK \in {RB_RED, RB_BLACK}
      OBVIOUS
    <3> QED
      BY <2>1, <3>1, <1>2, <1>6, PaintFields
  <2>3. SomeRb(tree'.child, tree'.root, tree'.color, linked, NULL, RB_LEFT, {})
    <3>1. CASE cur = tree.root
      <4>1. {cur} \subseteq {tree.root} \cup {tree.child[tree.root][d] : d \in Dir}
        BY <3>1
      <4> QED
        BY <4>1, <2>1, <2>2, <1>2, <1>3, PaintRoot, ZenonT(40)
    <3>2. CASE cur # tree.root
      <4>1. q \in linked /\ \A x \in linked, d \in Dir : tree.child[x][d] = cur => x = q
        <5>1. q \in linked
          BY <3>2, <1>2, <1>4, UpLink
        <5>2. cur # NULL
          BY <1>2, NullAssumption
        <5> QED
          BY <5>1, <5>2, <1>2 DEF Parents
      <4>2. tree.color[q] # RB_RED
        BY <4>1, <1>2, <1>6, NullAssumption DEF IsBlack, IsRed
      <4> HIDE DEF q
      <4>3. RedsApart(tree.child, tree.root, tree.color, linked, {})
        BY <4>1, <4>2, <3>2, <1>4 DEF RedsApart
      <4> DEFINE X == {}
      <4>4. IsRb(tree.child, tree.root, tree.color, linked, D, B, NULL, RB_LEFT, X)
        BY <4>3, <1>3 DEF IsRb
      <4>5. X \subseteq {tree.root} \cup {tree.child[tree.root][d] : d \in Dir}
        OBVIOUS
      <4> HIDE DEF X
      <4> QED
        BY <4>4, <4>5, <2>1, <2>2, <1>2, PaintRoot
    <3> QED
      BY <3>1, <3>2
  <2> QED
    BY <2>2, <2>3, <1>1, <1>2, <1>5, <1>6, Returns
<1>7. ASSUME IsRed(tree, q) PROVE RedUp(tree, linked, cur, q, g, dir)
  BY <1>2, <1>3, <1>7, RedParent
<1>8. CASE /\ IsRed(tree, q) /\ IsRed(tree, uncle)
           /\ tree' = InsertCase1(tree, q, uncle, g) /\ cur' = g
           /\ UNCHANGED <<pc, call, target, parent, ret>>
  <2>1. RedUp(tree, linked, cur, q, g, dir)
    BY <1>7, <1>8
  <2> HIDE DEF q, g, dir
  <2>2. /\ q \in linked /\ g \in linked /\ dir \in Dir
        /\ tree.color[q] = RB_RED /\ tree.color[g] = RB_BLACK
        /\ tree.child[g][dir] = q /\ cur # q /\ cur # g /\ q # g
    BY <2>1 DEF RedUp
  <2>3. PICK f \in Dir : tree.child[q][f] = cur
    BY <2>1 DEF RedUp
  <2>4. uncle \in linked /\ tree.color[uncle] = RB_RED /\ Opp(dir) \in Dir
    <3>1. uncle # NULL /\ tree.color[uncle] = RB_RED
      BY <1>8 DEF IsRed
    <3>2. Opp(dir) \in Dir
      BY <2>2, Sides
    <3> QED
      BY <3>1, <3>2, <2>2, <1>4 DEF IsTree
  <2> DEFINE t1 == rb_set_color(tree, q, RB_BLACK)
             t2 == rb_set_color(t1, uncle, RB_BLACK)
             t3 == rb_set_color(t2, g, RB_RED)
  <2>5. tree.child[g][Opp(dir)] = uncle
    OBVIOUS
  <2> HIDE DEF uncle
  <2>6. /\ t1 \in Tree /\ t1.root = tree.root /\ t1.child = tree.child /\ Parents(t1, linked)
        /\ Paints(tree.color, t1.color, linked, q, RB_BLACK)
    BY <2>2, <1>2, PaintFields
  <2> HIDE DEF t1
  <2>7. /\ t2 \in Tree /\ t2.root = t1.root /\ t2.child = t1.child /\ Parents(t2, linked)
        /\ Paints(t1.color, t2.color, linked, uncle, RB_BLACK)
    BY <2>4, <2>6, <1>2, PaintFields
  <2> HIDE DEF t2
  <2>8. /\ t3 \in Tree /\ t3.root = t2.root /\ t3.child = t2.child /\ Parents(t3, linked)
        /\ Paints(t2.color, t3.color, linked, g, RB_RED)
    BY <2>2, <2>7, <1>2, PaintFields
  <2>9. tree' = t3
    BY <1>8 DEF InsertCase1, t1, t2
  <2> HIDE DEF t3
  <2>10. PaintsFamily(tree.color, t3.color, linked, g, q, uncle)
    BY <2>6, <2>7, <2>8 DEF Paints, PaintsFamily
  <2>11. SomeRb(tree.child, tree.root, t3.color, linked, NULL, RB_LEFT, {g})
    <3>1. NULL \notin {g, q, uncle}
      BY <2>2, <2>4, <1>2, NullAssumption
    <3> QED
      BY <3>1, <2>2, <2>3, <2>4, <2>5, <2>10, <1>2, <1>3, PushRed
  <2>12. t3.color[g] = RB_RED
    BY <2>2, <2>8 DEF Paints
  <2>13. t3.child = tree.child /\ t3.root = tree.root
    BY <2>6, <2>7, <2>8
  <2>14. cur' = g /\ UNCHANGED <<linked, pc, call, target, parent, ret>>
    BY <1>1, <1>8
  <2> QED
    BY <2>2, <2>8, <2>9, <2>11, <2>12, <2>13, <2>14, <1>1, <1>2, InsertTurn
<1>9. CASE /\ IsRed(tree, q) /\ IsBlack(tree, uncle)
           /\ tree' = InsertCase23(tree, cur, q, g, dir)
           /\ cur' = IF tree.child[q][Opp(dir)] = cur THEN q ELSE cur
           /\ UNCHANGED <<pc, call, target, parent, ret>>
  <2>1. RedUp(tree, linked, cur, q, g, dir)
    BY <1>7, <1>9
  <2>2. IsBlack(tree, tree.child[g][Opp(dir)])
    BY <1>9
  <2> HIDE DEF q, g, dir
  <2>3. q \in linked
    BY <2>1 DEF RedUp
  <2>4. /\ tree' \in Tree
        /\ Parents(tree', linked)
        /\ SomeRb(tree'.child, tree'.root, tree'.color, linked, NULL, RB_LEFT, {})
        /\ tree'.color[IF tree.child[q][Opp(dir)] = cur THEN q ELSE cur] = RB_RED
    <3>1. Straightened(tree, tree', linked, cur, q, dir)
      BY <2>1, <2>2, <1>2, <1>3, <1>9, Case23
    <3> QED
      BY <3>1 DEF Straightened
  <2>5. cur' \in linked /\ tree'.color[cur'] = RB_RED
    BY <2>3, <2>4, <1>2, <1>9
  <2>6. SomeRb(tree'.child, tree'.root, tree'.color, linked, NULL, RB_LEFT, {cur'})
    BY <2>4, <1>2, Excuse
  <2>7. UNCHANGED <<linked, pc, call, target, parent, ret>>
    BY <1>1, <1>9
  <2> QED
    BY <2>4, <2>5, <2>6, <2>7, <1>1, <1>2, InsertTurn
<1> QED
  BY <1>1, <1>6, <1>8, <1>9

-----------------------------------------------------------------------------
(* Removing.                                                               *)

\* The client's scribbles on a node that is out of the tree change nothing.
LEMMA PoisonKeeps ==
  ASSUME NEW t \in Tree, NEW L \in SUBSET Node, NEW n \in Node, n \notin L, Parents(t, L),
         NEW X, SomeRb(t.child, t.root, t.color, L, NULL, RB_LEFT, X)
  PROVE  /\ Poison(t, n) \in Tree
         /\ Parents(Poison(t, n), L)
         /\ SomeRb(Poison(t, n).child, Poison(t, n).root, Poison(t, n).color, L, NULL, RB_LEFT, X)
<1> DEFINE u == Poison(t, n)
<1>1. /\ u \in Tree /\ u.root = t.root
      /\ \A x \in Node \ {n} : /\ u.child[x] = t.child[x]
                               /\ u.parent[x] = t.parent[x]
                               /\ u.color[x] = t.color[x]
  BY PoisonFields
<1> HIDE DEF u
<1>2. SameOn(t.child, u.child, L) /\ SameOn(t.parent, u.parent, L) /\ SameOn(t.color, u.color, L)
  BY <1>1 DEF SameOn
<1>3. SomeRb(u.child, t.root, u.color, L, NULL, RB_LEFT, X)
  BY <1>2, OthersFree
<1>4. PICK D : IsTree(t.child, t.root, L, D)
  BY DEF SomeRb, IsRb
<1>5. Parents(u, L)
  BY <1>1, <1>2, <1>4, SameParents
<1> QED
  BY <1>1, <1>3, <1>5 DEF u

\* The state after Unlink: c is in the place of the node that left, at the
\* link e of q, where a black is owed if that node was black.
Unlinked(t, L, c, q, e) ==
  /\ t \in Tree
  /\ Parents(t, L)
  /\ c \in L \cup {NULL}
  /\ q = NULL => c = t.root
  /\ q # NULL => q \in L /\ e \in Dir /\ t.child[q][e] = c

\* rb_remove returns, or goes on to rb_remove_color.
LEMMA UnlinkStep ==
  ASSUME TypeOK, target \in linked, NEW t, NEW black, NEW q, NEW c, NEW e, Unlink(t, black, q, c),
         Unlinked(t, linked \ {target}, c, q, e),
         black \in {RB_RED, RB_BLACK},
         SomeRb(t.child, t.root, t.color, linked \ {target},
                IF black = RB_BLACK THEN q ELSE NULL, e, {c}),
         black = RB_RED => c = NULL
  PROVE  Inv'
<1> DEFINE L == linked \ {target}
<1>1. /\ t \in Tree /\ Parents(t, L) /\ c \in L \cup {NULL}
      /\ q = NULL => c = t.root
      /\ q # NULL => q \in L /\ e \in Dir /\ t.child[q][e] = c
  BY DEF Unlinked
<1>2. linked' = L /\ L \in SUBSET Node /\ target \in Node /\ target \notin L /\ target \in Ptr
  BY DEF Unlink, TypeOK, Ptr
<1>3. /\ RB_RED # RB_BLACK /\ NULL \notin L
      /\ SomeRb(t.child, t.root, t.color, L, IF black = RB_BLACK THEN q ELSE NULL, e, {c})
  BY <1>2, NullAssumption DEF RB_RED, RB_BLACK
<1> HIDE DEF L
<1>4. CASE black = RB_RED /\ tree' = Poison(t, target) /\ Return(target)
  <2>1. SomeRb(t.child, t.root, t.color, L, NULL, e, {c}) /\ c = NULL
    BY <1>3, <1>4
  <2>2. SomeRb(t.child, t.root, t.color, L, NULL, e, {})
    <3>1. {c} \cap L \subseteq {}
      BY <2>1, <1>3
    <3> QED
      BY <3>1, <2>1, <1>2, Excuse
  <2>3. SomeRb(t.child, t.root, t.color, L, NULL, RB_LEFT, {})
    <3>1. PICK D, B : IsRb(t.child, t.root, t.color, L, D, B, NULL, e, {})
      BY <2>2 DEF SomeRb
    <3>2. IsRb(t.child, t.root, t.color, L, D, B, NULL, RB_LEFT, {})
      BY <3>1, <1>2, OwedNowhere
    <3> QED
      BY <3>2 DEF SomeRb
  <2>4. /\ tree' \in Tree /\ Parents(tree', L)
        /\ SomeRb(tree'.child, tree'.root, tree'.color, L, NULL, RB_LEFT, {})
    BY <2>3, <1>1, <1>2, <1>4, PoisonKeeps
  <2>5. linked' \subseteq Node
    BY <1>2
  <2> QED
    BY <2>4, <2>5, <1>2, <1>4, Returns
<1>5. CASE /\ black = RB_BLACK /\ tree' = t /\ pc' = "remove_color" /\ parent' = q /\ cur' = c
           /\ UNCHANGED <<call, target, ret>>
  <2>1. SomeRb(t.child, t.root, t.color, L, q, e, {c})
    BY <1>3, <1>5
  <2>2. PICK D, B : IsRb(t.child, t.root, t.color, L, D, B, q, e, {c})
    BY <2>1 DEF SomeRb
  <2>3. q # NULL => DirOf(t, q, c) = e
    <3> SUFFICES ASSUME q # NULL PROVE DirOf(t, q, c) = e
      OBVIOUS
    <3>1. q \in L /\ e \in Dir /\ t.child[q][e] = c
      BY <1>1
    <3>2. t.child[q][Opp(e)] # t.child[q][e]
      BY <3>1, <2>2, <1>2, HoleSide
    <3> QED
      BY <3>1, <3>2 DEF DirOf, Opp, Dir, RB_LEFT, RB_RIGHT
  <2>4. OwedAt' = q /\ OwedDir' = DirOf(t, q, c)
    BY <1>5 DEF OwedAt, OwedDir
  <2>5. Exempt' = IF c # NULL THEN {c} \cup {t.child[c][d] : d \in Dir} ELSE {}
    BY <1>5 DEF Exempt
  <2>6. SomeRb(t.child, t.root, t.color, L, q, DirOf(t, q, c), {c})
    <3>1. CASE q = NULL
      <4>1. IsRb(t.child, t.root, t.color, L, D, B, NULL, DirOf(t, q, c), {c})
        BY <3>1, <2>2, <1>2, OwedNowhere
      <4> QED
        BY <3>1, <4>1 DEF SomeRb
    <3>2. CASE q # NULL
      BY <3>2, <2>1, <2>3
    <3> QED
      BY <3>1, <3>2
  <2>7. SomeRb(t.child, t.root, t.color, L, q, DirOf(t, q, c), Exempt')
    <3>1. {c} \cap L \subseteq Exempt'
      BY <2>5, <1>3
    <3> QED
      BY <3>1, <2>6, <1>2, Excuse
  <2>8. TypeOK'
    BY <1>1, <1>2, <1>5 DEF TypeOK, Ptr
  <2>9. RemoveColorInv'
    BY <2>3, <2>4, <1>1, <1>2, <1>5 DEF RemoveColorInv
  <2>10. SomeRb(tree'.child, tree'.root, tree'.color, linked', OwedAt', OwedDir', Exempt')
    BY <2>4, <2>7, <1>2, <1>5
  <2>11. Parents(tree', linked')
    BY <1>1, <1>2, <1>5
  <2> QED
    BY <2>8, <2>9, <2>10, <2>11, <1>5, WriteStep
<1> QED
  BY <1>4, <1>5 DEF Unlink

\* What Splice(t, n, c) makes of t.
Spliced(t, u, L, n, c) ==
  /\ u \in Tree
  /\ u.color = t.color
  /\ Splices(t.child, t.root, u.child, u.root, L, n, c)
  /\ Parents(u, L \ {n})

\* What the assignments of rb_remove do when the node has at most one child.
LEMMA SpliceFields ==
  ASSUME NEW t \in Tree, NEW L \in SUBSET Node, NEW D, IsTree(t.child, t.root, L, D),
         Parents(t, L), NEW n \in L, NEW c, OnlyChild(t.child, n, c)
  PROVE  Spliced(t, Splice(t, n, c), L, n, c)
<1> DEFINE q == t.parent[n]
           t1 == IF c = NULL THEN t ELSE rb_set_parent(t, c, q)
           dir == DirOf(t1, q, n)
           u == ReplaceChild(t1, q, n, c)
<1>1. PICK k \in Dir : t.child[n][k] = NULL /\ t.child[n][Opp(k)] = c
  BY DEF OnlyChild
<1>2. Opp(k) \in Dir /\ n \in Node /\ n # NULL
  BY <1>1, Sides, NullAssumption
<1>3. c \in L \cup {NULL} /\ c \in Ptr
  BY <1>1, <1>2 DEF IsTree, Ptr
<1>l. LinkFacts(t.child, t.root, L, D)
  BY TreeLinks
<1>4. c # n /\ (c # NULL => c # t.root) /\ \A x \in L \ {n}, d \in Dir : t.child[x][d] = c => c = NULL
  BY <1>1, <1>2, <1>l DEF LinkFacts
<1>5. /\ n = t.root => q = NULL
      /\ n # t.root => q \in L /\ q # NULL /\ t.child[q][DirOf(t, q, n)] = n
      /\ DirOf(t, q, n) \in Dir
      /\ q \in Ptr
  <2>1. /\ n = t.root => q = NULL
        /\ DirOf(t, q, n) \in Dir
    BY UpLink
  <2>2. n # t.root => q \in L /\ t.child[q][DirOf(t, q, n)] = n
    BY UpLink
  <2> QED
    BY <2>1, <2>2, NullAssumption DEF Ptr
<1> HIDE DEF q
<1>6. /\ t1 \in Tree /\ t1.root = t.root /\ t1.child = t.child /\ t1.color = t.color
      /\ \A x \in Node : t1.parent[x] = IF x = c THEN q ELSE t.parent[x]
  <2>1. CASE c = NULL
    BY <2>1, NullAssumption
  <2>2. CASE c # NULL
    <3>1. c \in Node /\ t1 = rb_set_parent(t, c, q)
      BY <2>2, <1>3
    <3> QED
      BY <3>1, <1>5, SetParent
  <2> QED
    BY <2>1, <2>2
<1> HIDE DEF t1
<1>7. dir = DirOf(t, q, n)
  BY <1>6 DEF DirOf
<1> HIDE DEF dir
<1>8. /\ u \in Tree /\ u.color = t.color /\ u.parent = t1.parent
      /\ u.root = IF t.root = n THEN c ELSE t.root
      /\ \A x \in L, d \in Dir : u.child[x][d] = IF t.child[x][d] = n THEN c ELSE t.child[x][d]
  <2>1. CASE n = t.root
    <3>1. u = rb_set_root(t1, c)
      BY <2>1, <1>5 DEF ReplaceChild
    <3> HIDE DEF u
    <3>2. /\ u \in Tree /\ u.color = t1.color /\ u.parent = t1.parent /\ u.root = c
          /\ u.child = t1.child
      BY <3>1, <1>3, <1>6, SetRoot
    <3>3. \A x \in L, d \in Dir : t.child[x][d] # n
      BY <2>1, <1>2, <1>l DEF LinkFacts
    <3> QED
      BY <3>2, <3>3, <2>1, <1>6
  <2>2. CASE n # t.root
    <3>0. q \in L /\ q \in Node /\ dir \in Dir /\ t.child[q][dir] = n /\ q # NULL
      BY <2>2, <1>5, <1>7
    <3>1. u = rb_set_child(t1, q, dir, c)
      BY <3>0 DEF ReplaceChild, rb_change_child, dir
    <3> HIDE DEF u
    <3> DEFINE v == rb_set_child(t1, q, dir, c)
    <3>2. /\ v \in Tree /\ v.color = t1.color /\ v.parent = t1.parent /\ v.root = t1.root
          /\ \A x \in Node, d \in Dir :
               v.child[x][d] = IF x = q /\ d = dir THEN c ELSE t1.child[x][d]
      <4>1. t1 \in Tree
        BY <1>6
      <4> QED
        BY <3>0, <4>1, <1>3, SetChild
    <3> HIDE DEF v
    <3>3. \A x \in L, d \in Dir : t.child[x][d] = n <=> x = q /\ d = dir
      BY <3>0, <1>2, <1>l DEF LinkFacts
    <3>4. u = v
      BY <3>1 DEF v
    <3> QED
      BY <3>2, <3>3, <3>4, <2>2, <1>6
  <2> QED
    BY <2>1, <2>2
<1>9. Splice(t, n, c) = u
  BY DEF Splice, t1, q
<1> HIDE DEF u
<1>10. Splices(t.child, t.root, u.child, u.root, L, n, c)
  BY <1>8 DEF Splices
<1>11. Parents(u, L \ {n})
  <2>1. ASSUME u.root # NULL PROVE u.parent[u.root] = NULL
    <3>1. CASE t.root = n
      BY <3>1, <2>1, <1>3, <1>5, <1>6, <1>8
    <3>2. CASE t.root # n
      <4>1. t.root \in L /\ t.parent[t.root] = NULL
        BY <3>2, <2>1, <1>8 DEF IsTree, Parents
      <4> QED
        BY <4>1, <3>2, <1>4, <1>6, <1>8, NullAssumption
    <3> QED
      BY <3>1, <3>2
  <2>2. ASSUME NEW x \in L \ {n}, NEW d \in Dir, u.child[x][d] # NULL
        PROVE  u.parent[u.child[x][d]] = x
    <3>1. t.child[x][d] \in L \cup {NULL} /\ (t.child[x][d] # NULL => t.parent[t.child[x][d]] = x)
      BY DEF IsTree, Parents
    <3>2. CASE t.child[x][d] = n
      <4>1. q = x /\ u.child[x][d] = c
        BY <3>1, <3>2, <1>2, <1>8 DEF q
      <4> QED
        BY <4>1, <2>2, <1>3, <1>6, <1>8
    <3>3. CASE t.child[x][d] # n
      <4>1. u.child[x][d] = t.child[x][d] /\ t.child[x][d] # c
        BY <3>3, <2>2, <1>4, <1>8
      <4> QED
        BY <4>1, <3>1, <2>2, <1>6, <1>8
    <3> QED
      BY <3>2, <3>3
  <2> QED
    BY <2>1, <2>2 DEF Parents
<1> QED
  BY <1>8, <1>9, <1>10, <1>11 DEF Spliced

\* rb_remove unlinks a node with at most one child, or looks for the successor.
LEMMA RbRemoveStep == ASSUME Inv, RbRemove PROVE Inv'
<1>1. PICK D, B : Shape(D, B) /\ CallInv(D)
  BY DEF Inv
<1> DEFINE left == tree.child[target][RB_LEFT]
           right == tree.child[target][RB_RIGHT]
           c == IF left = NULL THEN right ELSE left
           q == tree.parent[target]
           e == DirOf(tree, q, target)
           t == Splice(tree, target, c)
           L == linked \ {target}
<1>2. /\ pc = "rb_remove"
      /\ \/ (left = NULL \/ right = NULL) /\ Unlink(t, tree.color[target], q, c)
         \/ /\ left # NULL /\ right # NULL /\ pc' = "successor" /\ cur' = right
            /\ UNCHANGED <<tree, linked, call, target, parent, ret>>
  BY DEF RbRemove
<1>3. /\ IsRb(tree.child, tree.root, tree.color, linked, D, B, NULL, RB_LEFT, {})
      /\ IsTree(tree.child, tree.root, linked, D) /\ Parents(tree, linked)
      /\ linked \in SUBSET Node /\ TypeOK /\ tree \in Tree /\ RemoveInv
  BY <1>1, <1>2, QuietShape DEF Inv, TypeOK, CallInv
<1>4. target \in linked /\ RB_LEFT \in Dir /\ RB_RIGHT \in Dir
  BY <1>3 DEF RemoveInv, Dir
<1>5. left \in linked \cup {NULL} /\ right \in linked \cup {NULL}
  BY <1>3, <1>4 DEF IsTree
<1>l. LinkFacts(tree.child, tree.root, linked, D)
  BY <1>3, TreeLinks
<1>6. CASE (left = NULL \/ right = NULL) /\ Unlink(t, tree.color[target], q, c)
  <2>1. OnlyChild(tree.child, target, c)
    <3>1. Opp(RB_LEFT) = RB_RIGHT /\ Opp(RB_RIGHT) = RB_LEFT
      BY DEF Opp, RB_LEFT, RB_RIGHT
    <3> QED
      BY <3>1, <1>4, <1>6 DEF OnlyChild
  <2>2. c \in linked \cup {NULL} /\ c # target
    <3>1. left # target /\ right # target
      BY <1>4, <1>l DEF LinkFacts
    <3> QED
      BY <3>1, <1>5
  <2> HIDE DEF c
  <2>3. Spliced(tree, t, linked, target, c)
    BY <2>1, <1>3, <1>4, SpliceFields
  <2>4. Unlink(t, tree.color[target], q, c)
    BY <1>6
  <2> HIDE DEF t
  <2>5. /\ t \in Tree /\ t.color = tree.color
        /\ Splices(tree.child, tree.root, t.child, t.root, linked, target, c)
        /\ Parents(t, L)
    BY <2>3 DEF Spliced
  <2>6. /\ Above(tree.child, tree.root, linked, target, q, e)
        /\ target # tree.root => q \in linked /\ tree.child[q][e] = target
        /\ target = tree.root => q = NULL
        /\ e \in Dir
    <3>1. Above(tree.child, tree.root, linked, target, q, e) /\ e \in Dir
      BY <1>3, <1>4, UpLink
    <3>2. target # tree.root => q \in linked /\ tree.child[q][e] = target
      BY <1>3, <1>4, UpLink
    <3>3. target = tree.root => q = NULL
      BY <1>3, <1>4, UpLink
    <3> QED
      BY <3>1, <3>2, <3>3
  <2> HIDE DEF e, q
  <2>7. /\ IsRb(t.child, t.root, t.color, L, Without(D, target), B,
                Debt(tree.color, target, q), e, {c})
        /\ tree.color[target] = RB_RED => c = NULL
    <3>1. SameOn(tree.color, t.color, L)
      BY <2>5 DEF SameOn
    <3> QED
      BY <3>1, <2>1, <2>5, <2>6, <1>3, <1>4, RemoveOne
  <2>8. q # NULL => q \in L /\ t.child[q][e] = c
    <3> SUFFICES ASSUME q # NULL PROVE q \in L /\ t.child[q][e] = c
      OBVIOUS
    <3>1. q \in linked /\ tree.child[q][e] = target
      BY <2>6
    <3>2. q # target
      BY <3>1, <2>6, <1>l DEF LinkFacts
    <3> QED
      BY <3>1, <3>2, <2>5, <2>6 DEF Splices
  <2>9. q = NULL => c = t.root
    BY <2>5, <2>6, <1>3, NullAssumption DEF Splices
  <2>10. Unlinked(t, L, c, q, e)
    BY <2>2, <2>5, <2>6, <2>8, <2>9 DEF Unlinked
  <2>11. SomeRb(t.child, t.root, t.color, L,
                IF tree.color[target] = RB_BLACK THEN q ELSE NULL, e, {c})
    BY <2>7 DEF SomeRb, Debt
  <2>12. tree.color[target] \in {RB_RED, RB_BLACK}
    BY <1>3, <1>4, TreeFields
  <2> QED
    BY <2>4, <2>7, <2>10, <2>11, <2>12, <1>3, <1>4, UnlinkStep
<1>7. CASE /\ left # NULL /\ right # NULL /\ pc' = "successor" /\ cur' = right
           /\ UNCHANGED <<tree, linked, call, target, parent, ret>>
  <2>1. right \in linked /\ right \in D[right]
    BY <1>5, <1>7, <1>l DEF LinkFacts
  <2>2. TypeOK'
    BY <2>1, <1>3, <1>7 DEF TypeOK, Ptr
  <2>3. RemoveInv'
    BY <1>3, <1>7 DEF RemoveInv
  <2>4. SuccessorInv(D)'
    BY <2>1, <2>3, <1>7 DEF SuccessorInv
  <2>5. CallInv(D)'
    BY <2>4, <1>7 DEF CallInv
  <2> QED
    BY <2>2, <2>5, <1>1, <1>2, <1>3, <1>7, ReadStep
<1> QED
  BY <1>2, <1>6, <1>7

\* The links around node n and its successor s, the leftmost node below n's
\* right child: s hangs at the link ds of q, and n at the link du of up.
Pair(t, L, D, n, s, q, ds) ==
  /\ n \in L /\ s \in L /\ q \in L /\ ds \in Dir /\ s # n /\ q # s
  /\ t.parent[s] = q
  /\ \A x \in L, d \in Dir : t.child[x][d] = s <=> x = q /\ d = ds
  /\ t.child[n][RB_LEFT] \in L /\ t.child[n][RB_RIGHT] \in L
  /\ t.child[n][RB_LEFT] # s /\ t.child[n][RB_LEFT] # t.child[n][RB_RIGHT]
  /\ t.child[n][RB_LEFT] # n /\ t.child[n][RB_RIGHT] # n
  /\ t.child[s][RB_RIGHT] \in L \cup {NULL}
  /\ t.child[s][RB_RIGHT] \notin {n, s, t.child[n][RB_LEFT], t.child[n][RB_RIGHT]}
  /\ q = n <=> t.child[n][RB_RIGHT] = s
  /\ q # n => q \in D[n]
  /\ s \in D[n]

\* Where the node removed and its successor stand, when the node has both children.
LEMMA PairFacts ==
  ASSUME NEW t \in Tree, NEW L \in SUBSET Node, NEW D, IsTree(t.child, t.root, L, D),
         Parents(t, L), NEW n \in L, t.child[n][RB_LEFT] # NULL,
         NEW s \in D[t.child[n][RB_RIGHT]], t.child[s][RB_LEFT] = NULL
  PROVE  Pair(t, L, D, n, s, t.parent[s], DirOf(t, t.parent[s], s))
<1> DEFINE left == t.child[n][RB_LEFT]
           right == t.child[n][RB_RIGHT]
           c == t.child[s][RB_RIGHT]
           q == t.parent[s]
           ds == DirOf(t, q, s)
<1>l. LinkFacts(t.child, t.root, L, D)
  BY TreeLinks
<1>1. RB_LEFT \in Dir /\ RB_RIGHT \in Dir /\ RB_LEFT # RB_RIGHT /\ NULL \notin L
      /\ \A d \in Dir : d = RB_LEFT \/ d = RB_RIGHT
  BY NullAssumption DEF Dir, RB_LEFT, RB_RIGHT
<1>2. left \in L /\ right \in L /\ s \in L
  BY <1>1 DEF IsTree, Ptr
<1>3. /\ left # n /\ right # n /\ left # right
      /\ D[right] \subseteq D[n] /\ n \notin D[right] /\ left \in D[left]
  BY <1>1, <1>2, <1>l DEF LinkFacts
<1>4. s \in D[n] /\ s # n
  BY <1>3
<1>5. left # s
  <2>1. left \notin D[right]
    <3>1. \A m \in D[left] : Before(RB_LEFT, m, n)
      BY <1>1 DEF IsTree
    <3>2. \A m \in D[right] : Before(RB_RIGHT, m, n)
      BY <1>1 DEF IsTree
    <3>3. Val[left] \in Int /\ Val[n] \in Int
      BY <1>2, ValAssumption
    <3> HIDE DEF left, right
    <3> QED
      BY <3>1, <3>2, <3>3, <1>1, <1>3 DEF Before
  <2> QED
    BY <2>1
<1>6. s # t.root
  <2>1. t.root \notin D[t.child[n][RB_RIGHT]]
    BY <1>1, RootAtTop
  <2> QED
    BY <2>1
<1>7. q \in L /\ t.child[q][ds] = s /\ ds \in Dir
  BY <1>2, <1>6, UpLink
<1>8. c \in L \cup {NULL}
  BY <1>1, <1>2 DEF IsTree
<1> HIDE DEF ds, q
<1>9. q # s /\ \A x \in L, d \in Dir : t.child[x][d] = s <=> x = q /\ d = ds
  BY <1>1, <1>2, <1>7, <1>l DEF LinkFacts
<1>10. c # n
  <2> SUFFICES ASSUME c = n PROVE FALSE
    OBVIOUS
  <2>1. n \in D[s]
    BY <1>1, <1>2, <1>8, <1>l DEF LinkFacts
  <2>2. D[s] \subseteq D[right]
    BY <1>2, Nested
  <2> QED
    BY <2>1, <2>2, <1>3
<1>11. c # s /\ c # left /\ c # right
  BY <1>1, <1>2, <1>4, <1>l DEF LinkFacts
<1>12. q = n <=> right = s
  <2>1. ASSUME q = n PROVE right = s
    <3>1. ds = RB_RIGHT
      BY <2>1, <1>1, <1>5, <1>7
    <3> QED
      BY <3>1, <2>1, <1>7
  <2>2. ASSUME right = s PROVE q = n
    BY <2>2, <1>1, <1>9
  <2> QED
    BY <2>1, <2>2
<1>13. ASSUME q # n PROVE q \in D[n]
  <2>1. s # right
    BY <1>12, <1>13
  <2> HIDE DEF right
  <2>2. t.child[q][ds] \in D[right] /\ t.child[q][ds] # right
    BY <2>1, <1>7 DEF right
  <2>3. q \in D[right]
    BY <2>2, <1>2, <1>7, ParentIn
  <2> QED
    BY <2>3, <1>3
<1>14. q = t.parent[s] /\ ds = DirOf(t, q, s)
  BY DEF q, ds
<1>15. Pair(t, L, D, n, s, q, ds)
  BY <1>1, <1>2, <1>3, <1>4, <1>5, <1>7, <1>8, <1>9, <1>10, <1>11, <1>12, <1>13, <1>14 DEF Pair
<1> QED
  BY <1>14, <1>15

\* What Detach(t, n, s) makes of t.
Detached(t, v, L, n, s, q) ==
  LET c == t.child[s][RB_RIGHT]
      right == t.child[n][RB_RIGHT]
  IN  /\ v \in Tree /\ v.root = t.root /\ v.color = t.color
      /\ \A x \in L, d \in Dir :
           v.child[x][d] = IF q # n /\ x = s /\ d = RB_RIGHT THEN right
                           ELSE IF q # n /\ t.child[x][d] = s THEN c ELSE t.child[x][d]
      /\ \A x \in Node :
           v.parent[x] = IF q # n /\ x = right THEN s
                         ELSE IF q # n /\ x = c THEN q ELSE t.parent[x]

\* What taking a successor that is not the right child out of its place changes.
LEMMA DetachFields ==
  ASSUME NEW t \in Tree, NEW L \in SUBSET Node, NEW D, NEW n, NEW s, NEW q, NEW ds,
         Pair(t, L, D, n, s, q, ds)
  PROVE  Detached(t, Detach(t, n, s), L, n, s, q)
<1> DEFINE c == t.child[s][RB_RIGHT]
           right == t.child[n][RB_RIGHT]
           t1 == rb_change_child(t, q, s, c)
           t2 == IF c = NULL THEN t1 ELSE rb_set_parent(t1, c, q)
           t3 == rb_set_child(t2, s, RB_RIGHT, right)
           v == rb_set_parent(t3, right, s)
<1>1. /\ n \in L /\ s \in L /\ q \in L /\ ds \in Dir /\ s # n /\ q # s /\ t.parent[s] = q
      /\ \A x \in L, d \in Dir : t.child[x][d] = s <=> x = q /\ d = ds
      /\ right \in L /\ c \in L \cup {NULL} /\ c \notin {n, s, right}
  BY DEF Pair
<1>2. CASE q = n
  <2>1. Detach(t, n, s) = t
    BY <1>1, <1>2 DEF Detach
  <2> QED
    BY <2>1, <1>2 DEF Detached
<1>3. CASE q # n
  <2>1. Detach(t, n, s) = v
    BY <1>1, <1>3 DEF Detach
  <2>2. /\ q \in Node /\ s \in Node /\ right \in Node /\ c \in Ptr /\ right \in Ptr /\ s \in Ptr
        /\ q \in Ptr /\ RB_RIGHT \in Dir /\ DirOf(t, q, s) = ds
    <3>1. DirOf(t, q, s) = ds
      BY <1>1 DEF DirOf, Dir, RB_LEFT, RB_RIGHT
    <3> QED
      BY <3>1, <1>1 DEF Ptr, Dir
  <2>3. t1 = rb_set_child(t, q, ds, c)
    BY <2>2 DEF rb_change_child
  <2> HIDE DEF c, right, t1
  <2>4. /\ t1 \in Tree /\ t1.root = t.root /\ t1.color = t.color /\ t1.parent = t.parent
        /\ \A x \in Node, d \in Dir :
             t1.child[x][d] = IF x = q /\ d = ds THEN c ELSE t.child[x][d]
    <3> DEFINE w == rb_set_child(t, q, ds, c)
    <3>1. /\ w \in Tree /\ w.root = t.root /\ w.color = t.color /\ w.parent = t.parent
          /\ \A x \in Node, d \in Dir :
               w.child[x][d] = IF x = q /\ d = ds THEN c ELSE t.child[x][d]
      <4>1. q \in Node /\ c \in Ptr /\ ds \in Dir
        BY <2>2, <1>1
      <4> QED
        BY <4>1, SetChild
    <3> HIDE DEF w
    <3> QED
      BY <3>1, <2>3 DEF w
  <2>5. /\ t2 \in Tree /\ t2.root = t.root /\ t2.color = t.color /\ t2.child = t1.child
        /\ \A x \in Node : t2.parent[x] = IF x = c THEN q ELSE t.parent[x]
    <3>1. CASE c = NULL
      BY <3>1, <2>4, NullAssumption
    <3>2. CASE c # NULL
      <4>1. c \in Node /\ t2 = rb_set_parent(t1, c, q)
        BY <3>2, <1>1
      <4> HIDE DEF t2
      <4>2. t1 \in Tree /\ q \in Ptr
        BY <2>2, <2>4
      <4>3. /\ t2 \in Tree /\ t2.root = t1.root /\ t2.color = t1.color /\ t2.child = t1.child
            /\ \A x \in Node : t2.parent[x] = IF x = c THEN q ELSE t1.parent[x]
        BY <4>1, <4>2, SetParent
      <4> QED
        BY <4>3, <2>4
    <3> QED
      BY <3>1, <3>2
  <2> HIDE DEF t2
  <2>6. /\ t3 \in Tree /\ t3.root = t2.root /\ t3.color = t2.color /\ t3.parent = t2.parent
        /\ \A x \in Node, d \in Dir :
             t3.child[x][d] = IF x = s /\ d = RB_RIGHT THEN right ELSE t2.child[x][d]
    <3>1. t2 \in Tree
      BY <2>5
    <3> QED
      BY <3>1, <2>2, SetChild
  <2> HIDE DEF t3
  <2>7. /\ v \in Tree /\ v.root = t3.root /\ v.color = t3.color /\ v.child = t3.child
        /\ \A x \in Node : v.parent[x] = IF x = right THEN s ELSE t3.parent[x]
    <3>1. t3 \in Tree
      BY <2>6
    <3> QED
      BY <3>1, <2>2, SetParent
  <2> HIDE DEF v
  <2>8. \A x \in L, d \in Dir :
           v.child[x][d] = IF x = s /\ d = RB_RIGHT THEN right
                           ELSE IF t.child[x][d] = s THEN c ELSE t.child[x][d]
    BY <2>4, <2>5, <2>6, <2>7, <1>1
  <2>9. \A x \in Node : v.parent[x] = IF x = right THEN s
                                      ELSE IF x = c THEN q ELSE t.parent[x]
    BY <2>5, <2>6, <2>7
  <2>10. v \in Tree /\ v.root = t.root /\ v.color = t.color
    BY <2>5, <2>6, <2>7
  <2> QED
    BY <2>1, <2>8, <2>9, <2>10, <1>3 DEF Detached, c, right
<1> QED
  BY <1>2, <1>3

\* What Transplant(t, n, s) makes of t.
Transplanted(t, u, L, n, s) ==
  /\ u \in Tree
  /\ Transplants(t.child, t.root, u.child, u.root, L, n, s, t.child[s][RB_RIGHT])
  /\ SameOn(t.color, u.color, L \ {n, s})
  /\ u.color[s] = t.color[n]
  /\ Parents(u, L \ {n})

\* What moving the successor into the removed node's place changes, in both cases.
LEMMA TransplantFields ==
  ASSUME NEW t \in Tree, NEW L \in SUBSET Node, NEW D, IsTree(t.child, t.root, L, D),
         Parents(t, L), NEW n, NEW s, NEW q, NEW ds, Pair(t, L, D, n, s, q, ds)
  PROVE  Transplanted(t, Transplant(t, n, s), L, n, s)
<1> DEFINE c == t.child[s][RB_RIGHT]
           left == t.child[n][RB_LEFT]
           right == t.child[n][RB_RIGHT]
           up == t.parent[n]
           v == Detach(t, n, s)
           t1 == rb_set_child(v, s, RB_LEFT, left)
           t2 == rb_set_parent(t1, left, s)
           t3 == rb_set_parent(t2, s, t2.parent[n])
           t4 == rb_set_color(t3, s, t2.color[n])
           du == DirOf(t4, up, n)
           u == ReplaceChild(t4, up, n, s)
<1>0. Transplant(t, n, s) = u
  BY DEF Transplant
<1>1. /\ n \in L /\ s \in L /\ q \in L /\ ds \in Dir /\ s # n /\ q # s /\ t.parent[s] = q
      /\ \A x \in L, d \in Dir : t.child[x][d] = s <=> x = q /\ d = ds
      /\ left \in L /\ right \in L /\ left # s /\ left # right /\ left # n /\ right # n
      /\ c \in L \cup {NULL} /\ c \notin {n, s, left, right}
      /\ (q = n <=> right = s) /\ (q # n => q \in D[n]) /\ s \in D[n]
  BY DEF Pair
<1>2. /\ n \in Node /\ s \in Node /\ q \in Node /\ left \in Node /\ right \in Node /\ c \in Ptr
      /\ s \in Ptr /\ left \in Ptr /\ NULL \notin L
      /\ RB_LEFT \in Dir /\ RB_RIGHT \in Dir /\ RB_LEFT # RB_RIGHT
      /\ \A d \in Dir : d = RB_LEFT \/ d = RB_RIGHT
  BY <1>1, NullAssumption DEF Ptr, Dir, RB_LEFT, RB_RIGHT
<1>l. LinkFacts(t.child, t.root, L, D)
  BY TreeLinks
<1>3. /\ n = t.root => up = NULL
      /\ n # t.root => up \in L /\ t.child[up][DirOf(t, up, n)] = n
      /\ DirOf(t, up, n) \in Dir
  <2>1. n = t.root => up = NULL
    BY <1>1, UpLink
  <2>2. n # t.root => up \in L /\ t.child[up][DirOf(t, up, n)] = n
    BY <1>1, UpLink
  <2> QED
    BY <2>1, <2>2 DEF DirOf, Dir
<1>4. n # t.root => up # n /\ up # s /\ up # q /\ up # NULL
  <2> SUFFICES ASSUME n # t.root PROVE up # n /\ up # s /\ up # q /\ up # NULL
    OBVIOUS
  <2>1. up \notin D[n]
    BY <1>3, <1>l DEF LinkFacts
  <2>2. n \in D[n]
    BY <1>1, <1>l DEF LinkFacts
  <2> QED
    BY <2>1, <2>2, <1>1, <1>2, <1>3
<1>5. Detached(t, v, L, n, s, q)
  BY DetachFields
<1> HIDE DEF v, c, left, right, up
<1>6. /\ v \in Tree /\ v.root = t.root /\ v.color = t.color
      /\ \A x \in L, d \in Dir :
           v.child[x][d] = IF q # n /\ x = s /\ d = RB_RIGHT THEN right
                           ELSE IF q # n /\ t.child[x][d] = s THEN c ELSE t.child[x][d]
      /\ \A x \in Node :
           v.parent[x] = IF q # n /\ x = right THEN s
                         ELSE IF q # n /\ x = c THEN q ELSE t.parent[x]
  BY <1>5 DEF Detached, c, right
<1>7. /\ t1 \in Tree /\ t1.root = v.root /\ t1.color = v.color /\ t1.parent = v.parent
      /\ \A x \in Node, d \in Dir :
           t1.child[x][d] = IF x = s /\ d = RB_LEFT THEN left ELSE v.child[x][d]
  BY <1>2, <1>6, SetChild
<1> HIDE DEF t1
<1>8. /\ t2 \in Tree /\ t2.root = t1.root /\ t2.color = t1.color /\ t2.child = t1.child
      /\ \A x \in Node : t2.parent[x] = IF x = left THEN s ELSE t1.parent[x]
  <2>1. t1 \in Tree
    BY <1>7
  <2> QED
    BY <2>1, <1>2, SetParent
<1> HIDE DEF t2
<1>9. t2.parent[n] = up /\ up \in Ptr /\ t2.color[n] = t.color[n]
  <2>1. v.parent[n] = t.parent[n]
    BY <1>1, <1>2, <1>6
  <2>2. t2.parent[n] = t.parent[n]
    BY <2>1, <1>1, <1>2, <1>7, <1>8
  <2>3. t.parent[n] \in Ptr
    BY <1>2, TreeFields
  <2> QED
    BY <2>2, <2>3, <1>6, <1>7, <1>8 DEF up
<1>10. /\ t3 \in Tree /\ t3.root = t2.root /\ t3.color = t2.color /\ t3.child = t2.child
       /\ \A x \in Node : t3.parent[x] = IF x = s THEN up ELSE t2.parent[x]
  <2>1. t2 \in Tree
    BY <1>8
  <2> DEFINE w == rb_set_parent(t2, s, up)
  <2>2. /\ w \in Tree /\ w.root = t2.root /\ w.color = t2.color /\ w.child = t2.child
        /\ \A x \in Node : w.parent[x] = IF x = s THEN up ELSE t2.parent[x]
    BY <2>1, <1>2, <1>9, SetParent
  <2>3. t3 = w
    BY <1>9
  <2> HIDE DEF w, t3
  <2> QED
    BY <2>2, <2>3
<1> HIDE DEF t3
<1>11. /\ t4 \in Tree /\ t4.root = t3.root /\ t4.child = t3.child /\ t4.parent = t3.parent
       /\ \A x \in Node : t4.color[x] = IF x = s THEN t.color[n] ELSE t3.color[x]
  <2>1. t3 \in Tree /\ t2.color[n] \in {RB_RED, RB_BLACK}
    BY <1>2, <1>8, <1>10, TreeFields
  <2>2. t4 = rb_set_color(t3, s, t.color[n])
    BY <1>9
  <2> HIDE DEF t4
  <2> DEFINE k == t.color[n]
             w == rb_set_color(t3, s, k)
  <2>3. t3 \in Tree /\ s \in Node /\ k \in {RB_RED, RB_BLACK}
    BY <2>1, <1>2, <1>9
  <2> HIDE DEF k
  <2>4. /\ w \in Tree /\ w.root = t3.root /\ w.child = t3.child /\ w.parent = t3.parent
        /\ \A x \in Node : w.color[x] = IF x = s THEN k ELSE t3.color[x]
    BY <2>3 DEF rb_set_color, Tree
  <2>5. t4 = w
    BY <2>2 DEF k
  <2> HIDE DEF w
  <2> QED
    BY <2>4, <2>5 DEF k
<1> HIDE DEF t4
<1>12. /\ t4.root = t.root
       /\ \A x \in L, d \in Dir :
            t4.child[x][d] = IF x = s /\ d = RB_LEFT THEN left
                             ELSE IF q # n /\ x = s /\ d = RB_RIGHT THEN right
                             ELSE IF q # n /\ t.child[x][d] = s THEN c ELSE t.child[x][d]
  <2>1. t4.root = t.root /\ t4.child = t1.child
    BY <1>6, <1>7, <1>8, <1>10, <1>11
  <2> QED
    BY <2>1, <1>6, <1>7
<1>13. \A x \in Node :
         t4.parent[x] = IF x = s THEN up ELSE IF x = left THEN s
                        ELSE IF q # n /\ x = right THEN s
                        ELSE IF q # n /\ x = c THEN q ELSE t.parent[x]
  BY <1>6, <1>7, <1>8, <1>10, <1>11
<1>14. \A x \in Node : t4.color[x] = IF x = s THEN t.color[n] ELSE t.color[x]
  <2>1. t3.color = t.color
    BY <1>6, <1>7, <1>8, <1>10
  <2> QED
    BY <2>1, <1>11
<1>15. /\ u \in Tree /\ u.color = t4.color /\ u.parent = t4.parent
       /\ u.root = IF t.root = n THEN s ELSE t.root
       /\ \A x \in L \ {n}, d \in Dir :
            u.child[x][d] = IF x # s /\ t.child[x][d] = n THEN s ELSE t4.child[x][d]
  <2>1. CASE n = t.root
    <3>1. u = rb_set_root(t4, s)
      BY <2>1, <1>3 DEF ReplaceChild
    <3> HIDE DEF u
    <3>2. /\ u \in Tree /\ u.color = t4.color /\ u.parent = t4.parent /\ u.root = s
          /\ u.child = t4.child
      BY <3>1, <1>2, <1>11, SetRoot
    <3>3. \A x \in L, d \in Dir : t.child[x][d] # n
      BY <2>1, <1>1, <1>2, <1>l DEF LinkFacts
    <3> QED
      BY <3>2, <3>3, <2>1
  <2>2. CASE n # t.root
    <3>0. up \in L /\ up \in Node /\ up # NULL /\ up # n /\ up # s /\ up # q
      BY <2>2, <1>3, <1>4
    <3>1. \A d \in Dir : t4.child[up][d] = t.child[up][d]
      BY <3>0, <1>1, <1>12
    <3>2. du = DirOf(t, up, n)
      BY <3>1, <1>2 DEF DirOf
    <3>3. u = rb_set_child(t4, up, du, s)
      BY <3>0 DEF ReplaceChild, rb_change_child
    <3> HIDE DEF du, u
    <3>4. du \in Dir /\ t.child[up][du] = n
      BY <3>2, <2>2, <1>3
    <3> DEFINE w == rb_set_child(t4, up, du, s)
    <3>5. /\ w \in Tree /\ w.color = t4.color /\ w.parent = t4.parent /\ w.root = t4.root
          /\ \A x \in Node, d \in Dir :
               w.child[x][d] = IF x = up /\ d = du THEN s ELSE t4.child[x][d]
      <4>1. t4 \in Tree
        BY <1>11
      <4> QED
        BY <3>0, <3>4, <4>1, <1>2, SetChild
    <3>6. \A x \in L, d \in Dir : t.child[x][d] = n <=> x = up /\ d = du
      BY <3>0, <3>4, <1>1, <1>2, <1>l DEF LinkFacts
    <3>7. u = w
      BY <3>3
    <3> HIDE DEF w
    <3> QED
      BY <3>0, <3>5, <3>6, <3>7, <2>2, <1>12
  <2> QED
    BY <2>1, <2>2
<1> HIDE DEF u
<1>16. /\ u.child[s][RB_LEFT] = left
       /\ u.child[s][RB_RIGHT] = IF q # n THEN right ELSE c
       /\ \A x \in L \ {n, s}, d \in Dir :
            u.child[x][d] = IF t.child[x][d] = n THEN s
                            ELSE IF t.child[x][d] = s THEN c ELSE t.child[x][d]
  <2>1. u.child[s][RB_LEFT] = left
    BY <1>1, <1>2, <1>12, <1>15
  <2>2. u.child[s][RB_RIGHT] = IF q # n THEN right ELSE c
    <3>1. t.child[s][RB_RIGHT] = c /\ c # s
      BY <1>1 DEF c
    <3> QED
      BY <3>1, <1>1, <1>2, <1>12, <1>15
  <2>3. ASSUME NEW x \in L \ {n, s}, NEW d \in Dir
        PROVE  u.child[x][d] = IF t.child[x][d] = n THEN s
                               ELSE IF t.child[x][d] = s THEN c ELSE t.child[x][d]
    <3>1. q = n => t.child[x][d] # s
      BY <1>1
    <3> QED
      BY <3>1, <1>12, <1>15
  <2> QED
    BY <2>1, <2>2, <2>3
<1>17. Transplants(t.child, t.root, u.child, u.root, L, n, s, c)
  <2>1. \A d \in Dir : u.child[s][d] = IF t.child[n][d] = s THEN c ELSE t.child[n][d]
    <3>1. left = t.child[n][RB_LEFT] /\ right = t.child[n][RB_RIGHT]
      BY DEF left, right
    <3> QED
      BY <3>1, <1>1, <1>2, <1>16
  <2> QED
    BY <2>1, <1>15, <1>16 DEF Transplants
<1>18. SameOn(t.color, u.color, L \ {n, s}) /\ u.color[s] = t.color[n]
  BY <1>2, <1>14, <1>15 DEF SameOn
<1>19. Parents(u, L \ {n})
  <2>0. \A x \in Node :
          u.parent[x] = IF x = s THEN up ELSE IF x = left THEN s
                        ELSE IF q # n /\ x = right THEN s
                        ELSE IF q # n /\ x = c THEN q ELSE t.parent[x]
    BY <1>13, <1>15
  <2>p. /\ t.parent[left] = n /\ t.parent[right] = n /\ (c # NULL => t.parent[c] = s)
        /\ \A x \in L, d \in Dir : /\ t.child[x][d] \in L \cup {NULL}
                                   /\ t.child[x][d] # NULL => t.parent[t.child[x][d]] = x
    <3>1. \A x \in L, d \in Dir : /\ t.child[x][d] \in L \cup {NULL}
                                  /\ t.child[x][d] # NULL => t.parent[t.child[x][d]] = x
      BY DEF IsTree, Parents
    <3> QED
      BY <3>1, <1>1, <1>2 DEF left, right, c
  <2>1. ASSUME u.root # NULL PROVE u.parent[u.root] = NULL
    <3>1. CASE t.root = n
      BY <3>1, <2>0, <1>2, <1>3, <1>15
    <3>2. CASE t.root # n
      <4>1. t.root \in L /\ t.parent[t.root] = NULL /\ u.root = t.root
        BY <3>2, <2>1, <1>15 DEF IsTree, Parents
      <4>2. t.root # s /\ t.root # left /\ t.root # right /\ t.root # c
        BY <4>1, <2>p, <1>1, <1>2
      <4> QED
        BY <4>1, <4>2, <2>0
    <3> QED
      BY <3>1, <3>2
  <2>2. ASSUME NEW x \in L \ {n}, NEW d \in Dir, u.child[x][d] # NULL
        PROVE  u.parent[u.child[x][d]] = x
    <3>1. CASE x = s /\ d = RB_LEFT
      BY <3>1, <2>0, <1>1, <1>2, <1>16
    <3>2. CASE x = s /\ d = RB_RIGHT
      <4>1. CASE q # n
        BY <4>1, <3>2, <2>0, <1>1, <1>2, <1>16
      <4>2. CASE q = n
        <5>1. u.child[x][d] = c /\ c # NULL /\ c \in Node
          BY <4>2, <3>2, <2>2, <1>1, <1>16
        <5> QED
          BY <5>1, <4>2, <3>2, <2>0, <2>p, <1>1
      <4> QED
        BY <4>1, <4>2
    <3>3. CASE x # s /\ t.child[x][d] = n
      <4>1. u.child[x][d] = s /\ up = x
        BY <3>3, <2>p, <1>1, <1>2, <1>16 DEF up
      <4> QED
        BY <4>1, <2>0, <1>2
    <3>4. CASE x # s /\ t.child[x][d] = s
      <4>1. u.child[x][d] = c /\ x = q /\ q # n /\ c \in Node
        BY <3>4, <2>2, <1>1, <1>16
      <4> QED
        BY <4>1, <2>0, <1>1
    <3>5. CASE x # s /\ t.child[x][d] # n /\ t.child[x][d] # s
      <4>1. u.child[x][d] = t.child[x][d] /\ t.child[x][d] \in L /\ t.parent[t.child[x][d]] = x
        BY <3>5, <2>2, <2>p, <1>16
      <4>2. t.child[x][d] # left /\ t.child[x][d] # right /\ t.child[x][d] # c
        BY <4>1, <3>5, <2>p, <2>2, <1>2
      <4> QED
        BY <4>1, <4>2, <3>5, <2>0
    <3> QED
      BY <3>1, <3>2, <3>3, <3>4, <3>5, <1>2
  <2> QED
    BY <2>1, <2>2 DEF Parents
<1> QED
  BY <1>0, <1>15, <1>17, <1>18, <1>19 DEF Transplanted, c

\* A turn of the successor search, and the move of the successor at its end.
LEMMA SuccessorStep == ASSUME Inv, Successor PROVE Inv'
<1>1. PICK D, B : Shape(D, B) /\ CallInv(D)
  BY DEF Inv
<1> DEFINE right == tree.child[target][RB_RIGHT]
           near == tree.child[cur][RB_LEFT]
           c == tree.child[cur][RB_RIGHT]
           q == tree.parent[cur]
           e == DirOf(tree, q, cur)
           hole == HoleParent(tree, target, cur)
           t == Transplant(tree, target, cur)
           L == linked \ {target}
<1>2. /\ pc = "successor"
      /\ \/ /\ near # NULL /\ cur' = near
            /\ UNCHANGED <<tree, linked, pc, call, target, parent, ret>>
         \/ near = NULL /\ Unlink(t, tree.color[cur], hole, c)
  BY DEF Successor
<1>3. /\ IsRb(tree.child, tree.root, tree.color, linked, D, B, NULL, RB_LEFT, {})
      /\ IsTree(tree.child, tree.root, linked, D) /\ Parents(tree, linked)
      /\ linked \in SUBSET Node /\ TypeOK /\ tree \in Tree /\ SuccessorInv(D)
  BY <1>1, <1>2, QuietShape DEF Inv, TypeOK, CallInv
<1>l. LinkFacts(tree.child, tree.root, linked, D)
  BY <1>3, TreeLinks
<1>4. /\ target \in linked /\ RemoveInv /\ tree.child[target][RB_LEFT] # NULL /\ cur \in D[right]
      /\ \A m \in D[right] \ D[cur] : \A k \in D[cur] : Val[k] < Val[m]
      /\ RB_LEFT \in Dir /\ RB_RIGHT \in Dir
  BY <1>3 DEF SuccessorInv, RemoveInv, Dir
<1>5. right \in linked /\ cur \in linked /\ D[right] \subseteq linked
  BY <1>3, <1>4 DEF IsTree, Ptr
<1>6. \A m \in D[cur] : m = cur \/ m \in D[near] \/ m \in D[c]
  BY <1>3, <1>5 DEF IsTree
<1>7. /\ \A m \in D[near] : Before(RB_LEFT, m, cur)
      /\ \A m \in D[c] : Before(RB_RIGHT, m, cur)
      /\ D[near] \subseteq D[cur] /\ D[c] \subseteq D[cur]
  BY <1>3, <1>4, <1>5 DEF IsTree
<1>8. D[cur] \subseteq D[right]
  BY <1>3, <1>4, <1>5, Nested
<1>v. \A m \in linked : Val[m] \in Int
  BY <1>3, ValAssumption
<1>9. CASE /\ near # NULL /\ cur' = near
           /\ UNCHANGED <<tree, linked, pc, call, target, parent, ret>>
  <2>1. near \in linked
    BY <1>3, <1>4, <1>5, <1>9 DEF IsTree
  <2>2. near \in D[near]
    BY <2>1, <1>l DEF LinkFacts
  <2> HIDE DEF near, right, c
  <2>3. ASSUME NEW m \in D[right] \ D[near], NEW k \in D[near] PROVE Val[k] < Val[m]
    <3>1. Val[k] < Val[cur]
      BY <1>7 DEF Before
    <3>2. m \in D[c] => Val[cur] < Val[m]
      BY <1>7 DEF Before, RB_LEFT, RB_RIGHT
    <3>3. m \notin D[cur] => Val[k] < Val[m]
      BY <1>4, <1>7
    <3>4. Val[k] \in Int /\ Val[m] \in Int /\ Val[cur] \in Int
      BY <1>5, <1>7, <1>8, <1>v
    <3> QED
      BY <3>1, <3>2, <3>3, <3>4, <1>6
  <2>4. near \in D[right]
    BY <2>2, <1>7, <1>8
  <2>5. RemoveInv'
    BY <1>4, <1>9 DEF RemoveInv
  <2>6. SuccessorInv(D)'
    BY <2>3, <2>4, <2>5, <1>4, <1>9 DEF SuccessorInv, right
  <2>7. CallInv(D)'
    BY <2>6, <1>2, <1>9 DEF CallInv
  <2>8. TypeOK'
    BY <2>1, <1>3, <1>9 DEF TypeOK, Ptr
  <2> QED
    BY <2>7, <2>8, <1>1, <1>2, <1>3, <1>9, ReadStep
<1>10. CASE near = NULL /\ Unlink(t, tree.color[cur], hole, c)
  <2>1. Pair(tree, linked, D, target, cur, q, e)
    BY <1>3, <1>4, <1>10, PairFacts
  <2>2. Transplanted(tree, t, linked, target, cur)
    BY <2>1, <1>3, TransplantFields
  <2>3. Unlink(t, tree.color[cur], hole, c)
    BY <1>10
  <2> HIDE DEF t, e, q
  <2>4. /\ t \in Tree
        /\ Transplants(tree.child, tree.root, t.child, t.root, linked, target, cur, c)
        /\ SameOn(tree.color, t.color, linked \ {target, cur})
        /\ t.color[cur] = tree.color[target]
        /\ Parents(t, L)
    BY <2>2 DEF Transplanted
  <2>5. /\ q \in linked /\ e \in Dir /\ cur # target /\ q # cur
        /\ tree.child[q][e] = cur /\ tree.parent[cur] = q
        /\ c \in linked \cup {NULL} /\ c # target /\ c # cur
    BY <2>1 DEF Pair
  <2>6. hole = Renamed(q, target, cur)
    BY <2>5 DEF HoleParent, Renamed
  <2>7. \A m \in D[right] : m = cur \/ Val[cur] < Val[m]
    <3> SUFFICES ASSUME NEW m \in D[right], m # cur PROVE Val[cur] < Val[m]
      OBVIOUS
    <3>0. cur \in D[cur] /\ D[near] = {}
      BY <1>3, <1>5, <1>10, <1>l DEF LinkFacts, IsTree
    <3>1. CASE m \in D[cur]
      <4>1. m \in D[c]
        BY <3>0, <3>1, <1>6
      <4> QED
        BY <4>1, <1>7 DEF Before, RB_LEFT, RB_RIGHT
    <3>2. CASE m \notin D[cur]
      BY <3>0, <3>2, <1>4
    <3> QED
      BY <3>1, <3>2
  <2> HIDE DEF hole
  <2>8. /\ SomeRb(t.child, t.root, t.color, L, Debt(tree.color, cur, Renamed(q, target, cur)), e, {c})
        /\ tree.color[cur] = RB_RED => c = NULL
    <3>3. Follows(tree.child, D, target, cur, c)
      BY <2>7, <1>4, <1>10 DEF Follows
    <3> HIDE DEF c, L
    <3>4. /\ q \in linked /\ e \in Dir /\ tree.child[q][e] = cur
          /\ target \in linked /\ linked \in SUBSET Node
      BY <2>5, <1>3, <1>4
    <3>5. IsRb(tree.child, tree.root, tree.color, linked, D, B, NULL, RB_LEFT, {})
      BY <1>3
    <3>6. /\ Transplants(tree.child, tree.root, t.child, t.root, linked, target, cur, c)
          /\ SameOn(tree.color, t.color, linked \ {target, cur})
          /\ t.color[cur] = tree.color[target]
      BY <2>4
    <3> DEFINE ch == tree.child
               col == tree.color
               ch2 == t.child
               col2 == t.color
    <3> HIDE DEF ch, col, ch2, col2
    <3>7. /\ IsRb(ch, tree.root, col, linked, D, B, NULL, RB_LEFT, {})
          /\ Follows(ch, D, target, cur, c) /\ LinkTo(ch, linked, q, e, cur)
          /\ Transplants(ch, tree.root, ch2, t.root, linked, target, cur, c)
          /\ Recolors(col, col2, linked, target, cur)
      BY <3>3, <3>4, <3>5, <3>6 DEF ch, col, ch2, col2, LinkTo, Recolors
    <3>8. /\ SomeRb(ch2, t.root, col2, linked \ {target}, Debt(col, cur, Renamed(q, target, cur)), e, {c})
          /\ col[cur] = RB_RED => c = NULL
      BY <3>4, <3>7, RemoveTwo
    <3> QED
      BY <3>8 DEF L, ch, col, ch2, col2
  <2> HIDE DEF c
  <2>9. hole \in L /\ t.child[hole][e] = c /\ hole # NULL
    <3>1. CASE q = target
      <4>1. hole = cur /\ tree.child[target][e] = cur
        BY <3>1, <2>5, <2>6 DEF Renamed
      <4>2. t.child[cur][e] = c
        BY <4>1, <2>4, <2>5 DEF Transplants
      <4> QED
        BY <4>1, <4>2, <2>5, <1>3, <1>5, NullAssumption
    <3>2. CASE q # target
      <4>1. hole = q /\ tree.child[q][e] = cur
        BY <3>2, <2>5, <2>6 DEF Renamed
      <4>2. t.child[q][e] = c
        BY <4>1, <3>2, <2>4, <2>5 DEF Transplants
      <4> QED
        BY <4>1, <4>2, <3>2, <2>5, <1>3, NullAssumption
    <3> QED
      BY <3>1, <3>2
  <2>10. Unlinked(t, L, c, hole, e)
    BY <2>4, <2>5, <2>9 DEF Unlinked
  <2>11. SomeRb(t.child, t.root, t.color, L, IF tree.color[cur] = RB_BLACK THEN hole ELSE NULL, e, {c})
    BY <2>6, <2>8 DEF Debt
  <2>12. tree.color[cur] \in {RB_RED, RB_BLACK}
    BY <1>3, <1>5, TreeFields
  <2> QED
    BY <2>3, <2>8, <2>10, <2>11, <2>12, <1>3, <1>4, UnlinkStep
<1> QED
  BY <1>2, <1>9, <1>10

-----------------------------------------------------------------------------
(* rb_remove_color.                                                        *)

\* rb_remove is done.
LEMMA RemoveDoneStep ==
  ASSUME TypeOK, linked' = linked, target \in Node \ linked,
         NEW t, NEW n, n \in linked \cup {NULL}, RemoveDone(t, n), t \in Tree, Parents(t, linked),
         NEW u, u = IF n = NULL THEN t ELSE rb_set_color(t, n, RB_BLACK),
         SomeRb(u.child, u.root, u.color, linked, NULL, RB_LEFT, {})
  PROVE  Inv'
<1>1. tree' = Poison(u, target) /\ Return(target)
  BY DEF RemoveDone
<1>2. u \in Tree /\ Parents(u, linked)
  <2>1. CASE n = NULL
    BY <2>1
  <2>2. CASE n # NULL
    <3>1. n \in Node /\ linked \in SUBSET Node /\ u = rb_set_color(t, n, RB_BLACK)
      BY <2>2 DEF TypeOK
    <3> QED
      BY <3>1, PaintFields
  <2> QED
    BY <2>1, <2>2
<1>3. linked \in SUBSET Node /\ target \in Node /\ target \notin linked /\ target \in Ptr
  BY DEF TypeOK, Ptr
<1>4. /\ tree' \in Tree /\ Parents(tree', linked)
      /\ SomeRb(tree'.child, tree'.root, tree'.color, linked, NULL, RB_LEFT, {})
  BY <1>1, <1>2, <1>3, PoisonKeeps
<1> QED
  BY <1>1, <1>3, <1>4, Returns

\* The tree in the loop of rb_remove_color, once case 1 is out of the way: a
\* black is owed at the link dir of q, whose other child is black.
Working(t, L, q, dir) ==
  /\ t \in Tree
  /\ Parents(t, L)
  /\ q \in L /\ dir \in Dir
  /\ SomeRb(t.child, t.root, t.color, L, q, dir, {})
  /\ t.child[q][Opp(dir)] \in L
  /\ t.color[t.child[q][Opp(dir)]] = RB_BLACK

\* Case 1 makes the sibling black.
LEMMA AfterCase1Works ==
  ASSUME NEW t \in Tree, NEW L \in SUBSET Node, Parents(t, L), NEW q \in L, NEW dir \in Dir,
         NEW D, NEW B, IsRb(t.child, t.root, t.color, L, D, B, q, dir, {}),
         IsBlack(t, t.child[q][dir])
  PROVE  Working(AfterCase1(t, q, dir), L, q, dir)
<1> DEFINE s == t.child[q][Opp(dir)]
           u == RemoveCase1(t, q, s, dir)
<1>1. /\ IsTree(t.child, t.root, L, D) /\ RedsApart(t.child, t.root, t.color, L, {})
      /\ \A x \in L : t.color[x] \in {RB_RED, RB_BLACK}
      /\ RB_RED # RB_BLACK /\ Opp(dir) \in Dir /\ Opp(dir) # dir /\ NULL \notin L
  BY Sides, NullAssumption DEF IsRb, RB_RED, RB_BLACK
<1>l. LinkFacts(t.child, t.root, L, D)
  BY <1>1, TreeLinks
<1>2. s \in L /\ B[s] = B[t.child[q][dir]] + 1
  BY HoleSide
<1>3. CASE t.color[s] # RB_RED
  <2>1. AfterCase1(t, q, dir) = t /\ t.color[s] = RB_BLACK
    BY <1>1, <1>2, <1>3 DEF AfterCase1
  <2> QED
    BY <2>1, <1>2 DEF Working, SomeRb
<1>4. CASE t.color[s] = RB_RED
  <2>1. AfterCase1(t, q, dir) = u
    BY <1>4 DEF AfterCase1
  <2>2. t.color[q] = RB_BLACK
    BY <1>1, <1>2, <1>4 DEF RedsApart
  <2>3. t.child[q][Opp(dir)] = s
    OBVIOUS
  <2> HIDE DEF s
  <2>4. s # q
    BY <2>3, <1>1, <1>l DEF LinkFacts
  <2>5. t.child[s][dir] \in L
    <3>1. B[s] > 0
      <4>1. t.child[q][dir] \in Ptr
        BY <1>1 DEF IsTree, Ptr
      <4>2. B[t.child[q][dir]] \in Nat
        BY <4>1 DEF IsRb, Balanced
      <4> QED
        BY <4>2, <1>2
    <3> QED
      BY <3>1, <2>4, <1>2, <1>4, RedHeight
  <2>6. t.color[t.child[s][dir]] = RB_BLACK
    BY <2>5, <1>1, <1>2, <1>4 DEF RedsApart
  <2>7. SwappedUp(t, u, L, q, s, dir, q, dir)
    <3> DEFINE X == {}
    <3>1. /\ t.child[q][dir] \in L => t.color[t.child[q][dir]] = RB_BLACK
          /\ q # s /\ ~(q = q /\ dir = Opp(dir)) /\ X \subseteq {t.child[s][Opp(dir)]}
      BY <2>4, <1>1 DEF IsBlack, IsRed
    <3>2. u = rb_rotate(rb_set_color(rb_set_color(t, s, RB_BLACK), q, RB_RED), q, dir)
      BY DEF RemoveCase1
    <3>3. IsRb(t.child, t.root, t.color, L, D, B, q, dir, X)
      OBVIOUS
    <3> HIDE DEF X, u
    <3> QED
      BY <3>1, <3>2, <3>3, <2>2, <2>3, <2>6, <1>2, <1>4, SwapUp
  <2> HIDE DEF u
  <2>8. /\ u \in Tree /\ Parents(u, L) /\ SomeRb(u.child, u.root, u.color, L, q, dir, {})
        /\ u.child[q][Opp(dir)] = t.child[s][dir]
        /\ t.child[s][dir] # q /\ t.child[s][dir] # s
    BY <2>7 DEF SwappedUp, AroundPivot
  <2>9. u.color[t.child[s][dir]] = RB_BLACK
    BY <2>5, <2>6, <2>7, <2>8 DEF SwappedUp, SwapsColors
  <2> QED
    BY <2>1, <2>5, <2>8, <2>9 DEF Working
<1> QED
  BY <1>3, <1>4

\* Case 3 keeps the tree in that state, with a red node on the far side.
LEMMA Case3Works ==
  ASSUME NEW t, NEW L \in SUBSET Node, NEW q, NEW dir, Working(t, L, q, dir),
         NEW s, s = t.child[q][Opp(dir)],
         IsBlack(t, t.child[s][Opp(dir)]), IsRed(t, t.child[s][dir]),
         NEW u, u = RemoveCase3(t, s, dir)
  PROVE  /\ Working(u, L, q, dir)
         /\ IsRed(u, u.child[u.child[q][Opp(dir)]][Opp(dir)])
<1> DEFINE near == t.child[s][dir]
           od == Opp(dir)
<1>1. /\ t \in Tree /\ Parents(t, L) /\ q \in L /\ dir \in Dir /\ s \in L
      /\ t.color[s] = RB_BLACK
  BY DEF Working
<1>2. PICK D, B : IsRb(t.child, t.root, t.color, L, D, B, q, dir, {})
  BY DEF Working, SomeRb
<1>3. /\ IsTree(t.child, t.root, L, D) /\ RedsApart(t.child, t.root, t.color, L, {})
      /\ \A x \in L : t.color[x] \in {RB_RED, RB_BLACK}
      /\ RB_RED # RB_BLACK /\ NULL \notin L
      /\ od \in Dir /\ od # dir /\ Opp(od) = dir
  BY <1>1, <1>2, Sides, NullAssumption DEF IsRb, RB_RED, RB_BLACK
<1>l. LinkFacts(t.child, t.root, L, D)
  BY <1>3, TreeLinks
<1>4. near \in L /\ t.color[near] = RB_RED /\ near # NULL
  BY <1>1, <1>3 DEF IsRed, IsTree
<1>5. t.child[s][od] \in L => t.color[t.child[s][od]] = RB_BLACK
  BY <1>3 DEF IsBlack, IsRed
<1>6. near # q /\ near # s /\ q # s
  BY <1>1, <1>3, <1>4, <1>l DEF LinkFacts
<1>7. u = rb_rotate(rb_set_color(rb_set_color(t, near, RB_BLACK), s, RB_RED), s, od)
  BY DEF RemoveCase3
<1>8. t.child[s][Opp(od)] = near /\ t.child[q][od] = s
  BY <1>3
<1> HIDE DEF near, od
<1>9. t.child[near][od] \in L => t.color[t.child[near][od]] = RB_BLACK
  BY <1>3, <1>4 DEF RedsApart
<1>10. SwappedUp(t, u, L, s, near, od, q, dir)
  <2> DEFINE X == {}
             v == rb_rotate(rb_set_color(rb_set_color(t, near, RB_BLACK), s, RB_RED), s, od)
  <2>1. X \subseteq {t.child[near][Opp(od)]} /\ ~(q = s /\ dir = Opp(od))
    BY <1>6
  <2>2. IsRb(t.child, t.root, t.color, L, D, B, q, dir, X)
    BY <1>2
  <2> HIDE DEF X
  <2>3. SwappedUp(t, v, L, s, near, od, q, dir)
    BY <2>1, <2>2, <1>1, <1>3, <1>4, <1>5, <1>6, <1>8, <1>9, SwapUp
  <2> QED
    BY <2>3, <1>7
<1>11. /\ u \in Tree /\ Parents(u, L) /\ SomeRb(u.child, u.root, u.color, L, q, dir, {})
       /\ u.child[q][od] = near /\ u.child[near][od] = s
  <2>1. /\ u \in Tree /\ Parents(u, L) /\ SomeRb(u.child, u.root, u.color, L, q, dir, {})
        /\ AroundPivot(t.child, t.root, u.child, L, s, near, od)
    BY <1>10 DEF SwappedUp
  <2>2. u.child[near][od] = s
    BY <2>1 DEF AroundPivot
  <2>3. q \in L \ {s, near} /\ od \in Dir
    BY <1>1, <1>3, <1>6
  <2>4. u.child[q][od] = near
    BY <2>1, <2>3, <1>8 DEF AroundPivot
  <2> QED
    BY <2>1, <2>2, <2>4
<1>12. u.color[near] = RB_BLACK /\ u.color[s] = RB_RED
  BY <1>1, <1>4, <1>6, <1>10 DEF SwappedUp, SwapsColors
<1>13. Working(u, L, q, dir)
  BY <1>1, <1>4, <1>11, <1>12 DEF Working, od
<1>14. IsRed(u, u.child[u.child[q][od]][od])
  BY <1>1, <1>3, <1>11, <1>12 DEF IsRed
<1> QED
  BY <1>13, <1>14 DEF od

\* Case 4 repays the black.
LEMMA Case4Works ==
  ASSUME NEW t, NEW L \in SUBSET Node, NEW q, NEW dir, Working(t, L, q, dir),
         NEW s, s = t.child[q][Opp(dir)], IsRed(t, t.child[s][Opp(dir)]),
         NEW u, u = RemoveCase4(t, q, s, dir)
  PROVE  /\ u \in Tree
         /\ Parents(u, L)
         /\ SomeRb(u.child, u.root, u.color, L, NULL, RB_LEFT, {})
<1> DEFINE far == t.child[s][Opp(dir)]
           k == t.color[q]
           t1 == rb_set_color(t, s, k)
           t2 == rb_set_color(t1, q, RB_BLACK)
           t3 == rb_set_color(t2, far, RB_BLACK)
           v == rb_rotate(t3, q, dir)
<1>1. /\ t \in Tree /\ Parents(t, L) /\ q \in L /\ dir \in Dir /\ s \in L
      /\ t.color[s] = RB_BLACK
  BY DEF Working
<1>2. PICK D, B : IsRb(t.child, t.root, t.color, L, D, B, q, dir, {})
  BY DEF Working, SomeRb
<1>3. /\ IsTree(t.child, t.root, L, D) /\ Opp(dir) \in Dir /\ NULL \notin L
      /\ k \in {RB_RED, RB_BLACK}
  BY <1>1, <1>2, Sides, NullAssumption DEF IsRb
<1>4. far \in L /\ t.color[far] = RB_RED
  BY <1>1, <1>3 DEF IsRed, IsTree
<1>5. q \in Node /\ s \in Node /\ far \in Node
  BY <1>1, <1>4
<1> HIDE DEF far, k
<1>6. /\ t1 \in Tree /\ t1.root = t.root /\ t1.child = t.child /\ Parents(t1, L)
      /\ Paints(t.color, t1.color, L, s, k)
  <2>1. /\ t1 \in Tree /\ t1.root = t.root /\ t1.child = t.child /\ t1.parent = t.parent
        /\ \A x \in Node : t1.color[x] = IF x = s THEN k ELSE t.color[x]
    BY <1>1, <1>3, <1>5 DEF rb_set_color, Tree
  <2> HIDE DEF t1
  <2> QED
    BY <2>1, <1>1 DEF Parents, Paints
<1> HIDE DEF t1
<1>7. /\ t2 \in Tree /\ t2.root = t1.root /\ t2.child = t1.child /\ Parents(t2, L)
      /\ Paints(t1.color, t2.color, L, q, RB_BLACK)
  BY <1>5, <1>6, PaintFields
<1> HIDE DEF t2
<1>8. /\ t3 \in Tree /\ t3.root = t2.root /\ t3.child = t2.child /\ Parents(t3, L)
      /\ Paints(t2.color, t3.color, L, far, RB_BLACK)
  BY <1>5, <1>7, PaintFields
<1>9. u = v
  <2>1. t2.child[s][Opp(dir)] = far
    BY <1>6, <1>7 DEF far
  <2> QED
    BY <2>1 DEF RemoveCase4, t1, t2, k
<1> HIDE DEF t3
<1>l. LinkFacts(t.child, t.root, L, D)
  BY <1>3, TreeLinks
<1>10. t.child[q][Opp(dir)] = s /\ t.child[s][Opp(dir)] = far
  BY DEF far
<1>11. s # q /\ far # s /\ far # q
  BY <1>1, <1>3, <1>4, <1>10, <1>l DEF LinkFacts
<1>12. PaintsLast(t.color, t3.color, L, q, s, far)
  BY <1>6, <1>7, <1>8, <1>11 DEF Paints, PaintsLast, k
<1>13. Rotated(t3, v, L, q, dir)
  <2>1. IsTree(t3.child, t3.root, L, D) /\ t3.child[q][Opp(dir)] = s
    BY <1>3, <1>6, <1>7, <1>8, <1>10
  <2> QED
    BY <2>1, <1>1, <1>8, RotateFields
<1> HIDE DEF v
<1>14. /\ v \in Tree /\ v.color = t3.color /\ Parents(v, L)
       /\ Rotates(t.child, t.root, v.child, v.root, L, q, dir)
  BY <1>6, <1>7, <1>8, <1>13 DEF Rotated
<1>15. SomeRb(v.child, v.root, v.color, L, NULL, RB_LEFT, {})
  BY <1>1, <1>2, <1>4, <1>10, <1>12, <1>14, RotateLast
<1> QED
  BY <1>9, <1>14, <1>15

\* The turn of the loop of rb_remove_color, once case 1 is out of the way.
LEMMA RemoveCasesStep ==
  ASSUME TypeOK, pc = "remove_color", linked' = linked, target \in Node \ linked,
         NEW t, NEW q, NEW dir, Working(t, linked, q, dir), RemoveCases(t, q, dir)
  PROVE  Inv'
<1> DEFINE s == t.child[q][Opp(dir)]
           far == t.child[s][Opp(dir)]
           near == t.child[s][dir]
           t3 == IF IsBlack(t, far) THEN RemoveCase3(t, s, dir) ELSE t
           t4 == RemoveCase4(t3, q, t3.child[q][Opp(dir)], dir)
<1>1. /\ t \in Tree /\ Parents(t, linked) /\ q \in linked /\ dir \in Dir /\ s \in linked
      /\ t.color[s] = RB_BLACK /\ linked \in SUBSET Node
  BY DEF Working, TypeOK
<1>2. \/ /\ IsBlack(t, far) /\ IsBlack(t, near) /\ tree' = rb_set_color(t, s, RB_RED)
         /\ cur' = q /\ parent' = t.parent[q] /\ UNCHANGED <<pc, call, target, ret>>
      \/ (IsRed(t, far) \/ IsRed(t, near)) /\ RemoveDone(t4, t4.root)
  BY DEF RemoveCases
<1>3. CASE /\ IsBlack(t, far) /\ IsBlack(t, near) /\ tree' = rb_set_color(t, s, RB_RED)
           /\ cur' = q /\ parent' = t.parent[q] /\ UNCHANGED <<pc, call, target, ret>>
  <2>1. PICK D, B : IsRb(t.child, t.root, t.color, linked, D, B, q, dir, {})
    BY DEF Working, SomeRb
  <2>2. /\ IsTree(t.child, t.root, linked, D) /\ NULL \notin linked
        /\ \A x \in linked : t.color[x] \in {RB_RED, RB_BLACK}
        /\ \A d \in Dir : d = dir \/ d = Opp(dir)
    BY <2>1, <1>1, Sides, NullAssumption DEF IsRb
  <2>3. \A d \in Dir : t.child[s][d] \in linked => t.color[t.child[s][d]] = RB_BLACK
    BY <2>2, <1>3 DEF IsBlack, IsRed
  <2>4. t.child[q][Opp(dir)] = s
    OBVIOUS
  <2> HIDE DEF s
  <2> DEFINE q2 == t.parent[q]
             e2 == DirOf(t, q2, q)
  <2>5. Above(t.child, t.root, linked, q, q2, e2)
    BY <2>2, <1>1, UpLink
  <2>6. /\ q = t.root => q2 = NULL
        /\ q # t.root => q2 \in linked /\ t.child[q2][e2] = q
    <3>1. q = t.root => q2 = NULL
      BY <2>2, <1>1, UpLink
    <3>2. q # t.root => q2 \in linked /\ t.child[q2][e2] = q
      BY <2>2, <1>1, UpLink
    <3> QED
      BY <3>1, <3>2
  <2>7. /\ tree' \in Tree /\ tree'.root = t.root /\ tree'.child = t.child /\ Parents(tree', linked)
        /\ Paints(t.color, tree'.color, linked, s, RB_RED)
    <3>1. s \in Node /\ RB_RED \in {RB_RED, RB_BLACK}
      BY <1>1
    <3> QED
      BY <3>1, <1>1, <1>3, PaintFields
  <2> HIDE DEF q2, e2
  <2>8. SomeRb(t.child, t.root, tree'.color, linked, q2, e2, {s})
    BY <2>1, <2>3, <2>4, <2>5, <2>7, <1>1, PushHole
  <2>9. OwedAt' = q2 /\ OwedDir' = e2 /\ cur' = q /\ parent' = q2 /\ pc' = "remove_color"
    BY <2>7, <1>3 DEF OwedAt, OwedDir, DirOf, q2, e2
  <2>10. s \in Exempt'
    <3>1. Exempt' = {q} \cup {t.child[q][d] : d \in Dir}
      BY <2>2, <2>7, <2>9, <1>1 DEF Exempt
    <3>2. Opp(dir) \in Dir
      BY <1>1, Sides
    <3> QED
      BY <3>1, <3>2, <2>4
  <2>11. SomeRb(t.child, t.root, tree'.color, linked, q2, e2, Exempt')
    <3>1. {s} \cap linked \subseteq Exempt'
      BY <2>10
    <3> QED
      BY <3>1, <2>8, <1>1, Excuse
  <2>12. q2 \in Ptr
    BY <2>6, <1>1 DEF Ptr
  <2>13. TypeOK'
    BY <2>7, <2>9, <2>12, <1>1, <1>3 DEF TypeOK, Ptr
  <2>14. RemoveColorInv'
    BY <2>2, <2>6, <2>7, <2>9, <1>1, <1>3 DEF RemoveColorInv
  <2>15. SomeRb(tree'.child, tree'.root, tree'.color, linked', OwedAt', OwedDir', Exempt')
    BY <2>7, <2>9, <2>11
  <2>16. Parents(tree', linked')
    BY <2>7
  <2> QED
    BY <2>9, <2>13, <2>14, <2>15, <2>16, WriteStep
<1>4. CASE (IsRed(t, far) \/ IsRed(t, near)) /\ RemoveDone(t4, t4.root)
  <2>1. /\ Working(t3, linked, q, dir)
        /\ IsRed(t3, t3.child[t3.child[q][Opp(dir)]][Opp(dir)])
    <3>1. CASE IsBlack(t, far)
      <4>1. IsRed(t, near) /\ t3 = RemoveCase3(t, s, dir)
        BY <3>1, <1>4 DEF IsBlack
      <4> HIDE DEF t3
      <4> QED
        BY <4>1, <3>1, <1>1, Case3Works
    <3>2. CASE ~IsBlack(t, far)
      BY <3>2 DEF IsBlack
    <3> QED
      BY <3>1, <3>2
  <2>2. RemoveDone(t4, t4.root)
    BY <1>4
  <2> HIDE DEF t3
  <2>3. /\ t4 \in Tree /\ Parents(t4, linked)
        /\ SomeRb(t4.child, t4.root, t4.color, linked, NULL, RB_LEFT, {})
    BY <2>1, <1>1, Case4Works
  <2> HIDE DEF t4
  <2>4. PICK D, B : IsRb(t4.child, t4.root, t4.color, linked, D, B, NULL, RB_LEFT, {})
    BY <2>3 DEF SomeRb
  <2>5. t4.root \in linked /\ t4.root # NULL /\ t4.root \in Node
    <3>1. t4.root \in linked \cup {NULL} /\ D[NULL] = {} /\ D[t4.root] = linked
      BY <2>4 DEF IsRb, IsTree
    <3> QED
      BY <3>1, <1>1, NullAssumption
  <2> DEFINE u == rb_set_color(t4, t4.root, RB_BLACK)
  <2>6. /\ u \in Tree /\ u.root = t4.root /\ u.child = t4.child
        /\ Paints(t4.color, u.color, linked, t4.root, RB_BLACK)
    BY <2>3, <2>5, <1>1, PaintFields
  <2>7. u = IF t4.root = NULL THEN t4 ELSE rb_set_color(t4, t4.root, RB_BLACK)
    BY <2>5
  <2> HIDE DEF u
  <2>8. SomeRb(u.child, u.root, u.color, linked, NULL, RB_LEFT, {})
    <3> DEFINE X == {}
    <3>1. /\ IsRb(t4.child, t4.root, t4.color, linked, D, B, NULL, RB_LEFT, X)
          /\ X \subseteq {t4.root} \cup {t4.child[t4.root][d] : d \in Dir}
      BY <2>4
    <3> HIDE DEF X
    <3>2. SomeRb(t4.child, t4.root, u.color, linked, NULL, RB_LEFT, {})
      BY <3>1, <2>5, <2>6, <1>1, PaintRoot
    <3> QED
      BY <3>2, <2>6
  <2> QED
    BY <2>2, <2>3, <2>5, <2>7, <2>8, RemoveDoneStep
<1> QED
  BY <1>2, <1>3, <1>4

\* One turn of the loop of rb_remove_color, or its end.
LEMMA RemoveColorStep == ASSUME Inv, RemoveColor PROVE Inv'
<1> DEFINE dir == DirOf(tree, parent, cur)
<1>0. /\ TypeOK /\ Parents(tree, linked) /\ pc = "remove_color" /\ linked' = linked
      /\ tree \in Tree /\ linked \in SUBSET Node
  BY DEF Inv, TypeOK, RemoveColor
<1>1. PICK D, B : Shape(D, B) /\ CallInv(D)
  BY DEF Inv
<1>2. /\ IsRb(tree.child, tree.root, tree.color, linked, D, B, parent, dir, Exempt)
      /\ dir \in Dir
  BY <1>0, <1>1 DEF Shape, OwedAt, OwedDir, DirOf, Dir
<1>3. /\ target \in Node \ linked
      /\ cur \in linked \cup {NULL}
      /\ parent = NULL => cur = tree.root
      /\ parent # NULL => parent \in linked /\ tree.child[parent][dir] = cur
  BY <1>0, <1>1 DEF CallInv, RemoveColorInv, OwedDir
<1>4. /\ IsTree(tree.child, tree.root, linked, D) /\ NULL \notin linked
      /\ \A x \in linked : tree.color[x] \in {RB_RED, RB_BLACK}
      /\ RB_RED # RB_BLACK
  BY <1>0, <1>2, NullAssumption DEF IsRb, RB_RED, RB_BLACK
<1>l. LinkFacts(tree.child, tree.root, linked, D)
  BY <1>0, <1>4, TreeLinks
<1>5. Exempt = IF cur # NULL THEN {cur} \cup {tree.child[cur][d] : d \in Dir} ELSE {}
  BY <1>0 DEF Exempt
<1>6. cur = tree.root => parent = NULL
  <2>1. CASE tree.root = NULL
    <3>1. linked = {}
      BY <2>1, <1>4 DEF IsTree
    <3> QED
      BY <3>1, <1>3
  <2>2. CASE tree.root # NULL
    BY <2>2, <1>2, <1>3, <1>l DEF LinkFacts
  <2> QED
    BY <2>1, <2>2
<1> HIDE DEF dir
<1>7. CASE ~RemoveLoops /\ RemoveDone(tree, cur)
  <2> DEFINE u == IF cur = NULL THEN tree ELSE rb_set_color(tree, cur, RB_BLACK)
  <2>1. CASE cur = NULL
    <3>1. tree.root = NULL /\ parent = NULL /\ linked = {} /\ Exempt = {}
      BY <2>1, <1>4, <1>5, <1>6, <1>7 DEF RemoveLoops, IsBlack, IsRed, IsTree
    <3>2. IsRb(tree.child, tree.root, tree.color, linked, D, B, NULL, dir, {})
      BY <3>1, <1>2
    <3>3. IsRb(tree.child, tree.root, tree.color, linked, D, B, NULL, RB_LEFT, {})
      BY <3>2, <1>0, OwedNowhere
    <3>4. SomeRb(tree.child, tree.root, tree.color, linked, NULL, RB_LEFT, {}) /\ u = tree
      BY <3>3, <2>1 DEF SomeRb
    <3>5. cur \in linked \cup {NULL} /\ RemoveDone(tree, cur)
      BY <2>1, <1>7
    <3> HIDE DEF u
    <3>6. tree = IF cur = NULL THEN tree ELSE rb_set_color(tree, cur, RB_BLACK)
      BY <2>1
    <3> QED
      BY <3>4, <3>5, <3>6, <1>0, <1>3, RemoveDoneStep
  <2>2. CASE cur # NULL
    <3>1. cur \in linked /\ cur \in Node /\ u = rb_set_color(tree, cur, RB_BLACK)
      BY <2>2, <1>0, <1>3
    <3>2. /\ u \in Tree /\ u.root = tree.root /\ u.child = tree.child
          /\ Paints(tree.color, u.color, linked, cur, RB_BLACK)
      <4>1. RB_BLACK \in {RB_RED, RB_BLACK}
        OBVIOUS
      <4> QED
        BY <4>1, <3>1, <1>0, PaintFields
    <3>3. u = IF cur = NULL THEN tree ELSE rb_set_color(tree, cur, RB_BLACK)
      OBVIOUS
    <3> HIDE DEF u
    <3> DEFINE X == Exempt
    <3>4. /\ X \subseteq {cur} \cup {tree.child[cur][d] : d \in Dir}
          /\ IsRb(tree.child, tree.root, tree.color, linked, D, B, parent, dir, X)
      BY <2>2, <1>2, <1>5
    <3> HIDE DEF X
    <3>5. CASE parent # NULL
      <4>1. parent \in linked /\ tree.child[parent][dir] = cur /\ cur # tree.root
        BY <3>5, <1>3, <1>6
      <4>2. tree.color[cur] = RB_RED
        BY <4>1, <1>7 DEF RemoveLoops, IsBlack, IsRed
      <4>3. SomeRb(tree.child, tree.root, u.color, linked, NULL, RB_LEFT, {})
        BY <4>1, <4>2, <3>1, <3>2, <3>4, <1>0, <1>2, PaintHole
      <4> QED
        BY <4>3, <3>1, <3>2, <3>3, <1>0, <1>3, <1>7, RemoveDoneStep
    <3>6. CASE parent = NULL
      <4>1. cur = tree.root
        BY <3>6, <1>3
      <4>2. IsRb(tree.child, cur, tree.color, linked, D, B, NULL, RB_LEFT, X)
        BY <4>1, <3>4, <3>6, <1>0, OwedNowhere
      <4>3. SomeRb(tree.child, cur, u.color, linked, NULL, RB_LEFT, {})
        BY <4>2, <3>1, <3>2, <3>4, <1>0, PaintRoot
      <4> QED
        BY <4>1, <4>3, <3>1, <3>2, <3>3, <1>0, <1>3, <1>7, RemoveDoneStep
    <3> QED
      BY <3>5, <3>6
  <2> QED
    BY <2>1, <2>2
<1>8. CASE RemoveLoops /\ RemoveCases(AfterCase1(tree, parent, dir), parent, dir)
  <2>1. parent \in linked /\ tree.child[parent][dir] = cur /\ IsBlack(tree, cur)
    BY <1>3, <1>8 DEF RemoveLoops
  <2>2. IsRb(tree.child, tree.root, tree.color, linked, D, B, parent, dir, {})
    <3>1. CASE cur = NULL
      BY <3>1, <1>2, <1>5
    <3>2. CASE cur # NULL
      <4> DEFINE X == Exempt
      <4>1. /\ X \subseteq {cur} \cup {tree.child[cur][d] : d \in Dir}
            /\ IsRb(tree.child, tree.root, tree.color, linked, D, B, parent, dir, X)
        BY <3>2, <1>2, <1>5
      <4>2. cur \in linked /\ tree.color[cur] = RB_BLACK
        BY <3>2, <2>1, <1>3, <1>4 DEF IsBlack, IsRed
      <4> HIDE DEF X
      <4> QED
        BY <4>1, <4>2, <1>0, NoReds
    <3> QED
      BY <3>1, <3>2
  <2>3. Working(AfterCase1(tree, parent, dir), linked, parent, dir)
    BY <2>1, <2>2, <1>0, <1>2, AfterCase1Works
  <2> QED
    BY <2>3, <1>0, <1>3, <1>8, RemoveCasesStep
<1> QED
  BY <1>7, <1>8 DEF RemoveColor, dir

-----------------------------------------------------------------------------
(* The inductive invariant, and what it says.                              *)

\* Every step keeps the invariant.
LEMMA InvNext == Inv /\ [Next]_vars => Inv'
<1> SUFFICES ASSUME Inv, [Next]_vars PROVE Inv'
  OBVIOUS
<1>1. CASE RB_ROOT_INIT
  BY <1>1, RootInitStep
<1>2. ASSUME NEW n \in Node, Insert(n) PROVE Inv'
  BY <1>2, InsertStep
<1>3. ASSUME NEW n \in Node, RemoveNode(n) PROVE Inv'
  BY <1>3, RemoveNodeStep
<1>4. ASSUME NEW k \in Key, NEW op \in {"find", "remove"}, Find(op, k) PROVE Inv'
  BY <1>4, FindCall
<1>5. ASSUME NEW op \in {"first", "last"}, Iter(op) PROVE Inv'
  BY <1>5, IterStep
<1>6. ASSUME NEW op \in {"next", "prev"}, NEW n \in Ptr, IterNext(op, n) PROVE Inv'
  BY <1>6, IterNextStep
<1>7. CASE InsertDescend
  BY <1>7, InsertDescendStep
<1>8. CASE InsertColor
  BY <1>8, InsertColorStep
<1>9. CASE FindStep
  BY <1>9, FindStepStep
<1>10. CASE RbRemove
  BY <1>10, RbRemoveStep
<1>11. CASE Successor
  BY <1>11, SuccessorStep
<1>12. CASE RemoveColor
  BY <1>12, RemoveColorStep
<1>13. CASE IterDown
  BY <1>13, IterDownStep
<1>14. CASE IterUp
  BY <1>14, IterUpStep
<1>15. CASE UNCHANGED vars
  <2>0. /\ tree' = tree /\ linked' = linked /\ pc' = pc /\ call' = call /\ target' = target
        /\ cur' = cur /\ parent' = parent /\ ret' = ret
    BY <1>15 DEF vars
  <2>1. PICK D, B : Shape(D, B) /\ CallInv(D)
    BY DEF Inv
  <2>2. TypeOK' /\ Parents(tree', linked')
    BY <2>0 DEF Inv, TypeOK
  <2>3. Shape(D, B)'
    BY <2>0, <2>1 DEF Shape, OwedAt, OwedDir, Exempt
  <2>4. CallInv(D)'
    BY <2>0, <2>1 DEF CallInv, IdleInv, InsertDescendInv, InsertColorInv, FindInv, RemoveInv,
                      SuccessorInv, RemoveColorInv, OwedDir, IterDownInv, IterUpInv, Candidates,
                      Seeks
  <2> QED
    BY <2>2, <2>3, <2>4 DEF Inv
<1> QED
  BY <1>1, <1>2, <1>3, <1>4, <1>5, <1>6, <1>7, <1>8, <1>9, <1>10, <1>11, <1>12, <1>13, <1>14,
     <1>15 DEF Next, Client, Library

\* In every reachable state the links and colours are those of a red-black
\* search tree of the nodes inserted and not removed, but for what the
\* running loop of rbtree.c still owes, and the locals of the running call
\* mean what its loop invariant says.
THEOREM Invariance == Spec => []Inv
<1>1. Init => Inv
  BY InvInit
<1>2. Inv /\ [Next]_vars => Inv'
  BY InvNext
<1> QED
  BY <1>1, <1>2, PTL DEF Spec

\* The memory of rbtree.c and the locals of its functions keep their types.
THEOREM TypeCorrect == Spec => []TypeOK
<1>1. Inv => TypeOK
  BY DEF Inv
<1> QED
  BY <1>1, Invariance, PTL

-----------------------------------------------------------------------------
(* No dereference of NULL.                                                 *)

\* The state at the top of the loop of rb_remove_color.
LEMMA RemoveColorFacts ==
  ASSUME NEW D, NEW B, Shape(D, B), CallInv(D), pc = "remove_color", RemoveLoops
  PROVE  /\ IsRb(tree.child, tree.root, tree.color, linked, D, B, parent,
                 DirOf(tree, parent, cur), Exempt)
         /\ parent \in linked /\ DirOf(tree, parent, cur) \in Dir
         /\ tree.child[parent][DirOf(tree, parent, cur)] = cur
BY DEF Shape, CallInv, RemoveColorInv, OwedAt, OwedDir, RemoveLoops, DirOf, Dir

\* Where a fix-up reads a grandparent or sibling unchecked, the invariant has it linked.
LEMMA InvNoNull == Inv => NoNullDereference
<1> SUFFICES ASSUME Inv PROVE NoNullDereference
  OBVIOUS
<1>1. ASSUME pc = "insert_color", IsRed(tree, tree.parent[cur])
      PROVE  tree.parent[tree.parent[cur]] # NULL
  <2>1. /\ tree \in Tree /\ linked \in SUBSET Node /\ Parents(tree, linked)
        /\ cur \in linked /\ tree.color[cur] = RB_RED
        /\ SomeRb(tree.child, tree.root, tree.color, linked, NULL, RB_LEFT, {cur})
    BY <1>1, InsertColorFacts
  <2>2. PICK D, B : IsRb(tree.child, tree.root, tree.color, linked, D, B, NULL, RB_LEFT, {cur})
    BY <2>1 DEF SomeRb
  <2>3. RedUp(tree, linked, cur, tree.parent[cur], tree.parent[tree.parent[cur]],
              DirOf(tree, tree.parent[tree.parent[cur]], tree.parent[cur]))
    BY <2>1, <2>2, <1>1, RedParent
  <2> QED
    BY <2>1, <2>3, NullAssumption DEF RedUp
<1>2. ASSUME pc = "remove_color", RemoveLoops
      PROVE  /\ parent # NULL
             /\ LET sibling == tree.child[parent][Opp(DirOf(tree, parent, cur))]
                IN  /\ sibling # NULL
                    /\ IsRed(tree, sibling) =>
                         NULL \notin {tree.child[sibling][dir] : dir \in Dir}
  <2> DEFINE e == DirOf(tree, parent, cur)
             s == tree.child[parent][Opp(e)]
  <2>1. PICK D, B : Shape(D, B) /\ CallInv(D)
    BY DEF Inv
  <2>2. /\ IsRb(tree.child, tree.root, tree.color, linked, D, B, parent, e, Exempt)
        /\ parent \in linked /\ e \in Dir
    BY <2>1, <1>2, RemoveColorFacts
  <2>3. linked \in SUBSET Node /\ NULL \notin linked
    BY NullAssumption DEF Inv, TypeOK
  <2> HIDE DEF e
  <2>4. s \in linked /\ B[s] = B[tree.child[parent][e]] + 1
    BY <2>2, <2>3, HoleSide
  <2>5. s # parent /\ tree.child[parent][e] \in Ptr /\ B \in [Ptr -> Nat]
    <3>1. IsTree(tree.child, tree.root, linked, D) /\ Opp(e) \in Dir
      BY <2>2, Sides DEF IsRb
    <3>2. LinkFacts(tree.child, tree.root, linked, D)
      BY <3>1, <2>3, TreeLinks
    <3> QED
      BY <3>1, <3>2, <2>2, <2>3 DEF LinkFacts, IsTree, IsRb, Balanced, Ptr
  <2>6. B[s] > 0
    BY <2>4, <2>5
  <2> HIDE DEF s
  <2>7. ASSUME IsRed(tree, s), NEW d \in Dir PROVE tree.child[s][d] # NULL
    <3>1. tree.child[s][d] \in linked
      BY <2>2, <2>3, <2>4, <2>5, <2>6, <2>7, RedHeight DEF IsRed
    <3> QED
      BY <3>1, <2>3
  <2> QED
    BY <2>2, <2>3, <2>4, <2>7 DEF e, s
<1> QED
  BY <1>1, <1>2 DEF NoNullDereference

\* The grandparent rb_insert_color and the sibling and nephews
\* rb_remove_color dereference without a test are never NULL.
THEOREM NoNull == Spec => []NoNullDereference
BY Invariance, InvNoNull, PTL

-----------------------------------------------------------------------------
(* The ancestors of a node, as the parent pointers give them.              *)

\* up is the function that Ancestors defines.
ClimbsUp(up) ==
  up = [k \in Nat |->
         [m \in Ptr |-> IF k = 0 \/ m = NULL THEN {} ELSE {m} \cup up[k - 1][tree.parent[m]]]]

\* There is such a function.
LEMMA ClimbExists == ASSUME tree \in Tree PROVE \E up : ClimbsUp(up)
<1> DEFINE S == [Ptr -> SUBSET Ptr]
           f0 == [m \in Ptr |-> {}]
           F == [g \in S |-> [m \in Ptr |-> IF m = NULL THEN {} ELSE {m} \cup g[tree.parent[m]]]]
<1>1. \A m \in Ptr : m # NULL => tree.parent[m] \in Ptr
  BY TreeFields DEF Ptr
<1>2. f0 \in S
  OBVIOUS
<1>3. F \in [S -> S]
  <2>1. ASSUME NEW g \in S
        PROVE  [m \in Ptr |-> IF m = NULL THEN {} ELSE {m} \cup g[tree.parent[m]]] \in S
    BY <1>1
  <2> QED
    BY <2>1
<1> HIDE DEF S, f0, F
<1>4. PICK f : Iterates(f, S, f0, F)
  BY <1>2, <1>3, Iteration
<1>5. f \in [Nat -> S] /\ f[0] = f0 /\ \A n \in Nat : f[n + 1] = F[f[n]]
  BY <1>4 DEF Iterates
<1>6. ASSUME NEW k \in Nat
      PROVE  f[k] = [m \in Ptr |-> IF k = 0 \/ m = NULL THEN {}
                                   ELSE {m} \cup f[k - 1][tree.parent[m]]]
  <2>1. CASE k = 0
    BY <2>1, <1>5 DEF f0
  <2>2. CASE k # 0
    <3>1. k - 1 \in Nat /\ (k - 1) + 1 = k
      BY <2>2
    <3>2. f[k] = F[f[k - 1]] /\ f[k - 1] \in S
      BY <3>1, <1>5
    <3>3. F[f[k - 1]] = [m \in Ptr |-> IF m = NULL THEN {}
                                       ELSE {m} \cup f[k - 1][tree.parent[m]]]
      BY <3>2 DEF F
    <3> QED
      BY <3>2, <3>3, <2>2
  <2> QED
    BY <2>1, <2>2
<1>7. ClimbsUp(f)
  BY <1>5, <1>6 DEF ClimbsUp
<1> QED
  BY <1>7

\* The parent pointers lead from a node through the nodes whose subtrees it
\* is in, up to the root.
LEMMA AncestorsUp ==
  ASSUME tree \in Tree, linked \in SUBSET Node, Parents(tree, linked),
         NEW D, IsTree(tree.child, tree.root, linked, D), NEW n \in linked
  PROVE  Ancestors(n) = UpSet(linked, D, n)
<1> DEFINE up == CHOOSE f : ClimbsUp(f)
<1>1. ClimbsUp(up)
  BY ClimbExists
<1>2. Ancestors(n) = up[Cardinality(Node)][n]
  BY DEF Ancestors, ClimbsUp
<1> HIDE DEF up
<1>3. /\ \A m \in Ptr : up[0][m] = {}
      /\ \A k \in Nat : \A m \in Ptr :
           up[k + 1][m] = IF m = NULL THEN {} ELSE {m} \cup up[k][tree.parent[m]]
  <2>1. \A m \in Ptr : up[0][m] = {}
    BY <1>1 DEF ClimbsUp
  <2>2. ASSUME NEW k \in Nat, NEW m \in Ptr
        PROVE  up[k + 1][m] = IF m = NULL THEN {} ELSE {m} \cup up[k][tree.parent[m]]
    <3>1. k + 1 \in Nat /\ k + 1 # 0 /\ (k + 1) - 1 = k
      OBVIOUS
    <3>2. up[k + 1] = [x \in Ptr |-> IF k + 1 = 0 \/ x = NULL THEN {}
                                     ELSE {x} \cup up[(k + 1) - 1][tree.parent[x]]]
      BY <3>1, <1>1 DEF ClimbsUp
    <3> QED
      BY <3>1, <3>2
  <2> QED
    BY <2>1, <2>2
<1>4. /\ IsFiniteSet(linked) /\ \A x \in linked \cup {NULL} : x \in Ptr
      /\ NULL \notin linked
  BY NodeAssumption, NullAssumption, FS_Subset DEF Ptr
<1>5. \A x \in Ptr : /\ UpSet(linked, D, x) \subseteq linked
                     /\ IsFiniteSet(UpSet(linked, D, x))
                     /\ Cardinality(UpSet(linked, D, x)) \in Nat
  BY <1>4, FS_Subset, FS_CardinalityType DEF UpSet
<1>6. UpSet(linked, D, NULL) = {}
  BY <1>4 DEF UpSet, IsTree
<1>7. ASSUME NEW x \in linked
      PROVE  /\ tree.parent[x] \in linked \cup {NULL}
             /\ UpSet(linked, D, x) = {x} \cup UpSet(linked, D, tree.parent[x])
             /\ x \notin UpSet(linked, D, tree.parent[x])
  <2>1. CASE x = tree.root
    <3>1. tree.parent[x] = NULL
      BY <2>1, UpLink
    <3>2. UpSet(linked, D, x) = {x}
      BY <2>1, <1>4, UpSetRoot
    <3> QED
      BY <3>1, <3>2, <1>6
  <2>2. CASE x # tree.root
    <3> DEFINE p == tree.parent[x]
               d == DirOf(tree, p, x)
    <3>1. p \in linked /\ d \in Dir /\ tree.child[p][d] = x
      BY <2>2, UpLink
    <3> HIDE DEF p, d
    <3>2. UpSet(linked, D, x) = {x} \cup UpSet(linked, D, p) /\ x \notin UpSet(linked, D, p)
      BY <3>1, UpSetStep
    <3> QED
      BY <3>1, <3>2 DEF p
  <2> QED
    BY <2>1, <2>2
<1> DEFINE Good == {k \in Nat : \A x \in linked \cup {NULL} :
                      Cardinality(UpSet(linked, D, x)) <= k => up[k][x] = UpSet(linked, D, x)}
<1>8. 0 \in Good
  <2>1. ASSUME NEW x \in linked \cup {NULL}, Cardinality(UpSet(linked, D, x)) <= 0
        PROVE  up[0][x] = UpSet(linked, D, x)
    <3>1. x \in Ptr
      BY <1>4
    <3> DEFINE U == UpSet(linked, D, x)
    <3>2. IsFiniteSet(U) /\ Cardinality(U) = 0
      BY <3>1, <2>1, <1>5
    <3> HIDE DEF U
    <3>3. U = {}
      BY <3>2, FS_EmptySet
    <3> QED
      BY <3>1, <3>3, <1>3 DEF U
  <2> QED
    BY <2>1
<1>9. ASSUME NEW k \in Nat, k \in Good PROVE k + 1 \in Good
  <2>1. ASSUME NEW x \in linked \cup {NULL}, Cardinality(UpSet(linked, D, x)) <= k + 1
        PROVE  up[k + 1][x] = UpSet(linked, D, x)
    <3>1. CASE x = NULL
      BY <3>1, <1>3, <1>4, <1>6
    <3>2. CASE x # NULL
      <4> DEFINE U == UpSet(linked, D, tree.parent[x])
                 V == UpSet(linked, D, x)
      <4>1. /\ tree.parent[x] \in linked \cup {NULL} /\ tree.parent[x] \in Ptr
            /\ V = U \cup {x} /\ x \notin U /\ x \in Ptr
        BY <3>2, <1>4, <1>7
      <4>2. IsFiniteSet(U) /\ Cardinality(U) \in Nat
        BY <4>1, <1>5
      <4>3. Cardinality(V) <= k + 1
        BY <2>1
      <4>4. Cardinality(U) <= k => up[k][tree.parent[x]] = U
        BY <4>1, <1>9
      <4>5. up[k + 1][x] = {x} \cup up[k][tree.parent[x]]
        BY <4>1, <3>2, <1>3
      <4> HIDE DEF U, V
      <4>6. Cardinality(V) = Cardinality(U) + 1
        BY <4>1, <4>2, FS_AddElement
      <4>7. Cardinality(U) <= k
        BY <4>2, <4>3, <4>6
      <4>8. up[k + 1][x] = V
        BY <4>1, <4>4, <4>5, <4>7
      <4> QED
        BY <4>8 DEF V
    <3> QED
      BY <3>1, <3>2
  <2> QED
    BY <2>1
<1>10. Nat \subseteq Good
  <2> HIDE DEF Good
  <2> QED
    BY <1>8, <1>9, SetInduction
<1>11. Cardinality(Node) \in Nat /\ Cardinality(UpSet(linked, D, n)) <= Cardinality(Node)
  <2> DEFINE U == UpSet(linked, D, n)
  <2>1. U \subseteq Node
    BY DEF UpSet
  <2> HIDE DEF U
  <2>2. Cardinality(U) <= Cardinality(Node)
    BY <2>1, NodeAssumption, FS_Subset
  <2> QED
    BY <2>2, NodeAssumption, FS_CardinalityType DEF U
<1> QED
  BY <1>2, <1>10, <1>11

-----------------------------------------------------------------------------
(* The shape of the tree.                                                  *)

\* The parts of the invariant that do not depend on the running call.
LEMMA InvTree ==
  ASSUME Inv
  PROVE  /\ tree \in Tree /\ linked \in SUBSET Node /\ Parents(tree, linked)
         /\ \E D, B : Shape(D, B) /\ CallInv(D) /\ IsTree(tree.child, tree.root, linked, D)
BY DEF Inv, TypeOK, Shape, IsRb

\* The invariant gives the recursive TreeShape that the runs check.
LEMMA InvShape == Inv => TreeShape
<1> SUFFICES ASSUME Inv PROVE TreeShape
  OBVIOUS
<1>1. tree \in Tree /\ linked \in SUBSET Node /\ Parents(tree, linked) /\ NULL \notin linked
  BY InvTree, NullAssumption
<1>2. PICK D : IsTree(tree.child, tree.root, linked, D)
  BY InvTree
<1>3. LinkFacts(tree.child, tree.root, linked, D)
  BY <1>1, <1>2, TreeLinks
<1>4. \A n \in linked : Ancestors(n) = UpSet(linked, D, n)
  BY <1>1, <1>2, AncestorsUp
<1>5. Links
  <2>1. RB_EMPTY(tree) <=> linked = {}
    BY <1>1, <1>2 DEF IsTree, RB_EMPTY
  <2>2. ~RB_EMPTY(tree) => tree.root \in linked /\ tree.parent[tree.root] = NULL
    BY <1>1, <1>2 DEF IsTree, RB_EMPTY, Parents
  <2>3. ASSUME NEW n \in linked
        PROVE  tree.root \in Ancestors(n)
    BY <1>1, <1>2, <1>4 DEF UpSet, IsTree
  <2>4. ASSUME NEW n \in linked, NEW dir \in Dir, tree.child[n][dir] # NULL
        PROVE  tree.child[n][dir] \in linked /\ tree.parent[tree.child[n][dir]] = n
    BY <2>4, <1>1, <1>2 DEF IsTree, Parents
  <2>5. ASSUME NEW n \in linked, n # tree.root
        PROVE  /\ tree.parent[n] \in linked
               /\ \E dir \in Dir : tree.child[tree.parent[n]][dir] = n
    BY <2>5, <1>1, <1>2, UpLink
  <2>6. ASSUME NEW n \in linked, tree.child[n][RB_LEFT] = tree.child[n][RB_RIGHT]
        PROVE  tree.child[n][RB_LEFT] = NULL
    BY <2>6, <1>3 DEF LinkFacts, Dir, RB_LEFT, RB_RIGHT
  <2> QED
    BY <2>1, <2>2, <2>3, <2>4, <2>5, <2>6 DEF Links
<1>6. SearchOrder
  <2>1. ASSUME NEW n \in linked, NEW a \in Ancestors(n) \ {n}
        PROVE  /\ tree.child[a][RB_LEFT] \in Ancestors(n) <=> Val[n] < Val[a]
               /\ tree.child[a][RB_RIGHT] \in Ancestors(n) <=> Val[n] > Val[a]
    <3> DEFINE l == tree.child[a][RB_LEFT]
               r == tree.child[a][RB_RIGHT]
    <3>1. a \in linked /\ n \in D[a] /\ n # a
      BY <2>1, <1>4 DEF UpSet
    <3>2. /\ l \in linked \cup {NULL} /\ r \in linked \cup {NULL} /\ D[NULL] = {}
          /\ D[a] = {a} \cup D[l] \cup D[r]
      BY <3>1, <1>2 DEF IsTree, Dir
    <3>3. /\ n \in D[l] => Before(RB_LEFT, n, a)
          /\ n \in D[r] => Before(RB_RIGHT, n, a)
      BY <3>1, <1>2 DEF IsTree, Dir
    <3>4. Val[n] \in Int /\ Val[a] \in Int
      BY <3>1, <1>1, ValAssumption
    <3>5. /\ n \in D[l] => Val[n] < Val[a]
          /\ n \in D[r] => Val[a] < Val[n]
      BY <3>3 DEF Before, RB_LEFT, RB_RIGHT
    <3>6. /\ l \in Ancestors(n) <=> n \in D[l]
          /\ r \in Ancestors(n) <=> n \in D[r]
      BY <3>2, <1>1, <1>4 DEF UpSet
    <3> HIDE DEF l, r
    <3>7. n \in D[l] \/ n \in D[r]
      BY <3>1, <3>2
    <3>8. /\ l \in Ancestors(n) <=> Val[n] < Val[a]
          /\ r \in Ancestors(n) <=> Val[n] > Val[a]
      BY <3>4, <3>5, <3>6, <3>7
    <3> QED
      BY <3>8 DEF l, r
  <2> QED
    BY <2>1 DEF SearchOrder
<1> QED
  BY <1>5, <1>6 DEF TreeShape

\* In every state between two loop turns of rbtree.c, the links form one
\* search tree of the nodes inserted and not removed, whatever rotations and
\* transplants went before; parent links and child links agree.
THEOREM ShapeKept == Spec => []TreeShape
BY Invariance, InvShape, PTL

-----------------------------------------------------------------------------
(* The colours.                                                            *)

\* The invariant gives RedRule.
LEMMA InvReds == Inv => RedRule
<1> SUFFICES ASSUME Inv, NEW n \in linked, IsRed(tree, n)
             PROVE  \/ tree.parent[n] # NULL /\ IsBlack(tree, tree.parent[n])
                    \/ pc = "insert_color" /\ cur = n
                    \/ pc = "remove_color" /\ cur \in {n, tree.parent[n]}
  BY DEF RedRule
<1>1. tree \in Tree /\ linked \in SUBSET Node /\ Parents(tree, linked) /\ NULL \notin linked
  BY InvTree, NullAssumption
<1>2. PICK D, B : /\ Shape(D, B) /\ CallInv(D)
                  /\ IsTree(tree.child, tree.root, linked, D)
  BY InvTree
<1>3. RedsApart(tree.child, tree.root, tree.color, linked, Exempt)
  BY <1>2 DEF Shape, IsRb
<1>4. n # NULL /\ tree.color[n] = RB_RED /\ RB_RED # RB_BLACK
  BY DEF IsRed, RB_RED, RB_BLACK
<1>5. CASE n \in Exempt
  <2>1. CASE pc = "insert_color"
    BY <2>1, <1>5 DEF Exempt
  <2>2. CASE pc # "insert_color"
    <3>1. /\ pc = "remove_color" /\ cur # NULL
          /\ n = cur \/ \E d \in Dir : n = tree.child[cur][d]
      BY <2>2, <1>5 DEF Exempt
    <3>2. cur \in linked
      BY <3>1, <1>2 DEF CallInv, RemoveColorInv
    <3> QED
      BY <3>1, <3>2, <1>1, <1>4 DEF Parents
  <2> QED
    BY <2>1, <2>2
<1>6. CASE n \notin Exempt
  <2>1. n # tree.root
    BY <1>3, <1>4, <1>6 DEF RedsApart
  <2> DEFINE q == tree.parent[n]
             d == DirOf(tree, q, n)
  <2>2. q \in linked /\ d \in Dir /\ tree.child[q][d] = n
    BY <2>1, <1>1, <1>2, UpLink
  <2> HIDE DEF q, d
  <2>3. tree.color[q] # RB_RED /\ q # NULL
    BY <2>2, <1>1, <1>3, <1>4, <1>6 DEF RedsApart
  <2> QED
    BY <2>3 DEF IsBlack, IsRed, q
<1> QED
  BY <1>5, <1>6

\* The height every path has, in the eyes of BlackRule: a debt above the root
\* counts too.
FullHeight(B) == B[tree.root] + IF pc = "remove_color" /\ parent = NULL THEN 1 ELSE 0

\* On the way up from any NULL link the blacks, with the debt, are the full height.
LEMMA PathHeight ==
  ASSUME Inv, NEW D, NEW B, Shape(D, B), CallInv(D),
         IsTree(tree.child, tree.root, linked, D),
         NEW n \in linked, NEW dir \in Dir, tree.child[n][dir] = NULL
  PROVE  Blacks(n) + Missing(n, dir) = FullHeight(B)
<1> DEFINE q == OwedAt
           e == OwedDir
<1>1. /\ tree \in Tree /\ linked \in SUBSET Node /\ Parents(tree, linked) /\ NULL \notin linked
      /\ \A x \in linked : tree.color[x] \in {RB_RED, RB_BLACK}
      /\ tree.root \in Ptr
  BY InvTree, NullAssumption, TreeFields DEF Shape, IsRb
<1>2. IsRb(tree.child, tree.root, tree.color, linked, D, B, q, e, Exempt) /\ e \in Dir
  BY DEF Shape, OwedDir, DirOf, Dir
<1>3. Ancestors(n) = UpSet(linked, D, n)
  BY <1>1, AncestorsUp
<1>4. Blacks(n) = BlacksUp(tree.color, linked, D, n)
  <2>1. \A a \in UpSet(linked, D, n) : IsBlack(tree, a) <=> tree.color[a] = RB_BLACK
    BY <1>1 DEF UpSet, IsBlack, IsRed, RB_RED, RB_BLACK
  <2>2. {a \in Ancestors(n) : IsBlack(tree, a)}
          = {a \in UpSet(linked, D, n) : tree.color[a] = RB_BLACK}
    BY <2>1, <1>3
  <2> QED
    BY <2>2 DEF Blacks, BlacksUp
<1> HIDE DEF q, e
<1>5. Even(tree.child, tree.root, tree.color, linked, D, B, q, e, n)
  BY <1>1, <1>2, EvenHeights
<1> DEFINE b == BlacksUp(tree.color, linked, D, n)
           w == Passed(tree.child, linked, D, q, e, n)
           o == Owes(n, dir, q, e)
<1>6. B[n] = tree.color[n] + o /\ B[n] \in Nat /\ B[tree.root] \in Nat
  <2>1. B[n] = tree.color[n] + B[NULL] + o /\ B[NULL] = 0 /\ B \in [Ptr -> Nat]
    BY <1>2 DEF IsRb, Balanced
  <2>2. tree.color[n] \in Nat /\ o \in Nat /\ n \in Ptr
    BY <1>1 DEF Owes, RB_RED, RB_BLACK, Ptr
  <2> HIDE DEF o
  <2> QED
    BY <2>1, <2>2, <1>1
<1>7. b \in Nat
  <2> DEFINE S == {a \in UpSet(linked, D, n) : tree.color[a] = RB_BLACK}
  <2>1. S \subseteq Node
    BY <1>1 DEF UpSet
  <2> HIDE DEF S
  <2>2. Cardinality(S) \in Nat
    BY <2>1, NodeAssumption, FS_Subset, FS_CardinalityType
  <2> QED
    BY <2>2 DEF S, BlacksUp
<1>8. b + w + o = B[tree.root]
  <2>1. b + w + B[n] = B[tree.root] + tree.color[n]
    BY <1>5 DEF Even
  <2>2. w \in Nat /\ o \in Nat /\ tree.color[n] \in Nat
    BY <1>1 DEF Passed, Owes, RB_RED, RB_BLACK
  <2> HIDE DEF b, w, o
  <2> QED
    BY <2>1, <2>2, <1>6, <1>7
<1>9. Missing(n, dir) = w + o + IF pc = "remove_color" /\ parent = NULL THEN 1 ELSE 0
  <2>1. CASE pc # "remove_color"
    <3>1. q = NULL
      BY <2>1 DEF q, OwedAt
    <3>2. w = 0 /\ o = 0
      BY <3>1, <1>1 DEF Passed, Owes
    <3> QED
      BY <3>2, <2>1 DEF Missing
  <2>2. CASE pc = "remove_color"
    <3>0. /\ q = parent /\ e = DirOf(tree, parent, cur)
          /\ cur \in linked \cup {NULL}
          /\ parent = NULL => cur = tree.root
          /\ parent # NULL => parent \in linked /\ tree.child[parent][e] = cur
      BY <2>2 DEF CallInv, RemoveColorInv, q, e, OwedAt, OwedDir
    <3>1. CASE parent = NULL
      <4>1. w = 0 /\ o = 0
        BY <3>0, <3>1, <1>1 DEF Passed, Owes
      <4>2. cur = tree.root /\ cur # NULL /\ cur \in Ancestors(n)
        BY <3>0, <3>1, <1>1, <1>3 DEF IsTree, UpSet
      <4> QED
        BY <4>1, <4>2, <3>1, <2>2 DEF Missing
    <3>2. CASE parent # NULL /\ cur # NULL
      <4>1. o = 0
        BY <3>0, <3>2 DEF Owes
      <4>2. cur \in Ancestors(n) <=> n \in D[cur]
        BY <3>0, <3>2, <1>3 DEF UpSet
      <4>3. w = IF n \in D[cur] THEN 1 ELSE 0
        BY <3>0, <3>2 DEF Passed
      <4> QED
        BY <4>1, <4>2, <4>3, <3>2, <2>2 DEF Missing
    <3>3. CASE parent # NULL /\ cur = NULL
      <4>1. w = 0
        BY <3>0, <3>3 DEF Passed, IsTree
      <4>2. o = IF n = parent /\ dir = DirOf(tree, parent, NULL) THEN 1 ELSE 0
        BY <3>0, <3>3 DEF Owes
      <4> QED
        BY <4>1, <4>2, <3>3, <2>2 DEF Missing
    <3> QED
      BY <3>1, <3>2, <3>3
  <2> QED
    BY <2>1, <2>2
<1>10. w \in Nat /\ o \in Nat
  BY DEF Passed, Owes
<1> DEFINE x == IF pc = "remove_color" /\ parent = NULL THEN 1 ELSE 0
<1>11. x \in Nat /\ Missing(n, dir) = w + o + x /\ Blacks(n) = b /\ FullHeight(B) = B[tree.root] + x
  BY <1>4, <1>9 DEF FullHeight
<1> HIDE DEF b, w, o, x
<1>12. b + (w + o + x) = (b + w + o) + x
  BY <1>7, <1>10, <1>11
<1> QED
  BY <1>8, <1>11, <1>12

\* The invariant gives BlackRule: all those counts are one number.
LEMMA InvBlacks == Inv => BlackRule
<1> SUFFICES ASSUME Inv PROVE BlackRule
  OBVIOUS
<1>1. PICK D, B : /\ Shape(D, B) /\ CallInv(D)
                  /\ IsTree(tree.child, tree.root, linked, D)
  BY InvTree
<1> DEFINE ends == {e \in linked \X Dir : tree.child[e[1]][e[2]] = NULL}
           S == {Blacks(e[1]) + Missing(e[1], e[2]) : e \in ends}
           k == FullHeight(B)
<1>2. S \subseteq {k}
  <2>1. ASSUME NEW e \in ends PROVE Blacks(e[1]) + Missing(e[1], e[2]) = k
    <3>1. e[1] \in linked /\ e[2] \in Dir /\ tree.child[e[1]][e[2]] = NULL
      OBVIOUS
    <3> QED
      BY <3>1, <1>1, PathHeight
  <2> QED
    BY <2>1
<1> HIDE DEF S, k
<1>3. Cardinality(S) <= 1
  <2>1. IsFiniteSet({k}) /\ Cardinality({k}) = 1
    BY FS_Singleton
  <2>2. Cardinality(S) <= Cardinality({k})
    BY <2>1, <1>2, FS_Subset
  <2> QED
    BY <2>1, <2>2
<1> QED
  BY <1>3 DEF BlackRule, S

\* In every turn of rb_insert_color and rb_remove_color, no red node has a red
\* parent but where the loop works, and all paths from the root down pass the
\* same number of black nodes, counting the one still owed.
THEOREM ColorsKept == Spec => []ColorRules
<1>1. Inv => ColorRules
  BY InvReds, InvBlacks DEF ColorRules
<1> QED
  BY <1>1, Invariance, PTL

-----------------------------------------------------------------------------
(* The tree is an ordered set.                                             *)

Fixup == {"insert_color", "remove_color"}

\* The least node of a set, when one is known; there is none in the empty set.
LEMMA LeastIs ==
  ASSUME NEW S \in SUBSET Node, NEW n \in S, \A m \in S : m # n => Val[n] < Val[m]
  PROVE  Set!Least(S) = n
<1>1. \A m \in S : Val[m] \in Int
  BY ValAssumption
<1> DEFINE Low(x) == x \in S /\ \A m \in S : Val[x] <= Val[m]
<1>2. Low(n)
  BY <1>1
<1>3. \A x : Low(x) => x = n
  BY <1>1
<1>4. Set!Least(S) = CHOOSE x : Low(x)
  BY DEF Set!Least
<1> HIDE DEF Low
<1> QED
  BY <1>2, <1>3, <1>4

\* The greatest of a set is the node all others lie below.
LEMMA GreatestIs ==
  ASSUME NEW S \in SUBSET Node, NEW n \in S, \A m \in S : m # n => Val[m] < Val[n]
  PROVE  Set!Greatest(S) = n
<1>1. \A m \in S : Val[m] \in Int
  BY ValAssumption
<1> DEFINE High(x) == x \in S /\ \A m \in S : Val[m] <= Val[x]
<1>2. High(n)
  BY <1>1
<1>3. \A x : High(x) => x = n
  BY <1>1
<1>4. Set!Greatest(S) = CHOOSE x : High(x)
  BY DEF Set!Greatest
<1> HIDE DEF High
<1> QED
  BY <1>2, <1>3, <1>4

\* An empty set has no outermost node.
LEMMA NoneLeast == Set!Least({}) = NULL /\ Set!Greatest({}) = NULL
BY DEF Set!Least, Set!Greatest

\* What the ordered set answers to each request, and what it does.
LEMMA Answers ==
  ASSUME NEW c
  PROVE  /\ c.op = "insert" =>
              /\ Set!Answer(c) = IF Set!WithKey(Val[c.arg]) = NULL THEN c.arg
                                 ELSE Set!WithKey(Val[c.arg])
              /\ Set!Effect(c) = linked \cup {Set!Answer(c)}
         /\ c.op \in {"find", "remove"} => Set!Answer(c) = Set!WithKey(c.arg)
         /\ c.op = "rb_remove" => Set!Answer(c) = c.arg
         /\ c.op \in {"remove", "rb_remove"} => Set!Effect(c) = linked \ {Set!Answer(c)}
         /\ c.op = "first" => Set!Answer(c) = Set!Least(linked)
         /\ c.op = "last" => Set!Answer(c) = Set!Greatest(linked)
         /\ c.op = "next" =>
              Set!Answer(c) = IF c.arg = NULL THEN NULL
                              ELSE Set!Least({n \in linked : Val[c.arg] < Val[n]})
         /\ c.op = "prev" =>
              Set!Answer(c) = IF c.arg = NULL THEN NULL
                              ELSE Set!Greatest({n \in linked : Val[n] < Val[c.arg]})
         /\ c.op \in {"find", "first", "last", "next", "prev"} => Set!Effect(c) = linked
BY DEF Set!Answer, Set!Effect

\* A step at which the abstract call takes effect and answers, one at which it
\* takes effect only, one at which it answers only, one at which it begins.
LEMMA AppliesNow ==
  ASSUME pc \notin Fixup, call.op \notin {"none", "reply"},
         linked' = Set!Effect(call), Return(Set!Answer(call))
  PROVE  Set!Next
<1>1. call \notin {Set!None} \cup [op : {"reply"}, arg : Node]
  BY DEF Set!None
<1>2. call' = Set!None /\ ret' = Set!Answer(call) /\ pc' \notin Fixup
  BY DEF Return, None, Set!None, Fixup
<1>3. Set!Apply
  BY <1>1, <1>2 DEF Set!Apply, Fixup
<1> QED
  BY <1>3 DEF Set!Next

\* A call that enters a fix-up loop has taken effect and owes its reply.
LEMMA AppliesLater ==
  ASSUME pc \notin Fixup, call.op \notin {"none", "reply"}, linked' = Set!Effect(call),
         pc' \in Fixup, target' = Set!Answer(call), ret' = ret
  PROVE  Set!Next
<1>1. call \notin {Set!None} \cup [op : {"reply"}, arg : Node]
  BY DEF Set!None
<1>2. Set!Apply
  BY <1>1 DEF Set!Apply, Fixup
<1> QED
  BY <1>2 DEF Set!Next

\* A fix-up loop that returns gives the reply owed.
LEMMA Replies ==
  ASSUME pc \in Fixup, Return(target), linked' = linked
  PROVE  Set!Next
<1>1. call' = Set!None /\ ret' = target /\ pc' \notin Fixup
  BY DEF Return, None, Set!None, Fixup
<1>2. Set!Reply
  BY <1>1 DEF Set!Reply, Fixup
<1> QED
  BY <1>2 DEF Set!Next

\* A client's call is the abstract request.
LEMMA Invokes ==
  ASSUME Inv, pc = "idle", pc' \notin Fixup, call' \in Set!Request, ret' = NULL,
         linked' = linked
  PROVE  Set!Next
<1>1. call = Set!None
  BY DEF Inv, CallInv, IdleInv, None, Set!None
<1>2. Set!Invoke
  BY <1>1 DEF Set!Invoke, Fixup
<1> QED
  BY <1>2 DEF Set!Next

\* A step that leaves contents, request and reply alone is a stutter.
LEMMA Stutters ==
  ASSUME UNCHANGED <<linked, call, ret>>,
         \/ pc \notin Fixup /\ pc' \notin Fixup
         \/ UNCHANGED <<pc, target>>
  PROVE  UNCHANGED Set!setVars
BY DEF Set!setVars, Fixup

\* The node with a key, and no node with it.
LEMMA KeyHeld ==
  ASSUME Inv, NEW n \in linked
  PROVE  Set!WithKey(Val[n]) = n
<1>1. linked \in SUBSET Node
  BY InvTree
<1>2. PICK D : IsTree(tree.child, tree.root, linked, D)
  BY InvTree
<1> DEFINE S == {m \in linked : Val[m] = Val[n]}
<1>3. S \in SUBSET Node /\ n \in S /\ \A m \in S : m = n
  BY <1>1, <1>2, KeysDiffer
<1>4. Set!WithKey(Val[n]) = Set!Least(S)
  BY DEF Set!WithKey
<1> HIDE DEF S
<1> QED
  BY <1>3, <1>4, LeastIs

\* The abstract set has no node with a key no linked node has.
LEMMA KeyMissing ==
  ASSUME NEW k, \A m \in linked : Val[m] # k
  PROVE  Set!WithKey(k) = NULL
<1>1. {m \in linked : Val[m] = k} = {}
  OBVIOUS
<1> QED
  BY <1>1, NoneLeast DEF Set!WithKey

\* n is the outermost of the nodes the running walk looks for.
Outermost(n) ==
  \/ n = NULL /\ Candidates = {}
  \/ n \in Candidates /\ \A m \in Candidates : m # n => Before(DownDir(call.op), n, m)

\* It is the answer the ordered set gives.
LEMMA WalkAnswer ==
  ASSUME Inv, call.op \in {"first", "last", "next", "prev"}, NEW n, Outermost(n)
  PROVE  Set!Answer(call) = n /\ Set!Effect(call) = linked
<1>1. linked \in SUBSET Node
  BY InvTree
<1>2. Set!Effect(call) = linked
  BY Answers
<1> DEFINE S == Candidates
<1>3. S \in SUBSET Node
  BY <1>1 DEF Candidates
<1>4. CASE call.op \in {"first", "next"}
  <2>1. DownDir(call.op) = RB_LEFT
    BY <1>4 DEF DownDir
  <2>2. Set!Answer(call) = Set!Least(S)
    <3>1. CASE call.op = "first"
      BY <3>1, Answers DEF Candidates
    <3>2. CASE call.op = "next" /\ call.arg = NULL
      BY <3>2, Answers, NoneLeast DEF Candidates
    <3>3. CASE call.op = "next" /\ call.arg # NULL
      <4>1. S = {m \in linked : Val[call.arg] < Val[m]}
        BY <3>3, <2>1 DEF Candidates, Before
      <4> QED
        BY <4>1, <3>3, Answers
    <3> QED
      BY <3>1, <3>2, <3>3, <1>4
  <2>3. \/ n = NULL /\ S = {}
        \/ n \in S /\ \A m \in S : m # n => Val[n] < Val[m]
    BY <2>1 DEF Outermost, Before
  <2> HIDE DEF S
  <2>4. Set!Least(S) = n
    BY <2>3, <1>3, LeastIs, NoneLeast
  <2> QED
    BY <2>2, <2>4, <1>2
<1>5. CASE call.op \in {"last", "prev"}
  <2>1. DownDir(call.op) = RB_RIGHT /\ RB_RIGHT # RB_LEFT
    BY <1>5 DEF DownDir, RB_RIGHT, RB_LEFT
  <2>2. Set!Answer(call) = Set!Greatest(S)
    <3>1. CASE call.op = "last"
      BY <3>1, Answers DEF Candidates
    <3>2. CASE call.op = "prev" /\ call.arg = NULL
      BY <3>2, Answers, NoneLeast DEF Candidates
    <3>3. CASE call.op = "prev" /\ call.arg # NULL
      <4>1. S = {m \in linked : Val[m] < Val[call.arg]}
        BY <3>3, <2>1 DEF Candidates, Before
      <4> QED
        BY <4>1, <3>3, Answers
    <3> QED
      BY <3>1, <3>2, <3>3, <1>5
  <2>3. \/ n = NULL /\ S = {}
        \/ n \in S /\ \A m \in S : m # n => Val[m] < Val[n]
    BY <2>1 DEF Outermost, Before
  <2> HIDE DEF S
  <2>4. Set!Greatest(S) = n
    BY <2>3, <1>3, GreatestIs, NoneLeast
  <2> QED
    BY <2>2, <2>4, <1>2
<1> QED
  BY <1>4, <1>5

\* A walk ends at the outermost node: running down the tree ...
LEMMA IterDownRefines ==
  ASSUME Inv, IterDown
  PROVE  [Set!Next]_(Set!setVars)
<1>1. PICK D, B : Shape(D, B) /\ CallInv(D)
  BY DEF Inv
<1> DEFINE dd == DownDir(call.op)
           q == tree.child[cur][dd]
<1>2. /\ pc = "iter_down" /\ UNCHANGED <<tree, linked>> /\ pc \notin Fixup
      /\ \/ cur = NULL /\ Return(NULL)
         \/ cur # NULL /\ q = NULL /\ Return(cur)
         \/ cur # NULL /\ q # NULL /\ cur' = q /\ UNCHANGED <<pc, call, target, parent, ret>>
  BY DEF IterDown, Fixup
<1>3. /\ IsTree(tree.child, tree.root, linked, D) /\ IterDownInv(D)
      /\ linked \in SUBSET Node
  BY <1>1, <1>2, InvTree, QuietShape DEF CallInv, Fixup
<1>4. call.op \in {"first", "last", "next", "prev"}
  BY <1>3 DEF IterDownInv
<1>5. CASE cur = NULL /\ Return(NULL)
  <2>1. Outermost(NULL)
    BY <1>3, <1>5 DEF Outermost, IterDownInv
  <2>2. Set!Answer(call) = NULL /\ Set!Effect(call) = linked
    BY <2>1, <1>4, WalkAnswer
  <2> QED
    BY <2>2, <1>2, <1>4, <1>5, AppliesNow
<1>6. CASE cur # NULL /\ q = NULL /\ Return(cur)
  <2>1. cur \in linked /\ dd \in Dir /\ Opp(dd) \in Dir /\ \A d \in Dir : d = dd \/ d = Opp(dd)
    BY <1>3, <1>6, Sides DEF IterDownInv, DownDir, Dir
  <2>2. cur \in D[cur] /\ D[cur] \subseteq linked /\ D[NULL] = {}
    <3>1. cur \in D[cur]
      BY <2>1, <1>3, BelowNode
    <3> QED
      BY <3>1, <2>1, <1>3 DEF IsTree, Ptr
  <2>3. \A m \in D[cur] : m # cur => m \in D[tree.child[cur][Opp(dd)]]
    <3>1. \A m \in D[cur] : m = cur \/ \E d \in Dir : m \in D[tree.child[cur][d]]
      BY <2>1, <1>3 DEF IsTree, Dir
    <3> QED
      BY <3>1, <2>1, <2>2, <1>6
  <2>4. \A m \in D[cur] : m # cur => Before(dd, cur, m)
    <3> SUFFICES ASSUME NEW m \in D[cur], m # cur PROVE Before(dd, cur, m)
      OBVIOUS
    <3>1. Before(Opp(dd), m, cur) /\ m \in Node /\ cur \in Node
      BY <2>1, <2>2, <2>3, <1>3 DEF IsTree
    <3> HIDE DEF dd
    <3> QED
      BY <3>1, <2>1, BeforeFacts
  <2>5. Outermost(cur)
    BY <2>2, <2>4, <1>3 DEF Outermost, IterDownInv
  <2>6. Set!Answer(call) = cur /\ Set!Effect(call) = linked
    BY <2>5, <1>4, WalkAnswer
  <2> QED
    BY <2>6, <1>2, <1>4, <1>6, AppliesNow
<1>7. CASE UNCHANGED <<pc, call, target, parent, ret>>
  BY <1>2, <1>7, Stutters
<1> QED
  BY <1>2, <1>5, <1>6, <1>7

\* ... or climbing it.
LEMMA IterUpRefines ==
  ASSUME Inv, IterUp
  PROVE  [Set!Next]_(Set!setVars)
<1>1. PICK D, B : Shape(D, B) /\ CallInv(D)
  BY DEF Inv
<1> DEFINE dd == DownDir(call.op)
           p == tree.parent[cur]
<1>2. /\ pc = "iter_up" /\ UNCHANGED <<tree, linked>> /\ pc \notin Fixup
      /\ \/ ~(p # NULL /\ tree.child[p][Opp(dd)] = cur) /\ Return(p)
         \/ UNCHANGED <<pc, call, target, parent, ret>>
  BY DEF IterUp, Climbs, Fixup
<1>3. /\ IsTree(tree.child, tree.root, linked, D) /\ IterUpInv(D)
      /\ linked \in SUBSET Node /\ Parents(tree, linked) /\ NULL \notin linked
  BY <1>1, <1>2, InvTree, QuietShape, NullAssumption DEF CallInv, Fixup
<1>4. /\ call.op \in {"next", "prev"} /\ cur \in linked /\ call.arg \in D[cur]
      /\ call.arg \in linked /\ D[cur] \cap Candidates = {} /\ call.arg # NULL
  BY <1>3 DEF IterUpInv
<1>5. dd \in Dir /\ Opp(dd) \in Dir /\ \A d \in Dir : d = dd \/ d = Opp(dd)
  BY Sides DEF DownDir, Dir
<1>6. Candidates = {m \in linked : Before(dd, call.arg, m)}
  BY <1>4 DEF Candidates
<1>7. CASE ~(p # NULL /\ tree.child[p][Opp(dd)] = cur) /\ Return(p)
  <2>1. Outermost(p)
    <3>1. CASE cur = tree.root
      <4>1. p = NULL /\ D[cur] = linked
        BY <3>1, <1>3, <1>4, UpLink DEF IsTree
      <4>2. Candidates \subseteq linked
        BY <1>6
      <4> QED
        BY <4>1, <4>2, <1>4 DEF Outermost
    <3>2. CASE cur # tree.root
      <4> DEFINE e == DirOf(tree, p, cur)
      <4>1. p \in linked /\ e \in Dir /\ tree.child[p][e] = cur
        BY <3>2, <1>3, <1>4, UpLink
      <4>2. tree.child[p][dd] = cur
        BY <4>1, <1>3, <1>5, <1>7
      <4> HIDE DEF p, dd, e
      <4>3. BeyondNode(tree.child, linked, D, p, dd)
        BY <4>1, <1>3, <1>5, Beyond
      <4>4. /\ \A m \in D[cur] : Before(dd, m, p)
            /\ D[p] = {p} \cup D[cur] \cup D[tree.child[p][Opp(dd)]]
        BY <4>1, <4>2, <1>3, <1>5 DEF IsTree, Dir
      <4>5. p \in Candidates
        BY <4>1, <4>4, <1>4, <1>6
      <4>6. ASSUME NEW m \in Candidates, m # p PROVE Before(dd, p, m)
        <5>1. m \in linked /\ m \notin D[cur] /\ Before(dd, call.arg, m)
          BY <4>6, <1>4, <1>6
        <5>2. CASE m \in D[p]
          <6>1. m \in D[tree.child[p][Opp(dd)]]
            BY <5>1, <5>2, <4>4, <4>6
          <6> QED
            BY <6>1, <4>3 DEF BeyondNode
        <5>3. CASE m \notin D[p]
          <6>1. PICK d \in Dir : \A k \in D[p] : Before(d, k, m)
            BY <5>1, <5>3, <4>1, <1>3, Interval
          <6>2. p \in D[p] /\ call.arg \in D[p]
            BY <4>4, <1>4
          <6>3. d = dd
            <7>1. Before(d, call.arg, m) /\ call.arg \in Node /\ m \in Node
              BY <6>1, <6>2, <5>1, <1>3, <1>4
            <7>2. d = dd \/ d = Opp(dd)
              BY <1>5
            <7> QED
              BY <7>1, <7>2, <5>1, <1>5, BeforeFacts
          <6> QED
            BY <6>1, <6>2, <6>3
        <5> QED
          BY <5>2, <5>3
      <4> QED
        BY <4>5, <4>6 DEF Outermost, dd
    <3> QED
      BY <3>1, <3>2
  <2> HIDE DEF p
  <2>2. Set!Answer(call) = p /\ Set!Effect(call) = linked
    BY <2>1, <1>4, WalkAnswer
  <2> QED
    BY <2>2, <1>2, <1>4, <1>7, AppliesNow
<1>8. CASE UNCHANGED <<pc, call, target, parent, ret>>
  BY <1>2, <1>8, Stutters
<1> QED
  BY <1>2, <1>7, <1>8

\* A search ends at the node with the key, or where it would be.
LEMMA FindRefines ==
  ASSUME Inv, FindStep
  PROVE  [Set!Next]_(Set!setVars)
<1>1. PICK D, B : Shape(D, B) /\ CallInv(D)
  BY DEF Inv
<1>2. pc = "find" /\ UNCHANGED <<tree, linked>> /\ pc \notin Fixup
  BY DEF FindStep, Fixup
<1>3. /\ IsTree(tree.child, tree.root, linked, D) /\ FindInv(D)
      /\ linked \in SUBSET Node /\ NULL \notin linked
  BY <1>1, <1>2, InvTree, QuietShape, NullAssumption DEF CallInv, Fixup
<1>4. call.op \in {"find", "remove"} /\ cur \in linked \cup {NULL} /\ Seeks(D, call.arg)
  BY <1>3 DEF FindInv
<1>5. CASE cur = NULL /\ Return(NULL)
  <2>1. \A m \in linked : Val[m] # call.arg
    BY <1>3, <1>4, <1>5 DEF Seeks, IsTree
  <2>2. Set!Answer(call) = NULL
    BY <2>1, <1>4, KeyMissing, Answers
  <2>3. Set!Effect(call) = linked
    <3>1. linked \ {NULL} = linked
      BY <1>3
    <3> QED
      BY <3>1, <2>2, <1>4, Answers
  <2> QED
    BY <2>2, <2>3, <1>2, <1>4, <1>5, AppliesNow
<1>6. CASE cur # NULL /\ Val[cur] = call.arg /\ call.op = "find" /\ Return(cur)
  <2>1. Set!WithKey(Val[cur]) = cur
    BY <1>4, <1>6, KeyHeld
  <2>2. Set!Answer(call) = cur /\ Set!Effect(call) = linked
    BY <2>1, <1>6, Answers
  <2> QED
    BY <2>2, <1>2, <1>4, <1>6, AppliesNow
<1>7. CASE UNCHANGED <<pc, call, target, parent, ret>>
  BY <1>2, <1>7, Stutters
<1>8. CASE pc' = "rb_remove" /\ UNCHANGED <<call, parent, ret>>
  <2>1. pc' \notin Fixup
    BY <1>8 DEF Fixup
  <2> QED
    BY <2>1, <1>2, <1>8, Stutters
<1> QED
  BY <1>5, <1>6, <1>7, <1>8 DEF FindStep

\* An insertion links the node, or finds the one that has its key.
LEMMA InsertDescendRefines ==
  ASSUME Inv, InsertDescend
  PROVE  [Set!Next]_(Set!setVars)
<1>1. PICK D, B : Shape(D, B) /\ CallInv(D)
  BY DEF Inv
<1> DEFINE dir == SearchDir(Val[target], cur)
           p == tree.child[cur][dir]
<1>2. /\ pc = "insert_descend" /\ pc \notin Fixup
      /\ \/ /\ cur = NULL \/ (cur # NULL /\ Val[target] # Val[cur] /\ p = NULL)
            /\ linked' = linked \cup {target} /\ pc' = "insert_color"
            /\ UNCHANGED <<call, target, parent, ret>>
         \/ /\ cur # NULL /\ Val[target] = Val[cur] /\ Return(cur)
            /\ UNCHANGED <<tree, linked>>
         \/ UNCHANGED <<tree, linked, pc, call, target, parent, ret>>
  BY DEF InsertDescend, Link, Fixup
<1>3. /\ IsTree(tree.child, tree.root, linked, D) /\ InsertDescendInv(D)
      /\ linked \in SUBSET Node /\ NULL \notin linked
  BY <1>1, <1>2, InvTree, QuietShape, NullAssumption DEF CallInv, Fixup
<1>4. /\ target \in Node /\ target # NULL /\ call.op = "insert" /\ call.arg = target
      /\ cur \in linked \cup {NULL} /\ (cur = NULL => linked = {})
      /\ Seeks(D, Val[target]) /\ Val[target] \in Int /\ D[NULL] = {}
  BY <1>3, NullAssumption, ValAssumption DEF InsertDescendInv, IsTree
<1>5. CASE /\ cur = NULL \/ (cur # NULL /\ Val[target] # Val[cur] /\ p = NULL)
           /\ linked' = linked \cup {target} /\ pc' = "insert_color"
           /\ UNCHANGED <<call, target, parent, ret>>
  <2>1. \A m \in linked : Val[m] # Val[target]
    <3>1. CASE cur = NULL
      BY <3>1, <1>4
    <3>2. CASE cur # NULL /\ Val[target] # Val[cur] /\ p = NULL
      <4>1. \A m \in D[cur] : Val[m] = Val[target] => m \in D[p]
        BY <3>2, <1>3, <1>4, SearchSide
      <4> QED
        BY <4>1, <3>2, <1>4 DEF Seeks
    <3> QED
      BY <3>1, <3>2, <1>5
  <2>2. Set!WithKey(Val[target]) = NULL
    BY <2>1, KeyMissing
  <2>3. Set!Answer(call) = target /\ Set!Effect(call) = linked \cup {target}
    BY <2>2, <1>4, Answers
  <2>4. pc' \in Fixup
    BY <1>5 DEF Fixup
  <2> QED
    BY <2>3, <2>4, <1>2, <1>4, <1>5, AppliesLater
<1>6. CASE cur # NULL /\ Val[target] = Val[cur] /\ Return(cur) /\ UNCHANGED <<tree, linked>>
  <2>1. cur \in linked /\ Set!WithKey(Val[cur]) = cur
    BY <1>4, <1>6, KeyHeld
  <2>2. Set!Answer(call) = cur /\ Set!Effect(call) = linked \cup {cur}
    BY <2>1, <1>4, <1>6, Answers
  <2> QED
    BY <2>1, <2>2, <1>2, <1>4, <1>6, AppliesNow
<1>7. CASE UNCHANGED <<tree, linked, pc, call, target, parent, ret>>
  BY <1>2, <1>7, Stutters
<1> QED
  BY <1>2, <1>5, <1>6, <1>7

\* rb_remove takes effect when the node is out of the tree.
LEMMA UnlinkRefines ==
  ASSUME Inv, pc \notin Fixup, RemoveInv,
         NEW t, NEW k, NEW q, NEW c, Unlink(t, k, q, c)
  PROVE  Set!Next
<1>1. target \in linked /\ call.op \in {"remove", "rb_remove"}
  BY DEF RemoveInv
<1>2. Set!Answer(call) = target
  <2>1. CASE call = [op |-> "remove", arg |-> Val[target]]
    BY <2>1, <1>1, KeyHeld, Answers
  <2>2. CASE call = [op |-> "rb_remove", arg |-> target]
    BY <2>2, Answers
  <2> QED
    BY <2>1, <2>2 DEF RemoveInv
<1>3. linked' = Set!Effect(call)
  BY <1>1, <1>2, Answers DEF Unlink
<1>4. CASE Return(target)
  BY <1>1, <1>2, <1>3, <1>4, AppliesNow
<1>5. CASE pc' = "remove_color" /\ UNCHANGED <<call, target, ret>>
  <2>1. pc' \in Fixup
    BY <1>5 DEF Fixup
  <2> QED
    BY <2>1, <1>1, <1>2, <1>3, <1>5, AppliesLater
<1> QED
  BY <1>4, <1>5 DEF Unlink

\* rb_remove with at most one child is the abstract removal, else a stutter.
LEMMA RbRemoveRefines ==
  ASSUME Inv, RbRemove
  PROVE  [Set!Next]_(Set!setVars)
<1>1. pc = "rb_remove" /\ pc \notin Fixup /\ RemoveInv
  BY DEF RbRemove, Fixup, Inv, CallInv
<1>2. \/ \E t, k, q, c : Unlink(t, k, q, c)
      \/ pc' = "successor" /\ UNCHANGED <<linked, call, ret>>
  BY DEF RbRemove
<1>3. CASE pc' = "successor" /\ UNCHANGED <<linked, call, ret>>
  <2>1. pc' \notin Fixup
    BY <1>3 DEF Fixup
  <2> QED
    BY <2>1, <1>1, <1>3, Stutters
<1> QED
  BY <1>1, <1>2, <1>3, UnlinkRefines

\* The successor search stutters until the move, which is the abstract removal.
LEMMA SuccessorRefines ==
  ASSUME Inv, Successor
  PROVE  [Set!Next]_(Set!setVars)
<1>1. pc = "successor" /\ pc \notin Fixup /\ RemoveInv
  BY DEF Successor, Fixup, Inv, CallInv, SuccessorInv
<1>2. \/ \E t, k, q, c : Unlink(t, k, q, c)
      \/ UNCHANGED <<linked, pc, call, target, ret>>
  BY DEF Successor
<1> QED
  BY <1>1, <1>2, UnlinkRefines, Stutters

\* The fix-up loops change nothing the client sees, and then reply.
LEMMA FixupRefines ==
  ASSUME InsertColor \/ RemoveColor
  PROVE  [Set!Next]_(Set!setVars)
<1>1. pc \in Fixup /\ linked' = linked
  BY DEF InsertColor, RemoveColor, Fixup
<1>2. \/ Return(target)
      \/ UNCHANGED <<pc, call, target, ret>>
  BY DEF InsertColor, RemoveColor, RemoveDone, RemoveCases
<1> QED
  BY <1>1, <1>2, Replies, Stutters

\* The client's calls.
LEMMA ClientRefines ==
  ASSUME Inv, Client
  PROVE  Set!Next
<1>0. pc = "idle" => call = Set!None /\ linked \subseteq Node
  BY DEF Inv, TypeOK, CallInv, IdleInv, None, Set!None
<1>1. CASE RB_ROOT_INIT
  <2>1. Set!Reset
    BY <1>0, <1>1 DEF RB_ROOT_INIT, Set!Reset
  <2> QED
    BY <2>1 DEF Set!Next
<1>2. ASSUME NEW n \in Node, Insert(n) PROVE Set!Next
  <2>1. pc = "idle" /\ pc' \notin Fixup /\ ret' = NULL /\ linked' = linked
    BY <1>2 DEF Insert, Call, Fixup
  <2>2. call' \in Set!Request
    BY <1>2 DEF Insert, Call, Set!Request
  <2> QED
    BY <2>1, <2>2, Invokes
<1>3. ASSUME NEW n \in Node, RemoveNode(n) PROVE Set!Next
  <2>1. pc = "idle" /\ pc' \notin Fixup /\ ret' = NULL /\ linked' = linked
    BY <1>3 DEF RemoveNode, Call, Fixup
  <2>2. call' \in Set!Request
    BY <1>3 DEF RemoveNode, Call, Set!Request
  <2> QED
    BY <2>1, <2>2, Invokes
<1>4. ASSUME NEW k \in Key, NEW op \in {"find", "remove"}, Find(op, k) PROVE Set!Next
  <2>1. pc = "idle" /\ pc' \notin Fixup /\ ret' = NULL /\ linked' = linked
    BY <1>4 DEF Find, Call, Fixup
  <2>2. call' \in Set!Request
    BY <1>4 DEF Find, Call, Set!Request, Key, Set!Key
  <2> QED
    BY <2>1, <2>2, Invokes
<1>5. ASSUME NEW op \in {"first", "last"}, Iter(op) PROVE Set!Next
  <2>1. pc = "idle" /\ pc' \notin Fixup /\ ret' = NULL /\ linked' = linked
    BY <1>5 DEF Iter, Call, Fixup
  <2>2. call' \in Set!Request
    BY <1>5 DEF Iter, Call, Set!Request
  <2> QED
    BY <2>1, <2>2, Invokes
<1>6. ASSUME NEW op \in {"next", "prev"}, NEW n \in Ptr, IterNext(op, n) PROVE Set!Next
  <2>1. pc = "idle" /\ pc' \notin Fixup /\ ret' = NULL /\ linked' = linked
    BY <1>6 DEF IterNext, Call, Fixup
  <2>2. call' \in Set!Request
    BY <1>6 DEF IterNext, Call, Set!Request
  <2> QED
    BY <2>1, <2>2, Invokes
<1> QED
  BY <1>1, <1>2, <1>3, <1>4, <1>5, <1>6 DEF Client

\* Every step is a step of the ordered set or a stutter.
LEMMA NextRefines == Inv /\ [Next]_vars => [Set!Next]_(Set!setVars)
<1> SUFFICES ASSUME Inv, [Next]_vars PROVE [Set!Next]_(Set!setVars)
  OBVIOUS
<1>1. CASE UNCHANGED vars
  BY <1>1 DEF vars, Set!setVars
<1>2. CASE Client
  BY <1>2, ClientRefines
<1>3. CASE Library
  BY <1>3, InsertDescendRefines, FixupRefines, FindRefines, RbRemoveRefines, SuccessorRefines,
     IterDownRefines, IterUpRefines DEF Library
<1> QED
  BY <1>1, <1>2, <1>3 DEF Next

\* Every call of rbtree.h answers as the ordered set does: insert refuses a
\* second node with the key and names the first, find and remove find exactly
\* the keys present, and the walks give the neighbours in key order, for any
\* number of nodes and after any calls.
THEOREM Refinement == Spec => ImplementsOrderedSet
<1>1. Init => Set!Init
  BY DEF Init, Set!Init, None, Set!None
<1>2. Inv /\ [Next]_vars => [Set!Next]_(Set!setVars)
  BY NextRefines
<1> QED
  BY <1>1, <1>2, Invariance, PTL DEF Spec, ImplementsOrderedSet, Set!Spec

=============================================================================
