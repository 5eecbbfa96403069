---------------------------- MODULE RbNodeProofs ----------------------------
(***************************************************************************)
(* What the proofs about rbtree.c and rbtree_compact.c share: a search     *)
(* tree over a set L of nodes, given by its child links ch and its root r, *)
(* and what the library does to the links of one.                          *)
(*                                                                         *)
(* The tree is described from below.  D[n] is the set of nodes in the      *)
(* subtree of n, and the tree is right when D satisfies an equation at     *)
(* every node: no recursion, and a rotation changes D at two nodes only.   *)
(* That the subtrees are nested, that a node has one parent, and that a    *)
(* subtree is an interval of keys, follows.                                *)
(***************************************************************************)
EXTENDS RbNode, NatRecursion

\* Node m belongs below node n on side d.
Before(d, m, n) == IF d = RB_LEFT THEN Val[m] < Val[n] ELSE Val[n] < Val[m]

\* The child links ch and the root r are a search tree of the nodes L, with
\* the subtrees D.
IsTree(ch, r, L, D) ==
  /\ D \in [Ptr -> SUBSET L]
  /\ D[NULL] = {}
  /\ r \in L \cup {NULL}
  /\ D[r] = L
  /\ \A n \in L :
       /\ \A d \in Dir : ch[n][d] \in L \cup {NULL}
       /\ D[n] = {n} \cup D[ch[n][RB_LEFT]] \cup D[ch[n][RB_RIGHT]]
       /\ \A d \in Dir : \A m \in D[ch[n][d]] : Before(d, m, n)

-----------------------------------------------------------------------------
(* What follows from IsTree.                                               *)

\* A node is not below itself, and below one child only.
LEMMA BelowNode ==
  ASSUME NEW L \in SUBSET Node, NEW ch, NEW r, NEW D, IsTree(ch, r, L, D), NEW n \in L
  PROVE  /\ n \in D[n]
         /\ \A d \in Dir : /\ n \notin D[ch[n][d]]
                           /\ D[ch[n][d]] \subseteq D[n]
                           /\ D[ch[n][d]] # D[n]
                           /\ D[ch[n][d]] \cap D[ch[n][Opp(d)]] = {}
         /\ \A m \in D[n] : m = n \/ \E d \in Dir : m \in D[ch[n][d]]
<1>1. /\ D[n] = {n} \cup D[ch[n][RB_LEFT]] \cup D[ch[n][RB_RIGHT]]
      /\ \A d \in Dir : \A m \in D[ch[n][d]] : Before(d, m, n)
      /\ \A d \in Dir : D[ch[n][d]] \subseteq Node
  BY DEF IsTree, Ptr
<1>2. \A m \in Node : Val[m] \in Int
  BY ValAssumption
<1>3. ASSUME NEW d \in Dir PROVE n \notin D[ch[n][d]]
  BY <1>1, <1>2 DEF Before
<1>4. ASSUME NEW d \in Dir PROVE D[ch[n][d]] \cap D[ch[n][Opp(d)]] = {}
  <2>1. ASSUME NEW m, m \in D[ch[n][RB_LEFT]], m \in D[ch[n][RB_RIGHT]] PROVE FALSE
    <3>1. Before(RB_LEFT, m, n) /\ Before(RB_RIGHT, m, n) /\ m \in Node
      BY <1>1, <2>1 DEF Dir
    <3> QED
      BY <3>1, <1>2 DEF Before, RB_LEFT, RB_RIGHT
  <2>2. \/ d = RB_LEFT /\ Opp(d) = RB_RIGHT
        \/ d = RB_RIGHT /\ Opp(d) = RB_LEFT
    BY DEF Dir, Opp, RB_LEFT, RB_RIGHT
  <2> QED
    BY <2>1, <2>2
<1> QED
  BY <1>1, <1>3, <1>4 DEF Dir

\* A child's subtree is a proper part.
LEMMA ChildBelow ==
  ASSUME NEW L \in SUBSET Node, NEW ch, NEW r, NEW D, IsTree(ch, r, L, D), NEW n \in L,
         NEW d \in Dir
  PROVE  D[ch[n][d]] \subseteq D[n] /\ D[ch[n][d]] # D[n] /\ n \notin D[ch[n][d]]
BY BelowNode, ZenonT(40)

\* What is below a node is below one of its children.
LEMMA BelowChild ==
  ASSUME NEW L \in SUBSET Node, NEW ch, NEW r, NEW D, IsTree(ch, r, L, D), NEW n \in L,
         NEW m \in D[n], m # n
  PROVE  \E d \in Dir : m \in D[ch[n][d]] /\ ch[n][d] \in L
<1>1. PICK d \in Dir : m \in D[ch[n][d]]
  BY DEF IsTree, Dir
<1>2. ch[n][d] \in L
  BY <1>1 DEF IsTree
<1> QED
  BY <1>1, <1>2

\* The subtree of a node in a subtree lies within it.
LEMMA Nested ==
  ASSUME NEW L \in SUBSET Node, NEW ch, NEW r, NEW D, IsTree(ch, r, L, D),
         NEW n \in L, NEW m \in D[n]
  PROVE  D[m] \subseteq D[n]
<1>0. IsFiniteSet(L)
  BY NodeAssumption, FS_Subset
<1>a. ASSUME NEW x \in L, NEW d \in Dir PROVE D[ch[x][d]] \subseteq D[x] /\ D[ch[x][d]] # D[x]
  BY ChildBelow
<1> DEFINE T == {D[x] : x \in {y \in L : \E z \in D[y] : ~(D[z] \subseteq D[y])}}
<1> SUFFICES ASSUME ~(D[m] \subseteq D[n]) PROVE FALSE
  OBVIOUS
<1>1. T # {}
  OBVIOUS
<1>2. T \subseteq SUBSET L
  BY DEF IsTree, Ptr
<1>3. PICK s \in T : \A t \in T : t \subseteq s => t = s
  <2> HIDE DEF T
  <2> QED
    BY <1>0, <1>1, <1>2, MinimalSubset
<1>4. PICK x \in L : s = D[x] /\ \E z \in D[x] : ~(D[z] \subseteq D[x])
  BY <1>3
<1>5. PICK z \in D[x] : ~(D[z] \subseteq D[x])
  BY <1>4
<1>6. PICK d \in Dir : z \in D[ch[x][d]] /\ ch[x][d] \in L
  BY <1>5, BelowChild
<1>7. ch[x][d] \in L
  BY <1>6
<1>8. D[ch[x][d]] \subseteq D[x] /\ D[ch[x][d]] # D[x]
  BY <1>a
<1>9. D[ch[x][d]] \notin T
  BY <1>3, <1>4, <1>8
<1>10. D[z] \subseteq D[ch[x][d]]
  BY <1>6, <1>7, <1>9
<1> QED
  BY <1>5, <1>8, <1>10

\* Two nodes, neither below the other, are on different sides of a third.
LEMMA Fork ==
  ASSUME NEW L \in SUBSET Node, NEW ch, NEW r, NEW D, IsTree(ch, r, L, D),
         NEW x \in L, NEW y \in L, x \notin D[y], y \notin D[x]
  PROVE  \E z \in L, d \in Dir : x \in D[ch[z][d]] /\ y \in D[ch[z][Opp(d)]]
<1>0. IsFiniteSet(L)
  BY NodeAssumption, FS_Subset
<1> DEFINE T == {D[z] : z \in {z \in L : x \in D[z] /\ y \in D[z]}}
<1>1. T # {}
  <2>1. r \in L /\ D[r] = L
    BY DEF IsTree
  <2> QED
    BY <2>1
<1>2. T \subseteq SUBSET L
  BY DEF IsTree, Ptr
<1>3. PICK s \in T : \A t \in T : t \subseteq s => t = s
  <2> HIDE DEF T
  <2> QED
    BY <1>0, <1>1, <1>2, MinimalSubset
<1>4. PICK z \in L : s = D[z] /\ x \in D[z] /\ y \in D[z]
  BY <1>3
<1>5. PICK d \in Dir : x \in D[ch[z][d]]
  BY <1>4, BelowChild
<1>6. PICK e \in Dir : y \in D[ch[z][e]]
  BY <1>4, BelowChild
<1>7. d # e
  <2>1. ASSUME d = e PROVE FALSE
    <3>1. ch[z][d] \in L
      BY <1>5 DEF IsTree
    <3>2. D[ch[z][d]] \in T
      BY <3>1, <2>1, <1>5, <1>6
    <3>3. D[ch[z][d]] \subseteq D[z] /\ D[ch[z][d]] # D[z]
      BY ChildBelow
    <3> QED
      BY <3>2, <3>3, <1>3, <1>4
  <2> QED
    BY <2>1
<1>8. e = Opp(d)
  BY <1>7 DEF Dir, Opp, RB_LEFT, RB_RIGHT
<1> QED
  BY <1>5, <1>6, <1>8

\* Every node but the root hangs below some node.
LEMMA HasParent ==
  ASSUME NEW L \in SUBSET Node, NEW ch, NEW r, NEW D, IsTree(ch, r, L, D),
         NEW n \in L, n # r
  PROVE  \E p \in L, d \in Dir : ch[p][d] = n
<1>0. IsFiniteSet(L)
  BY NodeAssumption, FS_Subset
<1> DEFINE T == {D[z] : z \in {z \in L : n \in D[z] /\ z # n}}
<1>1. T # {}
  <2>1. r \in L /\ D[r] = L
    BY DEF IsTree
  <2> QED
    BY <2>1
<1>2. T \subseteq SUBSET L
  BY DEF IsTree, Ptr
<1>3. PICK s \in T : \A t \in T : t \subseteq s => t = s
  <2> HIDE DEF T
  <2> QED
    BY <1>0, <1>1, <1>2, MinimalSubset
<1>4. PICK z \in L : s = D[z] /\ n \in D[z] /\ z # n
  BY <1>3
<1>5. PICK d \in Dir : n \in D[ch[z][d]]
  BY <1>4, BelowNode, ZenonT(40)
<1>6. ASSUME ch[z][d] # n PROVE FALSE
  <2>1. ch[z][d] \in L
    BY <1>5 DEF IsTree
  <2>2. D[ch[z][d]] \in T
    BY <2>1, <1>5, <1>6
  <2>3. D[ch[z][d]] \subseteq D[z] /\ D[ch[z][d]] # D[z]
    BY BelowNode
  <2> QED
    BY <2>2, <2>3, <1>3, <1>4
<1> QED
  BY <1>6

\* The root hangs below none.
LEMMA RootOnTop ==
  ASSUME NEW L \in SUBSET Node, NEW ch, NEW r, NEW D, IsTree(ch, r, L, D), r # NULL,
         NEW p \in L, NEW d \in Dir
  PROVE  ch[p][d] # r
<1>1. D[r] = L /\ r \in L
  BY DEF IsTree
<1>2. p \notin D[ch[p][d]]
  BY BelowNode
<1> QED
  BY <1>1, <1>2

\* One link leads to a node.
LEMMA OneParent ==
  ASSUME NEW L \in SUBSET Node, NEW ch, NEW r, NEW D, IsTree(ch, r, L, D),
         NEW p \in L, NEW d \in Dir, NEW q \in L, NEW e \in Dir,
         ch[p][d] = ch[q][e], ch[p][d] # NULL
  PROVE  p = q /\ d = e
<1> DEFINE n == ch[p][d]
<1>1. n \in L /\ n \in D[n]
  <2>1. n \in L
    BY DEF IsTree
  <2> QED
    BY <2>1, BelowNode, ZenonT(40)
<1>2. ASSUME NEW a \in L, NEW b \in L, NEW f \in Dir, NEW g \in Dir,
             ch[a][f] = n, ch[b][g] = n, a \in D[b]
      PROVE  a = b
  <2> SUFFICES ASSUME a # b PROVE FALSE
    OBVIOUS
  <2>1. PICK h \in Dir : a \in D[ch[b][h]]
    BY <1>2, BelowNode
  <2>2. ch[b][h] \in L
    BY <2>1 DEF IsTree
  <2>3. n \in D[a]
    <3>1. D[ch[a][f]] \subseteq D[a]
      BY BelowNode
    <3> QED
      BY <3>1, <1>1, <1>2
  <2>4. n \in D[ch[b][h]]
    BY <2>1, <2>2, <2>3, Nested
  <2>5. h = g
    <3>1. D[ch[b][g]] \cap D[ch[b][Opp(g)]] = {}
      BY BelowNode
    <3>2. h = g \/ h = Opp(g)
      BY DEF Dir, Opp, RB_LEFT, RB_RIGHT
    <3> QED
      BY <3>1, <3>2, <2>4, <1>1, <1>2
  <2>6. a \notin D[ch[a][f]]
    BY BelowNode
  <2> QED
    BY <2>1, <2>5, <2>6, <1>2
<1>3. p = q
  <2>1. CASE p \in D[q]
    BY <2>1, <1>2
  <2>2. CASE q \in D[p]
    BY <2>2, <1>2
  <2>3. CASE p \notin D[q] /\ q \notin D[p]
    <3>1. PICK z \in L, h \in Dir : p \in D[ch[z][h]] /\ q \in D[ch[z][Opp(h)]]
      BY <2>3, Fork
    <3>2. Opp(h) \in Dir
      BY DEF Dir, Opp, RB_LEFT, RB_RIGHT
    <3>3. ch[z][h] \in L /\ ch[z][Opp(h)] \in L
      BY <3>1, <3>2 DEF IsTree
    <3>4. n \in D[p] /\ n \in D[q]
      <4>1. D[ch[p][d]] \subseteq D[p] /\ D[ch[q][e]] \subseteq D[q]
        BY BelowNode
      <4> QED
        BY <4>1, <1>1
    <3>5. n \in D[ch[z][h]] /\ n \in D[ch[z][Opp(h)]]
      BY <3>1, <3>3, <3>4, Nested
    <3>6. D[ch[z][h]] \cap D[ch[z][Opp(h)]] = {}
      BY BelowNode
    <3> QED
      BY <3>5, <3>6
  <2> QED
    BY <2>1, <2>2, <2>3
<1>4. d = e
  <2>1. D[ch[p][d]] \cap D[ch[p][Opp(d)]] = {}
    BY BelowNode
  <2>2. e = d \/ e = Opp(d)
    BY DEF Dir, Opp, RB_LEFT, RB_RIGHT
  <2> QED
    BY <2>1, <2>2, <1>1, <1>3
<1> QED
  BY <1>3, <1>4

\* A node outside a subtree has its key before, or after, all of the subtree.
LEMMA Interval ==
  ASSUME NEW L \in SUBSET Node, NEW ch, NEW r, NEW D, IsTree(ch, r, L, D),
         NEW x \in L, NEW y \in L, y \notin D[x]
  PROVE  \E d \in Dir : \A m \in D[x] : Before(d, m, y)
<1>0. \A m \in L : Val[m] \in Int
  BY ValAssumption
<1>1. CASE x \in D[y]
  <2>1. x # y
    BY BelowNode
  <2>2. PICK d \in Dir : x \in D[ch[y][d]]
    BY <1>1, <2>1, BelowNode, ZenonT(40)
  <2>3. ch[y][d] \in L
    BY <2>2 DEF IsTree
  <2>4. D[x] \subseteq D[ch[y][d]]
    BY <2>2, <2>3, Nested
  <2> QED
    BY <2>4 DEF IsTree
<1>2. CASE x \notin D[y]
  <2>1. PICK z \in L, d \in Dir : x \in D[ch[z][d]] /\ y \in D[ch[z][Opp(d)]]
    BY <1>2, Fork
  <2>2. Opp(d) \in Dir /\ (d = RB_LEFT <=> Opp(d) # RB_LEFT)
    BY DEF Dir, Opp, RB_LEFT, RB_RIGHT
  <2>3. ch[z][d] \in L
    BY <2>1 DEF IsTree
  <2>4. D[x] \subseteq D[ch[z][d]]
    BY <2>1, <2>3, Nested
  <2>5. Before(Opp(d), y, z)
    BY <2>1, <2>2 DEF IsTree
  <2>6. ASSUME NEW m \in D[x] PROVE Before(d, m, y)
    <3>1. Before(d, m, z)
      BY <2>4 DEF IsTree
    <3>2. m \in L
      BY DEF IsTree, Ptr
    <3> QED
      BY <3>1, <3>2, <2>2, <2>5, <1>0 DEF Before
  <2> QED
    BY <2>6
<1> QED
  BY <1>1, <1>2

\* No two nodes of a tree have the same key.
LEMMA KeysDiffer ==
  ASSUME NEW L \in SUBSET Node, NEW ch, NEW r, NEW D, IsTree(ch, r, L, D),
         NEW x \in L, NEW y \in L, Val[x] = Val[y]
  PROVE  x = y
<1>0. Val[x] \in Int /\ Val[y] \in Int
  BY ValAssumption
<1>1. ASSUME y \notin D[x] PROVE FALSE
  <2>1. PICK d \in Dir : \A m \in D[x] : Before(d, m, y)
    BY <1>1, Interval
  <2>2. Before(d, x, y)
    BY <2>1, BelowNode
  <2> QED
    BY <2>2, <1>0 DEF Before
<1>2. ASSUME y \in D[x], x # y PROVE FALSE
  <2>1. PICK d \in Dir : y \in D[ch[x][d]]
    BY <1>2, BelowNode
  <2>2. Before(d, y, x)
    BY <2>1 DEF IsTree
  <2> QED
    BY <2>2, <1>0 DEF Before
<1> QED
  BY <1>1, <1>2

\* A subtree that holds a node below its top holds the node's parent.
LEMMA ParentIn ==
  ASSUME NEW L \in SUBSET Node, NEW ch, NEW r, NEW D, IsTree(ch, r, L, D),
         NEW y \in L, NEW c \in L, NEW e \in Dir,
         ch[c][e] \in D[y], ch[c][e] # y
  PROVE  c \in D[y]
<1> DEFINE p == ch[c][e]
<1> SUFFICES ASSUME c \notin D[y] PROVE FALSE
  OBVIOUS
<1>1. p \in L
  BY DEF IsTree, Ptr
<1>2. p \in D[p]
  BY <1>1, BelowNode, ZenonT(40)
<1>3. CASE y \in D[c]
  <2>1. y # c
    BY BelowNode
  <2>2. PICK f \in Dir : y \in D[ch[c][f]] /\ ch[c][f] \in L
    BY <1>3, <2>1, BelowChild
  <2>3. D[y] \subseteq D[ch[c][f]]
    BY <2>2, Nested
  <2>4. f = e
    <3>1. D[ch[c][e]] \cap D[ch[c][Opp(e)]] = {}
      BY BelowNode
    <3>2. f = e \/ f = Opp(e)
      BY DEF Dir, Opp, RB_LEFT, RB_RIGHT
    <3> QED
      BY <3>1, <3>2, <2>3, <1>2
  <2>5. PICK g \in Dir : p \in D[ch[y][g]] /\ ch[y][g] \in L
    BY BelowChild
  <2>6. D[p] \subseteq D[ch[y][g]]
    BY <2>5, Nested
  <2>7. D[ch[y][g]] \subseteq D[y] /\ D[ch[y][g]] # D[y]
    BY ChildBelow
  <2> QED
    BY <2>3, <2>4, <2>6, <2>7
<1>4. CASE y \notin D[c]
  <2>1. PICK z \in L, d \in Dir : y \in D[ch[z][d]] /\ c \in D[ch[z][Opp(d)]]
    BY <1>4, Fork
  <2>2. Opp(d) \in Dir
    BY DEF Dir, Opp, RB_LEFT, RB_RIGHT
  <2>3. ch[z][d] \in L /\ ch[z][Opp(d)] \in L
    BY <2>1, <2>2 DEF IsTree
  <2>4. D[y] \subseteq D[ch[z][d]] /\ D[c] \subseteq D[ch[z][Opp(d)]]
    BY <2>1, <2>3, Nested
  <2>5. D[p] \subseteq D[c]
    BY ChildBelow
  <2>6. D[ch[z][d]] \cap D[ch[z][Opp(d)]] = {}
    BY BelowNode
  <2> QED
    BY <2>4, <2>5, <2>6, <1>2
<1> QED
  BY <1>3, <1>4

\* One link leads to a node, none to the root, and none back up.
LinkFacts(ch, r, L, D) ==
  /\ \A x \in L : x \in D[x]
  /\ \A x \in L, d \in Dir :
       /\ D[ch[x][d]] \subseteq D[x]
       /\ x \notin D[ch[x][d]]
       /\ ch[x][d] # x
       /\ ch[x][d] # NULL => ch[x][d] # r
       /\ \A f \in Dir : ch[x][d] # NULL => ch[ch[x][d]][f] # x
  /\ \A x \in L, y \in L, d \in Dir, f \in Dir :
       ch[x][d] = ch[y][f] /\ ch[x][d] # NULL => x = y /\ d = f

\* Every tree has these links.
LEMMA TreeLinks ==
  ASSUME NEW L \in SUBSET Node, NEW ch, NEW r, NEW D, IsTree(ch, r, L, D)
  PROVE  LinkFacts(ch, r, L, D)
<1>1. \A x \in L : x \in D[x]
  BY BelowNode
<1>2. \A x \in L, d \in Dir : D[ch[x][d]] \subseteq D[x] /\ x \notin D[ch[x][d]]
  BY ChildBelow
<1>3. \A x \in L, y \in L, d \in Dir, f \in Dir :
        ch[x][d] = ch[y][f] /\ ch[x][d] # NULL => x = y /\ d = f
  <2>1. ASSUME NEW x \in L, NEW y \in L, NEW d \in Dir, NEW f \in Dir,
               ch[x][d] = ch[y][f], ch[x][d] # NULL
        PROVE  x = y /\ d = f
    BY <2>1, OneParent
  <2> QED
    BY <2>1
<1>4. ASSUME NEW x \in L, NEW d \in Dir, ch[x][d] # NULL PROVE ch[x][d] # r
  <2>1. ASSUME ch[x][d] = r PROVE FALSE
    <3>1. r # NULL
      BY <2>1, <1>4
    <3> QED
      BY <3>1, <2>1, RootOnTop
  <2> QED
    BY <2>1
<1>5. ASSUME NEW x \in L, NEW d \in Dir, NEW f \in Dir, ch[x][d] # NULL
      PROVE  ch[ch[x][d]][f] # x
  <2>1. ch[x][d] \in L
    BY <1>5 DEF IsTree
  <2> QED
    BY <2>1, <1>1, <1>2
<1>6. ASSUME NEW x \in L, NEW d \in Dir PROVE ch[x][d] # x
  BY <1>1, <1>2
<1> QED
  BY <1>1, <1>2, <1>3, <1>4, <1>5, <1>6 DEF LinkFacts

-----------------------------------------------------------------------------
(* Rotations.                                                              *)

\* ch2 and r2 are ch and r with a rotation at node a, which goes down in dir.
Rotates(ch, r, ch2, r2, L, a, dir) ==
  LET p == ch[a][Opp(dir)]
  IN  /\ r2 = IF r = a THEN p ELSE r
      /\ \A x \in L, d \in Dir :
           ch2[x][d] = IF x = a /\ d = Opp(dir) THEN ch[p][dir]
                       ELSE IF x = p /\ d = dir THEN a
                       ELSE IF ch[x][d] = a THEN p ELSE ch[x][d]

\* What the links around a and its pivot p were, and what they are.
AroundPivot(ch, r, ch2, L, a, p, dir) ==
  /\ Opp(dir) \in Dir /\ Opp(dir) # dir
  /\ \A d \in Dir : d = dir \/ d = Opp(dir)
  /\ p # a /\ r # p /\ r \in L
  /\ ch[a][dir] \notin {a, p} /\ ch[p][dir] \notin {a, p} /\ ch[p][Opp(dir)] \notin {a, p}
  /\ ch2[a][dir] = ch[a][dir] /\ ch2[a][Opp(dir)] = ch[p][dir]
  /\ ch2[p][dir] = a /\ ch2[p][Opp(dir)] = ch[p][Opp(dir)]
  /\ \A x \in L \ {a, p}, d \in Dir :
       ch[x][d] # p /\ ch2[x][d] = IF ch[x][d] = a THEN p ELSE ch[x][d]

\* They are as AroundPivot says.
LEMMA RotateLinks ==
  ASSUME NEW L \in SUBSET Node, NEW ch, NEW r, NEW D, IsTree(ch, r, L, D),
         NEW a \in L, NEW dir \in Dir, NEW p \in L, ch[a][Opp(dir)] = p,
         NEW ch2, NEW r2, Rotates(ch, r, ch2, r2, L, a, dir)
  PROVE  AroundPivot(ch, r, ch2, L, a, p, dir)
<1>1. Opp(dir) \in Dir /\ Opp(dir) # dir /\ \A d \in Dir : d = dir \/ d = Opp(dir)
  BY DEF Dir, Opp, RB_LEFT, RB_RIGHT
<1>2. Opp(Opp(dir)) = dir
  BY DEF Dir, Opp, RB_LEFT, RB_RIGHT
<1>4. a \in D[a] /\ p \in D[p]
  BY BelowNode
<1>5. a \notin D[ch[a][dir]] /\ a \notin D[p] /\ D[p] \cap D[ch[a][dir]] = {}
  <2>1. D[ch[a][dir]] \cap D[ch[a][Opp(dir)]] = {}
    BY BelowNode
  <2>2. a \notin D[ch[a][dir]] /\ a \notin D[ch[a][Opp(dir)]]
    BY <1>1, ChildBelow
  <2> QED
    BY <2>1, <2>2
<1>6. /\ D[ch[p][dir]] \subseteq D[p] /\ p \notin D[ch[p][dir]]
      /\ D[ch[p][Opp(dir)]] \subseteq D[p] /\ p \notin D[ch[p][Opp(dir)]]
  BY <1>1, ChildBelow, ZenonT(40)
<1>7. p # a /\ ch[a][dir] \notin {a, p} /\ ch[p][dir] \notin {a, p} /\ ch[p][Opp(dir)] \notin {a, p}
  BY <1>4, <1>5, <1>6
<1>8. r \in L /\ r # p
  <2>1. r \in L /\ r # NULL
    BY NullAssumption DEF IsTree
  <2>2. ch[a][Opp(dir)] # r
    BY <2>1, <1>1, RootOnTop
  <2> QED
    BY <2>1, <2>2
<1>9. ASSUME NEW x \in L \ {a, p}, NEW d \in Dir
      PROVE  ch[x][d] # p /\ ch2[x][d] = IF ch[x][d] = a THEN p ELSE ch[x][d]
  <2>0. x \in L /\ x # a /\ p # NULL
    BY NullAssumption
  <2>1. ASSUME ch[x][d] = p PROVE FALSE
    <3>1. x = a
      BY <2>0, <2>1, <1>1, OneParent
    <3> QED
      BY <3>1, <2>0
  <2> QED
    BY <2>1, <1>9 DEF Rotates
<1>10. /\ ch2[a][dir] = ch[a][dir] /\ ch2[a][Opp(dir)] = ch[p][dir]
       /\ ch2[p][dir] = a /\ ch2[p][Opp(dir)] = ch[p][Opp(dir)]
  BY <1>1, <1>7 DEF Rotates
<1> QED
  BY <1>1, <1>7, <1>8, <1>9, <1>10 DEF AroundPivot

\* The subtrees after the rotation.
Turned(ch, D, a, dir) ==
  [x \in Ptr |-> IF x = ch[a][Opp(dir)] THEN D[a]
                 ELSE IF x = a THEN {a} \cup D[ch[a][dir]] \cup D[ch[ch[a][Opp(dir)]][dir]]
                 ELSE D[x]]

\* A rotation makes a search tree of a search tree.
LEMMA RotateTree ==
  ASSUME NEW L \in SUBSET Node, NEW ch, NEW r, NEW D, IsTree(ch, r, L, D),
         NEW a \in L, NEW dir \in Dir, NEW p \in L, ch[a][Opp(dir)] = p,
         NEW ch2, NEW r2, Rotates(ch, r, ch2, r2, L, a, dir)
  PROVE  IsTree(ch2, r2, L, Turned(ch, D, a, dir))
<1> DEFINE low == ch[a][dir]
           inner == ch[p][dir]
           far == ch[p][Opp(dir)]
           D2 == Turned(ch, D, a, dir)
<1>0. \A m \in L : Val[m] \in Int
  BY ValAssumption
<1>a. AroundPivot(ch, r, ch2, L, a, p, dir)
  BY RotateLinks
<1>1. /\ Opp(dir) \in Dir /\ Opp(dir) # dir /\ \A d \in Dir : d = dir \/ d = Opp(dir)
      /\ p # a /\ r # p /\ r \in L
      /\ low \notin {a, p} /\ inner \notin {a, p} /\ far \notin {a, p}
      /\ ch2[a][dir] = low /\ ch2[a][Opp(dir)] = inner
      /\ ch2[p][dir] = a /\ ch2[p][Opp(dir)] = far
  BY <1>a DEF AroundPivot
<1>2. \A x \in L \ {a, p}, d \in Dir :
        ch[x][d] # p /\ ch2[x][d] = IF ch[x][d] = a THEN p ELSE ch[x][d]
  BY <1>a DEF AroundPivot
<1>3. low \in L \cup {NULL} /\ inner \in L \cup {NULL} /\ far \in L \cup {NULL} /\ NULL \notin L
  BY <1>1, NullAssumption DEF IsTree
<1>4. /\ D \in [Ptr -> SUBSET L] /\ D[NULL] = {}
      /\ L \cup {NULL} \subseteq Ptr /\ D[r] = L
  BY DEF IsTree, Ptr
<1>5. /\ D2 \in [Ptr -> SUBSET L]
      /\ D2[p] = D[a]
      /\ D2[a] = {a} \cup D[low] \cup D[inner]
      /\ \A x \in Ptr \ {a, p} : D2[x] = D[x]
  <2>1. \A x \in Ptr : D[x] \subseteq L
    BY <1>4
  <2> QED
    BY <2>1, <1>1, <1>3, <1>4 DEF Turned
<1>6. D2[NULL] = {} /\ D2[low] = D[low] /\ D2[inner] = D[inner] /\ D2[far] = D[far]
  BY <1>1, <1>3, <1>4, <1>5
<1> HIDE DEF D2
<1>7. /\ D[a] = {a} \cup D[low] \cup D[p]
      /\ D[p] = {p} \cup D[inner] \cup D[far]
  BY <1>1, <1>3 DEF IsTree, Dir
<1>8. /\ \A m \in D[low] : Before(dir, m, a)
      /\ \A m \in D[p] : Before(Opp(dir), m, a)
      /\ \A m \in D[inner] : Before(dir, m, p)
      /\ \A m \in D[far] : Before(Opp(dir), m, p)
  BY <1>1, <1>3 DEF IsTree
<1>9. /\ ch2[a][dir] \in L \cup {NULL} /\ ch2[a][Opp(dir)] \in L \cup {NULL}
      /\ D2[a] = {a} \cup D2[ch2[a][dir]] \cup D2[ch2[a][Opp(dir)]]
      /\ \A m \in D2[ch2[a][dir]] : Before(dir, m, a)
      /\ \A m \in D2[ch2[a][Opp(dir)]] : Before(Opp(dir), m, a)
  BY <1>1, <1>3, <1>5, <1>6, <1>7, <1>8
<1>10. /\ ch2[p][dir] \in L \cup {NULL} /\ ch2[p][Opp(dir)] \in L \cup {NULL}
       /\ D2[p] = {p} \cup D2[ch2[p][dir]] \cup D2[ch2[p][Opp(dir)]]
       /\ \A m \in D2[ch2[p][dir]] : Before(dir, m, p)
       /\ \A m \in D2[ch2[p][Opp(dir)]] : Before(Opp(dir), m, p)
  <2>1. Before(Opp(dir), p, a)
    BY <1>7, <1>8
  <2>2. Before(dir, a, p)
    BY <2>1, <1>0, <1>1 DEF Before, Opp, Dir, RB_LEFT, RB_RIGHT
  <2>3. ASSUME NEW m \in D[low] PROVE Before(dir, m, p)
    <3>1. m \in L /\ Before(dir, m, a)
      BY <1>3, <1>4, <1>8
    <3> QED
      BY <3>1, <2>2, <1>0, <1>1 DEF Before
  <2>4. \A m \in D2[ch2[p][dir]] : Before(dir, m, p)
    BY <2>2, <2>3, <1>1, <1>5, <1>8
  <2>5. D2[p] = {p} \cup D2[ch2[p][dir]] \cup D2[ch2[p][Opp(dir)]]
    BY <1>1, <1>5, <1>6, <1>7
  <2> QED
    BY <2>4, <2>5, <1>1, <1>3, <1>6, <1>8
<1>11. ASSUME NEW x \in L \ {a, p}, NEW d \in Dir
       PROVE  /\ ch2[x][d] \in L \cup {NULL}
              /\ D2[ch2[x][d]] = D[ch[x][d]]
              /\ D2[x] = D[x]
  <2>1. ch[x][d] \in L \cup {NULL}
    BY DEF IsTree
  <2> QED
    BY <2>1, <1>1, <1>2, <1>4, <1>5
<1>12. r2 \in L \cup {NULL} /\ D2[r2] = L
  <2>1. r2 = IF r = a THEN p ELSE r
    BY DEF Rotates
  <2> QED
    BY <2>1, <1>1, <1>4, <1>5
<1>13. ASSUME NEW n \in L
       PROVE  /\ \A d \in Dir : ch2[n][d] \in L \cup {NULL}
              /\ D2[n] = {n} \cup D2[ch2[n][RB_LEFT]] \cup D2[ch2[n][RB_RIGHT]]
              /\ \A d \in Dir : \A m \in D2[ch2[n][d]] : Before(d, m, n)
  <2>0. \/ dir = RB_LEFT /\ Opp(dir) = RB_RIGHT
        \/ dir = RB_RIGHT /\ Opp(dir) = RB_LEFT
    BY DEF Dir, Opp, RB_LEFT, RB_RIGHT
  <2>1. CASE n = a
    BY <2>0, <2>1, <1>1, <1>9
  <2>2. CASE n = p
    BY <2>0, <2>2, <1>1, <1>10
  <2>3. CASE n \notin {a, p}
    <3>1. /\ D[n] = {n} \cup D[ch[n][RB_LEFT]] \cup D[ch[n][RB_RIGHT]]
          /\ \A d \in Dir : \A m \in D[ch[n][d]] : Before(d, m, n)
      BY DEF IsTree
    <3> QED
      BY <3>1, <2>3, <1>11 DEF Dir
  <2> QED
    BY <2>1, <2>2, <2>3
<1>14. IsTree(ch2, r2, L, D2)
  BY <1>5, <1>6, <1>12, <1>13 DEF IsTree
<1> QED
  BY <1>14 DEF D2

-----------------------------------------------------------------------------
(* Colours.                                                                *)

\* One black is owed below the link d of n when that is the link e of q.
Owes(n, d, q, e) == IF n = q /\ d = e THEN 1 ELSE 0

\* B[n] is the number of black nodes on every path down from n, counting the
\* one owed at the link e of q (of no node, when q is NULL).
Balanced(ch, col, L, B, q, e) ==
  /\ B \in [Ptr -> Nat]
  /\ B[NULL] = 0
  /\ \A n \in L, d \in Dir : B[n] = col[n] + B[ch[n][d]] + Owes(n, d, q, e)

\* Outside the set X, a red node is not the root and has no red parent.
RedsApart(ch, r, col, L, X) ==
  /\ r \in L \ X => col[r] = RB_BLACK
  /\ \A n \in L, d \in Dir :
       ch[n][d] \in L \ X /\ col[n] = RB_RED => col[ch[n][d]] = RB_BLACK

\* A red-black tree, but for the black owed at the link e of q and for the
\* reds in X; its subtrees are D, their black heights B.
IsRb(ch, r, col, L, D, B, q, e, X) ==
  /\ IsTree(ch, r, L, D)
  /\ \A n \in L : col[n] \in {RB_RED, RB_BLACK}
  /\ Balanced(ch, col, L, B, q, e)
  /\ RedsApart(ch, r, col, L, X)

SomeRb(ch, r, col, L, q, e, X) == \E D, B : IsRb(ch, r, col, L, D, B, q, e, X)

\* The colours col2 are col but for node n, which has colour c.
Paints(col, col2, L, n, c) == \A x \in L : col2[x] = IF x = n THEN c ELSE col[x]

\* The black a turns red and the red p black.
SwapsColors(col, col2, L, a, p) ==
  \A x \in L : col2[x] = IF x = a THEN RB_RED ELSE IF x = p THEN RB_BLACK ELSE col[x]

\* p takes the colour of a; a and `far` turn black.
PaintsLast(col, col2, L, a, p, far) ==
  \A x \in L : col2[x] = IF x = p THEN col[a]
                         ELSE IF x = a \/ x = far THEN RB_BLACK ELSE col[x]

\* g turns red, its children p and u black.
PaintsFamily(col, col2, L, g, p, u) ==
  \A x \in L : col2[x] = IF x = g THEN RB_RED ELSE IF x \in {p, u} THEN RB_BLACK ELSE col[x]

\* A rotation at the black node a with the red pivot p, which exchanges their
\* colours: case 3 of rb_insert_color, cases 1 and 3 of rb_remove_color.
LEMMA RotateSwap ==
  ASSUME NEW L \in SUBSET Node, NEW ch, NEW r, NEW col, NEW D, NEW B, NEW q, NEW e, NEW X,
         IsRb(ch, r, col, L, D, B, q, e, X),
         NEW a \in L, NEW dir \in Dir, NEW p \in L, ch[a][Opp(dir)] = p,
         col[a] = RB_BLACK, col[p] = RB_RED,
         ch[a][dir] \in L => col[ch[a][dir]] = RB_BLACK,
         ch[p][dir] \in L => col[ch[p][dir]] = RB_BLACK,
         X \subseteq {ch[p][Opp(dir)]},
         q # p, ~(q = a /\ e = Opp(dir)),
         NEW ch2, NEW r2, Rotates(ch, r, ch2, r2, L, a, dir),
         NEW col2, SwapsColors(col, col2, L, a, p)
  PROVE  SomeRb(ch2, r2, col2, L, q, e, {})
<1> DEFINE low == ch[a][dir]
           inner == ch[p][dir]
           far == ch[p][Opp(dir)]
           B2 == [x \in Ptr |-> IF x = a THEN B[p] ELSE IF x = p THEN B[a] ELSE B[x]]
<1>c. \A x \in L : col2[x] = IF x = a THEN RB_RED ELSE IF x = p THEN RB_BLACK ELSE col[x]
  BY DEF SwapsColors
<1>0. IsTree(ch, r, L, D)
  BY DEF IsRb
<1>t. LinkFacts(ch, r, L, D)
  BY <1>0, TreeLinks
<1>1. AroundPivot(ch, r, ch2, L, a, p, dir)
  BY <1>0, RotateLinks
<1>2. /\ Opp(dir) \in Dir /\ Opp(dir) # dir /\ \A d \in Dir : d = dir \/ d = Opp(dir)
      /\ p # a /\ r # p /\ r \in L
      /\ low \notin {a, p} /\ inner \notin {a, p} /\ far \notin {a, p}
      /\ ch2[a][dir] = low /\ ch2[a][Opp(dir)] = inner
      /\ ch2[p][dir] = a /\ ch2[p][Opp(dir)] = far
  BY <1>1 DEF AroundPivot
<1>3. \A x \in L \ {a, p}, d \in Dir :
        ch[x][d] # p /\ ch2[x][d] = IF ch[x][d] = a THEN p ELSE ch[x][d]
  BY <1>1 DEF AroundPivot
<1>4. /\ \A n \in L, d \in Dir : ch[n][d] \in L \cup {NULL}
      /\ L \cup {NULL} \subseteq Ptr /\ NULL \notin L
  BY <1>0, NullAssumption DEF IsTree, Ptr
<1>5. /\ B \in [Ptr -> Nat] /\ B[NULL] = 0
      /\ \A n \in L, d \in Dir : B[n] = col[n] + B[ch[n][d]] + Owes(n, d, q, e)
  BY DEF IsRb, Balanced
<1>6. /\ B2 \in [Ptr -> Nat] /\ B2[NULL] = 0
      /\ B2[a] = B[p] /\ B2[p] = B[a] /\ \A x \in Ptr \ {a, p} : B2[x] = B[x]
  BY <1>2, <1>4, <1>5
<1> HIDE DEF B2
<1>7. /\ B[a] = 1 + B[low] + Owes(a, dir, q, e)
      /\ B[a] = 1 + B[p]
      /\ B[p] = B[inner] /\ B[p] = B[far]
  <2>1. /\ B[a] = col[a] + B[low] + Owes(a, dir, q, e)
        /\ B[a] = col[a] + B[p] + Owes(a, Opp(dir), q, e)
        /\ B[p] = col[p] + B[inner] + Owes(p, dir, q, e)
        /\ B[p] = col[p] + B[far] + Owes(p, Opp(dir), q, e)
    BY <1>2, <1>5
  <2>2. /\ Owes(a, Opp(dir), q, e) = 0 /\ Owes(p, dir, q, e) = 0
        /\ Owes(p, Opp(dir), q, e) = 0 /\ Owes(a, dir, q, e) \in Nat
    BY DEF Owes
  <2>3. B[low] \in Nat /\ B[inner] \in Nat /\ B[far] \in Nat /\ B[p] \in Nat
    BY <1>2, <1>4, <1>5
  <2> QED
    BY <2>1, <2>2, <2>3 DEF RB_RED, RB_BLACK
<1>8. ASSUME NEW n \in L, NEW d \in Dir
      PROVE  B2[n] = col2[n] + B2[ch2[n][d]] + Owes(n, d, q, e)
  <2>0. B[low] \in Nat /\ B[inner] \in Nat /\ B[far] \in Nat /\ B[p] \in Nat
    BY <1>2, <1>4, <1>5
  <2>1. CASE n = a
    <3>1. col2[n] = 0
      BY <1>c, <2>1 DEF RB_RED
    <3>2. B2[low] = B[low] /\ B2[inner] = B[inner]
      BY <1>2, <1>4, <1>6
    <3>3. Owes(a, Opp(dir), q, e) = 0 /\ Owes(a, dir, q, e) \in Nat
      BY DEF Owes
    <3> QED
      BY <3>1, <3>2, <3>3, <2>0, <2>1, <1>2, <1>6, <1>7
  <2>2. CASE n = p
    <3>1. col2[n] = 1
      BY <1>c, <2>2, <1>2 DEF RB_BLACK
    <3>2. B2[far] = B[far]
      BY <1>2, <1>4, <1>6
    <3>3. Owes(p, Opp(dir), q, e) = 0 /\ Owes(p, dir, q, e) = 0
      BY DEF Owes
    <3> QED
      BY <3>1, <3>2, <3>3, <2>0, <2>2, <1>2, <1>6, <1>7
  <2>3. CASE n \notin {a, p}
    <3>1. B2[ch2[n][d]] = B[ch[n][d]]
      BY <2>3, <1>3, <1>4, <1>6
    <3>2. B2[n] = B[n] /\ col2[n] = col[n]
      BY <1>c, <2>3, <1>4, <1>6
    <3> QED
      BY <3>1, <3>2, <1>5
  <2> QED
    BY <2>1, <2>2, <2>3
<1>9. RedsApart(ch2, r2, col2, L, {})
  <2>0. /\ r \in L \ X => col[r] = RB_BLACK
        /\ \A n \in L, d \in Dir :
             ch[n][d] \in L \ X /\ col[n] = RB_RED => col[ch[n][d]] = RB_BLACK
    BY DEF IsRb, RedsApart
  <2>1. r2 \in L => col2[r2] = RB_BLACK
    <3>1. r2 = IF r = a THEN p ELSE r
      BY DEF Rotates
    <3>2. r \notin X
      <4>1. r # NULL /\ ch[p][Opp(dir)] # r
        BY <1>0, <1>2, <1>4, RootOnTop
      <4> QED
        BY <4>1
    <3> QED
      BY <1>c, <3>1, <3>2, <2>0, <1>2
  <2>2. ASSUME NEW n \in L, NEW d \in Dir, ch2[n][d] \in L, col2[n] = RB_RED
        PROVE  col2[ch2[n][d]] = RB_BLACK
    <3>1. CASE n = a
      BY <1>c, <3>1, <2>2, <1>2
    <3>2. CASE n = p
      BY <1>c, <3>2, <2>2, <1>2 DEF RB_RED, RB_BLACK
    <3>3. CASE n \notin {a, p}
      <4>1. CASE ch[n][d] = a
        BY <1>c, <4>1, <3>3, <1>2, <1>3
      <4>2. CASE ch[n][d] # a
        <5>1. ch2[n][d] = ch[n][d] /\ ch[n][d] \notin {a, p} /\ ch[n][d] \in L
          BY <4>2, <3>3, <2>2, <1>3
        <5>2. ch[n][d] \notin X
          <6>1. ASSUME ch[n][d] = far PROVE FALSE
            <7>1. n = p
              BY <6>1, <5>1, <1>t, <1>2, <1>4 DEF LinkFacts
            <7> QED
              BY <7>1, <3>3
          <6> QED
            BY <6>1
        <5>3. col[n] = RB_RED
          BY <1>c, <3>3, <2>2
        <5> QED
          BY <1>c, <5>1, <5>2, <5>3, <2>0
      <4> QED
        BY <4>1, <4>2
    <3> QED
      BY <3>1, <3>2, <3>3
  <2> QED
    BY <2>1, <2>2 DEF RedsApart
<1>10. Balanced(ch2, col2, L, B2, q, e)
  BY <1>6, <1>8 DEF Balanced
<1>11. IsTree(ch2, r2, L, Turned(ch, D, a, dir))
  BY <1>0, RotateTree
<1>12. \A n \in L : col2[n] \in {RB_RED, RB_BLACK}
  BY <1>c DEF IsRb
<1>13. IsRb(ch2, r2, col2, L, Turned(ch, D, a, dir), B2, q, e, {})
  BY <1>9, <1>10, <1>11, <1>12 DEF IsRb
<1> QED
  BY <1>13 DEF SomeRb

\* A rotation at the red node a with the red pivot p, below a black node: the
\* red out of place was p and is now a.  Case 2 of rb_insert_color.
LEMMA RotateBent ==
  ASSUME NEW L \in SUBSET Node, NEW ch, NEW r, NEW col, NEW D, NEW B, NEW q, NEW e,
         NEW a \in L, NEW dir \in Dir, NEW p \in L, ch[a][Opp(dir)] = p,
         IsRb(ch, r, col, L, D, B, q, e, {p}),
         col[a] = RB_RED, col[p] = RB_RED, q # a, q # p,
         NEW ch2, NEW r2, Rotates(ch, r, ch2, r2, L, a, dir)
  PROVE  SomeRb(ch2, r2, col, L, q, e, {a})
<1> DEFINE low == ch[a][dir]
           inner == ch[p][dir]
           far == ch[p][Opp(dir)]
<1>0. IsTree(ch, r, L, D)
  BY DEF IsRb
<1>1. AroundPivot(ch, r, ch2, L, a, p, dir)
  BY <1>0, RotateLinks
<1>2. /\ Opp(dir) \in Dir /\ Opp(dir) # dir /\ \A d \in Dir : d = dir \/ d = Opp(dir)
      /\ p # a /\ r # p /\ r \in L
      /\ low \notin {a, p} /\ inner \notin {a, p} /\ far \notin {a, p}
      /\ ch2[a][dir] = low /\ ch2[a][Opp(dir)] = inner
      /\ ch2[p][dir] = a /\ ch2[p][Opp(dir)] = far
  BY <1>1 DEF AroundPivot
<1>3. \A x \in L \ {a, p}, d \in Dir :
        ch[x][d] # p /\ ch2[x][d] = IF ch[x][d] = a THEN p ELSE ch[x][d]
  BY <1>1 DEF AroundPivot
<1>4. /\ \A n \in L, d \in Dir : ch[n][d] \in L \cup {NULL}
      /\ L \cup {NULL} \subseteq Ptr /\ NULL \notin L
  BY <1>0, NullAssumption DEF IsTree, Ptr
<1>5. /\ B \in [Ptr -> Nat] /\ B[NULL] = 0
      /\ \A n \in L, d \in Dir : B[n] = col[n] + B[ch[n][d]] + Owes(n, d, q, e)
  BY DEF IsRb, Balanced
<1>6. B[a] = B[low] /\ B[a] = B[p] /\ B[p] = B[inner] /\ B[p] = B[far]
  <2>1. /\ B[a] = col[a] + B[low] + Owes(a, dir, q, e)
        /\ B[a] = col[a] + B[p] + Owes(a, Opp(dir), q, e)
        /\ B[p] = col[p] + B[inner] + Owes(p, dir, q, e)
        /\ B[p] = col[p] + B[far] + Owes(p, Opp(dir), q, e)
    BY <1>2, <1>5
  <2>2. /\ Owes(a, Opp(dir), q, e) = 0 /\ Owes(p, dir, q, e) = 0
        /\ Owes(p, Opp(dir), q, e) = 0 /\ Owes(a, dir, q, e) = 0
    BY DEF Owes
  <2>3. B[low] \in Nat /\ B[inner] \in Nat /\ B[far] \in Nat /\ B[p] \in Nat
    BY <1>2, <1>4, <1>5
  <2> QED
    BY <2>1, <2>2, <2>3 DEF RB_RED
<1>7. ASSUME NEW n \in L, NEW d \in Dir
      PROVE  B[n] = col[n] + B[ch2[n][d]] + Owes(n, d, q, e)
  <2>1. CASE n \in {a, p}
    <3>1. col[n] = 0 /\ Owes(n, d, q, e) = 0
      BY <2>1 DEF RB_RED, Owes
    <3>2. B[ch2[n][d]] = B[n] /\ B[n] \in Nat
      BY <2>1, <1>2, <1>4, <1>5, <1>6, ZenonT(40)
    <3> QED
      BY <3>1, <3>2
  <2>2. CASE n \notin {a, p}
    BY <2>2, <1>3, <1>5, <1>6
  <2> QED
    BY <2>1, <2>2
<1>8. RedsApart(ch2, r2, col, L, {a})
  <2>0. /\ r \in L \ {p} => col[r] = RB_BLACK
        /\ \A n \in L, d \in Dir :
             ch[n][d] \in L \ {p} /\ col[n] = RB_RED => col[ch[n][d]] = RB_BLACK
    BY DEF IsRb, RedsApart
  <2>1. r2 \in L \ {a} => col[r2] = RB_BLACK
    BY <2>0, <1>2 DEF Rotates, RB_RED, RB_BLACK
  <2>2. ASSUME NEW n \in L, NEW d \in Dir, ch2[n][d] \in L \ {a}, col[n] = RB_RED
        PROVE  col[ch2[n][d]] = RB_BLACK
    <3>1. CASE n \in {a, p}
      BY <3>1, <2>0, <2>2, <1>2
    <3>2. CASE n \notin {a, p}
      <4>1. ch[n][d] # a
        BY <3>2, <2>0, <2>2, <1>2 DEF RB_RED, RB_BLACK
      <4> QED
        BY <4>1, <3>2, <2>0, <2>2, <1>3
    <3> QED
      BY <3>1, <3>2
  <2> QED
    BY <2>1, <2>2 DEF RedsApart
<1>9. Balanced(ch2, col, L, B, q, e)
  BY <1>5, <1>7 DEF Balanced
<1>10. IsTree(ch2, r2, L, Turned(ch, D, a, dir))
  BY <1>0, RotateTree
<1>11. IsRb(ch2, r2, col, L, Turned(ch, D, a, dir), B, q, e, {a})
  BY <1>8, <1>9, <1>10 DEF IsRb
<1> QED
  BY <1>11 DEF SomeRb

\* A rotation at a, which owes the black, with a black pivot and a red node on
\* the far side: the black is repaid.  Case 4 of rb_remove_color.
LEMMA RotateLast ==
  ASSUME NEW L \in SUBSET Node, NEW ch, NEW r, NEW col, NEW D, NEW B,
         NEW a \in L, NEW dir \in Dir, NEW p \in L, ch[a][Opp(dir)] = p,
         NEW far \in L, ch[p][Opp(dir)] = far,
         IsRb(ch, r, col, L, D, B, a, dir, {}),
         col[p] = RB_BLACK, col[far] = RB_RED,
         NEW ch2, NEW r2, Rotates(ch, r, ch2, r2, L, a, dir),
         NEW col2, PaintsLast(col, col2, L, a, p, far),
         NEW f
  PROVE  SomeRb(ch2, r2, col2, L, NULL, f, {})
<1> DEFINE low == ch[a][dir]
           inner == ch[p][dir]
           B2 == [x \in Ptr |-> IF x = a THEN B[p] ELSE IF x = p THEN B[a]
                                ELSE IF x = far THEN B[x] + 1 ELSE B[x]]
<1>c. \A x \in L : col2[x] = IF x = p THEN col[a]
                              ELSE IF x = a \/ x = far THEN RB_BLACK ELSE col[x]
  BY DEF PaintsLast
<1>0. IsTree(ch, r, L, D)
  BY DEF IsRb
<1>a. \A x \in L : x \in D[x]
  BY <1>0, BelowNode
<1>b. \A x \in L, d \in Dir : D[ch[x][d]] \subseteq D[x] /\ x \notin D[ch[x][d]]
  BY <1>0, ChildBelow
<1>t. LinkFacts(ch, r, L, D)
  BY <1>0, TreeLinks
<1>1. AroundPivot(ch, r, ch2, L, a, p, dir)
  BY <1>0, RotateLinks
<1>2. /\ Opp(dir) \in Dir /\ Opp(dir) # dir /\ \A d \in Dir : d = dir \/ d = Opp(dir)
      /\ p # a /\ r # p /\ r \in L
      /\ low \notin {a, p} /\ inner \notin {a, p} /\ far \notin {a, p}
      /\ ch2[a][dir] = low /\ ch2[a][Opp(dir)] = inner
      /\ ch2[p][dir] = a /\ ch2[p][Opp(dir)] = far
  BY <1>1 DEF AroundPivot
<1>3. \A x \in L \ {a, p}, d \in Dir :
        ch[x][d] # p /\ ch2[x][d] = IF ch[x][d] = a THEN p ELSE ch[x][d]
  BY <1>1 DEF AroundPivot
<1>4. /\ \A n \in L, d \in Dir : ch[n][d] \in L \cup {NULL}
      /\ L \cup {NULL} \subseteq Ptr /\ NULL \notin L
  BY <1>0, NullAssumption DEF IsTree, Ptr
<1>5. /\ B \in [Ptr -> Nat] /\ B[NULL] = 0
      /\ \A n \in L, d \in Dir : B[n] = col[n] + B[ch[n][d]] + Owes(n, d, a, dir)
  BY DEF IsRb, Balanced
<1>6. ASSUME NEW n \in L, NEW d \in Dir, ch[n][d] = far
      PROVE  n = p /\ d = Opp(dir)
  <2>1. far # NULL /\ ch[n][d] = ch[p][Opp(dir)]
    BY <1>4, <1>6
  <2> QED
    BY <2>1, <1>t, <1>2 DEF LinkFacts
<1>7. low # far /\ inner # far
  BY <1>2, <1>6
<1>8. /\ B2 \in [Ptr -> Nat] /\ B2[NULL] = 0
      /\ B2[a] = B[p] /\ B2[p] = B[a] /\ B2[far] = B[far] + 1
      /\ \A x \in Ptr \ {a, p, far} : B2[x] = B[x]
  BY <1>2, <1>4, <1>5
<1> HIDE DEF B2
<1>9. /\ B[a] = col[a] + B[low] + 1
      /\ B[a] = col[a] + B[p]
      /\ B[p] = 1 + B[inner] /\ B[p] = 1 + B[far]
      /\ \A d \in Dir : B[far] = B[ch[far][d]]
      /\ B[low] \in Nat /\ B[inner] \in Nat /\ B[far] \in Nat /\ B[p] \in Nat /\ col[a] \in Nat
  <2>1. /\ B[a] = col[a] + B[low] + Owes(a, dir, a, dir)
        /\ B[a] = col[a] + B[p] + Owes(a, Opp(dir), a, dir)
        /\ B[p] = col[p] + B[inner] + Owes(p, dir, a, dir)
        /\ B[p] = col[p] + B[far] + Owes(p, Opp(dir), a, dir)
        /\ \A d \in Dir : B[far] = col[far] + B[ch[far][d]] + Owes(far, d, a, dir)
    BY <1>2, <1>5
  <2>2. /\ Owes(a, Opp(dir), a, dir) = 0 /\ Owes(p, dir, a, dir) = 0
        /\ Owes(p, Opp(dir), a, dir) = 0 /\ Owes(a, dir, a, dir) = 1
        /\ \A d \in Dir : Owes(far, d, a, dir) = 0
    BY <1>2 DEF Owes
  <2>3. /\ B[low] \in Nat /\ B[inner] \in Nat /\ B[far] \in Nat /\ B[p] \in Nat
        /\ \A d \in Dir : B[ch[far][d]] \in Nat
    BY <1>2, <1>4, <1>5
  <2>4. col[a] \in Nat
    BY DEF IsRb, RB_RED, RB_BLACK
  <2>5. col[p] = 1 /\ col[far] = 0
    BY DEF RB_RED, RB_BLACK
  <2>6. \A d \in Dir : B[far] = B[ch[far][d]]
    BY <2>1, <2>2, <2>3, <2>5
  <2> QED
    BY <2>1, <2>2, <2>3, <2>4, <2>5, <2>6
<1>10. ASSUME NEW n \in L, NEW d \in Dir
       PROVE  B2[n] = col2[n] + B2[ch2[n][d]]
  <2>1. CASE n = a
    <3>1. col2[n] = 1
      BY <1>c, <2>1, <1>2 DEF RB_BLACK
    <3>2. B2[low] = B[low] /\ B2[inner] = B[inner]
      BY <1>2, <1>4, <1>7, <1>8
    <3> QED
      BY <3>1, <3>2, <2>1, <1>2, <1>8, <1>9
  <2>2. CASE n = p
    <3>1. col2[n] = col[a]
      BY <1>c, <2>2, <1>2
    <3> QED
      BY <3>1, <2>2, <1>2, <1>8, <1>9
  <2>3. CASE n = far
    <3>1. col2[n] = 1
      BY <1>c, <2>3, <1>2 DEF RB_BLACK
    <3>2. ch2[n][d] = ch[n][d] /\ ch[n][d] \notin {a, p, far}
      <4>1. ch[far][d] # a
        <5>1. D[ch[far][d]] \subseteq D[far] /\ D[far] \subseteq D[p] /\ a \notin D[p]
          BY <1>b, <1>2
        <5> QED
          BY <5>1, <1>a
      <4> QED
        BY <4>1, <2>3, <1>2, <1>3, <1>6
    <3>3. B2[ch2[n][d]] = B[ch[n][d]]
      BY <3>2, <1>4, <1>8
    <3> QED
      BY <3>1, <3>3, <2>3, <1>8, <1>9
  <2>4. CASE n \notin {a, p, far}
    <3>1. ch[n][d] # far
      BY <2>4, <1>6
    <3>2. B2[ch2[n][d]] = B[ch[n][d]]
      BY <3>1, <2>4, <1>2, <1>3, <1>4, <1>8
    <3>3. B2[n] = B[n] /\ col2[n] = col[n]
      BY <1>c, <2>4, <1>4, <1>8
    <3>4. Owes(n, d, a, dir) = 0
      BY <2>4 DEF Owes
    <3>5. B[ch[n][d]] \in Nat /\ col[n] \in Int
      BY <1>4, <1>5 DEF IsRb, RB_RED, RB_BLACK
    <3> QED
      BY <3>2, <3>3, <3>4, <3>5, <1>5
  <2> QED
    BY <2>1, <2>2, <2>3, <2>4
<1>11. RedsApart(ch2, r2, col2, L, {})
  <2>0. /\ r \in L => col[r] = RB_BLACK
        /\ \A n \in L, d \in Dir :
             ch[n][d] \in L /\ col[n] = RB_RED => col[ch[n][d]] = RB_BLACK
    BY DEF IsRb, RedsApart
  <2>1. r2 \in L => col2[r2] = RB_BLACK
    BY <1>c, <2>0, <1>2 DEF Rotates
  <2>2. ASSUME NEW n \in L, NEW d \in Dir, ch2[n][d] \in L, col2[n] = RB_RED
        PROVE  col2[ch2[n][d]] = RB_BLACK
    <3>1. CASE n = p
      BY <1>c, <3>1, <1>2
    <3>2. CASE n # p
      <4>1. n \notin {a, p, far} /\ col[n] = RB_RED
        BY <1>c, <3>2, <2>2 DEF RB_RED, RB_BLACK
      <4>2. CASE ch[n][d] = a
        BY <1>c, <4>1, <4>2, <2>0, <1>3
      <4>3. CASE ch[n][d] # a
        BY <1>c, <4>1, <4>3, <2>0, <2>2, <1>3
      <4> QED
        BY <4>2, <4>3
    <3> QED
      BY <3>1, <3>2
  <2> QED
    BY <2>1, <2>2 DEF RedsApart
<1>12. Balanced(ch2, col2, L, B2, NULL, f)
  <2>1. ASSUME NEW n \in L, NEW d \in Dir
        PROVE  B2[n] = col2[n] + B2[ch2[n][d]] + Owes(n, d, NULL, f)
    <3>1. Owes(n, d, NULL, f) = 0
      BY <1>4 DEF Owes
    <3>2. B2[n] = col2[n] + B2[ch2[n][d]] /\ B2[n] \in Nat
      BY <1>4, <1>8, <1>10
    <3> QED
      BY <3>1, <3>2
  <2> QED
    BY <2>1, <1>8 DEF Balanced
<1>13. IsTree(ch2, r2, L, Turned(ch, D, a, dir))
  BY <1>0, RotateTree
<1>14. \A n \in L : col2[n] \in {RB_RED, RB_BLACK}
  BY <1>c DEF IsRb
<1>15. IsRb(ch2, r2, col2, L, Turned(ch, D, a, dir), B2, NULL, f, {})
  BY <1>11, <1>12, <1>13, <1>14 DEF IsRb
<1> QED
  BY <1>15 DEF SomeRb

\* A black node with two red children and a red grandchild out of place: the
\* children turn black and the node red.  Case 1 of rb_insert_color.
LEMMA PushRed ==
  ASSUME NEW L \in SUBSET Node, NEW ch, NEW r, NEW col, NEW D, NEW B, NEW q, NEW e,
         NEW g \in L, NEW dir \in Dir, NEW p \in L, ch[g][dir] = p,
         NEW u \in L, ch[g][Opp(dir)] = u, NEW f \in Dir, NEW n \in L, ch[p][f] = n,
         IsRb(ch, r, col, L, D, B, q, e, {n}),
         col[g] = RB_BLACK, col[p] = RB_RED, col[u] = RB_RED, q \notin {g, p, u},
         NEW col2, PaintsFamily(col, col2, L, g, p, u)
  PROVE  SomeRb(ch, r, col2, L, q, e, {g})
<1> DEFINE B2 == [x \in Ptr |-> IF x \in {p, u} THEN B[x] + 1 ELSE B[x]]
<1>c. \A x \in L : col2[x] = IF x = g THEN RB_RED
                              ELSE IF x \in {p, u} THEN RB_BLACK ELSE col[x]
  BY DEF PaintsFamily
<1>0. IsTree(ch, r, L, D)
  BY DEF IsRb
<1>t. LinkFacts(ch, r, L, D)
  BY <1>0, TreeLinks
<1>1. /\ \A x \in L, d \in Dir : ch[x][d] \in L \cup {NULL}
      /\ L \cup {NULL} \subseteq Ptr /\ NULL \notin L
  BY <1>0, NullAssumption DEF IsTree, Ptr
<1>2. /\ B \in [Ptr -> Nat] /\ B[NULL] = 0
      /\ \A x \in L, d \in Dir : B[x] = col[x] + B[ch[x][d]] + Owes(x, d, q, e)
  BY DEF IsRb, Balanced
<1>3. \A x \in L : col[x] \in {0, 1}
  BY DEF IsRb, RB_RED, RB_BLACK
<1>4. Opp(dir) \in Dir /\ \A d \in Dir : d = dir \/ d = Opp(dir)
  BY DEF Dir, Opp, RB_LEFT, RB_RIGHT
<1>5. ASSUME NEW x \in L, NEW d \in Dir, ch[x][d] \in {p, u} PROVE x = g
  <2>1. ch[x][d] # NULL /\ (ch[x][d] = ch[g][dir] \/ ch[x][d] = ch[g][Opp(dir)])
    BY <1>1, <1>5
  <2> QED
    BY <2>1, <1>t, <1>4 DEF LinkFacts
<1>6. ASSUME NEW x \in L, NEW d \in Dir, ch[x][d] = n PROVE x = p
  <2>1. ch[x][d] # NULL /\ ch[x][d] = ch[p][f]
    BY <1>1, <1>6
  <2> QED
    BY <2>1, <1>t DEF LinkFacts
<1>7. g \notin {p, u} /\ r # n
  BY <1>1, <1>4, <1>t DEF LinkFacts
<1>8. /\ B2 \in [Ptr -> Nat] /\ B2[NULL] = 0 /\ B2[p] = B[p] + 1 /\ B2[u] = B[u] + 1
      /\ \A x \in Ptr \ {p, u} : B2[x] = B[x]
  BY <1>1, <1>2
<1> HIDE DEF B2
<1>9. ASSUME NEW x \in L, NEW d \in Dir
      PROVE  B2[x] = col2[x] + B2[ch[x][d]] + Owes(x, d, q, e)
  <2>0. /\ B[x] = col[x] + B[ch[x][d]] + Owes(x, d, q, e)
        /\ B[x] \in Nat /\ B[ch[x][d]] \in Nat
    BY <1>1, <1>2
  <2>1. CASE x = g
    <3>1. ch[x][d] \in {p, u} /\ Owes(x, d, q, e) = 0 /\ col2[x] = 0 /\ col[x] = 1
      BY <1>c, <2>1, <1>4 DEF Owes, RB_RED, RB_BLACK
    <3>2. B2[ch[x][d]] = B[ch[x][d]] + 1 /\ B2[x] = B[x]
      BY <3>1, <2>1, <1>1, <1>7, <1>8
    <3> QED
      BY <3>1, <3>2, <2>0
  <2>2. CASE x \in {p, u}
    <3>1. ch[x][d] \notin {p, u}
      BY <2>2, <1>5, <1>7
    <3>2. B2[ch[x][d]] = B[ch[x][d]] /\ B2[x] = B[x] + 1
      BY <3>1, <2>2, <1>1, <1>8
    <3>3. Owes(x, d, q, e) = 0 /\ col2[x] = 1 /\ col[x] = 0
      BY <1>c, <2>2, <1>7 DEF Owes, RB_RED, RB_BLACK
    <3> QED
      BY <3>2, <3>3, <2>0
  <2>3. CASE x \notin {g, p, u}
    <3>1. ch[x][d] \notin {p, u}
      BY <2>3, <1>5
    <3>2. B2[ch[x][d]] = B[ch[x][d]] /\ B2[x] = B[x] /\ col2[x] = col[x]
      BY <1>c, <3>1, <2>3, <1>1, <1>8
    <3> QED
      BY <3>2, <2>0
  <2> QED
    BY <2>1, <2>2, <2>3
<1>10. RedsApart(ch, r, col2, L, {g})
  <2>0. /\ r \in L \ {n} => col[r] = RB_BLACK
        /\ \A x \in L, d \in Dir :
             ch[x][d] \in L \ {n} /\ col[x] = RB_RED => col[ch[x][d]] = RB_BLACK
    BY DEF IsRb, RedsApart
  <2>1. r \in L \ {g} => col2[r] = RB_BLACK
    BY <1>c, <2>0, <1>7
  <2>2. ASSUME NEW x \in L, NEW d \in Dir, ch[x][d] \in L \ {g}, col2[x] = RB_RED
        PROVE  col2[ch[x][d]] = RB_BLACK
    <3>1. CASE x = g
      BY <1>c, <3>1, <2>2, <1>4
    <3>2. CASE x # g
      <4>1. x \notin {g, p, u} /\ col[x] = RB_RED
        BY <1>c, <3>2, <2>2 DEF RB_RED, RB_BLACK
      <4>2. ch[x][d] # n
        BY <4>1, <1>6
      <4> QED
        BY <1>c, <4>1, <4>2, <2>0, <2>2
    <3> QED
      BY <3>1, <3>2
  <2> QED
    BY <2>1, <2>2 DEF RedsApart
<1>11. Balanced(ch, col2, L, B2, q, e)
  BY <1>8, <1>9 DEF Balanced
<1>12. \A x \in L : col2[x] \in {RB_RED, RB_BLACK}
  BY <1>c DEF IsRb
<1>13. IsRb(ch, r, col2, L, D, B2, q, e, {g})
  BY <1>0, <1>10, <1>11, <1>12 DEF IsRb
<1> QED
  BY <1>13 DEF SomeRb

\* Where a black owed at the link dir of q is owed one level up.
Above(ch, r, L, q, q2, e2) ==
  \/ q = r /\ q2 = NULL
  \/ q2 \in L /\ e2 \in Dir /\ ch[q2][e2] = q

\* The other child of q, black with no red child, turns red, and the black
\* is owed one level up.  Case 2 of rb_remove_color.
LEMMA PushHole ==
  ASSUME NEW L \in SUBSET Node, NEW ch, NEW r, NEW col, NEW D, NEW B,
         NEW q \in L, NEW e \in Dir, NEW s \in L, ch[q][Opp(e)] = s,
         IsRb(ch, r, col, L, D, B, q, e, {}),
         col[s] = RB_BLACK,
         \A d \in Dir : ch[s][d] \in L => col[ch[s][d]] = RB_BLACK,
         NEW q2, NEW e2, Above(ch, r, L, q, q2, e2),
         NEW col2, Paints(col, col2, L, s, RB_RED)
  PROVE  SomeRb(ch, r, col2, L, q2, e2, {s})
<1> DEFINE B2 == [x \in Ptr |-> IF x \in {q, s} THEN B[x] - 1 ELSE B[x]]
<1>c. \A x \in L : col2[x] = IF x = s THEN RB_RED ELSE col[x]
  BY DEF Paints
<1>0. IsTree(ch, r, L, D)
  BY DEF IsRb
<1>t. LinkFacts(ch, r, L, D)
  BY <1>0, TreeLinks
<1>1. /\ \A x \in L, d \in Dir : ch[x][d] \in L \cup {NULL}
      /\ L \cup {NULL} \subseteq Ptr /\ NULL \notin L
  BY <1>0, NullAssumption DEF IsTree, Ptr
<1>2. /\ B \in [Ptr -> Nat] /\ B[NULL] = 0
      /\ \A x \in L, d \in Dir : B[x] = col[x] + B[ch[x][d]] + Owes(x, d, q, e)
  BY DEF IsRb, Balanced
<1>3. \A x \in L : col[x] \in {0, 1}
  BY DEF IsRb, RB_RED, RB_BLACK
<1>4. Opp(e) \in Dir /\ Opp(e) # e /\ \A d \in Dir : d = e \/ d = Opp(e)
  BY DEF Dir, Opp, RB_LEFT, RB_RIGHT
<1>5. ASSUME NEW x \in L, NEW d \in Dir, ch[x][d] = s PROVE x = q /\ d = Opp(e)
  <2>1. ch[x][d] # NULL /\ ch[x][d] = ch[q][Opp(e)]
    BY <1>1, <1>5
  <2> QED
    BY <2>1, <1>t, <1>4 DEF LinkFacts
<1>6. ASSUME NEW x \in L, NEW d \in Dir
      PROVE  (ch[x][d] = q) <=> (x = q2 /\ d = e2)
  <2>1. CASE q = r /\ q2 = NULL
    <3>1. ch[x][d] # q
      BY <2>1, <1>t, <1>1 DEF LinkFacts
    <3> QED
      BY <3>1, <2>1, <1>1
  <2>2. CASE q2 \in L /\ e2 \in Dir /\ ch[q2][e2] = q
    <3>1. ASSUME ch[x][d] = q PROVE x = q2 /\ d = e2
      <4>1. ch[x][d] # NULL /\ ch[x][d] = ch[q2][e2]
        BY <3>1, <2>2, <1>1
      <4> QED
        BY <4>1, <2>2, <1>t DEF LinkFacts
    <3> QED
      BY <3>1, <2>2
  <2> QED
    BY <2>1, <2>2 DEF Above
<1>7. ASSUME NEW d \in Dir
      PROVE  q # s /\ ch[q][d] # q /\ ch[s][d] # s /\ ch[s][d] # q
  BY <1>1, <1>4, <1>t DEF LinkFacts
<1>8. /\ B[q] = col[q] + B[ch[q][e]] + 1 /\ B[q] = col[q] + B[s]
      /\ \A d \in Dir : B[s] = 1 + B[ch[s][d]]
      /\ B[ch[q][e]] \in Nat /\ B[s] \in Nat /\ \A d \in Dir : B[ch[s][d]] \in Nat
  <2>1. /\ B[q] = col[q] + B[ch[q][e]] + Owes(q, e, q, e)
        /\ B[q] = col[q] + B[s] + Owes(q, Opp(e), q, e)
        /\ \A d \in Dir : B[s] = col[s] + B[ch[s][d]] + Owes(s, d, q, e)
    BY <1>2, <1>4
  <2>2. /\ Owes(q, e, q, e) = 1 /\ Owes(q, Opp(e), q, e) = 0 /\ col[s] = 1
        /\ \A d \in Dir : Owes(s, d, q, e) = 0
    BY <1>4, <1>7 DEF Owes, RB_BLACK
  <2>3. B[ch[q][e]] \in Nat /\ B[s] \in Nat /\ \A d \in Dir : B[ch[s][d]] \in Nat
    BY <1>1, <1>2
  <2>4. \A d \in Dir : B[s] = 1 + B[ch[s][d]]
    BY <2>1, <2>2, <2>3
  <2> QED
    BY <2>1, <2>2, <2>3, <2>4, <1>3
<1>9. B[q] - 1 \in Nat /\ B[s] - 1 \in Nat
  BY <1>3, <1>4, <1>8
<1>10. /\ B2 \in [Ptr -> Nat] /\ B2[NULL] = 0 /\ B2[q] = B[q] - 1 /\ B2[s] = B[s] - 1
       /\ \A x \in Ptr \ {q, s} : B2[x] = B[x]
  BY <1>1, <1>2, <1>9
<1> HIDE DEF B2
<1>11. ASSUME NEW x \in L, NEW d \in Dir
       PROVE  B2[x] = col2[x] + B2[ch[x][d]] + Owes(x, d, q2, e2)
  <2>0. /\ B[x] = col[x] + B[ch[x][d]] + Owes(x, d, q, e)
        /\ B[x] \in Nat /\ B[ch[x][d]] \in Nat /\ col[x] \in {0, 1}
    BY <1>1, <1>2, <1>3
  <2>1. CASE x = q
    <3>1. Owes(x, d, q2, e2) = 0 /\ col2[x] = col[x]
      BY <1>c, <2>1, <1>6, <1>7 DEF Owes
    <3>2. CASE d = e
      <4>1. ch[q][e] \notin {q, s}
        BY <1>4, <1>5, <1>7
      <4>2. B2[ch[q][e]] = B[ch[q][e]]
        BY <4>1, <1>1, <1>10
      <4> QED
        BY <4>2, <3>1, <3>2, <2>0, <2>1, <1>8, <1>10
    <3>3. CASE d = Opp(e)
      BY <3>1, <3>3, <2>0, <2>1, <1>8, <1>10
    <3> QED
      BY <3>2, <3>3, <1>4
  <2>2. CASE x = s
    <3>1. Owes(x, d, q2, e2) = 0 /\ col2[x] = 0
      BY <1>c, <2>2, <1>6, <1>7 DEF Owes, RB_RED
    <3>2. B2[ch[x][d]] = B[ch[x][d]]
      BY <2>2, <1>1, <1>7, <1>10
    <3> QED
      BY <3>1, <3>2, <2>2, <1>8, <1>10
  <2>3. CASE x \notin {q, s}
    <3>1. ch[x][d] # s /\ Owes(x, d, q, e) = 0 /\ B2[x] = B[x] /\ col2[x] = col[x]
      BY <1>c, <2>3, <1>1, <1>5, <1>10 DEF Owes
    <3>2. CASE ch[x][d] = q
      <4>1. Owes(x, d, q2, e2) = 1
        BY <3>2, <1>6 DEF Owes
      <4> QED
        BY <4>1, <3>1, <3>2, <2>0, <1>10
    <3>3. CASE ch[x][d] # q
      <4>1. Owes(x, d, q2, e2) = 0
        BY <3>3, <1>6 DEF Owes
      <4>2. B2[ch[x][d]] = B[ch[x][d]]
        BY <3>1, <3>3, <1>1, <1>10
      <4> QED
        BY <4>1, <4>2, <3>1, <2>0
    <3> QED
      BY <3>2, <3>3
  <2> QED
    BY <2>1, <2>2, <2>3
<1>12. RedsApart(ch, r, col2, L, {s})
  <2>0. /\ r \in L => col[r] = RB_BLACK
        /\ \A x \in L, d \in Dir :
             ch[x][d] \in L /\ col[x] = RB_RED => col[ch[x][d]] = RB_BLACK
    BY DEF IsRb, RedsApart
  <2>1. ASSUME NEW x \in L, NEW d \in Dir, ch[x][d] \in L \ {s}, col2[x] = RB_RED
        PROVE  col2[ch[x][d]] = RB_BLACK
    BY <1>c, <2>0, <2>1
  <2> QED
    BY <1>c, <2>0, <2>1 DEF RedsApart
<1>13. Balanced(ch, col2, L, B2, q2, e2)
  BY <1>10, <1>11 DEF Balanced
<1>14. \A x \in L : col2[x] \in {RB_RED, RB_BLACK}
  BY <1>c DEF IsRb
<1>15. IsRb(ch, r, col2, L, D, B2, q2, e2, {s})
  BY <1>0, <1>12, <1>13, <1>14 DEF IsRb
<1> QED
  BY <1>15 DEF SomeRb

\* Painting a node black mends the reds at it and just below it.
LEMMA PaintReds ==
  ASSUME NEW L \in SUBSET Node, NEW ch, NEW r, NEW col, NEW D, NEW X, NEW n \in L,
         IsTree(ch, r, L, D), RedsApart(ch, r, col, L, X),
         X \subseteq {n} \cup {ch[n][d] : d \in Dir},
         NEW col2, Paints(col, col2, L, n, RB_BLACK)
  PROVE  RedsApart(ch, r, col2, L, {})
<1>c. \A x \in L : col2[x] = IF x = n THEN RB_BLACK ELSE col[x]
  BY DEF Paints
<1>0. NULL \notin L
  BY NullAssumption
<1>t. LinkFacts(ch, r, L, D)
  BY TreeLinks
<1>1. ASSUME NEW d \in Dir, ch[n][d] # NULL PROVE ch[n][d] # r
  BY <1>1, <1>t DEF LinkFacts
<1>2. r \in L => col2[r] = RB_BLACK
  BY <1>c, <1>0, <1>1 DEF RedsApart
<1>3. ASSUME NEW x \in L, NEW d \in Dir, ch[x][d] \in L, col2[x] = RB_RED
      PROVE  col2[ch[x][d]] = RB_BLACK
  <2>1. x # n /\ col[x] = RB_RED
    BY <1>c, <1>3 DEF RB_RED, RB_BLACK
  <2>2. ASSUME NEW f \in Dir PROVE ch[x][d] # ch[n][f]
    <3>1. ASSUME ch[x][d] = ch[n][f] PROVE FALSE
      <4>1. x = n
        BY <3>1, <1>0, <1>3, <1>t DEF LinkFacts
      <4> QED
        BY <4>1, <2>1
    <3> QED
      BY <3>1
  <2> QED
    BY <1>c, <2>1, <2>2, <1>3 DEF RedsApart
<1> QED
  BY <1>2, <1>3 DEF RedsApart

\* Painting the root black keeps the tree balanced.
LEMMA PaintRoot ==
  ASSUME NEW L \in SUBSET Node, NEW ch, NEW r \in L, NEW col, NEW D, NEW B, NEW q, NEW e, NEW X,
         IsRb(ch, r, col, L, D, B, q, e, X),
         X \subseteq {r} \cup {ch[r][d] : d \in Dir},
         NEW col2, Paints(col, col2, L, r, RB_BLACK)
  PROVE  SomeRb(ch, r, col2, L, q, e, {})
<1> DEFINE B2 == [x \in Ptr |-> IF x = r THEN B[x] + (1 - col[r]) ELSE B[x]]
<1>c. \A x \in L : col2[x] = IF x = r THEN RB_BLACK ELSE col[x]
  BY DEF Paints
<1>0. IsTree(ch, r, L, D)
  BY DEF IsRb
<1>t. LinkFacts(ch, r, L, D)
  BY <1>0, TreeLinks
<1>1. /\ \A x \in L, d \in Dir : ch[x][d] \in L \cup {NULL}
      /\ L \cup {NULL} \subseteq Ptr /\ NULL \notin L
  BY <1>0, NullAssumption DEF IsTree, Ptr
<1>2. /\ B \in [Ptr -> Nat] /\ B[NULL] = 0
      /\ \A x \in L, d \in Dir : B[x] = col[x] + B[ch[x][d]] + Owes(x, d, q, e)
  BY DEF IsRb, Balanced
<1>3. \A x \in L : col[x] \in {0, 1}
  BY DEF IsRb, RB_RED, RB_BLACK
<1>4. ASSUME NEW x \in L, NEW d \in Dir PROVE ch[x][d] # r
  BY <1>t, <1>1 DEF LinkFacts
<1>5. /\ B2 \in [Ptr -> Nat] /\ B2[NULL] = 0 /\ B2[r] = B[r] + (1 - col[r])
      /\ \A x \in Ptr \ {r} : B2[x] = B[x]
  <2>1. 1 - col[r] \in Nat
    BY <1>3
  <2> QED
    BY <2>1, <1>1, <1>2
<1> HIDE DEF B2
<1>6. ASSUME NEW x \in L, NEW d \in Dir
      PROVE  B2[x] = col2[x] + B2[ch[x][d]] + Owes(x, d, q, e)
  <2>0. /\ B[x] = col[x] + B[ch[x][d]] + Owes(x, d, q, e)
        /\ B[x] \in Nat /\ B[ch[x][d]] \in Nat /\ col[x] \in {0, 1} /\ Owes(x, d, q, e) \in {0, 1}
    BY <1>1, <1>2, <1>3 DEF Owes
  <2>1. B2[ch[x][d]] = B[ch[x][d]]
    BY <1>1, <1>4, <1>5
  <2>2. CASE x = r
    BY <1>c, <2>0, <2>1, <2>2, <1>5 DEF RB_BLACK
  <2>3. CASE x # r
    BY <1>c, <2>0, <2>1, <2>3, <1>1, <1>5
  <2> QED
    BY <2>2, <2>3
<1>7. RedsApart(ch, r, col2, L, {})
  BY <1>0, PaintReds DEF IsRb
<1>8. Balanced(ch, col2, L, B2, q, e)
  BY <1>5, <1>6 DEF Balanced
<1>9. \A x \in L : col2[x] \in {RB_RED, RB_BLACK}
  BY <1>c DEF IsRb
<1>10. IsRb(ch, r, col2, L, D, B2, q, e, {})
  BY <1>0, <1>7, <1>8, <1>9 DEF IsRb
<1> QED
  BY <1>10 DEF SomeRb

\* Painting black a red node at the link where a black is owed repays it.
LEMMA PaintHole ==
  ASSUME NEW L \in SUBSET Node, NEW ch, NEW r, NEW col, NEW D, NEW B,
         NEW q \in L, NEW e \in Dir, NEW X, NEW c \in L, ch[q][e] = c, col[c] = RB_RED,
         IsRb(ch, r, col, L, D, B, q, e, X),
         X \subseteq {c} \cup {ch[c][d] : d \in Dir},
         NEW col2, Paints(col, col2, L, c, RB_BLACK),
         NEW f
  PROVE  SomeRb(ch, r, col2, L, NULL, f, {})
<1> DEFINE B2 == [x \in Ptr |-> IF x = c THEN B[x] + 1 ELSE B[x]]
<1>c. \A x \in L : col2[x] = IF x = c THEN RB_BLACK ELSE col[x]
  BY DEF Paints
<1>0. IsTree(ch, r, L, D)
  BY DEF IsRb
<1>t. LinkFacts(ch, r, L, D)
  BY <1>0, TreeLinks
<1>1. /\ \A x \in L, d \in Dir : ch[x][d] \in L \cup {NULL}
      /\ L \cup {NULL} \subseteq Ptr /\ NULL \notin L
  BY <1>0, NullAssumption DEF IsTree, Ptr
<1>2. /\ B \in [Ptr -> Nat] /\ B[NULL] = 0
      /\ \A x \in L, d \in Dir : B[x] = col[x] + B[ch[x][d]] + Owes(x, d, q, e)
  BY DEF IsRb, Balanced
<1>3. \A x \in L : col[x] \in {0, 1}
  BY DEF IsRb, RB_RED, RB_BLACK
<1>4. ASSUME NEW x \in L, NEW d \in Dir, ch[x][d] = c PROVE x = q /\ d = e
  <2>1. ch[x][d] # NULL /\ ch[x][d] = ch[q][e]
    BY <1>1, <1>4
  <2> QED
    BY <2>1, <1>t DEF LinkFacts
<1>5. q # c
  BY <1>t DEF LinkFacts
<1>6. /\ B2 \in [Ptr -> Nat] /\ B2[NULL] = 0 /\ B2[c] = B[c] + 1
      /\ \A x \in Ptr \ {c} : B2[x] = B[x]
  BY <1>1, <1>2
<1> HIDE DEF B2
<1>7. ASSUME NEW x \in L, NEW d \in Dir
      PROVE  B2[x] = col2[x] + B2[ch[x][d]] + Owes(x, d, NULL, f)
  <2>0. /\ B[x] = col[x] + B[ch[x][d]] + Owes(x, d, q, e)
        /\ B[x] \in Nat /\ B[ch[x][d]] \in Nat /\ col[x] \in {0, 1} /\ Owes(x, d, NULL, f) = 0
    BY <1>1, <1>2, <1>3 DEF Owes
  <2>1. CASE x = c
    <3>1. ch[x][d] # c /\ Owes(x, d, q, e) = 0
      BY <2>1, <1>4, <1>5 DEF Owes
    <3>2. B2[ch[x][d]] = B[ch[x][d]] /\ col[x] = 0 /\ col2[x] = 1
      BY <1>c, <3>1, <2>1, <1>1, <1>6 DEF RB_RED, RB_BLACK
    <3> QED
      BY <3>1, <3>2, <2>0, <2>1, <1>6
  <2>2. CASE x # c /\ ch[x][d] = c
    <3>1. Owes(x, d, q, e) = 1
      BY <2>2, <1>4 DEF Owes
    <3> QED
      BY <1>c, <3>1, <2>0, <2>2, <1>1, <1>6
  <2>3. CASE x # c /\ ch[x][d] # c
    <3>1. Owes(x, d, q, e) = 0
      BY <2>3 DEF Owes
    <3>2. B2[ch[x][d]] = B[ch[x][d]]
      BY <2>3, <1>1, <1>6
    <3> QED
      BY <1>c, <3>1, <3>2, <2>0, <2>3, <1>1, <1>6
  <2> QED
    BY <2>1, <2>2, <2>3
<1>8. RedsApart(ch, r, col2, L, {})
  BY <1>0, PaintReds DEF IsRb
<1>9. Balanced(ch, col2, L, B2, NULL, f)
  BY <1>6, <1>7 DEF Balanced
<1>10. \A x \in L : col2[x] \in {RB_RED, RB_BLACK}
  BY <1>c DEF IsRb
<1>11. IsRb(ch, r, col2, L, D, B2, NULL, f, {})
  BY <1>0, <1>8, <1>9, <1>10 DEF IsRb
<1> QED
  BY <1>11 DEF SomeRb

-----------------------------------------------------------------------------
(* Nodes come and go.                                                      *)

SameOn(col, col2, S) == \A x \in S : col2[x] = col[x]

\* The black that node n leaves owed below q when it goes.
Debt(col, n, q) == IF col[n] = RB_BLACK THEN q ELSE NULL

\* The first node.
LEMMA AddFirst ==
  ASSUME NEW ch, NEW n \in Node, \A d \in Dir : ch[n][d] = NULL,
         NEW col, col[n] = RB_RED, NEW f
  PROVE  SomeRb(ch, n, col, {n}, NULL, f, {n})
<1> DEFINE D == [x \in Ptr |-> IF x = n THEN {n} ELSE {}]
           B == [x \in Ptr |-> 0]
<1>0. n # NULL /\ n \in Ptr /\ NULL \in Ptr /\ RB_LEFT \in Dir /\ RB_RIGHT \in Dir
  BY NullAssumption DEF Ptr, Dir
<1>1. IsTree(ch, n, {n}, D)
  BY <1>0 DEF IsTree
<1>2. Balanced(ch, col, {n}, B, NULL, f)
  <2>1. \A d \in Dir : Owes(n, d, NULL, f) = 0
    BY <1>0 DEF Owes
  <2> QED
    BY <2>1, <1>0 DEF Balanced, RB_RED
<1>3. RedsApart(ch, n, col, {n}, {n})
  BY <1>0 DEF RedsApart
<1>4. IsRb(ch, n, col, {n}, D, B, NULL, f, {n})
  BY <1>1, <1>2, <1>3 DEF IsRb
<1> QED
  BY <1>4 DEF SomeRb

\* Leaf n hangs at the link e of q.
Hangs(ch, ch2, L, n, q, e) ==
  /\ \A x \in L, d \in Dir : ch2[x][d] = IF x = q /\ d = e THEN n ELSE ch[x][d]
  /\ \A d \in Dir : ch2[n][d] = NULL

\* Below q, a node with key k is where a search for k looks for it.
OnPath(ch, L, D, k, q) ==
  \A x \in L, d \in Dir : q \in D[ch[x][d]] => IF d = RB_LEFT THEN k < Val[x] ELSE Val[x] < k

\* A red leaf n at the empty link e of q, where a search for its key ends.
LEMMA AddLeaf ==
  ASSUME NEW L \in SUBSET Node, NEW ch, NEW r, NEW col, NEW D, NEW B, NEW f,
         IsRb(ch, r, col, L, D, B, NULL, f, {}),
         NEW n \in Node, n \notin L, NEW q \in L, NEW e \in Dir, ch[q][e] = NULL,
         Before(e, n, q),
         OnPath(ch, L, D, Val[n], q),
         NEW ch2, Hangs(ch, ch2, L, n, q, e),
         NEW col2, SameOn(col, col2, L), col2[n] = RB_RED
  PROVE  SomeRb(ch2, r, col2, L \cup {n}, NULL, f, {n})
<1> DEFINE D2 == [x \in Ptr |-> IF x = n THEN {n} ELSE IF q \in D[x] THEN D[x] \cup {n} ELSE D[x]]
           B2 == [x \in Ptr |-> IF x = n THEN 0 ELSE B[x]]
           L2 == L \cup {n}
<1>c. /\ \A x \in L, d \in Dir : q \in D[ch[x][d]] => Before(d, n, x)
      /\ \A x \in L, d \in Dir : ch2[x][d] = IF x = q /\ d = e THEN n ELSE ch[x][d]
      /\ \A d \in Dir : ch2[n][d] = NULL
      /\ \A x \in L : col2[x] = col[x]
  BY DEF OnPath, Before, Hangs, SameOn
<1>0. IsTree(ch, r, L, D)
  BY DEF IsRb
<1>t. LinkFacts(ch, r, L, D)
  BY <1>0, TreeLinks
<1>1. /\ \A x \in L, d \in Dir : ch[x][d] \in L \cup {NULL}
      /\ L \cup {NULL} \subseteq Ptr /\ NULL \notin L
  BY <1>0, NullAssumption DEF IsTree, Ptr
<1>2. /\ B \in [Ptr -> Nat] /\ B[NULL] = 0
      /\ \A x \in L, d \in Dir : B[x] = col[x] + B[ch[x][d]] + Owes(x, d, NULL, f)
  BY DEF IsRb, Balanced
<1>3. /\ D \in [Ptr -> SUBSET L] /\ D[NULL] = {} /\ r \in L \cup {NULL} /\ D[r] = L
      /\ \A x \in L : D[x] = {x} \cup D[ch[x][RB_LEFT]] \cup D[ch[x][RB_RIGHT]]
      /\ \A x \in L, d \in Dir : \A m \in D[ch[x][d]] : Before(d, m, x)
  BY <1>0 DEF IsTree
<1>4. n # NULL /\ n \in Ptr /\ L2 \subseteq Node /\ r # NULL /\ r \in L
  BY <1>3, NullAssumption DEF Ptr
<1>5. /\ D2 \in [Ptr -> SUBSET L2] /\ D2[n] = {n}
      /\ \A x \in Ptr \ {n} : D2[x] = IF q \in D[x] THEN D[x] \cup {n} ELSE D[x]
      /\ B2 \in [Ptr -> Nat] /\ B2[n] = 0
      /\ \A x \in Ptr \ {n} : B2[x] = B[x]
  <2>1. \A x \in Ptr : D[x] \subseteq L
    BY <1>3
  <2> QED
    BY <2>1, <1>2, <1>4
<1> HIDE DEF D2, B2
<1>6. D2[NULL] = {} /\ B2[NULL] = 0 /\ D2[r] = L2
  BY <1>1, <1>2, <1>3, <1>4, <1>5
<1>7. ASSUME NEW x \in L, NEW d \in Dir
      PROVE  /\ ch2[x][d] \in L2 \cup {NULL}
             /\ (x = q /\ d = e) \/ q \in D[ch[x][d]] => D2[ch2[x][d]] = D[ch[x][d]] \cup {n}
             /\ ~((x = q /\ d = e) \/ q \in D[ch[x][d]]) => D2[ch2[x][d]] = D[ch[x][d]]
             /\ B2[ch2[x][d]] = B[ch[x][d]]
  <2>1. CASE x = q /\ d = e
    BY <1>c, <2>1, <1>2, <1>3, <1>5
  <2>2. CASE ~(x = q /\ d = e)
    <3>1. ch2[x][d] = ch[x][d] /\ ch[x][d] \in L \cup {NULL} /\ ch[x][d] # n
      BY <1>c, <2>2, <1>1, <1>4
    <3> QED
      BY <3>1, <2>2, <1>1, <1>5
  <2> QED
    BY <2>1, <2>2
<1>8. ASSUME NEW x \in L
      PROVE  D2[x] = {x} \cup D2[ch2[x][RB_LEFT]] \cup D2[ch2[x][RB_RIGHT]]
  <2>1. D2[x] = IF q \in D[x] THEN D[x] \cup {n} ELSE D[x]
    BY <1>1, <1>5
  <2>2. D[x] = {x} \cup D[ch[x][RB_LEFT]] \cup D[ch[x][RB_RIGHT]]
    BY <1>3
  <2>3. RB_LEFT \in Dir /\ RB_RIGHT \in Dir /\ e \in {RB_LEFT, RB_RIGHT}
    BY DEF Dir
  <2>4. CASE q \in D[x]
    <3>1. D2[x] = D[x] \cup {n}
      BY <2>1, <2>4
    <3>2. CASE x = q
      <4>1. D2[ch2[x][e]] = D[ch[x][e]] \cup {n}
        BY <3>2, <1>7
      <4>2. \A d \in Dir : D2[ch2[x][d]] \in {D[ch[x][d]], D[ch[x][d]] \cup {n}}
        BY <1>7
      <4> QED
        BY <4>1, <4>2, <3>1, <2>2, <2>3
    <3>3. CASE x # q
      <4>1. PICK d \in Dir : q \in D[ch[x][d]]
        BY <3>3, <2>2, <2>3, <2>4
      <4>2. D2[ch2[x][d]] = D[ch[x][d]] \cup {n}
        BY <4>1, <1>7
      <4>3. \A g \in Dir : D2[ch2[x][g]] \in {D[ch[x][g]], D[ch[x][g]] \cup {n}}
        BY <1>7
      <4> QED
        BY <4>2, <4>3, <3>1, <2>2, <2>3 DEF Dir
    <3> QED
      BY <3>2, <3>3
  <2>5. CASE q \notin D[x]
    <3>1. \A d \in Dir : D2[ch2[x][d]] = D[ch[x][d]]
      BY <2>2, <2>3, <2>5, <1>7 DEF Dir
    <3> QED
      BY <3>1, <2>1, <2>2, <2>3, <2>5
  <2> QED
    BY <2>4, <2>5
<1>9. ASSUME NEW x \in L, NEW d \in Dir, NEW m \in D2[ch2[x][d]] PROVE Before(d, m, x)
  <2>1. CASE m \in D[ch[x][d]]
    BY <2>1, <1>3
  <2>2. CASE m \notin D[ch[x][d]]
    <3>1. m = n /\ ((x = q /\ d = e) \/ q \in D[ch[x][d]])
      BY <2>2, <1>7
    <3> QED
      BY <1>c, <3>1
  <2> QED
    BY <2>1, <2>2
<1>10. /\ D2[n] = {n} \cup D2[ch2[n][RB_LEFT]] \cup D2[ch2[n][RB_RIGHT]]
       /\ \A d \in Dir : ch2[n][d] = NULL /\ D2[ch2[n][d]] = {}
  BY <1>c, <1>5, <1>6 DEF Dir
<1>11. IsTree(ch2, r, L2, D2)
  <2>1. ASSUME NEW x \in L2
        PROVE  /\ \A d \in Dir : ch2[x][d] \in L2 \cup {NULL}
               /\ D2[x] = {x} \cup D2[ch2[x][RB_LEFT]] \cup D2[ch2[x][RB_RIGHT]]
               /\ \A d \in Dir : \A m \in D2[ch2[x][d]] : Before(d, m, x)
    <3>1. CASE x \in L
      BY <3>1, <1>7, <1>8, <1>9
    <3>2. CASE x = n
      BY <3>2, <1>10
    <3> QED
      BY <3>1, <3>2
  <2> QED
    BY <2>1, <1>4, <1>5, <1>6 DEF IsTree
<1>12. Balanced(ch2, col2, L2, B2, NULL, f)
  <2>1. ASSUME NEW x \in L2, NEW d \in Dir
        PROVE  B2[x] = col2[x] + B2[ch2[x][d]] + Owes(x, d, NULL, f)
    <3>0. Owes(x, d, NULL, f) = 0
      BY <1>1, <1>4 DEF Owes
    <3>1. CASE x \in L
      <4>1. B2[x] = B[x] /\ col2[x] = col[x]
        BY <1>c, <3>1, <1>1, <1>5
      <4>2. B2[ch2[x][d]] = B[ch[x][d]]
        BY <3>1, <1>7
      <4>3. B[x] = col[x] + B[ch[x][d]] + Owes(x, d, NULL, f)
        BY <3>1, <1>2
      <4> QED
        BY <4>1, <4>2, <4>3
    <3>2. CASE x = n
      BY <1>c, <3>0, <3>2, <1>5, <1>6 DEF RB_RED
    <3> QED
      BY <3>1, <3>2
  <2> QED
    BY <2>1, <1>5, <1>6 DEF Balanced
<1>13. RedsApart(ch2, r, col2, L2, {n})
  <2>1. /\ r \in L => col[r] = RB_BLACK
        /\ \A x \in L, d \in Dir :
             ch[x][d] \in L /\ col[x] = RB_RED => col[ch[x][d]] = RB_BLACK
    BY DEF IsRb, RedsApart
  <2>2. ASSUME NEW x \in L2, NEW d \in Dir, ch2[x][d] \in L2 \ {n}, col2[x] = RB_RED
        PROVE  col2[ch2[x][d]] = RB_BLACK
    <3>1. x # n
      BY <1>c, <2>2, <1>1
    <3> QED
      BY <1>c, <3>1, <2>1, <2>2
  <2> QED
    BY <1>c, <2>1, <2>2, <1>4 DEF RedsApart
<1>14. \A x \in L2 : col2[x] \in {RB_RED, RB_BLACK}
  BY <1>c DEF IsRb
<1>15. IsRb(ch2, r, col2, L2, D2, B2, NULL, f, {n})
  BY <1>11, <1>12, <1>13, <1>14 DEF IsRb
<1> QED
  BY <1>15 DEF SomeRb

\* Links to n lead to c.
Splices(ch, r, ch2, r2, L, n, c) ==
  /\ r2 = IF r = n THEN c ELSE r
  /\ \A x \in L \ {n}, d \in Dir : ch2[x][d] = IF ch[x][d] = n THEN c ELSE ch[x][d]

\* Node n has the one child c, or no child and c is NULL.
OnlyChild(ch, n, c) == \E k \in Dir : ch[n][k] = NULL /\ ch[n][Opp(k)] = c

Without(D, n) == [x \in Ptr |-> D[x] \ {n}]

\* Without node n, whose place its only child c takes, or NULL.  A black n
\* leaves a black owed at the link that led to it; a red one was a leaf.
LEMMA RemoveOne ==
  ASSUME NEW L \in SUBSET Node, NEW ch, NEW r, NEW col, NEW D, NEW B, NEW f,
         IsRb(ch, r, col, L, D, B, NULL, f, {}),
         NEW n \in L, NEW c, OnlyChild(ch, n, c),
         NEW q, NEW e, Above(ch, r, L, n, q, e),
         NEW ch2, NEW r2, Splices(ch, r, ch2, r2, L, n, c),
         NEW col2, SameOn(col, col2, L \ {n})
  PROVE  /\ IsRb(ch2, r2, col2, L \ {n}, Without(D, n), B, Debt(col, n, q), e, {c})
         /\ col[n] = RB_RED => c = NULL
<1> DEFINE D2 == Without(D, n)
           L2 == L \ {n}
           hole == Debt(col, n, q)
<1>k. PICK k \in Dir : ch[n][k] = NULL /\ ch[n][Opp(k)] = c
  BY DEF OnlyChild
<1>c. /\ r2 = IF r = n THEN c ELSE r
      /\ \A x \in L \ {n}, d \in Dir : ch2[x][d] = IF ch[x][d] = n THEN c ELSE ch[x][d]
      /\ \A x \in L \ {n} : col2[x] = col[x]
      /\ hole = IF col[n] = RB_BLACK THEN q ELSE NULL
  BY DEF Splices, SameOn, Debt
<1> HIDE DEF hole
<1>0. IsTree(ch, r, L, D)
  BY DEF IsRb
<1>t. LinkFacts(ch, r, L, D)
  BY <1>0, TreeLinks
<1>1. /\ \A x \in L, d \in Dir : ch[x][d] \in L \cup {NULL}
      /\ L \cup {NULL} \subseteq Ptr /\ NULL \notin L
  BY <1>0, NullAssumption DEF IsTree, Ptr
<1>2. /\ B \in [Ptr -> Nat] /\ B[NULL] = 0
      /\ \A x \in L, d \in Dir : B[x] = col[x] + B[ch[x][d]] + Owes(x, d, NULL, f)
  BY DEF IsRb, Balanced
<1>3. /\ D \in [Ptr -> SUBSET L] /\ D[NULL] = {} /\ r \in L \cup {NULL} /\ D[r] = L
      /\ \A x \in L : D[x] = {x} \cup D[ch[x][RB_LEFT]] \cup D[ch[x][RB_RIGHT]]
      /\ \A x \in L, d \in Dir : \A m \in D[ch[x][d]] : Before(d, m, x)
  BY <1>0 DEF IsTree
<1>4. /\ Opp(k) \in Dir /\ c \in L \cup {NULL} /\ c # n
      /\ \/ k = RB_LEFT /\ Opp(k) = RB_RIGHT
         \/ k = RB_RIGHT /\ Opp(k) = RB_LEFT
  <2>1. /\ Opp(k) \in Dir
        /\ \/ k = RB_LEFT /\ Opp(k) = RB_RIGHT
           \/ k = RB_RIGHT /\ Opp(k) = RB_LEFT
    BY DEF Dir, Opp, RB_LEFT, RB_RIGHT
  <2> QED
    BY <1>k, <2>1, <1>1, <1>t DEF LinkFacts
<1>5. D[n] = {n} \cup D[c] /\ n \notin D[c]
  <2>1. n \notin D[ch[n][Opp(k)]]
    BY <1>4, <1>t DEF LinkFacts
  <2> QED
    BY <1>k, <2>1, <1>3, <1>4
<1>6. D2 \in [Ptr -> SUBSET L2] /\ \A x \in Ptr : D2[x] = D[x] \ {n}
  BY <1>3 DEF Without
<1> HIDE DEF D2
<1>7. D2[NULL] = {} /\ r2 \in L2 \cup {NULL} /\ D2[r2] = L2
  <2>1. CASE r = n
    <3>1. D2[c] = D[c] \ {n}
      BY <1>1, <1>4, <1>6
    <3> QED
      BY <1>c, <3>1, <2>1, <1>1, <1>3, <1>4, <1>5, <1>6
  <2>2. CASE r # n
    BY <1>c, <2>2, <1>1, <1>3, <1>6
  <2> QED
    BY <2>1, <2>2
<1>8. ASSUME NEW x \in L2, NEW d \in Dir
      PROVE  /\ ch2[x][d] \in L2 \cup {NULL}
             /\ D2[ch2[x][d]] = D[ch[x][d]] \ {n}
  <2>1. CASE ch[x][d] = n
    <3>1. ch2[x][d] = c /\ D2[c] = D[c] \ {n}
      BY <1>c, <2>1, <1>1, <1>4, <1>6
    <3> QED
      BY <3>1, <2>1, <1>4, <1>5
  <2>2. CASE ch[x][d] # n
    BY <1>c, <2>2, <1>1, <1>6
  <2> QED
    BY <2>1, <2>2
<1>9. IsTree(ch2, r2, L2, D2)
  <2>1. ASSUME NEW x \in L2
        PROVE  /\ \A d \in Dir : ch2[x][d] \in L2 \cup {NULL}
               /\ D2[x] = {x} \cup D2[ch2[x][RB_LEFT]] \cup D2[ch2[x][RB_RIGHT]]
               /\ \A d \in Dir : \A m \in D2[ch2[x][d]] : Before(d, m, x)
    <3>1. D2[x] = D[x] \ {n} /\ D[x] = {x} \cup D[ch[x][RB_LEFT]] \cup D[ch[x][RB_RIGHT]] /\ x # n
      BY <1>1, <1>3, <1>6
    <3>2. RB_LEFT \in Dir /\ RB_RIGHT \in Dir
      BY DEF Dir
    <3>3. D2[x] = {x} \cup D2[ch2[x][RB_LEFT]] \cup D2[ch2[x][RB_RIGHT]]
      BY <1>c, <3>1, <3>2, <1>8
    <3> QED
      BY <3>3, <1>3, <1>8
  <2> QED
    BY <2>1, <1>6, <1>7 DEF IsTree
<1>10. B[n] = col[n] /\ B[c] = 0 /\ col[n] \in {0, 1}
  <2>1. B[n] = col[n] + B[NULL] + Owes(n, k, NULL, f) /\ B[n] = col[n] + B[c] + Owes(n, Opp(k), NULL, f)
    BY <1>k, <1>2, <1>4
  <2>2. Owes(n, k, NULL, f) = 0 /\ Owes(n, Opp(k), NULL, f) = 0
    BY <1>1 DEF Owes
  <2>3. col[n] \in {0, 1} /\ B[c] \in Nat
    BY <1>1, <1>2, <1>4 DEF IsRb, RB_RED, RB_BLACK
  <2> QED
    BY <2>1, <2>2, <2>3, <1>2
<1>11. ASSUME NEW x \in L2, NEW d \in Dir
       PROVE  (ch[x][d] = n) <=> (x = q /\ d = e)
  <2>1. CASE n = r /\ q = NULL
    <3>1. ch[x][d] # n
      BY <2>1, <1>1, <1>t DEF LinkFacts
    <3> QED
      BY <3>1, <2>1, <1>1
  <2>2. CASE q \in L /\ e \in Dir /\ ch[q][e] = n
    BY <2>2, <1>1, <1>t DEF LinkFacts
  <2> QED
    BY <2>1, <2>2 DEF Above
<1>12. Balanced(ch2, col2, L2, B, hole, e)
  <2>1. ASSUME NEW x \in L2, NEW d \in Dir
        PROVE  B[x] = col2[x] + B[ch2[x][d]] + Owes(x, d, hole, e)
    <3>1. /\ B[x] = col[x] + B[ch[x][d]] + Owes(x, d, NULL, f) /\ Owes(x, d, NULL, f) = 0
          /\ col2[x] = col[x] /\ col[x] \in {0, 1} /\ B[ch[x][d]] \in Nat
      BY <1>c, <1>1, <1>2 DEF Owes, IsRb, RB_RED, RB_BLACK
    <3>2. CASE ch[x][d] = n
      <4>1. ch2[x][d] = c /\ B[c] = 0 /\ Owes(x, d, hole, e) = col[n]
        BY <1>c, <3>2, <1>1, <1>10, <1>11 DEF Owes, RB_BLACK
      <4> QED
        BY <4>1, <3>1, <3>2, <1>10
    <3>3. CASE ch[x][d] # n
      <4>1. ch2[x][d] = ch[x][d] /\ Owes(x, d, hole, e) = 0
        BY <1>c, <3>3, <1>1, <1>11 DEF Owes
      <4> QED
        BY <4>1, <3>1
    <3> QED
      BY <3>2, <3>3
  <2> QED
    BY <2>1, <1>2 DEF Balanced
<1>13. /\ r \in L => col[r] = RB_BLACK
       /\ \A x \in L, d \in Dir :
            ch[x][d] \in L /\ col[x] = RB_RED => col[ch[x][d]] = RB_BLACK
  BY DEF IsRb, RedsApart
<1>14. RedsApart(ch2, r2, col2, L2, {c})
  <2>1. r2 \in L2 \ {c} => col2[r2] = RB_BLACK
    BY <1>c, <1>13
  <2>2. ASSUME NEW x \in L2, NEW d \in Dir, ch2[x][d] \in L2 \ {c}, col2[x] = RB_RED
        PROVE  col2[ch2[x][d]] = RB_BLACK
    <3>1. ch2[x][d] = ch[x][d]
      BY <1>c, <2>2
    <3> QED
      BY <1>c, <3>1, <2>2, <1>13
  <2> QED
    BY <2>1, <2>2 DEF RedsApart
<1>15. ASSUME col[n] = RB_RED PROVE c = NULL
  <2>1. ASSUME c \in L PROVE FALSE
    <3>1. col[c] = 1
      BY <1>k, <2>1, <1>4, <1>13, <1>15 DEF RB_BLACK
    <3>2. B[c] = col[c] + B[ch[c][k]] + Owes(c, k, NULL, f) /\ Owes(c, k, NULL, f) = 0 /\ B[ch[c][k]] \in Nat
      BY <2>1, <1>1, <1>2 DEF Owes
    <3> QED
      BY <3>1, <3>2, <1>10
  <2> QED
    BY <2>1, <1>4
<1>16. \A x \in L2 : col2[x] \in {RB_RED, RB_BLACK}
  BY <1>c DEF IsRb
<1>17. IsRb(ch2, r2, col2, L2, D2, B, hole, e, {c})
  BY <1>9, <1>12, <1>14, <1>16 DEF IsRb
<1> QED
  BY <1>15, <1>17 DEF D2, hole

\* The key of s fits in the place of n.
Fits(ch, L, D, n, s) ==
  /\ \A x \in L \ {n}, d \in Dir : n \in D[ch[x][d]] => Before(d, s, x)
  /\ \A d \in Dir : \A m \in D[ch[n][d]] : Before(d, m, s)

\* s has the links of n, and links to n lead to s.
Replaces(ch, r, ch2, r2, L, n, s) ==
  /\ r2 = IF r = n THEN s ELSE r
  /\ \A d \in Dir : ch2[s][d] = ch[n][d]
  /\ \A x \in L \ {n}, d \in Dir : ch2[x][d] = IF ch[x][d] = n THEN s ELSE ch[x][d]

Renamed(q, n, s) == IF q = n THEN s ELSE q

\* Another node s, with a key that fits there, in the place of node n.
LEMMA ReplaceNode ==
  ASSUME NEW L \in SUBSET Node, NEW ch, NEW r, NEW col, NEW D, NEW B, NEW q, NEW e, NEW c,
         IsRb(ch, r, col, L, D, B, q, e, {c}),
         NEW n \in L, NEW s \in Node, s \notin L, q # s, c # n,
         Fits(ch, L, D, n, s),
         NEW ch2, NEW r2, Replaces(ch, r, ch2, r2, L, n, s),
         NEW col2, SameOn(col, col2, L \ {n}), col2[s] = col[n]
  PROVE  SomeRb(ch2, r2, col2, (L \ {n}) \cup {s}, Renamed(q, n, s), e, {c})
<1> DEFINE L2 == (L \ {n}) \cup {s}
           Swap(S) == IF n \in S THEN (S \ {n}) \cup {s} ELSE S
           D2 == [x \in Ptr |-> IF x = s THEN Swap(D[n]) ELSE Swap(D[x])]
           B2 == [x \in Ptr |-> IF x = s THEN B[n] ELSE B[x]]
           q2 == Renamed(q, n, s)
<1>c. /\ \A x \in L \ {n}, d \in Dir : n \in D[ch[x][d]] => Before(d, s, x)
      /\ \A d \in Dir : \A m \in D[ch[n][d]] : Before(d, m, s)
      /\ r2 = IF r = n THEN s ELSE r
      /\ \A d \in Dir : ch2[s][d] = ch[n][d]
      /\ \A x \in L \ {n}, d \in Dir : ch2[x][d] = IF ch[x][d] = n THEN s ELSE ch[x][d]
      /\ \A x \in L \ {n} : col2[x] = col[x]
      /\ q2 = IF q = n THEN s ELSE q
  BY DEF Fits, Replaces, SameOn, Renamed
<1> HIDE DEF q2
<1>0. IsTree(ch, r, L, D)
  BY DEF IsRb
<1>t. LinkFacts(ch, r, L, D)
  BY <1>0, TreeLinks
<1>1. /\ \A x \in L, d \in Dir : ch[x][d] \in L \cup {NULL}
      /\ L \cup {NULL} \subseteq Ptr /\ NULL \notin L
  BY <1>0, NullAssumption DEF IsTree, Ptr
<1>2. /\ B \in [Ptr -> Nat] /\ B[NULL] = 0
      /\ \A x \in L, d \in Dir : B[x] = col[x] + B[ch[x][d]] + Owes(x, d, q, e)
  BY DEF IsRb, Balanced
<1>3. /\ D \in [Ptr -> SUBSET L] /\ D[NULL] = {} /\ r \in L \cup {NULL} /\ D[r] = L
      /\ \A x \in L : D[x] = {x} \cup D[ch[x][RB_LEFT]] \cup D[ch[x][RB_RIGHT]]
      /\ \A x \in L, d \in Dir : \A m \in D[ch[x][d]] : Before(d, m, x)
  BY <1>0 DEF IsTree
<1>4. /\ s # NULL /\ s \in Ptr /\ n \in Ptr /\ n # NULL
      /\ \A S \in SUBSET L : Swap(S) \in SUBSET L2
  BY NullAssumption DEF Ptr
<1>5. /\ D2 \in [Ptr -> SUBSET L2] /\ D2[s] = Swap(D[n])
      /\ \A x \in Ptr \ {s} : D2[x] = Swap(D[x])
      /\ B2 \in [Ptr -> Nat] /\ B2[s] = B[n]
      /\ \A x \in Ptr \ {s} : B2[x] = B[x]
  <2>1. \A x \in Ptr : Swap(D[x]) \in SUBSET L2
    <3> HIDE DEF Swap, L2
    <3> QED
      BY <1>3, <1>4
  <2> HIDE DEF Swap, L2
  <2> QED
    BY <2>1, <1>2, <1>4
<1>6. /\ n \in D[n]
      /\ \A d \in Dir : n \notin D[ch[n][d]] /\ ch[n][d] # n
  BY <1>t DEF LinkFacts
<1> HIDE DEF D2, B2
<1>7. D2[NULL] = {} /\ B2[NULL] = 0 /\ r2 \in L2 \cup {NULL} /\ D2[r2] = L2
  <2>1. Swap(L) = L2
    OBVIOUS
  <2>2. D2[NULL] = Swap(D[NULL]) /\ Swap({}) = {} /\ B2[NULL] = B[NULL]
    BY <1>1, <1>4, <1>5
  <2>3. D2[r2] = L2
    <3>1. CASE r = n
      BY <1>c, <3>1, <2>1, <1>3, <1>5
    <3>2. CASE r # n
      <4>1. r2 = r /\ r \in Ptr \ {s}
        BY <1>c, <3>2, <1>1, <1>3, <1>4
      <4> QED
        BY <4>1, <2>1, <1>3, <1>5
    <3> QED
      BY <3>1, <3>2
  <2> QED
    BY <1>c, <2>2, <2>3, <1>2, <1>3
<1>8. ASSUME NEW x \in L \ {n}, NEW d \in Dir
      PROVE  /\ ch2[x][d] \in L2 \cup {NULL}
             /\ D2[ch2[x][d]] = Swap(D[ch[x][d]])
             /\ B2[ch2[x][d]] = B[ch[x][d]]
  <2>1. CASE ch[x][d] = n
    BY <1>c, <2>1, <1>5
  <2>2. CASE ch[x][d] # n
    <3>1. ch2[x][d] = ch[x][d] /\ ch[x][d] \in L \cup {NULL} /\ ch[x][d] # s
      BY <1>c, <2>2, <1>1, <1>4
    <3> QED
      BY <3>1, <2>2, <1>1, <1>5
  <2> QED
    BY <2>1, <2>2
<1>9. ASSUME NEW d \in Dir
      PROVE  /\ ch2[s][d] \in L2 \cup {NULL}
             /\ D2[ch2[s][d]] = D[ch[n][d]]
             /\ B2[ch2[s][d]] = B[ch[n][d]]
  <2>1. ch2[s][d] = ch[n][d] /\ ch[n][d] \in (L \ {n}) \cup {NULL} /\ ch[n][d] # s
    BY <1>c, <1>1, <1>4, <1>6
  <2>2. D2[ch[n][d]] = Swap(D[ch[n][d]]) /\ B2[ch[n][d]] = B[ch[n][d]]
    BY <2>1, <1>1, <1>5
  <2> QED
    BY <2>1, <2>2, <1>6
<1>10. IsTree(ch2, r2, L2, D2)
  <2>1. ASSUME NEW x \in L2
        PROVE  /\ \A d \in Dir : ch2[x][d] \in L2 \cup {NULL}
               /\ D2[x] = {x} \cup D2[ch2[x][RB_LEFT]] \cup D2[ch2[x][RB_RIGHT]]
               /\ \A d \in Dir : \A m \in D2[ch2[x][d]] : Before(d, m, x)
    <3>0. RB_LEFT \in Dir /\ RB_RIGHT \in Dir
      BY DEF Dir
    <3>1. CASE x = s
      <4>1. D2[s] = (D[n] \ {n}) \cup {s}
        BY <1>5, <1>6
      <4>2. D[n] = {n} \cup D[ch[n][RB_LEFT]] \cup D[ch[n][RB_RIGHT]]
        BY <1>3
      <4>3. D2[x] = {x} \cup D2[ch2[x][RB_LEFT]] \cup D2[ch2[x][RB_RIGHT]]
        BY <4>1, <4>2, <3>0, <3>1, <1>6, <1>9
      <4> QED
        BY <1>c, <4>3, <3>1, <1>9
    <3>2. CASE x # s
      <4>0. x \in L \ {n}
        BY <3>2
      <4>1. D[x] = {x} \cup D[ch[x][RB_LEFT]] \cup D[ch[x][RB_RIGHT]] /\ D2[x] = Swap(D[x])
        BY <4>0, <3>2, <1>1, <1>3, <1>5
      <4>2. Swap({x} \cup D[ch[x][RB_LEFT]] \cup D[ch[x][RB_RIGHT]])
              = {x} \cup Swap(D[ch[x][RB_LEFT]]) \cup Swap(D[ch[x][RB_RIGHT]])
        BY <4>0
      <4>3. D2[x] = {x} \cup D2[ch2[x][RB_LEFT]] \cup D2[ch2[x][RB_RIGHT]]
        <5> HIDE DEF Swap
        <5> QED
          BY <4>0, <4>1, <4>2, <3>0, <1>8
      <4>4. ASSUME NEW d \in Dir, NEW m \in D2[ch2[x][d]] PROVE Before(d, m, x)
        <5>1. m \in Swap(D[ch[x][d]])
          BY <4>0, <4>4, <1>8
        <5>2. m \in D[ch[x][d]] \/ (m = s /\ n \in D[ch[x][d]])
          BY <5>1
        <5> QED
          BY <1>c, <5>2, <4>0, <1>3
      <4> QED
        BY <4>0, <4>3, <4>4, <1>8
    <3> QED
      BY <3>1, <3>2
  <2> QED
    BY <2>1, <1>5, <1>7 DEF IsTree
<1>11. Balanced(ch2, col2, L2, B2, q2, e)
  <2>1. ASSUME NEW x \in L2, NEW d \in Dir
        PROVE  B2[x] = col2[x] + B2[ch2[x][d]] + Owes(x, d, q2, e)
    <3>1. CASE x = s
      <4>1. B[n] = col[n] + B[ch[n][d]] + Owes(n, d, q, e)
        BY <1>2
      <4>2. Owes(n, d, q, e) = Owes(s, d, q2, e)
        BY <1>c, <1>4 DEF Owes
      <4> QED
        BY <4>1, <4>2, <3>1, <1>5, <1>9
    <3>2. CASE x # s
      <4>0. x \in L \ {n}
        BY <3>2
      <4>1. B[x] = col[x] + B[ch[x][d]] + Owes(x, d, q, e)
        BY <4>0, <1>2
      <4>2. Owes(x, d, q, e) = Owes(x, d, q2, e)
        BY <1>c, <4>0, <3>2 DEF Owes
      <4>3. B2[x] = B[x] /\ col2[x] = col[x] /\ B2[ch2[x][d]] = B[ch[x][d]]
        BY <1>c, <4>0, <3>2, <1>1, <1>5, <1>8
      <4> QED
        BY <4>1, <4>2, <4>3
    <3> QED
      BY <3>1, <3>2
  <2> QED
    BY <2>1, <1>5, <1>7 DEF Balanced
<1>12. RedsApart(ch2, r2, col2, L2, {c})
  <2>0. /\ r \in L \ {c} => col[r] = RB_BLACK
        /\ \A x \in L, d \in Dir :
             ch[x][d] \in L \ {c} /\ col[x] = RB_RED => col[ch[x][d]] = RB_BLACK
    BY DEF IsRb, RedsApart
  <2>1. r2 \in L2 \ {c} => col2[r2] = RB_BLACK
    BY <1>c, <2>0, <1>3, <1>4
  <2>2. ASSUME NEW x \in L2, NEW d \in Dir, ch2[x][d] \in L2 \ {c}, col2[x] = RB_RED
        PROVE  col2[ch2[x][d]] = RB_BLACK
    <3>1. CASE x = s
      <4>1. ch2[s][d] = ch[n][d] /\ ch[n][d] # n /\ ch[n][d] \in L \cup {NULL} /\ col[n] = RB_RED
        BY <1>c, <3>1, <2>2, <1>1, <1>6
      <4>2. ch[n][d] \in L \ {n}
        BY <4>1, <3>1, <2>2, <1>4, <1>1
      <4> QED
        BY <1>c, <4>1, <4>2, <3>1, <2>0, <2>2
    <3>2. CASE x # s
      <4>0. x \in L \ {n} /\ col[x] = RB_RED
        BY <1>c, <3>2, <2>2
      <4>1. CASE ch[x][d] = n
        BY <1>c, <4>0, <4>1, <2>0
      <4>2. CASE ch[x][d] # n
        <5>1. ch2[x][d] = ch[x][d] /\ ch[x][d] \in L \ {n} /\ ch[x][d] # c
          BY <1>c, <4>0, <4>2, <2>2, <1>1, <1>4
        <5> QED
          BY <1>c, <5>1, <4>0, <2>0
      <4> QED
        BY <4>1, <4>2
    <3> QED
      BY <3>1, <3>2
  <2> QED
    BY <2>1, <2>2 DEF RedsApart
<1>13. \A x \in L2 : col2[x] \in {RB_RED, RB_BLACK}
  BY <1>c DEF IsRb
<1>14. IsRb(ch2, r2, col2, L2, D2, B2, q2, e, {c})
  BY <1>10, <1>11, <1>12, <1>13 DEF IsRb
<1> QED
  BY <1>14 DEF SomeRb, q2

\* Links to n lead to s, links to s to c, and s has the links of n.
Transplants(ch, r, ch2, r2, L, n, s, c) ==
  /\ r2 = IF r = n THEN s ELSE r
  /\ \A d \in Dir : ch2[s][d] = IF ch[n][d] = s THEN c ELSE ch[n][d]
  /\ \A x \in L \ {n, s}, d \in Dir :
       ch2[x][d] = IF ch[x][d] = n THEN s ELSE IF ch[x][d] = s THEN c ELSE ch[x][d]

\* s is the leftmost node below the right child of n, and c its right child.
Follows(ch, D, n, s, c) ==
  /\ s \in D[ch[n][RB_RIGHT]]
  /\ ch[s][RB_LEFT] = NULL /\ ch[s][RB_RIGHT] = c
  /\ \A m \in D[ch[n][RB_RIGHT]] : m = s \/ Val[s] < Val[m]

\* The link e of q leads to s.
LinkTo(ch, L, q, e, s) == q \in L /\ e \in Dir /\ ch[q][e] = s

\* s has the colour of n, and the others keep theirs.
Recolors(col, col2, L, n, s) == SameOn(col, col2, L \ {n, s}) /\ col2[s] = col[n]

\* Without node n, whose place its successor s takes; the place of s is taken
\* by its only child c, or NULL.
LEMMA RemoveTwo ==
  ASSUME NEW L \in SUBSET Node, NEW ch, NEW r, NEW col, NEW D, NEW B, NEW f,
         IsRb(ch, r, col, L, D, B, NULL, f, {}),
         NEW n \in L, NEW s, NEW c, Follows(ch, D, n, s, c),
         NEW q, NEW e, LinkTo(ch, L, q, e, s),
         NEW ch2, NEW r2, Transplants(ch, r, ch2, r2, L, n, s, c),
         NEW col2, Recolors(col, col2, L, n, s)
  PROVE  /\ SomeRb(ch2, r2, col2, L \ {n}, Debt(col, s, Renamed(q, n, s)), e, {c})
         /\ col[s] = RB_RED => c = NULL
<1> DEFINE ch1 == [x \in Node |-> [d \in Dir |-> IF ch[x][d] = s THEN c ELSE ch[x][d]]]
           D1 == Without(D, s)
           L1 == L \ {s}
           hole == Debt(col, s, q)
<1>s. /\ s \in D[ch[n][RB_RIGHT]] /\ ch[s][RB_LEFT] = NULL /\ ch[s][RB_RIGHT] = c
      /\ \A m \in D[ch[n][RB_RIGHT]] : m = s \/ Val[s] < Val[m]
  BY DEF Follows
<1>q. q \in L /\ e \in Dir /\ ch[q][e] = s /\ col2[s] = col[n]
  BY DEF LinkTo, Recolors
<1>c. /\ r2 = IF r = n THEN s ELSE r
      /\ \A d \in Dir : ch2[s][d] = IF ch[n][d] = s THEN c ELSE ch[n][d]
      /\ \A x \in L \ {n, s}, d \in Dir :
           ch2[x][d] = IF ch[x][d] = n THEN s ELSE IF ch[x][d] = s THEN c ELSE ch[x][d]
      /\ \A x \in L \ {n, s} : col2[x] = col[x]
  BY DEF Transplants, Recolors, SameOn
<1>0. IsTree(ch, r, L, D)
  BY DEF IsRb
<1>t. LinkFacts(ch, r, L, D)
  BY <1>0, TreeLinks
<1>1. /\ \A x \in L, d \in Dir : ch[x][d] \in L \cup {NULL}
      /\ L \cup {NULL} \subseteq Ptr /\ NULL \notin L
  BY <1>0, NullAssumption DEF IsTree, Ptr
<1>2. /\ B \in [Ptr -> Nat] /\ B[NULL] = 0
      /\ \A x \in L, d \in Dir : B[x] = col[x] + B[ch[x][d]] + Owes(x, d, NULL, f)
  BY DEF IsRb, Balanced
<1>3. /\ D \in [Ptr -> SUBSET L] /\ D[NULL] = {} /\ r \in L \cup {NULL} /\ D[r] = L
      /\ \A x \in L : D[x] = {x} \cup D[ch[x][RB_LEFT]] \cup D[ch[x][RB_RIGHT]]
      /\ \A x \in L, d \in Dir : \A m \in D[ch[x][d]] : Before(d, m, x)
  BY <1>0 DEF IsTree
<1>4. /\ RB_LEFT \in Dir /\ RB_RIGHT \in Dir /\ RB_LEFT # RB_RIGHT
      /\ Opp(RB_LEFT) = RB_RIGHT
  BY DEF Dir, Opp, RB_LEFT, RB_RIGHT
<1>5. s \in L /\ s # n /\ r # s /\ q # s
  <2>1. D[ch[n][RB_RIGHT]] \subseteq L
    BY <1>1, <1>3, <1>4
  <2>2. s \in L /\ n \notin D[ch[n][RB_RIGHT]]
    BY <1>s, <2>1, <1>4, <1>t DEF LinkFacts
  <2> QED
    BY <1>q, <1>s, <2>2, <1>1, <1>t DEF LinkFacts
<1>6. c # n
  <2>1. D[s] \subseteq D[ch[n][RB_RIGHT]]
    <3>1. ch[n][RB_RIGHT] \in L
      BY <1>s, <1>1, <1>3, <1>4
    <3> QED
      BY <1>s, <3>1, <1>0, Nested
  <2>2. D[c] \subseteq D[s] /\ n \notin D[ch[n][RB_RIGHT]] /\ n \in D[n]
    BY <1>s, <1>4, <1>5, <1>t DEF LinkFacts
  <2> QED
    BY <2>1, <2>2
<1>7. Above(ch, r, L, s, q, e)
  BY <1>q DEF Above
<1>8. \A x \in L, d \in Dir : ch1[x][d] = IF ch[x][d] = s THEN c ELSE ch[x][d]
  OBVIOUS
<1> HIDE DEF ch1
<1>9. /\ IsRb(ch1, r, col, L1, D1, B, hole, e, {c})
      /\ col[s] = RB_RED => c = NULL
  <2>1. OnlyChild(ch, s, c)
    BY <1>s, <1>4 DEF OnlyChild
  <2>2. Splices(ch, r, ch1, r, L, s, c)
    BY <1>5, <1>8 DEF Splices
  <2>3. SameOn(col, col, L \ {s})
    BY DEF SameOn
  <2> HIDE DEF D1, L1, hole
  <2>4. /\ IsRb(ch1, r, col, L \ {s}, Without(D, s), B, Debt(col, s, q), e, {c})
        /\ col[s] = RB_RED => c = NULL
    BY <2>1, <2>2, <2>3, <1>4, <1>5, <1>7, RemoveOne
  <2> QED
    BY <2>4 DEF D1, L1, hole
<1>10. \A x \in Ptr : D1[x] = D[x] \ {s}
  BY DEF Without
<1> HIDE DEF D1
<1>11. IsTree(ch1, r, L1, D1)
  BY <1>9 DEF IsRb
<1>12. ASSUME NEW x \in L1, NEW d \in Dir
       PROVE  D1[ch1[x][d]] \subseteq D[ch[x][d]] \ {s}
  <2>1. CASE ch[x][d] = s
    <3>1. ch1[x][d] = c /\ c \in L \cup {NULL}
      BY <1>s, <2>1, <1>1, <1>4, <1>5, <1>8
    <3>2. D1[c] = D[c] \ {s}
      BY <3>1, <1>1, <1>10
    <3>3. D[c] \subseteq D[s]
      BY <1>s, <1>4, <1>5, <1>t DEF LinkFacts
    <3> QED
      BY <3>1, <3>2, <3>3, <2>1
  <2>2. CASE ch[x][d] # s
    <3>1. ch1[x][d] = ch[x][d] /\ ch[x][d] \in Ptr
      BY <2>2, <1>1, <1>8
    <3> QED
      BY <3>1, <1>10
  <2> QED
    BY <2>1, <2>2
<1>13. ASSUME NEW x \in L1 \ {n}, NEW d \in Dir, n \in D1[ch1[x][d]] PROVE Before(d, s, x)
  <2>1. n \in D[ch[x][d]] /\ ch[x][d] \in L
    <3>1. x \in L1 /\ x \in L
      OBVIOUS
    <3>2. n \in D[ch[x][d]]
      BY <3>1, <1>12, <1>13
    <3> QED
      BY <3>1, <3>2, <1>1, <1>3
  <2>2. D[n] \subseteq D[ch[x][d]]
    BY <2>1, <1>0, Nested
  <2>3. D[ch[n][RB_RIGHT]] \subseteq D[n]
    BY <1>4, <1>t DEF LinkFacts
  <2> QED
    BY <1>s, <2>2, <2>3, <1>3
<1>14. ASSUME NEW d \in Dir, NEW m \in D1[ch1[n][d]] PROVE Before(d, m, s)
  <2>0. n \in L1
    BY <1>5
  <2>1. m \in D[ch[n][d]] /\ m # s /\ m \in L
    BY <2>0, <1>1, <1>3, <1>12, <1>14
  <2>2. CASE d = RB_RIGHT
    BY <1>s, <2>1, <2>2, <1>4 DEF Before
  <2>3. CASE d = RB_LEFT
    <3>1. Before(RB_LEFT, m, n) /\ Before(RB_RIGHT, s, n)
      BY <1>s, <2>1, <2>3, <1>3, <1>4
    <3>2. Val[m] \in Int /\ Val[n] \in Int /\ Val[s] \in Int
      BY <2>1, <1>5, ValAssumption
    <3> QED
      BY <3>1, <3>2, <2>3, <1>4 DEF Before
  <2> QED
    BY <2>2, <2>3 DEF Dir
<1>15. ASSUME NEW d \in Dir PROVE ch2[s][d] = ch1[n][d]
  BY <1>c, <1>8
<1>16. ASSUME NEW x \in L1 \ {n}, NEW d \in Dir
       PROVE  ch2[x][d] = IF ch1[x][d] = n THEN s ELSE ch1[x][d]
  BY <1>c, <1>5, <1>6, <1>8
<1>17. SomeRb(ch2, r2, col2, (L1 \ {n}) \cup {s}, Renamed(hole, n, s), e, {c})
  <2>1. n \in L1 /\ s \in Node /\ s \notin L1 /\ hole # s /\ L1 \in SUBSET Node
    BY <1>1, <1>5 DEF Debt
  <2>2. SameOn(col, col2, L1 \ {n}) /\ col2[s] = col[n]
    BY <1>q, <1>c DEF SameOn
  <2>3. Fits(ch1, L1, D1, n, s)
    BY <1>13, <1>14 DEF Fits
  <2>4. Replaces(ch1, r, ch2, r2, L1, n, s)
    BY <1>c, <1>15, <1>16 DEF Replaces
  <2> HIDE DEF hole, L1
  <2> QED
    BY <2>1, <2>2, <2>3, <2>4, <1>6, <1>9, ReplaceNode
<1>18. (L1 \ {n}) \cup {s} = L \ {n}
  BY <1>5
<1>19. Renamed(hole, n, s) = Debt(col, s, Renamed(q, n, s))
  BY <1>1 DEF Renamed, Debt
<1> QED
  BY <1>9, <1>17, <1>18, <1>19

-----------------------------------------------------------------------------
(* Small steps.                                                            *)

\* More nodes may be excused, and a black owed nowhere has no side.
LEMMA Excuse ==
  ASSUME NEW L \in SUBSET Node, NEW ch, NEW r, NEW col, NEW q, NEW e, NEW X, NEW Y,
         SomeRb(ch, r, col, L, q, e, X), X \cap L \subseteq Y
  PROVE  SomeRb(ch, r, col, L, q, e, Y)
<1>1. PICK D, B : IsRb(ch, r, col, L, D, B, q, e, X)
  BY DEF SomeRb
<1>2. RedsApart(ch, r, col, L, Y)
  BY <1>1 DEF IsRb, RedsApart
<1>3. IsRb(ch, r, col, L, D, B, q, e, Y)
  BY <1>1, <1>2 DEF IsRb
<1> QED
  BY <1>3 DEF SomeRb

\* With no debt the side of the debt is immaterial.
LEMMA OwedNowhere ==
  ASSUME NEW L \in SUBSET Node, NEW ch, NEW r, NEW col, NEW D, NEW B, NEW e, NEW X, NEW f,
         IsRb(ch, r, col, L, D, B, NULL, e, X)
  PROVE  IsRb(ch, r, col, L, D, B, NULL, f, X)
<1>1. \A n \in L, d \in Dir : Owes(n, d, NULL, e) = 0 /\ Owes(n, d, NULL, f) = 0
  BY NullAssumption DEF Owes
<1>2. Balanced(ch, col, L, B, NULL, f)
  BY <1>1 DEF IsRb, Balanced
<1> QED
  BY <1>2 DEF IsRb

\* What the nodes outside the tree hold does not matter.
LEMMA OthersFree ==
  ASSUME NEW L \in SUBSET Node, NEW ch, NEW r, NEW col, NEW q, NEW e, NEW X,
         SomeRb(ch, r, col, L, q, e, X),
         NEW ch2, NEW col2, SameOn(ch, ch2, L), SameOn(col, col2, L)
  PROVE  SomeRb(ch2, r, col2, L, q, e, X)
<1>1. PICK D, B : IsRb(ch, r, col, L, D, B, q, e, X)
  BY DEF SomeRb
<1>2. \A x \in L : ch2[x] = ch[x] /\ col2[x] = col[x]
  BY DEF SameOn
<1>3. IsTree(ch2, r, L, D)
  BY <1>1, <1>2 DEF IsRb, IsTree
<1>4. Balanced(ch2, col2, L, B, q, e)
  BY <1>1, <1>2 DEF IsRb, Balanced
<1>5. RedsApart(ch2, r, col2, L, X)
  BY <1>1, <1>2 DEF IsRb, RedsApart
<1>6. IsRb(ch2, r, col2, L, D, B, q, e, X)
  BY <1>1, <1>2, <1>3, <1>4, <1>5 DEF IsRb
<1> QED
  BY <1>6 DEF SomeRb

\* Reds excused at a black node and just below it are in order.
LEMMA NoReds ==
  ASSUME NEW L \in SUBSET Node, NEW ch, NEW r, NEW col, NEW D, NEW B, NEW q, NEW e, NEW X,
         IsRb(ch, r, col, L, D, B, q, e, X),
         NEW n \in L, col[n] = RB_BLACK, X \subseteq {n} \cup {ch[n][d] : d \in Dir}
  PROVE  IsRb(ch, r, col, L, D, B, q, e, {})
<1>1. Paints(col, col, L, n, RB_BLACK)
  BY DEF Paints
<1>2. IsTree(ch, r, L, D) /\ RedsApart(ch, r, col, L, X)
  BY DEF IsRb
<1>3. RedsApart(ch, r, col, L, {})
  BY <1>1, <1>2, PaintReds
<1> QED
  BY <1>3 DEF IsRb

\* A node that owes a black on one side has a child on the other: the side
\* is known by its child, even when that is NULL.
LEMMA HoleSide ==
  ASSUME NEW L \in SUBSET Node, NEW ch, NEW r, NEW col, NEW D, NEW B,
         NEW q \in L, NEW e \in Dir, NEW X, IsRb(ch, r, col, L, D, B, q, e, X)
  PROVE  /\ ch[q][Opp(e)] \in L
         /\ ch[q][Opp(e)] # ch[q][e]
         /\ B[ch[q][Opp(e)]] = B[ch[q][e]] + 1
<1>1. Opp(e) \in Dir /\ Opp(e) # e
  BY DEF Opp, Dir, RB_LEFT, RB_RIGHT
<1>2. ch[q][e] \in L \cup {NULL} /\ ch[q][Opp(e)] \in L \cup {NULL}
  BY <1>1 DEF IsRb, IsTree
<1>3. /\ B[q] = col[q] + B[ch[q][e]] + 1
      /\ B[q] = col[q] + B[ch[q][Opp(e)]] + 0
  BY <1>1 DEF IsRb, Balanced, Owes
<1>4. B[ch[q][e]] \in Nat /\ B[ch[q][Opp(e)]] \in Nat /\ B[NULL] = 0 /\ col[q] \in Int
  BY <1>2 DEF IsRb, Balanced, Ptr, RB_RED, RB_BLACK
<1>5. B[ch[q][Opp(e)]] = B[ch[q][e]] + 1
  BY <1>3, <1>4
<1> QED
  BY <1>2, <1>4, <1>5

\* So has a red node on the side that owes nothing: both children, or none.
LEMMA RedHeight ==
  ASSUME NEW L \in SUBSET Node, NEW ch, NEW r, NEW col, NEW D, NEW B, NEW q, NEW e, NEW X,
         IsRb(ch, r, col, L, D, B, q, e, X),
         NEW n \in L, n # q, col[n] = RB_RED, B[n] > 0, NEW d \in Dir
  PROVE  ch[n][d] \in L
<1>1. ch[n][d] \in L \cup {NULL}
  BY DEF IsRb, IsTree
<1>2. B[n] = col[n] + B[ch[n][d]] + 0
  BY DEF IsRb, Balanced, Owes
<1>3. B[ch[n][d]] \in Nat /\ B[NULL] = 0
  BY <1>1 DEF IsRb, Balanced, Ptr
<1> QED
  BY <1>1, <1>2, <1>3 DEF RB_RED

-----------------------------------------------------------------------------
(* The way up.                                                             *)

\* n and the nodes above it.
UpSet(L, D, n) == {a \in L : n \in D[a]}

\* The nodes above a node are its parent and the nodes above that.
LEMMA UpSetStep ==
  ASSUME NEW L \in SUBSET Node, NEW ch, NEW r, NEW D, IsTree(ch, r, L, D),
         NEW n \in L, NEW p \in L, NEW d \in Dir, ch[p][d] = n
  PROVE  UpSet(L, D, n) = {n} \cup UpSet(L, D, p) /\ n \notin UpSet(L, D, p)
<1>1. n \in D[n]
  BY BelowNode
<1>2. D[n] \subseteq D[p] /\ D[n] # D[p] /\ p \notin D[n]
  BY ChildBelow
<1>3. ASSUME NEW a \in L, n \in D[a], a # n PROVE p \in D[a]
  BY <1>3, ParentIn
<1>4. ASSUME NEW a \in L, p \in D[a] PROVE n \in D[a]
  <2>1. D[p] \subseteq D[a]
    BY <1>4, Nested
  <2> QED
    BY <2>1, <1>1, <1>2
<1> QED
  BY <1>1, <1>2, <1>3, <1>4 DEF UpSet

\* Nothing is above the root.
LEMMA UpSetRoot ==
  ASSUME NEW L \in SUBSET Node, NEW ch, NEW r, NEW D, IsTree(ch, r, L, D), r # NULL
  PROVE  UpSet(L, D, r) = {r}
<1>1. r \in L /\ D[r] = L
  BY DEF IsTree
<1>2. ASSUME NEW a \in L, r \in D[a], a # r PROVE FALSE
  <2>1. PICK d \in Dir : r \in D[ch[a][d]] /\ ch[a][d] \in L
    BY <1>1, <1>2, BelowChild
  <2>2. D[r] \subseteq D[ch[a][d]]
    BY <2>1, Nested
  <2>3. a \notin D[ch[a][d]]
    BY ChildBelow
  <2> QED
    BY <2>2, <2>3, <1>1
<1> QED
  BY <1>1, <1>2 DEF UpSet

\* On the way up from n, the link where a black is owed is passed.
Passed(ch, L, D, q, e, n) == IF q \in L /\ n \in D[ch[q][e]] THEN 1 ELSE 0

\* The black nodes from n up.
BlacksUp(col, L, D, n) == Cardinality({a \in UpSet(L, D, n) : col[a] = RB_BLACK})

\* What is above node n and what is below it make up the height of the tree.
Even(ch, r, col, L, D, B, q, e, n) ==
  BlacksUp(col, L, D, n) + Passed(ch, L, D, q, e, n) + B[n] = B[r] + col[n]

\* Going up one link.
LEMMA BlacksUpStep ==
  ASSUME NEW L \in SUBSET Node, NEW ch, NEW r, NEW D, IsTree(ch, r, L, D), NEW col,
         \A x \in L : col[x] \in {RB_RED, RB_BLACK},
         NEW n \in L, NEW p \in L, NEW d \in Dir, ch[p][d] = n
  PROVE  /\ BlacksUp(col, L, D, p) \in Nat
         /\ BlacksUp(col, L, D, n) = BlacksUp(col, L, D, p) + col[n]
<1> DEFINE S == {a \in UpSet(L, D, p) : col[a] = RB_BLACK}
           T == {a \in UpSet(L, D, n) : col[a] = RB_BLACK}
<1>1. IsFiniteSet(S)
  <2>1. S \subseteq Node
    BY DEF UpSet
  <2> HIDE DEF S
  <2> QED
    BY <2>1, NodeAssumption, FS_Subset
<1>2. UpSet(L, D, n) = {n} \cup UpSet(L, D, p) /\ n \notin UpSet(L, D, p)
  BY UpSetStep
<1>3. CASE col[n] = RB_BLACK
  <2>1. T = S \cup {n} /\ n \notin S
    BY <1>2, <1>3
  <2> HIDE DEF S, T
  <2>2. Cardinality(T) = Cardinality(S) + 1 /\ Cardinality(S) \in Nat
    BY <1>1, <2>1, FS_AddElement, FS_CardinalityType
  <2> QED
    BY <2>2, <1>3 DEF S, T, BlacksUp, RB_BLACK
<1>4. CASE col[n] = RB_RED
  <2>1. T = S
    BY <1>2, <1>4 DEF RB_RED, RB_BLACK
  <2> HIDE DEF S, T
  <2>2. Cardinality(S) \in Nat
    BY <1>1, FS_CardinalityType
  <2> QED
    BY <2>1, <2>2, <1>4 DEF S, T, BlacksUp, RB_RED
<1> QED
  BY <1>3, <1>4

\* The debt is passed at its link and remains passed further down.
LEMMA PassedStep ==
  ASSUME NEW L \in SUBSET Node, NEW ch, NEW r, NEW D, IsTree(ch, r, L, D),
         NEW n \in L, NEW p \in L, NEW d \in Dir, ch[p][d] = n,
         NEW q, NEW e, q \in L => e \in Dir
  PROVE  Passed(ch, L, D, q, e, n) = Passed(ch, L, D, q, e, p) + Owes(p, d, q, e)
<1>1. n \in D[n]
  BY BelowNode
<1>2. D[n] \subseteq D[p] /\ p \notin D[n]
  BY ChildBelow
<1>3. CASE q \notin L
  BY <1>3 DEF Passed, Owes
<1>4. CASE q \in L
  <2> DEFINE c == ch[q][e]
  <2>1. c \in L \cup {NULL} /\ D[NULL] = {}
    BY <1>4 DEF IsTree
  <2>2. CASE c = n
    <3>1. p = q /\ d = e
      <4>1. q \in L /\ e \in Dir /\ ch[p][d] = ch[q][e] /\ ch[p][d] # NULL
        BY <2>2, <1>4, NullAssumption
      <4> QED
        BY <4>1, OneParent
    <3> QED
      BY <3>1, <2>2, <1>1, <1>2, <1>4 DEF Passed, Owes
  <2>3. CASE c # n
    <3>1. ~(p = q /\ d = e)
      BY <2>3
    <3>2. n \in D[c] => p \in D[c]
      <4>1. ASSUME n \in D[c] PROVE p \in D[c]
        <5>1. c \in L
          BY <4>1, <2>1
        <5> HIDE DEF c
        <5> QED
          BY <5>1, <4>1, <2>3, ParentIn
      <4> QED
        BY <4>1
    <3>3. p \in D[c] => n \in D[c]
      <4>1. ASSUME p \in D[c] PROVE n \in D[c]
        <5>1. c \in L
          BY <4>1, <2>1
        <5> HIDE DEF c
        <5>2. D[p] \subseteq D[c]
          BY <5>1, <4>1, Nested
        <5> QED
          BY <5>2, <1>1, <1>2
      <4> QED
        BY <4>1
    <3> QED
      BY <3>1, <3>2, <3>3, <1>4 DEF Passed, Owes
  <2> QED
    BY <2>2, <2>3
<1> QED
  BY <1>3, <1>4

\* It does at every node.
LEMMA EvenHeights ==
  ASSUME NEW L \in SUBSET Node, NEW ch, NEW r, NEW col, NEW D, NEW B, NEW q, NEW e, NEW X,
         IsRb(ch, r, col, L, D, B, q, e, X), q \in L => e \in Dir, NEW n \in L
  PROVE  Even(ch, r, col, L, D, B, q, e, n)
<1>0. /\ IsTree(ch, r, L, D) /\ \A x \in L : col[x] \in {RB_RED, RB_BLACK}
      /\ Balanced(ch, col, L, B, q, e) /\ IsFiniteSet(L)
  BY NodeAssumption, FS_Subset DEF IsRb
<1>1. r \in L /\ r # NULL /\ D[r] = L
  BY <1>0, NullAssumption DEF IsTree
<1>2. Even(ch, r, col, L, D, B, q, e, r)
  <2>1. UpSet(L, D, r) = {r}
    BY <1>0, <1>1, UpSetRoot
  <2>2. BlacksUp(col, L, D, r) = col[r]
    <3>1. CASE col[r] = RB_BLACK
      <4>1. {a \in UpSet(L, D, r) : col[a] = RB_BLACK} = {r}
        BY <2>1, <3>1
      <4>2. Cardinality({r}) = 1
        BY FS_Singleton
      <4> QED
        BY <4>1, <4>2, <3>1 DEF BlacksUp, RB_BLACK
    <3>2. CASE col[r] = RB_RED
      <4>1. {a \in UpSet(L, D, r) : col[a] = RB_BLACK} = {}
        BY <2>1, <3>2 DEF RB_RED, RB_BLACK
      <4>2. Cardinality({}) = 0
        BY FS_EmptySet
      <4> QED
        BY <4>1, <4>2, <3>2 DEF BlacksUp, RB_RED
    <3> QED
      BY <3>1, <3>2, <1>0, <1>1
  <2>3. Passed(ch, L, D, q, e, r) = 0
    <3>1. ASSUME q \in L, r \in D[ch[q][e]] PROVE FALSE
      <4>1. ch[q][e] \in L \cup {NULL} /\ D[NULL] = {}
        BY <3>1, <1>0 DEF IsTree
      <4>2. ch[q][e] \in L
        BY <4>1, <3>1
      <4>3. ch[q][e] \in UpSet(L, D, r)
        BY <4>2, <3>1 DEF UpSet
      <4>4. ch[q][e] # r
        BY <3>1, <1>0, <1>1, RootOnTop
      <4> QED
        BY <4>3, <4>4, <2>1
    <3> QED
      BY <3>1 DEF Passed
  <2>4. B[r] \in Nat /\ col[r] \in Nat
    BY <1>0, <1>1 DEF Balanced, Ptr, RB_RED, RB_BLACK
  <2> QED
    BY <2>2, <2>3, <2>4 DEF Even
<1>3. ASSUME NEW x \in L, NEW p \in L, NEW d \in Dir, ch[p][d] = x,
             Even(ch, r, col, L, D, B, q, e, p)
      PROVE  Even(ch, r, col, L, D, B, q, e, x)
  <2>1. /\ BlacksUp(col, L, D, p) \in Nat
        /\ BlacksUp(col, L, D, x) = BlacksUp(col, L, D, p) + col[x]
    BY <1>0, <1>3, BlacksUpStep
  <2>2. Passed(ch, L, D, q, e, x) = Passed(ch, L, D, q, e, p) + Owes(p, d, q, e)
    BY <1>0, <1>3, PassedStep
  <2>3. B[p] = col[p] + B[x] + Owes(p, d, q, e)
    BY <1>0, <1>3 DEF Balanced
  <2>4. /\ B[p] \in Nat /\ B[x] \in Nat /\ B[r] \in Nat /\ col[p] \in Nat /\ col[x] \in Nat
        /\ Passed(ch, L, D, q, e, p) \in Nat /\ Owes(p, d, q, e) \in Nat
    BY <1>0, <1>1 DEF Balanced, Ptr, RB_RED, RB_BLACK, Passed, Owes
  <2>5. BlacksUp(col, L, D, p) + Passed(ch, L, D, q, e, p) + B[p] = B[r] + col[p]
    BY <1>3 DEF Even
  <2>6. BlacksUp(col, L, D, x) + Passed(ch, L, D, q, e, x) + B[x] = B[r] + col[x]
    <3> DEFINE b == BlacksUp(col, L, D, p)
               w == Passed(ch, L, D, q, e, p)
               o == Owes(p, d, q, e)
    <3> HIDE DEF b, w, o
    <3>1. /\ b \in Nat /\ w \in Nat /\ o \in Nat /\ b + w + (col[p] + B[x] + o) = B[r] + col[p]
          /\ B[x] \in Nat /\ B[r] \in Nat /\ col[p] \in Nat /\ col[x] \in Nat
      BY <2>1, <2>3, <2>4, <2>5 DEF b, w, o
    <3>2. (b + col[x]) + (w + o) + B[x] = B[r] + col[x]
      BY <3>1
    <3> QED
      BY <3>2, <2>1, <2>2 DEF b, w, o
  <2> QED
    BY <2>6 DEF Even
<1> DEFINE T == {UpSet(L, D, x) : x \in {y \in L : ~Even(ch, r, col, L, D, B, q, e, y)}}
<1> SUFFICES ASSUME ~Even(ch, r, col, L, D, B, q, e, n) PROVE FALSE
  OBVIOUS
<1>4. T # {} /\ T \subseteq SUBSET L
  BY DEF UpSet
<1>5. PICK s \in T : \A t \in T : t \subseteq s => t = s
  <2> HIDE DEF T
  <2> QED
    BY <1>0, <1>4, MinimalSubset
<1>6. PICK x \in L : s = UpSet(L, D, x) /\ ~Even(ch, r, col, L, D, B, q, e, x)
  BY <1>5
<1>7. PICK p \in L, d \in Dir : ch[p][d] = x
  BY <1>0, <1>2, <1>6, HasParent
<1>8. UpSet(L, D, x) = {x} \cup UpSet(L, D, p) /\ x \notin UpSet(L, D, p)
  BY <1>0, <1>7, UpSetStep
<1>9. Even(ch, r, col, L, D, B, q, e, p)
  BY <1>5, <1>6, <1>8
<1> QED
  BY <1>3, <1>6, <1>7, <1>9
-----------------------------------------------------------------------------
(* Sides, keys and the order of a walk.                                    *)

\* The two sides.
LEMMA Sides ==
  ASSUME NEW d \in Dir
  PROVE  /\ Opp(d) \in Dir /\ Opp(d) # d /\ Opp(Opp(d)) = d
         /\ \A e \in Dir : e = d \/ e = Opp(d)
         /\ RB_LEFT \in Dir /\ RB_RIGHT \in Dir
BY DEF Opp, Dir, RB_LEFT, RB_RIGHT

\* No subtree but the whole tree holds the root.
LEMMA RootAtTop ==
  ASSUME NEW L \in SUBSET Node, NEW ch, NEW r, NEW D, IsTree(ch, r, L, D),
         NEW x \in L, NEW d \in Dir
  PROVE  r \notin D[ch[x][d]]
<1> SUFFICES ASSUME r \in D[ch[x][d]] PROVE FALSE
  OBVIOUS
<1>1. ch[x][d] \in L
  BY DEF IsTree
<1>2. D[r] \subseteq D[ch[x][d]]
  BY <1>1, Nested
<1>3. x \in D[r] /\ x \notin D[ch[x][d]]
  <2>1. x \notin D[ch[x][d]]
    BY ChildBelow
  <2> QED
    BY <2>1 DEF IsTree
<1> QED
  BY <1>2, <1>3

\* Before is the strict order of the keys, or its converse.
LEMMA BeforeFacts ==
  ASSUME NEW d \in Dir
  PROVE  /\ \A x \in Node : ~Before(d, x, x)
         /\ \A x \in Node, y \in Node : /\ Before(d, x, y) => ~Before(d, y, x)
                                        /\ Before(d, x, y) <=> Before(Opp(d), y, x)
         /\ \A x \in Node, y \in Node, z \in Node :
              Before(d, x, y) /\ Before(d, y, z) => Before(d, x, z)
<1>1. \A x \in Node : Val[x] \in Int
  BY ValAssumption
<1> QED
  BY <1>1 DEF Before, Opp, Dir, RB_LEFT, RB_RIGHT

\* The nodes beyond n, on the side away from d, are those below its child on
\* that side and nodes beyond all of its subtree.
BeyondNode(ch, L, D, n, d) ==
  /\ D[ch[n][Opp(d)]] \subseteq {m \in L : Before(d, n, m)}
  /\ \A m \in D[ch[n][d]] \cup {n} : ~Before(d, n, m)
  /\ \A m \in L : Before(d, n, m) /\ m \notin D[ch[n][Opp(d)]] =>
       m \notin D[n] /\ \A k \in D[n] : Before(d, k, m)

\* Who lies beyond n: the subtree on that side, and what n's whole subtree lies before.
LEMMA Beyond ==
  ASSUME NEW L \in SUBSET Node, NEW ch, NEW r, NEW D, IsTree(ch, r, L, D),
         NEW n \in L, NEW d \in Dir
  PROVE  BeyondNode(ch, L, D, n, d)
<1>0. /\ Opp(d) \in Dir /\ \A e \in Dir : e = d \/ e = Opp(d)
      /\ D[n] \subseteq L /\ n \in D[n] /\ ch[n][d] \in L \cup {NULL} /\ ch[n][Opp(d)] \in L \cup {NULL}
  BY Sides, BelowNode DEF IsTree, Ptr
<1>1. \A e \in Dir : \A m \in D[ch[n][e]] : Before(e, m, n) /\ m \in Node
  BY <1>0 DEF IsTree, Ptr
<1>2. D[ch[n][Opp(d)]] \subseteq {m \in L : Before(d, n, m)}
  BY <1>0, <1>1, BeforeFacts DEF IsTree, Ptr
<1>3. \A m \in D[ch[n][d]] \cup {n} : ~Before(d, n, m)
  BY <1>0, <1>1, BeforeFacts
<1>4. ASSUME NEW m \in L, Before(d, n, m), m \notin D[ch[n][Opp(d)]]
      PROVE  m \notin D[n] /\ \A k \in D[n] : Before(d, k, m)
  <2>1. m \notin D[n]
    <3>1. ASSUME m \in D[n] PROVE m = n \/ \E e \in Dir : m \in D[ch[n][e]]
      BY <3>1, BelowNode
    <3> QED
      BY <3>1, <1>0, <1>3, <1>4
  <2>2. PICK e \in Dir : \A k \in D[n] : Before(e, k, m)
    BY <2>1, Interval
  <2>3. e = d
    <3>1. Before(e, n, m) /\ m \in Node /\ n \in Node
      BY <2>2, <1>0
    <3> QED
      BY <3>1, <1>0, <1>4, BeforeFacts
  <2> QED
    BY <2>1, <2>2, <2>3
<1> QED
  BY <1>2, <1>3, <1>4 DEF BeyondNode

\* Keys are integers.
LEMMA Keys == Key \subseteq Int
BY ValAssumption DEF Key

\* The direction a search takes is the side of the node it looks for.
LEMMA SearchSide ==
  ASSUME NEW L \in SUBSET Node, NEW ch, NEW r, NEW D, IsTree(ch, r, L, D),
         NEW c \in L, NEW k \in Int, k # Val[c]
  PROVE  /\ SearchDir(k, c) \in Dir
         /\ \A m \in D[c] : Val[m] = k => m \in D[ch[c][SearchDir(k, c)]]
         /\ IF SearchDir(k, c) = RB_LEFT THEN k < Val[c] ELSE Val[c] < k
<1>1. Val[c] \in Int
  BY ValAssumption
<1>2. SearchDir(k, c) \in Dir
  BY DEF SearchDir, Dir
<1>3. ASSUME NEW m \in D[c], Val[m] = k PROVE m \in D[ch[c][SearchDir(k, c)]]
  <2>1. PICK d \in Dir : m \in D[ch[c][d]]
    BY <1>3 DEF IsTree, Dir
  <2>2. Before(d, m, c)
    BY <2>1 DEF IsTree
  <2>3. d = SearchDir(k, c)
    BY <2>2, <1>1, <1>3 DEF Before, SearchDir, Dir, RB_LEFT, RB_RIGHT
  <2> QED
    BY <2>1, <2>3
<1>4. IF SearchDir(k, c) = RB_LEFT THEN k < Val[c] ELSE Val[c] < k
  BY <1>1 DEF SearchDir, RB_LEFT, RB_RIGHT
<1> QED
  BY <1>2, <1>3, <1>4
=============================================================================
