------------------------- MODULE RbTreeCompactProofs -------------------------
(***************************************************************************)
(* Proofs about RbTreeCompact, for any finite set of nodes and any keys:   *)
(* the memory stays well typed, the RB_PATH stack is the way from the root *)
(* to the node of the running loop and is as short as the tree is          *)
(* balanced, no fix-up loop dereferences NULL, the links are one search    *)
(* tree of the right nodes, the red-black rules hold but where a fix-up    *)
(* loop is at work, and every call answers as the ordered set does.  Last, *)
(* the walks of CompactWalks: which inserts an RB_PATH outlives.           *)
(***************************************************************************)
EXTENDS CompactWalks, RbNodeProofs, SequenceTheorems

-----------------------------------------------------------------------------
(* Stacks.                                                                 *)

StackEntry == [parent : Ptr, dir : Dir \cup {NULL}]

\* The node that stack entry e leads to, the root for the bottom one.
LinkAt(ch, r, e) == IF e.parent = NULL THEN r ELSE ch[e.parent][e.dir]

\* The stack w follows the links of a tree of the nodes L from its root down.
Way(ch, r, L, w) ==
  /\ w \in Seq(StackEntry)
  /\ w # <<>>
  /\ w[1] = [parent |-> NULL, dir |-> NULL]
  /\ \A k \in 2..Len(w) : w[k] \in [parent : L, dir : Dir]
  /\ \A k \in 1..(Len(w) - 1) : LinkAt(ch, r, w[k]) = w[k + 1].parent

\* It leads to n.
WayTo(ch, r, L, w, n) == Way(ch, r, L, w) /\ LinkAt(ch, r, Entry(w, 0)) = n

\* A stack has a length.
LEMMA WayLen ==
  ASSUME NEW ch, NEW r, NEW L, NEW w, Way(ch, r, L, w)
  PROVE  Len(w) \in Nat /\ Len(w) >= 1 /\ DOMAIN w = 1..Len(w)
<1>1. w \in Seq(StackEntry) /\ w # <<>>
  BY DEF Way
<1>2. Len(w) \in Nat /\ DOMAIN w = 1..Len(w)
  BY <1>1
<1>3. Len(w) # 0
  BY <1>1, EmptySeq
<1> QED
  BY <1>2, <1>3

\* The stack RB_PATH_INIT makes leads to the root.
LEMMA InitWay ==
  ASSUME NEW ch, NEW r, NEW L
  PROVE  WayTo(ch, r, L, RB_PATH_INIT, r)
<1> DEFINE e == [parent |-> NULL, dir |-> NULL]
           w == <<e>>
<1>1. e \in StackEntry /\ e.parent = NULL
  BY DEF StackEntry, Ptr
<1> HIDE DEF e
<1>2. w \in Seq(StackEntry) /\ Len(w) = 1 /\ w[1] = e /\ w # <<>>
  BY <1>1
<1>3. Entry(w, 0) = e
  BY <1>2 DEF Entry
<1> HIDE DEF w
<1>4. WayTo(ch, r, L, w, r)
  BY <1>1, <1>2, <1>3 DEF WayTo, Way, LinkAt, e
<1> QED
  BY <1>4 DEF RB_PATH_INIT, w, e

\* The last entry: the bottom one, or the link from the node above.
LEMMA WayEnd ==
  ASSUME NEW ch, NEW r, NEW L \in SUBSET Node, NEW w, NEW n, WayTo(ch, r, L, w, n)
  PROVE  /\ Above(ch, r, L, n, Entry(w, 0).parent, Entry(w, 0).dir)
         /\ Entry(w, 0) = w[Len(w)]
         /\ Entry(w, 0).parent = NULL <=> Len(w) = 1
         /\ Entry(w, 0).parent = NULL => n = r /\ Entry(w, 0).dir = NULL
         /\ Entry(w, 0).parent # NULL =>
              /\ Entry(w, 0).parent \in L /\ Entry(w, 0).dir \in Dir
              /\ ch[Entry(w, 0).parent][Entry(w, 0).dir] = n
              /\ Entry(w, 0) = [parent |-> Entry(w, 0).parent, dir |-> Entry(w, 0).dir]
<1>1. Len(w) \in Nat /\ Len(w) >= 1
  BY WayLen DEF WayTo
<1>2. Entry(w, 0) = w[Len(w)]
  BY <1>1 DEF Entry
<1>3. CASE Len(w) = 1
  <2>1. w[Len(w)].parent = NULL /\ w[Len(w)].dir = NULL
    BY <1>3 DEF WayTo, Way
  <2> QED
    BY <2>1, <1>2, <1>3 DEF WayTo, LinkAt, Above
<1>4. CASE Len(w) # 1
  <2> DEFINE N == Len(w)
  <2>n. N \in Nat /\ N >= 1 /\ N # 1
    BY <1>1, <1>4
  <2>0. Len(w) \in 2..Len(w)
    <3> HIDE DEF N
    <3>1. N \in 2..N
      BY <2>n
    <3> QED
      BY <3>1 DEF N
  <2>1. w[Len(w)] \in [parent : L, dir : Dir]
    BY <2>0 DEF WayTo, Way
  <2>2. w[Len(w)].parent \in L /\ w[Len(w)].dir \in Dir /\ w[Len(w)].parent # NULL
        /\ w[Len(w)] = [parent |-> w[Len(w)].parent, dir |-> w[Len(w)].dir]
    BY <2>1, NullAssumption
  <2> QED
    BY <2>2, <1>2, <1>4 DEF WayTo, LinkAt, Above
<1> QED
  BY <1>3, <1>4

\* With an entry for the link d of n, the stack leads one further down.
Pushes(ch, r, L, w, n, d) ==
  /\ WayTo(ch, r, L, Push(w, n, d), ch[n][d])
  /\ Entry(Push(w, n, d), 0) = [parent |-> n, dir |-> d]
  /\ Len(Push(w, n, d)) = Len(w) + 1
  /\ \A k \in 1..Len(w) : Push(w, n, d)[k] = w[k]

\* Going down a link.
LEMMA PushWay ==
  ASSUME NEW ch, NEW r, NEW L \in SUBSET Node, NEW w, NEW n \in L, WayTo(ch, r, L, w, n),
         NEW d \in Dir
  PROVE  Pushes(ch, r, L, w, n, d)
<1> DEFINE e == [parent |-> n, dir |-> d]
           v == Append(w, e)
<1>0. Way(ch, r, L, w) /\ LinkAt(ch, r, w[Len(w)]) = n
  BY WayEnd DEF WayTo
<1>1. e \in StackEntry /\ e \in [parent : L, dir : Dir] /\ e.parent = n /\ e.dir = d
  BY DEF StackEntry, Ptr
<1>2. w \in Seq(StackEntry) /\ Len(w) \in Nat /\ Len(w) >= 1
  BY <1>0, WayLen DEF Way
<1> HIDE DEF e
<1>3. /\ v \in Seq(StackEntry) /\ Len(v) = Len(w) + 1
      /\ \A k \in 1..Len(w) : v[k] = w[k]
      /\ v[Len(w) + 1] = e
  BY <1>1, <1>2, AppendProperties
<1>4. v # <<>>
  BY <1>2, <1>3, EmptySeq
<1> HIDE DEF v
<1>5. v[1] = [parent |-> NULL, dir |-> NULL]
  BY <1>0, <1>2, <1>3 DEF Way
<1>6. ASSUME NEW k \in 2..Len(v) PROVE v[k] \in [parent : L, dir : Dir]
  BY <1>0, <1>1, <1>2, <1>3 DEF Way
<1>7. ASSUME NEW k \in 1..(Len(v) - 1) PROVE LinkAt(ch, r, v[k]) = v[k + 1].parent
  <2>1. CASE k = Len(w)
    BY <2>1, <1>0, <1>1, <1>2, <1>3
  <2>2. CASE k # Len(w)
    <3>1. k \in 1..(Len(w) - 1) /\ k \in 1..Len(w) /\ k + 1 \in 1..Len(w)
      BY <2>2, <1>2, <1>3
    <3> QED
      BY <3>1, <1>0, <1>3 DEF Way
  <2> QED
    BY <2>1, <2>2
<1>8. Way(ch, r, L, v)
  BY <1>3, <1>4, <1>5, <1>6, <1>7 DEF Way
<1>9. Entry(v, 0) = e
  BY <1>2, <1>3 DEF Entry
<1>10. LinkAt(ch, r, e) = ch[n][d]
  BY <1>1, NullAssumption DEF LinkAt
<1>11. Push(w, n, d) = v
  BY DEF Push, v, e
<1> QED
  BY <1>3, <1>8, <1>9, <1>10, <1>11 DEF WayTo, Pushes, e

\* Without its last entry the stack leads to the node above.
Pops(ch, r, L, w) ==
  /\ WayTo(ch, r, L, Pop(w, 1), Entry(w, 0).parent)
  /\ Len(Pop(w, 1)) = Len(w) - 1
  /\ \A k \in 1..(Len(w) - 1) : Pop(w, 1)[k] = w[k]
  /\ Entry(Pop(w, 1), 0) = Entry(w, -1)

\* Going up one.
LEMMA PopWay ==
  ASSUME NEW ch, NEW r, NEW L \in SUBSET Node, NEW w, NEW n, WayTo(ch, r, L, w, n),
         Entry(w, 0).parent # NULL
  PROVE  Pops(ch, r, L, w)
<1> DEFINE v == SubSeq(w, 1, Len(w) - 1)
<1>0. Way(ch, r, L, w) /\ Entry(w, 0) = w[Len(w)] /\ Len(w) # 1
  BY WayEnd DEF WayTo
<1>1. w \in Seq(StackEntry) /\ Len(w) \in Nat /\ Len(w) >= 2
  BY <1>0, WayLen DEF Way
<1>2. /\ v \in Seq(StackEntry) /\ Len(v) = Len(w) - 1
      /\ \A k \in 1..(Len(w) - 1) : v[k] = w[k]
  BY <1>1, SubSeqProperties
<1> HIDE DEF v
<1>3. v # <<>>
  <2>1. Len(v) # 0
    BY <1>1, <1>2
  <2> QED
    BY <2>1, EmptySeq
<1>4. v[1] = [parent |-> NULL, dir |-> NULL]
  BY <1>0, <1>1, <1>2 DEF Way
<1>5. ASSUME NEW k \in 2..Len(v) PROVE v[k] \in [parent : L, dir : Dir]
  BY <1>0, <1>1, <1>2 DEF Way
<1>6. ASSUME NEW k \in 1..(Len(v) - 1) PROVE LinkAt(ch, r, v[k]) = v[k + 1].parent
  <2>1. k \in 1..(Len(w) - 1) /\ k + 1 \in 1..(Len(w) - 1)
    BY <1>1, <1>2
  <2> QED
    BY <2>1, <1>0, <1>2 DEF Way
<1>7. Way(ch, r, L, v)
  BY <1>2, <1>3, <1>4, <1>5, <1>6 DEF Way
<1>8. Entry(v, 0) = w[Len(w) - 1] /\ Entry(w, -1) = w[Len(w) - 1]
  BY <1>1, <1>2 DEF Entry
<1>9. LinkAt(ch, r, w[Len(w) - 1]) = w[Len(w)].parent
  BY <1>0, <1>1 DEF Way
<1>10. Pop(w, 1) = v
  BY DEF Pop, v
<1> QED
  BY <1>0, <1>2, <1>7, <1>8, <1>9, <1>10 DEF WayTo, Pops

\* Going up two is going up one twice.
LEMMA PopTwo ==
  ASSUME NEW ch, NEW r, NEW L \in SUBSET Node, NEW w, NEW n, WayTo(ch, r, L, w, n),
         Entry(w, 0).parent # NULL, Entry(w, -1).parent # NULL
  PROVE  Pop(w, 2) = Pop(Pop(w, 1), 1) /\ Entry(Pop(Pop(w, 1), 1), 0) = Entry(w, -2)
<1> DEFINE v == Pop(w, 1)
           u == Pop(v, 1)
           m == Entry(w, 0).parent
<1>0. WayTo(ch, r, L, v, m) /\ Len(v) = Len(w) - 1 /\ Entry(v, 0) = Entry(w, -1)
      /\ \A k \in 1..(Len(w) - 1) : v[k] = w[k]
  BY PopWay, ZenonT(40) DEF Pops
<1>a. Entry(v, 0).parent # NULL
  BY <1>0
<1> HIDE DEF v, m
<1>1. WayTo(ch, r, L, u, Entry(v, 0).parent) /\ Len(u) = Len(v) - 1
      /\ \A k \in 1..(Len(v) - 1) : u[k] = v[k]
  <2>1. WayTo(ch, r, L, v, m)
    BY <1>0
  <2>2. Pops(ch, r, L, v)
    BY <2>1, <1>a, PopWay
  <2> QED
    BY <2>2 DEF Pops
<1>2. w \in Seq(StackEntry) /\ u \in Seq(StackEntry) /\ Len(w) \in Nat /\ Len(u) \in Nat
      /\ Len(u) >= 1
  BY <1>0, <1>1, WayLen DEF WayTo, Way
<1> HIDE DEF u
<1> DEFINE x == SubSeq(w, 1, Len(w) - 2)
<1>3. Len(u) = Len(w) - 2 /\ \A k \in 1..(Len(w) - 2) : u[k] = w[k]
  BY <1>0, <1>1, <1>2
<1>4. x \in Seq(StackEntry) /\ Len(x) = Len(w) - 2 /\ \A k \in 1..(Len(w) - 2) : x[k] = w[k]
  BY <1>2, <1>3, SubSeqProperties
<1> HIDE DEF x
<1>5. x = u
  BY <1>2, <1>3, <1>4, SeqEqual
<1>6. Entry(u, 0) = Entry(w, -2)
  BY <1>2, <1>3 DEF Entry
<1> QED
  BY <1>5, <1>6 DEF Pop, x, u, v

\* The entries above the bottom are links of the tree, one after the other.
Steps(ch, L, w) ==
  /\ Len(w) \in Nat /\ Len(w) >= 1
  /\ \A i \in 2..Len(w) : /\ w[i].parent \in L /\ w[i].dir \in Dir /\ w[i].parent # NULL
                          /\ w[i] = [parent |-> w[i].parent, dir |-> w[i].dir]
  /\ \A i \in 2..(Len(w) - 1) : w[i + 1].parent = ch[w[i].parent][w[i].dir]

\* They are, on every stack.
LEMMA WaySteps ==
  ASSUME NEW ch, NEW r, NEW L \in SUBSET Node, NEW w, Way(ch, r, L, w)
  PROVE  Steps(ch, L, w)
<1>0. Len(w) \in Nat /\ Len(w) >= 1
  BY WayLen
<1>1. ASSUME NEW i \in 2..Len(w)
      PROVE  /\ w[i].parent \in L /\ w[i].dir \in Dir /\ w[i].parent # NULL
             /\ w[i] = [parent |-> w[i].parent, dir |-> w[i].dir]
  <2>1. w[i] \in [parent : L, dir : Dir]
    BY <1>1 DEF Way
  <2> QED
    BY <2>1, NullAssumption
<1>2. ASSUME NEW i \in 2..(Len(w) - 1) PROVE w[i + 1].parent = ch[w[i].parent][w[i].dir]
  <2>1. i \in 2..Len(w) /\ i \in 1..(Len(w) - 1)
    BY <1>0, <1>2
  <2>2. w[i].parent # NULL /\ LinkAt(ch, r, w[i]) = w[i + 1].parent
    BY <2>1, <1>1 DEF Way
  <2> QED
    BY <2>2 DEF LinkAt
<1> QED
  BY <1>0, <1>1, <1>2 DEF Steps

\* Below a link lies all that lies below what is there.
LEMMA LinkNested ==
  ASSUME NEW ch, NEW r, NEW L \in SUBSET Node, NEW D, IsTree(ch, r, L, D),
         NEW x \in L, NEW e \in Dir, NEW p \in D[ch[x][e]]
  PROVE  p \in L /\ D[p] \subseteq D[ch[x][e]] /\ ch[x][e] \in L
<1> DEFINE y == ch[x][e]
<1>1. y \in L \cup {NULL} /\ D[NULL] = {} /\ D \in [Ptr -> SUBSET L]
  BY DEF IsTree
<1> HIDE DEF y
<1>2. y \in L /\ y \in Ptr
  BY <1>1 DEF y, Ptr
<1>3. p \in D[y] /\ p \in L
  BY <1>1, <1>2 DEF y
<1>4. D[p] \subseteq D[y]
  BY <1>2, <1>3, Nested
<1> QED
  BY <1>2, <1>3, <1>4 DEF y

\* An entry names a node above every later one.
LEMMA WayDown ==
  ASSUME NEW ch, NEW r, NEW L \in SUBSET Node, NEW D, IsTree(ch, r, L, D),
         NEW w, Way(ch, r, L, w), NEW j \in 2..Len(w), NEW k \in (j + 1)..Len(w)
  PROVE  w[k].parent \in D[ch[w[j].parent][w[j].dir]]
<1> DEFINE x == w[j].parent
           e == w[j].dir
           S == {i \in Nat : j + 1 + i <= Len(w) => w[j + 1 + i].parent \in D[ch[x][e]]}
<1>s. Steps(ch, L, w)
  BY WaySteps
<1>l. LinkFacts(ch, r, L, D)
  BY TreeLinks
<1>0. Len(w) \in Nat /\ j \in Nat /\ k \in Nat /\ j >= 2
  BY <1>s DEF Steps
<1>1. x \in L /\ e \in Dir
  BY <1>s DEF Steps
<1> HIDE DEF x, e
<1>3. 0 \in S
  <2> SUFFICES ASSUME j + 1 <= Len(w) PROVE w[j + 1].parent \in D[ch[x][e]]
    BY <1>0
  <2>0. j \in 2..(Len(w) - 1) /\ j + 1 \in 2..Len(w)
    BY <1>0
  <2>1. w[j + 1].parent = ch[x][e] /\ w[j + 1].parent \in L
    BY <2>0, <1>s DEF Steps, x, e
  <2> QED
    BY <2>1, <1>l DEF LinkFacts
<1>4. ASSUME NEW i \in Nat, i \in S PROVE i + 1 \in S
  <2> DEFINE m == j + 1 + i
  <2>0. i + 1 \in Nat /\ j + 1 + (i + 1) = m + 1 /\ m \in Nat /\ m >= 2
    BY <1>0
  <2>z. m <= Len(w) => w[m].parent \in D[ch[x][e]]
    BY <1>4
  <2> SUFFICES ASSUME m + 1 <= Len(w)
               PROVE  w[m + 1].parent \in D[ch[x][e]]
    BY <2>0
  <2> HIDE DEF m
  <2>1. m \in 2..(Len(w) - 1) /\ m \in 2..Len(w) /\ m + 1 \in 2..Len(w) /\ m <= Len(w)
    BY <1>0, <2>0
  <2> DEFINE p == w[m].parent
             d == w[m].dir
             c == w[m + 1].parent
  <2>3. c = ch[p][d] /\ p \in L /\ d \in Dir /\ c \in L /\ p \in D[ch[x][e]]
    BY <2>1, <2>z, <1>s DEF Steps
  <2> HIDE DEF p, d, c
  <2>4. c \in D[c] /\ D[c] \subseteq D[p]
    BY <2>3, <1>l DEF LinkFacts
  <2>6. D[p] \subseteq D[ch[x][e]]
    BY <2>3, <1>1, LinkNested
  <2>7. c \in D[ch[x][e]]
    BY <2>4, <2>6
  <2> QED
    BY <2>7 DEF c
<1>5. Nat \subseteq S
  <2> HIDE DEF S
  <2> QED
    BY <1>3, <1>4, SetInduction
<1>6. k - (j + 1) \in Nat /\ j + 1 + (k - (j + 1)) = k /\ k <= Len(w)
  BY <1>0
<1>7. k - (j + 1) \in S
  BY <1>5, <1>6
<1> QED
  BY <1>6, <1>7 DEF x, e

\* The nodes of a stack that leads to n are all above n, and each is there once.
AllAbove(ch, L, D, w, n) ==
  /\ \A k \in 2..Len(w) : n \in L => n \in D[ch[w[k].parent][w[k].dir]] /\ w[k].parent # n
  /\ \A k \in 2..Len(w), j \in 2..Len(w) : w[k].parent = w[j].parent => k = j

\* They are, in a tree.
LEMMA WayAbove ==
  ASSUME NEW ch, NEW r, NEW L \in SUBSET Node, NEW D, IsTree(ch, r, L, D),
         NEW w, NEW n, WayTo(ch, r, L, w, n)
  PROVE  AllAbove(ch, L, D, w, n)
<1>0. Way(ch, r, L, w) /\ Len(w) \in Nat /\ Len(w) >= 1
  BY WayLen DEF WayTo
<1>s. Steps(ch, L, w)
  BY <1>0, WaySteps
<1>l. LinkFacts(ch, r, L, D)
  BY TreeLinks
<1>2. ASSUME NEW k \in 2..Len(w), n \in L
      PROVE  n \in D[ch[w[k].parent][w[k].dir]] /\ w[k].parent # n
  <2> DEFINE p == w[Len(w)].parent
             d == w[Len(w)].dir
             x == w[k].parent
             e == w[k].dir
  <2>0. Len(w) \in 2..Len(w) /\ Entry(w, 0) = w[Len(w)]
    BY <1>0, WayEnd
  <2>1. p \in L /\ d \in Dir /\ p # NULL /\ x \in L /\ e \in Dir
    BY <2>0, <1>s DEF Steps
  <2>2. ch[p][d] = n
    BY <2>0, <2>1 DEF WayTo, LinkAt
  <2>3. k # Len(w) => p \in D[ch[x][e]]
    <3>1. SUFFICES ASSUME k # Len(w) PROVE p \in D[ch[x][e]]
      OBVIOUS
    <3>2. Len(w) \in (k + 1)..Len(w)
      BY <3>1, <1>0
    <3> QED
      BY <3>2, <1>0, WayDown
  <2>4. k = Len(w) => x = p /\ e = d
    OBVIOUS
  <2> HIDE DEF p, d, x, e
  <2>5. n \in D[n] /\ D[n] \subseteq D[p]
    BY <2>1, <2>2, <1>2, <1>l DEF LinkFacts
  <2>6. n \in D[ch[x][e]]
    <3>1. CASE k = Len(w)
      BY <3>1, <2>2, <2>4, <2>5
    <3>2. CASE k # Len(w)
      <4>1. D[p] \subseteq D[ch[x][e]]
        BY <3>2, <2>1, <2>3, LinkNested
      <4> QED
        BY <4>1, <2>5
    <3> QED
      BY <3>1, <3>2
  <2>7. x \notin D[ch[x][e]]
    BY <2>1, <1>l DEF LinkFacts
  <2>8. n \in D[ch[x][e]] /\ x # n
    BY <2>6, <2>7
  <2> QED
    BY <2>8 DEF x, e
<1>3. ASSUME NEW k \in 2..Len(w), NEW j \in 2..Len(w), j < k PROVE w[k].parent # w[j].parent
  <2>0. k \in (j + 1)..Len(w)
    BY <1>0, <1>3
  <2>1. w[k].parent \in D[ch[w[j].parent][w[j].dir]]
    BY <2>0, <1>0, WayDown
  <2> DEFINE x == w[j].parent
             e == w[j].dir
  <2>2. x \in L /\ e \in Dir
    BY <1>s DEF Steps
  <2> HIDE DEF x, e
  <2>3. x \notin D[ch[x][e]]
    BY <2>2, <1>l DEF LinkFacts
  <2> QED
    BY <2>1, <2>3 DEF x, e
<1>4. ASSUME NEW k \in 2..Len(w), NEW j \in 2..Len(w), w[k].parent = w[j].parent PROVE k = j
  <2>1. k < j \/ j < k \/ k = j
    BY <1>0
  <2> QED
    BY <2>1, <1>3, <1>4
<1> QED
  BY <1>2, <1>4 DEF AllAbove

\* The stack w is a way through the links ch2 as well, but for its end.
SameWay(ch, r, ch2, r2, L2, w) ==
  /\ \A k \in 2..Len(w) : w[k].parent \in L2
  /\ \A k \in 1..(Len(w) - 1) : LinkAt(ch2, r2, w[k]) = LinkAt(ch, r, w[k])

\* It leads where its last entry says.
LEMMA WayChanged ==
  ASSUME NEW ch, NEW r, NEW L \in SUBSET Node, NEW w, Way(ch, r, L, w),
         NEW ch2, NEW r2, NEW L2, SameWay(ch, r, ch2, r2, L2, w),
         NEW n, LinkAt(ch2, r2, Entry(w, 0)) = n
  PROVE  WayTo(ch2, r2, L2, w, n)
<1>1. \A k \in 2..Len(w) : w[k] \in [parent : L2, dir : Dir]
  <2> SUFFICES ASSUME NEW k \in 2..Len(w) PROVE w[k] \in [parent : L2, dir : Dir]
    OBVIOUS
  <2>1. w[k] = [parent |-> w[k].parent, dir |-> w[k].dir] /\ w[k].dir \in Dir
    <3>1. Steps(ch, L, w)
      BY WaySteps
    <3> QED
      BY <3>1 DEF Steps
  <2>2. w[k].parent \in L2
    BY DEF SameWay
  <2> QED
    BY <2>1, <2>2
<1>2. Way(ch2, r2, L2, w)
  BY <1>1 DEF Way, SameWay
<1> QED
  BY <1>2 DEF WayTo

\* A leaf n at the end of the stack.
LeafAt(ch, r, ch2, r2, L, e, n) ==
  /\ r2 = IF e.parent = NULL THEN n ELSE r
  /\ \A x \in L, d \in Dir : ch2[x][d] = IF x = e.parent /\ d = e.dir THEN n ELSE ch[x][d]

\* The stack leads to the leaf.
LEMMA WayToLeaf ==
  ASSUME NEW ch, NEW r, NEW L \in SUBSET Node, NEW D, IsTree(ch, r, L, D),
         NEW w, NEW c, WayTo(ch, r, L, w, c), NEW n, NEW ch2, NEW r2,
         LeafAt(ch, r, ch2, r2, L, Entry(w, 0), n)
  PROVE  WayTo(ch2, r2, L \cup {n}, w, n)
<1>0. Way(ch, r, L, w)
  BY DEF WayTo
<1>s. Steps(ch, L, w)
  BY <1>0, WaySteps
<1>a. AllAbove(ch, L, D, w, c)
  BY WayAbove
<1>1. Len(w) \in Nat /\ Len(w) >= 1 /\ w[1].parent = NULL
  BY <1>0, <1>s DEF Steps, Way
<1>2. /\ Entry(w, 0) = w[Len(w)] /\ (w[Len(w)].parent = NULL <=> Len(w) = 1)
      /\ (w[Len(w)].parent # NULL => w[Len(w)].parent \in L /\ w[Len(w)].dir \in Dir)
  BY WayEnd
<1>3. ASSUME NEW k \in 1..(Len(w) - 1) PROVE LinkAt(ch2, r2, w[k]) = LinkAt(ch, r, w[k])
  <2>0. Len(w) # 1 /\ Len(w) \in 2..Len(w) /\ k # Len(w)
    <3> DEFINE N == Len(w)
    <3>1. N \in Nat /\ k \in 1..(N - 1)
      BY <1>1
    <3> HIDE DEF N
    <3>2. N # 1 /\ N \in 2..N /\ k # N
      BY <3>1
    <3> QED
      BY <3>2 DEF N
  <2>1. CASE k = 1
    BY <2>0, <2>1, <1>1, <1>2 DEF LeafAt, LinkAt
  <2>2. CASE k # 1
    <3>1. k \in 2..Len(w)
      BY <2>2, <1>1, <1>3
    <3>2. w[k].parent \in L /\ w[k].dir \in Dir /\ w[k].parent # NULL
      BY <3>1, <1>s DEF Steps
    <3>3. w[k].parent # w[Len(w)].parent
      BY <3>1, <2>0, <1>a DEF AllAbove
    <3> QED
      BY <3>2, <3>3, <1>2 DEF LeafAt, LinkAt
  <2> QED
    BY <2>1, <2>2
<1>4. \A k \in 2..Len(w) : w[k].parent \in L \cup {n}
  BY <1>s DEF Steps
<1>5. SameWay(ch, r, ch2, r2, L \cup {n}, w)
  BY <1>3, <1>4 DEF SameWay
<1>6. LinkAt(ch2, r2, Entry(w, 0)) = n
  BY <1>2 DEF LeafAt, LinkAt
<1> QED
  BY <1>0, <1>5, <1>6, WayChanged

\* Links to node n from the nodes above it lead to c.
Redirects(ch, r, ch2, r2, L, D, n, c) ==
  /\ r2 = IF r = n THEN c ELSE r
  /\ \A x \in L \ {n}, d \in Dir :
       n \in D[ch[x][d]] => ch2[x][d] = IF ch[x][d] = n THEN c ELSE ch[x][d]

\* A stack that led to n leads to c.
LEMMA WayRedirected ==
  ASSUME NEW ch, NEW r, NEW L \in SUBSET Node, NEW D, IsTree(ch, r, L, D), NEW n \in L,
         NEW w, WayTo(ch, r, L, w, n), NEW c, NEW ch2, NEW r2,
         Redirects(ch, r, ch2, r2, L, D, n, c), NEW L2, L \ {n} \subseteq L2
  PROVE  WayTo(ch2, r2, L2, w, c)
<1>0. Way(ch, r, L, w)
  BY DEF WayTo
<1>s. Steps(ch, L, w)
  BY <1>0, WaySteps
<1>a. AllAbove(ch, L, D, w, n)
  BY WayAbove
<1>1. Len(w) \in Nat /\ Len(w) >= 1 /\ w[1].parent = NULL
  BY <1>0, <1>s DEF Steps, Way
<1>2. ASSUME NEW k \in 2..Len(w)
      PROVE  /\ w[k].parent \in L \ {n} /\ w[k].dir \in Dir /\ w[k].parent # NULL
             /\ n \in D[ch[w[k].parent][w[k].dir]]
  BY <1>2, <1>s, <1>a DEF Steps, AllAbove
<1>3. ASSUME NEW k \in 1..Len(w)
      PROVE  LinkAt(ch2, r2, w[k]) = IF LinkAt(ch, r, w[k]) = n THEN c ELSE LinkAt(ch, r, w[k])
  <2>1. CASE k = 1
    BY <2>1, <1>1 DEF Redirects, LinkAt
  <2>2. CASE k # 1
    <3>0. k \in 2..Len(w)
      BY <2>2, <1>1
    <3>1. /\ w[k].parent \in L \ {n} /\ w[k].dir \in Dir /\ w[k].parent # NULL
          /\ n \in D[ch[w[k].parent][w[k].dir]]
      BY <3>0, <1>2
    <3> QED
      BY <3>1 DEF Redirects, LinkAt
  <2> QED
    BY <2>1, <2>2
<1>4. ASSUME NEW k \in 1..(Len(w) - 1) PROVE LinkAt(ch2, r2, w[k]) = LinkAt(ch, r, w[k])
  <2>1. k \in 1..Len(w) /\ k + 1 \in 2..Len(w)
    BY <1>1
  <2>2. LinkAt(ch, r, w[k]) = w[k + 1].parent
    BY <1>0 DEF Way
  <2>3. w[k + 1].parent # n
    BY <2>1, <1>2
  <2> QED
    BY <2>1, <2>2, <2>3, <1>3
<1>5. SameWay(ch, r, ch2, r2, L2, w)
  BY <1>2, <1>4 DEF SameWay
<1>6. LinkAt(ch2, r2, Entry(w, 0)) = c
  <2>1. Entry(w, 0) = w[Len(w)] /\ Len(w) \in 1..Len(w)
    BY <1>1, WayEnd
  <2>2. LinkAt(ch, r, w[Len(w)]) = n
    BY <2>1 DEF WayTo
  <2> QED
    BY <2>1, <2>2, <1>3
<1> QED
  BY <1>0, <1>5, <1>6, WayChanged

\* After a rotation at a, a stack that led to a leads to the pivot.
LEMMA WayTurned ==
  ASSUME NEW ch, NEW r, NEW L \in SUBSET Node, NEW D, IsTree(ch, r, L, D),
         NEW a \in L, NEW dir \in Dir, NEW p \in L, ch[a][Opp(dir)] = p,
         NEW ch2, NEW r2, Rotates(ch, r, ch2, r2, L, a, dir),
         NEW w, WayTo(ch, r, L, w, a)
  PROVE  WayTo(ch2, r2, L, w, p)
<1>l. LinkFacts(ch, r, L, D)
  BY TreeLinks
<1>a. AroundPivot(ch, r, ch2, L, a, p, dir)
  BY RotateLinks
<1>1. r2 = IF r = a THEN p ELSE r
  BY DEF Rotates
<1>2. ASSUME NEW x \in L \ {a}, NEW d \in Dir, a \in D[ch[x][d]]
      PROVE  ch2[x][d] = IF ch[x][d] = a THEN p ELSE ch[x][d]
  <2>1. x # p
    <3>1. a \notin D[p]
      BY <1>l, <1>a DEF LinkFacts, AroundPivot
    <3>2. D[ch[x][d]] \subseteq D[x]
      BY <1>l, <1>2 DEF LinkFacts
    <3> QED
      BY <3>1, <3>2, <1>2
  <2> QED
    BY <2>1, <1>2, <1>a DEF AroundPivot
<1>3. Redirects(ch, r, ch2, r2, L, D, a, p)
  BY <1>1, <1>2 DEF Redirects
<1> QED
  BY <1>3, WayRedirected

-----------------------------------------------------------------------------
(* The accessors.                                                          *)

\* rb_set_child changes one link.
LEMMA SetChild ==
  ASSUME NEW t \in Tree, NEW n \in Node, NEW dir \in Dir, NEW c \in Ptr
  PROVE  /\ rb_set_child(t, n, dir, c) \in Tree
         /\ rb_set_child(t, n, dir, c).root = t.root
         /\ rb_set_child(t, n, dir, c).color = t.color
         /\ \A x \in Node, d \in Dir :
              rb_set_child(t, n, dir, c).child[x][d] =
                IF x = n /\ d = dir THEN c ELSE t.child[x][d]
BY DEF rb_set_child, Tree

\* rb_set_color changes one colour.
LEMMA SetColor ==
  ASSUME NEW t \in Tree, NEW n \in Node, NEW c \in {RB_RED, RB_BLACK}
  PROVE  /\ rb_set_color(t, n, c) \in Tree
         /\ rb_set_color(t, n, c).root = t.root
         /\ rb_set_color(t, n, c).child = t.child
         /\ \A x \in Node : rb_set_color(t, n, c).color[x] = IF x = n THEN c ELSE t.color[x]
BY DEF rb_set_color, Tree

\* The client scribbles over node n only.
LEMMA PoisonFields ==
  ASSUME NEW t \in Tree, NEW n \in Node
  PROVE  /\ Poison(t, n) \in Tree
         /\ Poison(t, n).root = t.root
         /\ \A x \in Node \ {n} : /\ Poison(t, n).child[x] = t.child[x]
                                  /\ Poison(t, n).color[x] = t.color[x]
BY DEF Poison, Tree, Ptr

\* The fields of a tree.
LEMMA TreeFields ==
  ASSUME NEW t \in Tree
  PROVE  /\ t.root \in Ptr
         /\ \A x \in Node, d \in Dir : t.child[x][d] \in Ptr
         /\ \A x \in Node : t.color[x] \in {RB_RED, RB_BLACK}
BY DEF Tree

\* A stack entry says where: at the root, or at a link.
Place(e) == e.parent = NULL \/ (e.parent \in Node /\ e.dir \in Dir)

\* u is t with n at the place e.
Hung(t, u, e, n) ==
  /\ u \in Tree
  /\ u.color = t.color
  /\ u.root = IF e.parent = NULL THEN n ELSE t.root
  /\ \A x \in Node, d \in Dir :
       u.child[x][d] = IF x = e.parent /\ d = e.dir THEN n ELSE t.child[x][d]

\* Hang puts a node at the place e.
LEMMA HangFields ==
  ASSUME NEW t \in Tree, NEW e, Place(e), NEW n \in Ptr
  PROVE  Hung(t, Hang(t, e, n), e, n)
<1>1. CASE e.parent = NULL
  <2>1. Hang(t, e, n) = [t EXCEPT !.root = n]
    BY <1>1 DEF Hang
  <2> DEFINE u == [t EXCEPT !.root = n]
  <2>2. u \in Tree /\ u.color = t.color /\ u.root = n /\ u.child = t.child
    BY DEF Tree
  <2> HIDE DEF u
  <2>3. Hung(t, u, e, n)
    BY <1>1, <2>2, NullAssumption DEF Hung
  <2> QED
    BY <2>1, <2>3 DEF u
<1>2. CASE e.parent # NULL
  <2>1. Hang(t, e, n) = rb_set_child(t, e.parent, e.dir, n)
    BY <1>2 DEF Hang
  <2> DEFINE q == e.parent
             d == e.dir
             u == rb_set_child(t, q, d, n)
  <2>2. q \in Node /\ d \in Dir
    BY <1>2 DEF Place
  <2>3. /\ u \in Tree /\ u.color = t.color /\ u.root = t.root
        /\ \A x \in Node, f \in Dir : u.child[x][f] = IF x = q /\ f = d THEN n ELSE t.child[x][f]
    <3> HIDE DEF q, d
    <3> QED
      BY <2>2, SetChild
  <2> HIDE DEF u
  <2>4. Hung(t, u, e, n)
    BY <1>2, <2>3 DEF Hung
  <2> QED
    BY <2>1, <2>4 DEF u
<1> QED
  BY <1>1, <1>2

\* q and e are the place of node a: it is the root, or one link leads to it.
PlaceOf(ch, r, L, a, q, e) ==
  /\ r = a <=> q = NULL
  /\ \A x \in L, d \in Dir : ch[x][d] = a <=> x = q /\ d = e
  /\ q # NULL => q \in L /\ e \in Dir /\ ch[q][e] = a

\* There is one.
LEMMA AboveLink ==
  ASSUME NEW L \in SUBSET Node, NEW ch, NEW r, NEW D, IsTree(ch, r, L, D), NEW a \in L,
         NEW q, NEW e, Above(ch, r, L, a, q, e)
  PROVE  PlaceOf(ch, r, L, a, q, e)
<1>0. a # NULL /\ LinkFacts(ch, r, L, D)
  BY TreeLinks, NullAssumption
<1>1. CASE a = r /\ q = NULL
  <2>1. \A x \in L, d \in Dir : ch[x][d] # a /\ x # q
    BY <1>0, <1>1, NullAssumption DEF LinkFacts
  <2> QED
    BY <1>1, <2>1 DEF PlaceOf
<1>2. CASE q \in L /\ e \in Dir /\ ch[q][e] = a
  <2>1. r # a /\ q # NULL
    BY <1>0, <1>2, NullAssumption DEF LinkFacts
  <2>2. \A x \in L, d \in Dir : ch[x][d] = a <=> x = q /\ d = e
    BY <1>0, <1>2 DEF LinkFacts
  <2> QED
    BY <1>2, <2>1, <2>2 DEF PlaceOf
<1> QED
  BY <1>1, <1>2 DEF Above

\* What the rotation at a in direction dir makes of t.
Rotated(t, u, L, a, dir) ==
  /\ u \in Tree
  /\ u.color = t.color
  /\ Rotates(t.child, t.root, u.child, u.root, L, a, dir)

\* rb_rotate and hanging the pivot where a hung change the links as a rotation does.
LEMMA RotateFields ==
  ASSUME NEW t \in Tree, NEW L \in SUBSET Node, NEW D, IsTree(t.child, t.root, L, D),
         NEW a \in L, NEW dir \in Dir, NEW p \in L, t.child[a][Opp(dir)] = p,
         NEW e, Place(e), Above(t.child, t.root, L, a, e.parent, e.dir)
  PROVE  Rotated(t, Hang(rb_rotate(t, a, dir), e, p), L, a, dir)
<1> DEFINE inner == t.child[p][dir]
           t1 == rb_set_child(t, a, Opp(dir), inner)
           t2 == rb_set_child(t1, p, dir, a)
           u == Hang(t2, e, p)
<1>0. rb_rotate(t, a, dir) = t2
  BY DEF rb_rotate, Pivot
<1>1. /\ Opp(dir) \in Dir /\ Opp(dir) # dir
      /\ a \in Node /\ p \in Node /\ a \in Ptr /\ p \in Ptr
  BY Sides DEF Ptr
<1>l. LinkFacts(t.child, t.root, L, D)
  BY TreeLinks
<1>2. inner \in Ptr /\ inner # a /\ inner # p /\ p # a
  BY <1>1, <1>l, NullAssumption DEF IsTree, LinkFacts, Ptr
<1>4. /\ t1 \in Tree /\ t1.root = t.root /\ t1.color = t.color
      /\ \A x \in Node, d \in Dir :
           t1.child[x][d] = IF x = a /\ d = Opp(dir) THEN inner ELSE t.child[x][d]
  <2> HIDE DEF inner
  <2> QED
    BY <1>1, <1>2, SetChild, SMTT(30)
<1> HIDE DEF t1
<1>5. /\ t2 \in Tree /\ t2.root = t.root /\ t2.color = t.color
      /\ \A x \in Node, d \in Dir :
           t2.child[x][d] = IF x = p /\ d = dir THEN a ELSE t1.child[x][d]
  BY <1>1, <1>4, SetChild, SMTT(30)
<1> HIDE DEF t2
<1>6. Hung(t2, u, e, p)
  BY <1>1, <1>5, HangFields
<1> HIDE DEF u
<1>7. /\ t.root = a <=> e.parent = NULL
      /\ \A x \in L, d \in Dir : t.child[x][d] = a <=> x = e.parent /\ d = e.dir
      /\ e.parent # NULL => e.parent \in L /\ e.dir \in Dir /\ t.child[e.parent][e.dir] = a
  <2>1. PlaceOf(t.child, t.root, L, a, e.parent, e.dir)
    BY AboveLink
  <2> QED
    BY <2>1 DEF PlaceOf
<1>8. e.parent # a /\ e.parent # p
  <2>1. CASE e.parent = NULL
    BY <2>1, NullAssumption
  <2>2. CASE e.parent # NULL
    BY <2>2, <1>1, <1>7, <1>l, NullAssumption DEF LinkFacts
  <2> QED
    BY <2>1, <2>2
<1>9. u \in Tree /\ u.color = t.color
  BY <1>5, <1>6 DEF Hung
<1>10. u.root = IF t.root = a THEN p ELSE t.root
  BY <1>5, <1>6, <1>7 DEF Hung
<1>11. ASSUME NEW x \in L, NEW d \in Dir
       PROVE u.child[x][d] = IF x = a /\ d = Opp(dir) THEN inner
                       ELSE IF x = p /\ d = dir THEN a
                       ELSE IF t.child[x][d] = a THEN p ELSE t.child[x][d]
  <2>1. x \in Node
    BY <1>11
  <2>2. u.child[x][d] = IF x = e.parent /\ d = e.dir THEN p ELSE t2.child[x][d]
    BY <2>1, <1>6 DEF Hung
  <2>3. t2.child[x][d] = IF x = p /\ d = dir THEN a
                         ELSE IF x = a /\ d = Opp(dir) THEN inner ELSE t.child[x][d]
    BY <2>1, <1>4, <1>5
  <2> QED
    BY <2>2, <2>3, <1>2, <1>7, <1>8
<1>12. Rotates(t.child, t.root, u.child, u.root, L, a, dir)
  BY <1>10, <1>11 DEF Rotates
<1> QED
  BY <1>0, <1>9, <1>12 DEF Rotated, u

\* A rotation at a leaves a node that is not below a in its place.
LEMMA AboveKept ==
  ASSUME NEW L \in SUBSET Node, NEW ch, NEW r, NEW D, IsTree(ch, r, L, D),
         NEW a \in L, NEW dir \in Dir, NEW p \in L, ch[a][Opp(dir)] = p,
         NEW ch2, NEW r2, Rotates(ch, r, ch2, r2, L, a, dir),
         NEW x \in L, x \notin D[a], NEW q, NEW e, Above(ch, r, L, x, q, e)
  PROVE  Above(ch2, r2, L, x, q, e)
<1>l. LinkFacts(ch, r, L, D)
  BY TreeLinks
<1>a. AroundPivot(ch, r, ch2, L, a, p, dir)
  BY RotateLinks
<1>0. x # a /\ x # p /\ x # NULL
  <2>1. a \in D[a] /\ p \in D[p] /\ D[p] \subseteq D[a]
    BY <1>l, Sides DEF LinkFacts
  <2> QED
    BY <2>1, NullAssumption
<1>1. CASE x = r /\ q = NULL
  BY <1>0, <1>1 DEF Rotates, Above
<1>2. CASE q \in L /\ e \in Dir /\ ch[q][e] = x
  <2>1. q # a /\ q # p
    <3>1. D[p] \subseteq D[a]
      BY <1>l, Sides DEF LinkFacts
    <3>2. x \in D[q]
      BY <1>2, <1>l DEF LinkFacts
    <3> QED
      BY <3>1, <3>2
  <2>2. ch2[q][e] = x
    BY <2>1, <1>0, <1>2, <1>a DEF AroundPivot
  <2> QED
    BY <2>2, <1>2 DEF Above
<1> QED
  BY <1>1, <1>2 DEF Above

-----------------------------------------------------------------------------
(* The invariant.                                                          *)

\* Where a black is owed: at the link rb_remove_color works at.
OwedAt == IF pc = "remove_color" THEN WorkLink.parent ELSE NULL
OwedDir == IF pc = "remove_color" THEN WorkLink.dir ELSE NULL

\* The node at the end of the stack.
AtEnd == LinkAt(tree.child, tree.root, WorkLink)

\* The nodes that may be red where the rules want black.
Exempt == IF pc = "insert_color" THEN {AtEnd}
          ELSE IF pc = "remove_color" /\ cur # NULL
               THEN {cur} \cup {tree.child[cur][d] : d \in Dir}
          ELSE {}

\* The linked nodes among which a walk looks for the outermost one.
Candidates ==
  IF call.op \in {"first", "last"} THEN linked
  ELSE IF call.arg = NULL THEN {}
  ELSE {m \in linked : Before(DownDir(call.op), call.arg, m)}

\* A search for key k has not passed the node that has it.
Seeks(D, k) == \A m \in linked : Val[m] = k => m \in D[cur]

\* The stack leads from the root to node n.
Leads(n) == WayTo(tree.child, tree.root, linked, rp, n)

\* What the locals of the running call mean, for each place it can be at.
IdleInv ==
  /\ call = None /\ target = NULL /\ cur = NULL
  /\ at = NULL => rp = <<>>
  /\ at # NULL => at \in linked /\ Leads(at)

InsertDescendInv(D) ==
  /\ target \in Node /\ call = [op |-> "insert", arg |-> target]
  /\ cur \in linked \cup {NULL} /\ Leads(cur)
  /\ WorkLink.parent # NULL =>
       /\ OnPath(tree.child, linked, D, Val[target], WorkLink.parent)
       /\ Before(WorkLink.dir, target, WorkLink.parent)
  /\ Seeks(D, Val[target])

InsertColorInv ==
  /\ target \in Node
  /\ AtEnd \in linked /\ Leads(AtEnd)
  /\ tree.color[AtEnd] = RB_RED

FindInv(D) ==
  /\ call.op \in {"find", "remove"} /\ call.arg \in Key
  /\ cur \in linked \cup {NULL} /\ Leads(cur)
  /\ Seeks(D, call.arg)

RemoveInv ==
  /\ target \in linked
  /\ call \in {[op |-> "remove", arg |-> Val[target]], [op |-> "rb_remove", arg |-> target]}

\* cur is on the way from the right child of target to its leftmost node, and
\* the stack passes through target.
SuccessorInv(D) ==
  LET right == tree.child[target][RB_RIGHT]
  IN  /\ RemoveInv
      /\ tree.child[target][RB_LEFT] # NULL
      /\ cur \in D[right] /\ Leads(cur)
      /\ \E k \in 2..Len(rp) : rp[k] = [parent |-> target, dir |-> RB_RIGHT]
      /\ \A m \in D[right] \ D[cur] : \A k \in D[cur] : Val[k] < Val[m]

RemoveColorInv ==
  /\ target \in Node \ linked
  /\ cur \in linked \cup {NULL} /\ Leads(cur)

\* The outermost candidate is below cur.
IterDownInv(D) ==
  /\ call.op \in {"first", "last", "next", "prev"}
  /\ call.op \in {"next", "prev"} => call.arg \in linked \cup {NULL}
  /\ call.op \in {"first", "last"} => call.arg = NULL
  /\ cur \in linked \cup {NULL}
  /\ cur = NULL => Candidates = {}
  /\ rp = <<>> => cur = NULL
  /\ rp # <<>> => Leads(cur)
  /\ D[cur] \subseteq Candidates
  /\ \A m \in Candidates \ D[cur] : \A k \in D[cur] : Before(DownDir(call.op), k, m)

\* No candidate is below the end of the stack.
IterUpInv(D) ==
  /\ call.op \in {"next", "prev"}
  /\ call.arg \in linked
  /\ AtEnd \in linked /\ Leads(AtEnd)
  /\ call.arg \in D[AtEnd]
  /\ D[AtEnd] \cap Candidates = {}

CallInv(D) ==
  /\ pc = "idle" => IdleInv
  /\ pc = "insert_descend" => InsertDescendInv(D)
  /\ pc = "insert_color" => InsertColorInv
  /\ pc = "find" => FindInv(D)
  /\ pc = "rb_remove" => RemoveInv /\ Leads(target)
  /\ pc = "successor" => SuccessorInv(D)
  /\ pc = "remove_color" => RemoveColorInv
  /\ pc = "iter_down" => IterDownInv(D)
  /\ pc = "iter_up" => IterUpInv(D)

\* The links are a red-black tree of the linked nodes, but for what the
\* running fix-up loop still owes, and D and B are its subtrees and heights.
Shape(D, B) ==
  IsRb(tree.child, tree.root, tree.color, linked, D, B, OwedAt, OwedDir, Exempt)

\* The part of TypeOK that does not look into the stack.
Typed ==
  /\ tree \in Tree
  /\ linked \subseteq Node
  /\ pc \in {"idle", "insert_descend", "insert_color", "find", "rb_remove",
             "successor", "remove_color", "iter_down", "iter_up"}
  /\ call \in [op : {"none", "insert", "find", "remove", "rb_remove",
                     "first", "last", "next", "prev"}, arg : Ptr \cup Key]
  /\ {at, target, cur, ret} \subseteq Ptr

Inv ==
  /\ Typed
  /\ \E D, B : Shape(D, B) /\ CallInv(D)

\* A step that only reads the tree.
LEMMA ReadStep ==
  ASSUME NEW D, NEW B, Typed', Shape(D, B),
         pc \notin {"insert_color", "remove_color"},
         pc' \notin {"insert_color", "remove_color"},
         UNCHANGED <<tree, linked>>, CallInv(D)'
  PROVE  Inv'
<1>1. OwedAt' = OwedAt /\ OwedDir' = OwedDir /\ Exempt' = Exempt
  BY DEF OwedAt, OwedDir, Exempt
<1>2. Shape(D, B)'
  BY <1>1 DEF Shape
<1> QED
  BY <1>2 DEF Inv

\* A step after which the call is in a place that does not look at subtrees.
LEMMA WriteStep ==
  ASSUME Typed',
         SomeRb(tree'.child, tree'.root, tree'.color, linked', OwedAt', OwedDir', Exempt'),
         \/ pc' = "idle" /\ IdleInv'
         \/ pc' = "insert_color" /\ InsertColorInv'
         \/ pc' = "remove_color" /\ RemoveColorInv'
  PROVE  Inv'
<1>1. PICK D, B : IsRb(tree'.child, tree'.root, tree'.color, linked', D, B,
                       OwedAt', OwedDir', Exempt')
  BY DEF SomeRb
<1>2. Shape(D, B)'
  BY <1>1 DEF Shape
<1>3. CallInv(D)'
  BY DEF CallInv
<1> QED
  BY <1>2, <1>3 DEF Inv

\* A call returns that has changed the tree, which is in order again.
LEMMA Returns ==
  ASSUME Typed, NEW r \in Ptr, Return(r, <<>>), tree' \in Tree, linked' \subseteq Node,
         SomeRb(tree'.child, tree'.root, tree'.color, linked', NULL, NULL, {})
  PROVE  Inv'
<1>0. pc' = "idle" /\ call' = None /\ target' = NULL /\ cur' = NULL /\ ret' = r
      /\ at' = NULL /\ rp' = <<>>
  BY DEF Return
<1>1. Typed'
  BY <1>0 DEF Typed, None, Ptr
<1>2. OwedAt' = NULL /\ OwedDir' = NULL /\ Exempt' = {}
  BY <1>0 DEF OwedAt, OwedDir, Exempt
<1>3. pc' = "idle" /\ IdleInv'
  BY <1>0 DEF IdleInv
<1> QED
  BY <1>1, <1>2, <1>3, WriteStep

\* A call returns that has changed nothing; the stack it leaves leads to the
\* node it returns.
LEMMA ReturnsRead ==
  ASSUME Inv, NEW r \in linked \cup {NULL}, NEW path, Return(r, path),
         r # NULL /\ path # <<>> => WayTo(tree.child, tree.root, linked, path, r),
         UNCHANGED <<tree, linked>>,
         pc \notin {"insert_color", "remove_color"}
  PROVE  Inv'
<1>1. PICK D, B : Shape(D, B)
  BY DEF Inv
<1>0. /\ pc' = "idle" /\ call' = None /\ target' = NULL /\ cur' = NULL /\ ret' = r
      /\ IF r = NULL \/ path = <<>> THEN at' = NULL /\ rp' = <<>> ELSE at' = r /\ rp' = path
  BY DEF Return
<1>2. Typed'
  <2>1. {at', target', cur', ret'} \subseteq Ptr /\ call' = None /\ None.arg \in Ptr
    BY <1>0 DEF Inv, Typed, None, Ptr
  <2> QED
    BY <2>1, <1>0 DEF Inv, Typed, None, Ptr
<1>3. IdleInv'
  <2>1. CASE r = NULL \/ path = <<>>
    BY <2>1, <1>0 DEF IdleInv
  <2>2. CASE ~(r = NULL \/ path = <<>>)
    <3>1. at' = r /\ rp' = path /\ r # NULL /\ r \in linked'
      BY <2>2, <1>0
    <3>2. Leads(at)'
      BY <3>1, <2>2 DEF Leads
    <3> QED
      BY <3>1, <3>2, <1>0 DEF IdleInv
  <2> QED
    BY <2>1, <2>2
<1>4. CallInv(D)'
  BY <1>0, <1>3 DEF CallInv
<1> QED
  BY <1>0, <1>1, <1>2, <1>4, ReadStep DEF Inv

-----------------------------------------------------------------------------
(* The client's steps.                                                     *)

\* The empty tree.
LEMMA EmptyRb ==
  /\ EmptyTree \in Tree
  /\ SomeRb(EmptyTree.child, EmptyTree.root, EmptyTree.color, {}, NULL, NULL, {})
<1>1. EmptyTree \in Tree
  BY DEF EmptyTree, Tree, Ptr
<1> DEFINE D == [x \in Ptr |-> {}]
           B == [x \in Ptr |-> 0]
<1>3. IsTree(EmptyTree.child, NULL, {}, D)
  BY DEF IsTree, Ptr
<1>4. Balanced(EmptyTree.child, EmptyTree.color, {}, B, NULL, NULL)
  BY DEF Balanced, Ptr
<1>5. RedsApart(EmptyTree.child, NULL, EmptyTree.color, {}, {})
  BY DEF RedsApart
<1> HIDE DEF D, B
<1>6. IsRb(EmptyTree.child, NULL, EmptyTree.color, {}, D, B, NULL, NULL, {})
  BY <1>3, <1>4, <1>5 DEF IsRb
<1>7. EmptyTree.root = NULL
  BY DEF EmptyTree
<1> QED
  BY <1>1, <1>6, <1>7 DEF SomeRb

\* The invariant holds of an empty tree with no call running.
LEMMA InvInit == Init => Inv
<1> SUFFICES ASSUME Init PROVE Inv
  OBVIOUS
<1>1. Typed
  BY EmptyRb DEF Init, Typed, None, Ptr
<1>2. SomeRb(tree.child, tree.root, tree.color, linked, NULL, NULL, {})
  BY EmptyRb DEF Init
<1>3. PICK D, B : IsRb(tree.child, tree.root, tree.color, linked, D, B, NULL, NULL, {})
  BY <1>2 DEF SomeRb
<1>4. OwedAt = NULL /\ OwedDir = NULL /\ Exempt = {}
  BY DEF Init, OwedAt, OwedDir, Exempt
<1>5. Shape(D, B)
  BY <1>3, <1>4 DEF Shape
<1>6. CallInv(D)
  BY DEF Init, CallInv, IdleInv
<1> QED
  BY <1>1, <1>5, <1>6 DEF Inv

\* RB_ROOT_INIT empties the tree: nothing is linked and nothing owed.
LEMMA RootInitStep == ASSUME Inv, RB_ROOT_INIT PROVE Inv'
<1>0. /\ pc = "idle" /\ tree' = EmptyTree /\ linked' = {} /\ rp' = <<>> /\ at' = NULL
      /\ UNCHANGED <<pc, call, target, cur, ret>>
  BY DEF RB_ROOT_INIT
<1>1. Typed'
  BY <1>0, EmptyRb DEF Inv, Typed, Ptr
<1>2. OwedAt' = NULL /\ OwedDir' = NULL /\ Exempt' = {}
  BY <1>0 DEF OwedAt, OwedDir, Exempt
<1>4. pc' = "idle" /\ IdleInv'
  BY <1>0 DEF Inv, CallInv, IdleInv
<1> QED
  BY <1>0, <1>1, <1>2, <1>4, EmptyRb, WriteStep

\* While no fix-up loop runs, the links are a red-black tree.
LEMMA QuietShape ==
  ASSUME NEW D, NEW B, Shape(D, B), pc \notin {"insert_color", "remove_color"}
  PROVE  /\ IsRb(tree.child, tree.root, tree.color, linked, D, B, NULL, NULL, {})
         /\ IsTree(tree.child, tree.root, linked, D)
BY DEF Shape, OwedAt, OwedDir, Exempt, IsRb

\* Entering insert: the root's subtree holds all that is sought.
LEMMA InsertStep == ASSUME Inv, NEW n \in Node, Insert(n) PROVE Inv'
<1>1. PICK D, B : Shape(D, B) /\ CallInv(D)
  BY DEF Inv
<1>2. /\ pc = "idle" /\ pc' = "insert_descend" /\ UNCHANGED <<tree, linked>> /\ at' = NULL
      /\ call' = [op |-> "insert", arg |-> n] /\ target' = n /\ cur' = tree.root /\ ret' = NULL
      /\ rp' = RB_PATH_INIT
  BY DEF Insert, Call
<1>3. IsTree(tree.child, tree.root, linked, D) /\ linked \in SUBSET Node /\ tree \in Tree
  BY <1>1, <1>2, QuietShape DEF Inv, Typed
<1>4. Typed'
  BY <1>2, <1>3 DEF Inv, Typed, Ptr, Tree
<1>5. InsertDescendInv(D)'
  <2>1. tree.root \in linked \cup {NULL} /\ D[tree.root] = linked
    BY <1>3 DEF IsTree
  <2>2. Leads(cur)'
    BY <1>2, InitWay DEF Leads
  <2>3. WorkLink'.parent = NULL
    <3>1. WayTo(tree.child, tree.root, linked, rp', tree.root)
      BY <1>2, InitWay
    <3>2. Len(rp') = 1
      BY <1>2 DEF RB_PATH_INIT
    <3> QED
      BY <3>1, <3>2, <1>3, WayEnd DEF WorkLink
  <2> QED
    BY <1>2, <2>1, <2>2, <2>3 DEF InsertDescendInv, Seeks
<1>6. CallInv(D)'
  BY <1>2, <1>5 DEF CallInv
<1> QED
  BY <1>1, <1>2, <1>4, <1>6, ReadStep DEF Inv

\* Entering find or remove by key: the root's subtree holds all that is sought.
LEMMA FindCall == ASSUME Inv, NEW k \in Key, NEW op \in {"find", "remove"}, Find(op, k) PROVE Inv'
<1>1. PICK D, B : Shape(D, B) /\ CallInv(D)
  BY DEF Inv
<1>2. /\ pc = "idle" /\ pc' = "find" /\ UNCHANGED <<tree, linked, target>> /\ at' = NULL
      /\ call' = [op |-> op, arg |-> k] /\ cur' = tree.root /\ ret' = NULL
      /\ rp' = RB_PATH_INIT
  BY DEF Find, Call
<1>3. IsTree(tree.child, tree.root, linked, D) /\ tree \in Tree
  BY <1>1, <1>2, QuietShape DEF Inv, Typed
<1>4. Typed'
  BY <1>2, <1>3 DEF Inv, Typed, Ptr, Tree
<1>5. FindInv(D)'
  <2>2. Leads(cur)'
    BY <1>2, InitWay DEF Leads
  <2> QED
    BY <2>2, <1>2, <1>3 DEF FindInv, Seeks, IsTree
<1>6. CallInv(D)'
  BY <1>2, <1>5 DEF CallInv
<1> QED
  BY <1>1, <1>2, <1>4, <1>6, ReadStep DEF Inv

\* Entering rb_remove with the node the client's stack stands at.
LEMMA RemoveNodeStep == ASSUME Inv, RemoveNode PROVE Inv'
<1>1. PICK D, B : Shape(D, B) /\ CallInv(D)
  BY DEF Inv
<1>2. /\ at # NULL /\ pc = "idle" /\ pc' = "rb_remove" /\ UNCHANGED <<tree, linked, cur, rp>>
      /\ call' = [op |-> "rb_remove", arg |-> at] /\ target' = at /\ ret' = NULL /\ at' = NULL
  BY DEF RemoveNode, Call
<1>3. Typed'
  BY <1>2 DEF Inv, Typed, Ptr
<1>4. RemoveInv' /\ Leads(target)'
  BY <1>1, <1>2 DEF RemoveInv, CallInv, IdleInv, Leads
<1>5. CallInv(D)'
  BY <1>2, <1>4 DEF CallInv
<1> QED
  BY <1>1, <1>2, <1>3, <1>5, ReadStep DEF Inv

\* Entering rb_first or rb_last: all nodes are candidates, all below the root.
LEMMA IterStep == ASSUME Inv, NEW op \in {"first", "last"}, Iter(op) PROVE Inv'
<1>1. PICK D, B : Shape(D, B) /\ CallInv(D)
  BY DEF Inv
<1>2. /\ pc = "idle" /\ pc' = "iter_down" /\ UNCHANGED <<tree, linked, target>> /\ at' = NULL
      /\ call' = [op |-> op, arg |-> NULL] /\ cur' = tree.root /\ ret' = NULL
      /\ rp' = RB_PATH_INIT
  BY DEF Iter, Call
<1>3. IsTree(tree.child, tree.root, linked, D) /\ tree \in Tree
  BY <1>1, <1>2, QuietShape DEF Inv, Typed
<1>4. Typed'
  BY <1>2, <1>3 DEF Inv, Typed, Ptr, Tree
<1>5. IterDownInv(D)'
  <2>1. tree.root \in linked \cup {NULL} /\ (tree.root = NULL => linked = {}) /\ D[tree.root] = linked
    BY <1>3 DEF IsTree
  <2>2. Candidates' = linked
    BY <1>2 DEF Candidates
  <2>3. Leads(cur)'
    BY <1>2, InitWay DEF Leads
  <2>4. rp' # <<>>
    BY <1>2 DEF RB_PATH_INIT
  <2> QED
    BY <1>2, <2>1, <2>2, <2>3, <2>4 DEF IterDownInv
<1>6. CallInv(D)'
  BY <1>2, <1>5 DEF CallInv
<1> QED
  BY <1>1, <1>2, <1>4, <1>6, ReadStep DEF Inv

\* Entering rb_next or rb_prev, which go down a child if there is one, else up.
LEMMA IterNextStep ==
  ASSUME Inv, NEW op \in {"next", "prev"}, IterNext(op)
  PROVE  Inv'
<1>1. PICK D, B : Shape(D, B) /\ CallInv(D)
  BY DEF Inv
<1> DEFINE dd == DownDir(op)
           n == at
           p == tree.child[n][Opp(dd)]
<1>2. /\ pc = "idle" /\ UNCHANGED <<tree, linked, target>> /\ at' = NULL
      /\ call' = [op |-> op, arg |-> n] /\ ret' = NULL
      /\ \/ n = NULL /\ pc' = "iter_down" /\ UNCHANGED <<cur, rp>>
         \/ n # NULL /\ p # NULL /\ pc' = "iter_down" /\ cur' = p /\ rp' = Push(rp, n, Opp(dd))
         \/ n # NULL /\ p = NULL /\ pc' = "iter_up" /\ UNCHANGED <<cur, rp>>
  BY DEF IterNext, Call
<1>0. /\ n \in linked \cup {NULL} /\ cur = NULL
      /\ n = NULL => rp = <<>>
      /\ n # NULL => WayTo(tree.child, tree.root, linked, rp, n)
  BY <1>1, <1>2 DEF CallInv, IdleInv, Leads
<1>3. /\ IsTree(tree.child, tree.root, linked, D) /\ tree \in Tree
      /\ linked \in SUBSET Node
  BY <1>1, <1>2, QuietShape DEF Inv, Typed
<1>4. dd \in Dir /\ Opp(dd) \in Dir /\ DownDir(call'.op) = dd
  BY <1>2, Sides DEF DownDir, Dir
<1>5. ASSUME n \in linked PROVE p \in linked \cup {NULL}
  BY <1>5, <1>3, <1>4 DEF IsTree
<1>6. Typed'
  <2>1. cur' \in Ptr /\ pc' \in {"iter_down", "iter_up"} /\ n \in Ptr
    BY <1>0, <1>2, <1>3, <1>5 DEF Ptr
  <2> HIDE DEF p, dd, n
  <2> QED
    BY <2>1, <1>2, <1>3 DEF Inv, Typed, Ptr
<1>7. Candidates' = IF n = NULL THEN {} ELSE {m \in linked : Before(dd, n, m)}
  BY <1>2 DEF Candidates
<1>8. CASE n = NULL
  <2>1. D[NULL] = {}
    BY <1>3 DEF IsTree
  <2>2. pc' = "iter_down" /\ cur' = NULL /\ rp' = <<>> /\ Candidates' = {}
    BY <1>0, <1>2, <1>7, <1>8
  <2>3. IterDownInv(D)'
    BY <1>2, <1>8, <2>1, <2>2 DEF IterDownInv
  <2>4. CallInv(D)'
    BY <2>2, <2>3 DEF CallInv
  <2> QED
    BY <2>2, <2>4, <1>1, <1>2, <1>6, ReadStep DEF Inv
<1>9. CASE n # NULL
  <2>0. n \in linked /\ WayTo(tree.child, tree.root, linked, rp, n)
    BY <1>0, <1>9
  <2>1. /\ D[p] \subseteq {m \in linked : Before(dd, n, m)}
        /\ \A m \in D[tree.child[n][dd]] \cup {n} : ~Before(dd, n, m)
        /\ \A m \in linked : Before(dd, n, m) /\ m \notin D[p] =>
             m \notin D[n] /\ \A k \in D[n] : Before(dd, k, m)
    <3> HIDE DEF dd
    <3>1. BeyondNode(tree.child, linked, D, n, dd)
      BY <2>0, <1>3, <1>4, Beyond
    <3> QED
      BY <3>1 DEF BeyondNode
  <2>2. Candidates' = {m \in linked : Before(dd, n, m)}
    BY <1>7, <1>9
  <2> HIDE DEF dd
  <2>3. CASE p # NULL
    <3>1. pc' = "iter_down" /\ cur' = p /\ rp' = Push(rp, n, Opp(dd))
      BY <1>2, <1>9, <2>3
    <3>w. Pushes(tree.child, tree.root, linked, rp, n, Opp(dd))
      BY <2>0, <1>3, <1>4, PushWay
    <3>v. Leads(cur)'
      BY <3>1, <3>w, <1>2 DEF Leads, Pushes
    <3>u. rp' # <<>>
      BY <3>v DEF Leads, WayTo, Way
    <3>2. D[p] \subseteq D[n]
      BY <2>0, <1>3, <1>4, ChildBelow
    <3>3. p \in linked
      BY <1>5, <2>0, <2>3
    <3> HIDE DEF p, n
    <3>4. \A m \in Candidates' \ D[p] : \A k \in D[p] : Before(dd, k, m)
      BY <2>1, <2>2, <3>2
    <3>5. IterDownInv(D)'
      BY <1>2, <1>4, <2>0, <2>1, <2>2, <2>3, <3>1, <3>3, <3>4, <3>v, <3>u DEF IterDownInv
    <3>6. CallInv(D)'
      BY <3>1, <3>5 DEF CallInv
    <3> QED
      BY <3>1, <3>6, <1>1, <1>2, <1>6, ReadStep DEF Inv
  <2>4. CASE p = NULL
    <3>1. pc' = "iter_up" /\ rp' = rp
      BY <1>2, <1>9, <2>4
    <3>2. D[p] = {} /\ n \in D[n]
      BY <2>0, <2>4, <1>3, BelowNode DEF IsTree
    <3>3. \A m \in D[n] : m \in D[tree.child[n][dd]] \cup {n}
      <4>1. \A m \in D[n] : m = n \/ \E d \in Dir : m \in D[tree.child[n][d]]
        BY <2>0, <1>3 DEF IsTree, Dir
      <4>2. \A d \in Dir : d = dd \/ d = Opp(dd)
        BY <1>4, Sides
      <4> QED
        BY <4>1, <4>2, <3>2
    <3>w. AtEnd' = n /\ Leads(AtEnd)'
      BY <2>0, <3>1, <1>2 DEF Leads, AtEnd, WorkLink, WayTo
    <3> HIDE DEF p, n
    <3>4. D[n] \cap Candidates' = {}
      BY <2>1, <2>2, <3>3
    <3>5. IterUpInv(D)'
      BY <1>2, <2>0, <3>1, <3>2, <3>4, <3>w DEF IterUpInv
    <3>6. CallInv(D)'
      BY <3>1, <3>5 DEF CallInv
    <3> QED
      BY <3>1, <3>6, <1>1, <1>2, <1>6, ReadStep DEF Inv
  <2> QED
    BY <2>3, <2>4
<1> QED
  BY <1>8, <1>9

-----------------------------------------------------------------------------
(* Searches and walks.                                                     *)

\* A turn of the search loop keeps the sought key below cur.
LEMMA FindStepStep == ASSUME Inv, FindStep PROVE Inv'
<1>1. PICK D, B : Shape(D, B) /\ CallInv(D)
  BY DEF Inv
<1> DEFINE dir == SearchDir(call.arg, cur)
<1>2. pc = "find" /\ UNCHANGED <<tree, linked>>
  BY DEF FindStep
<1>3. /\ IsTree(tree.child, tree.root, linked, D)
      /\ linked \in SUBSET Node /\ Typed /\ FindInv(D)
  BY <1>1, <1>2, QuietShape DEF Inv, Typed, CallInv
<1>4. cur \in linked \cup {NULL} /\ cur \in Ptr /\ Leads(cur)
  BY <1>3 DEF FindInv, Ptr
<1>5. CASE cur = NULL /\ Return(NULL, rp)
  BY <1>2, <1>5, ReturnsRead
<1>6. CASE cur # NULL /\ Val[cur] = call.arg /\ call.op = "find" /\ Return(cur, rp)
  BY <1>2, <1>4, <1>6, ReturnsRead DEF Leads
<1>7. CASE /\ cur # NULL /\ Val[cur] # call.arg
           /\ cur' = tree.child[cur][dir] /\ rp' = Push(rp, cur, dir)
           /\ UNCHANGED <<at, pc, call, target, ret>>
  <2>1. cur \in linked /\ call.arg \in Int
    BY <1>3, <1>7, Keys DEF FindInv
  <2>2. dir \in Dir
    BY DEF SearchDir, Dir
  <2>3. \A m \in D[cur] : Val[m] = call.arg => m \in D[cur']
    BY <2>1, <1>3, <1>7, SearchSide
  <2> HIDE DEF dir
  <2>4. cur' \in linked \cup {NULL}
    BY <2>1, <2>2, <1>3, <1>7 DEF IsTree
  <2>w. Leads(cur)'
    <3>1. Pushes(tree.child, tree.root, linked, rp, cur, dir)
      BY <2>1, <2>2, <1>3, <1>4, PushWay DEF Leads
    <3> QED
      BY <3>1, <1>2, <1>7 DEF Leads, Pushes
  <2>5. FindInv(D)'
    BY <2>3, <2>4, <2>w, <1>2, <1>3, <1>7 DEF FindInv, Seeks
  <2>6. CallInv(D)'
    BY <2>5, <1>2, <1>7 DEF CallInv
  <2>7. Typed'
    BY <2>4, <1>2, <1>3, <1>7 DEF Typed, Ptr
  <2> QED
    BY <2>6, <2>7, <1>1, <1>2, <1>7, ReadStep DEF Inv
<1>8. CASE /\ cur # NULL /\ Val[cur] = call.arg /\ call.op = "remove"
           /\ pc' = "rb_remove" /\ target' = cur /\ cur' = NULL
           /\ UNCHANGED <<rp, at, call, ret>>
  <2>1. call = [op |-> "remove", arg |-> Val[cur]]
    BY <1>3, <1>8 DEF Typed
  <2>2. RemoveInv' /\ Leads(target)'
    BY <2>1, <1>2, <1>3, <1>8 DEF RemoveInv, FindInv, Leads
  <2>3. CallInv(D)'
    BY <2>2, <1>8 DEF CallInv
  <2>4. Typed'
    BY <1>2, <1>3, <1>4, <1>8 DEF Typed, Ptr
  <2> QED
    BY <2>3, <2>4, <1>1, <1>2, <1>8, ReadStep DEF Inv
<1> QED
  BY <1>5, <1>6, <1>7, <1>8 DEF FindStep, Continue

\* A turn down keeps the outermost candidate below cur.
LEMMA IterDownStep == ASSUME Inv, IterDown PROVE Inv'
<1>1. PICK D, B : Shape(D, B) /\ CallInv(D)
  BY DEF Inv
<1> DEFINE dd == DownDir(call.op)
           q == tree.child[cur][dd]
<1>2. /\ pc = "iter_down" /\ UNCHANGED <<tree, linked>>
      /\ \/ cur = NULL /\ Return(NULL, rp)
         \/ cur # NULL /\ q = NULL /\ Return(cur, rp)
         \/ /\ cur # NULL /\ q # NULL /\ cur' = q /\ rp' = Push(rp, cur, dd)
            /\ UNCHANGED <<at, pc, call, target, ret>>
  BY DEF IterDown, Continue
<1>3. /\ IsTree(tree.child, tree.root, linked, D)
      /\ linked \in SUBSET Node /\ Typed /\ IterDownInv(D)
  BY <1>1, <1>2, QuietShape DEF Inv, Typed, CallInv
<1>4. cur \in linked \cup {NULL} /\ (cur # NULL => Leads(cur) /\ rp # <<>>)
  BY <1>3 DEF IterDownInv
<1>5. CASE cur = NULL /\ Return(NULL, rp)
  BY <1>2, <1>5, ReturnsRead
<1>6. CASE cur # NULL /\ q = NULL /\ Return(cur, rp)
  BY <1>2, <1>4, <1>6, ReturnsRead DEF Leads
<1>7. CASE /\ cur # NULL /\ q # NULL /\ cur' = q /\ rp' = Push(rp, cur, dd)
           /\ UNCHANGED <<at, pc, call, target, ret>>
  <2>1. cur \in linked /\ dd \in Dir /\ Opp(dd) \in Dir
    BY <1>3, <1>7, Sides DEF IterDownInv, DownDir, Dir
  <2>2. q \in linked
    BY <2>1, <1>3, <1>7 DEF IsTree
  <2>w. Leads(cur)' /\ rp' # <<>>
    <3> HIDE DEF dd
    <3>1. Pushes(tree.child, tree.root, linked, rp, cur, dd)
      BY <2>1, <1>3, <1>4, <1>7, PushWay DEF Leads
    <3>2. WayTo(tree.child, tree.root, linked, rp', q)
      BY <3>1, <1>7 DEF Pushes
    <3> QED
      BY <3>2, <1>2, <1>7 DEF Leads, WayTo, Way
  <2>3. /\ D[q] \subseteq D[cur] /\ D[cur] \subseteq linked
        /\ \A m \in D[cur] : m = cur \/ m \in D[q] \/ m \in D[tree.child[cur][Opp(dd)]]
    <3>1. D[q] \subseteq D[cur]
      BY <2>1, <1>3, ChildBelow
    <3>2. \A m \in D[cur] : m = cur \/ \E d \in Dir : m \in D[tree.child[cur][d]]
      BY <2>1, <1>3 DEF IsTree, Dir
    <3>3. \A d \in Dir : d = dd \/ d = Opp(dd)
      BY <2>1, Sides
    <3>4. D[cur] \subseteq linked
      BY <2>1, <1>3 DEF IsTree, Ptr
    <3> QED
      BY <3>1, <3>2, <3>3, <3>4
  <2>4. /\ \A m \in D[q] : Before(dd, m, cur)
        /\ \A m \in D[tree.child[cur][Opp(dd)]] : Before(Opp(dd), m, cur)
    BY <2>1, <1>3 DEF IsTree
  <2> HIDE DEF q, dd
  <2>5. \A k \in D[q] : \A m \in D[cur] : m \notin D[q] => Before(dd, k, m)
    <3> SUFFICES ASSUME NEW k \in D[q], NEW m \in D[cur], m \notin D[q] PROVE Before(dd, k, m)
      OBVIOUS
    <3>1. k \in Node /\ m \in Node /\ cur \in Node /\ Before(dd, k, cur)
      BY <2>1, <2>3, <2>4, <1>3
    <3>2. CASE m = cur
      BY <3>1, <3>2
    <3>3. CASE m \in D[tree.child[cur][Opp(dd)]]
      <4>1. Before(Opp(dd), m, cur)
        BY <3>3, <2>4
      <4>2. Before(dd, cur, m)
        BY <4>1, <3>1, <2>1, BeforeFacts
      <4> QED
        BY <4>2, <3>1, <2>1, BeforeFacts
    <3> QED
      BY <3>2, <3>3, <2>3
  <2>6. Candidates' = Candidates /\ DownDir(call'.op) = dd
    BY <1>2, <1>7 DEF Candidates, dd
  <2>7. \A m \in Candidates \ D[q] : \A k \in D[q] : Before(dd, k, m)
    BY <2>3, <2>5, <1>3 DEF IterDownInv, dd
  <2>8. D[q] \subseteq Candidates
    BY <2>3, <1>3 DEF IterDownInv
  <2>9. q # NULL
    BY <1>7
  <2>10. IterDownInv(D)'
    BY <2>2, <2>6, <2>7, <2>8, <2>9, <2>w, <1>2, <1>3, <1>7 DEF IterDownInv
  <2>11. CallInv(D)'
    BY <2>10, <1>2, <1>7 DEF CallInv
  <2>12. Typed'
    BY <2>2, <1>2, <1>3, <1>7 DEF Typed, Ptr
  <2> QED
    BY <2>11, <2>12, <1>1, <1>2, <1>7, ReadStep DEF Inv
<1> QED
  BY <1>2, <1>5, <1>6, <1>7

\* A turn up takes an entry off the stack; it ends at the first node above that
\* lies beyond, else keeps climbing.
LEMMA IterUpStep == ASSUME Inv, IterUp PROVE Inv'
<1>1. PICK D, B : Shape(D, B) /\ CallInv(D)
  BY DEF Inv
<1> DEFINE dd == DownDir(call.op)
           c == AtEnd
           p == WorkLink.parent
           e == WorkLink.dir
<1>2. /\ pc = "iter_up" /\ UNCHANGED <<tree, linked>>
      /\ \/ p = NULL /\ Return(NULL, rp)
         \/ p # NULL /\ e = dd /\ Return(p, Pop(rp, 1))
         \/ /\ p # NULL /\ e # dd /\ cur' = cur /\ rp' = Pop(rp, 1)
            /\ UNCHANGED <<at, pc, call, target, ret>>
  BY DEF IterUp, Continue, WorkLink
<1>3. /\ IsTree(tree.child, tree.root, linked, D)
      /\ linked \in SUBSET Node /\ Typed /\ IterUpInv(D)
  BY <1>1, <1>2, QuietShape DEF Inv, Typed, CallInv
<1>4. c \in linked /\ dd \in Dir /\ Opp(dd) \in Dir /\ (\A d \in Dir : d = dd \/ d = Opp(dd))
      /\ WayTo(tree.child, tree.root, linked, rp, c)
  BY <1>3, Sides DEF IterUpInv, DownDir, Dir, Leads
<1>5. p # NULL => p \in linked /\ e \in Dir /\ tree.child[p][e] = c
  BY <1>3, <1>4, WayEnd DEF WorkLink
<1>p. p # NULL => Pops(tree.child, tree.root, linked, rp)
  BY <1>3, <1>4, PopWay DEF WorkLink
<1>w. p # NULL => WayTo(tree.child, tree.root, linked, Pop(rp, 1), p)
  BY <1>p DEF Pops, WorkLink
<1>6. CASE p = NULL /\ Return(NULL, rp)
  BY <1>2, <1>6, ReturnsRead
<1>6a. CASE p # NULL /\ Return(p, Pop(rp, 1))
  <2> HIDE DEF p
  <2> QED
    BY <1>2, <1>5, <1>6a, <1>w, ReturnsRead
<1>7. CASE /\ p # NULL /\ e # dd /\ cur' = cur /\ rp' = Pop(rp, 1)
           /\ UNCHANGED <<at, pc, call, target, ret>>
  <2>1. p \in linked /\ tree.child[p][Opp(dd)] = c
    BY <1>4, <1>5, <1>7
  <2>w. AtEnd' = p /\ Leads(AtEnd)'
    BY <1>2, <1>7, <1>w DEF AtEnd, Leads, WayTo, WorkLink
  <2> HIDE DEF p, c
  <2>2. /\ D[c] \subseteq D[p] /\ D[p] \subseteq linked
        /\ \A m \in D[p] : m = p \/ m \in D[tree.child[p][dd]] \/ m \in D[c]
    <3>1. D[tree.child[p][Opp(dd)]] \subseteq D[p]
      BY <2>1, <1>3, <1>4, ChildBelow
    <3>2. \A m \in D[p] : m = p \/ \E d \in Dir : m \in D[tree.child[p][d]]
      BY <2>1, <1>3 DEF IsTree, Dir
    <3>4. D[p] \subseteq linked
      BY <2>1, <1>3 DEF IsTree, Ptr
    <3> QED
      BY <3>1, <3>2, <3>4, <2>1, <1>4
  <2>3. /\ \A m \in D[tree.child[p][dd]] : Before(dd, m, p)
        /\ \A m \in D[c] : Before(Opp(dd), m, p)
    BY <2>1, <1>3, <1>4 DEF IsTree
  <2>4. call.arg \in D[c] /\ call.arg \in linked /\ call.arg # NULL
    BY <1>3, NullAssumption DEF IterUpInv, c
  <2>5. Candidates = {m \in linked : Before(dd, call.arg, m)}
    BY <2>4, <1>3 DEF Candidates, IterUpInv
  <2> HIDE DEF dd
  <2>6. \A m \in D[p] : m \notin Candidates
    <3> SUFFICES ASSUME NEW m \in D[p], m \in Candidates PROVE FALSE
      OBVIOUS
    <3>1. m \in Node /\ p \in Node /\ call.arg \in Node /\ Before(dd, call.arg, m)
      BY <2>1, <2>2, <2>4, <2>5, <1>3
    <3>2. Before(dd, p, call.arg)
      BY <3>1, <2>3, <2>4, <1>4, BeforeFacts
    <3>3. CASE m = p
      BY <3>1, <3>2, <3>3, <1>4, BeforeFacts
    <3>4. CASE m \in D[tree.child[p][dd]]
      <4>1. Before(dd, m, p)
        BY <3>4, <2>3
      <4>2. Before(dd, m, call.arg)
        BY <4>1, <3>1, <3>2, <1>4, BeforeFacts
      <4> QED
        BY <4>2, <3>1, <1>4, BeforeFacts
    <3>5. CASE m \in D[c]
      BY <3>5, <1>3 DEF IterUpInv, c
    <3> QED
      BY <3>3, <3>4, <3>5, <2>2
  <2>7. Candidates' = Candidates
    BY <1>2, <1>7 DEF Candidates
  <2>8. IterUpInv(D)'
    BY <2>1, <2>2, <2>4, <2>6, <2>7, <2>w, <1>2, <1>3, <1>7 DEF IterUpInv
  <2>9. CallInv(D)'
    BY <2>8, <1>2, <1>7 DEF CallInv
  <2>10. Typed'
    BY <1>2, <1>3, <1>7 DEF Typed
  <2> QED
    BY <2>9, <2>10, <1>1, <1>2, <1>7, ReadStep DEF Inv
<1> QED
  BY <1>2, <1>6, <1>6a, <1>7

-----------------------------------------------------------------------------
(* Inserting.                                                              *)

\* MakeLeaf changes node n only.
LEMMA MakeLeafFields ==
  ASSUME NEW t \in Tree, NEW n \in Node
  PROVE  /\ MakeLeaf(t, n) \in Tree
         /\ MakeLeaf(t, n).root = t.root
         /\ \A d \in Dir : MakeLeaf(t, n).child[n][d] = NULL
         /\ MakeLeaf(t, n).color[n] = RB_RED
         /\ \A x \in Node \ {n} : /\ MakeLeaf(t, n).child[x] = t.child[x]
                                  /\ MakeLeaf(t, n).color[x] = t.color[x]
BY DEF MakeLeaf, rb_set_right_child, rb_set_left_child_color, Tree, Ptr, Dir, RB_LEFT, RB_RIGHT

\* A turn of insert's search, and the linking of a new red leaf at its end.
LEMMA InsertDescendStep == ASSUME Inv, InsertDescend PROVE Inv'
<1>1. PICK D, B : Shape(D, B) /\ CallInv(D)
  BY DEF Inv
<1> DEFINE dir == SearchDir(Val[target], cur)
           p == tree.child[cur][dir]
           e == Entry(rp, 0)
           u == MakeLeaf(Hang(tree, e, target), target)
<1>2. /\ pc = "insert_descend"
      /\ \/ /\ cur = NULL /\ tree' = u /\ linked' = linked \cup {target} /\ pc' = "insert_color"
            /\ UNCHANGED <<rp, at, call, target, cur, ret>>
         \/ cur # NULL /\ Return(cur, <<>>) /\ UNCHANGED <<tree, linked>>
         \/ /\ cur # NULL /\ Val[target] # Val[cur] /\ cur' = p /\ rp' = Push(rp, cur, dir)
            /\ UNCHANGED <<tree, linked, at, pc, call, target, ret>>
  BY DEF InsertDescend, Continue
<1>3. /\ IsRb(tree.child, tree.root, tree.color, linked, D, B, NULL, NULL, {})
      /\ IsTree(tree.child, tree.root, linked, D)
      /\ linked \in SUBSET Node /\ Typed /\ tree \in Tree /\ InsertDescendInv(D)
  BY <1>1, <1>2, QuietShape DEF Inv, Typed, CallInv
<1>4. /\ target \in Node /\ Val[target] \in Int
      /\ cur \in linked \cup {NULL} /\ target # NULL /\ target \in Ptr
      /\ D[NULL] = {} /\ NULL \notin linked
      /\ WayTo(tree.child, tree.root, linked, rp, cur)
  BY <1>3, ValAssumption, NullAssumption DEF InsertDescendInv, Ptr, IsTree, Leads
<1>5. CASE /\ cur = NULL /\ tree' = u /\ linked' = linked \cup {target} /\ pc' = "insert_color"
           /\ UNCHANGED <<rp, at, call, target, cur, ret>>
  <2>1. target \notin linked
    BY <1>3, <1>4, <1>5 DEF InsertDescendInv, Seeks
  <2>2. /\ e.parent = NULL => tree.root = NULL
        /\ e.parent # NULL => e.parent \in linked /\ e.dir \in Dir /\ tree.child[e.parent][e.dir] = NULL
    BY <1>3, <1>4, <1>5, WayEnd
  <2>3. Place(e)
    BY <2>2, <1>3 DEF Place
  <2> DEFINE t == Hang(tree, e, target)
  <2>w. e = WorkLink
    BY DEF WorkLink
  <2>e. e = Entry(rp, 0)
    OBVIOUS
  <2> HIDE DEF e
  <2>4. Hung(tree, t, e, target)
    BY <2>3, <1>3, <1>4, HangFields
  <2> HIDE DEF t
  <2>5. /\ u \in Tree /\ u.root = t.root /\ (\A d \in Dir : u.child[target][d] = NULL)
        /\ u.color[target] = RB_RED
        /\ \A x \in Node \ {target} : u.child[x] = t.child[x] /\ u.color[x] = t.color[x]
    <3>1. t \in Tree
      BY <2>4 DEF Hung
    <3>2. u = MakeLeaf(t, target)
      BY DEF t
    <3> HIDE DEF u
    <3> QED
      BY <3>1, <3>2, <1>4, MakeLeafFields
  <2> HIDE DEF u
  <2>6. SameOn(tree.color, u.color, linked)
    BY <2>1, <2>4, <2>5, <1>3 DEF SameOn, Hung
  <2>7. LeafAt(tree.child, tree.root, u.child, u.root, linked, e, target)
    <3>1. u.root = IF e.parent = NULL THEN target ELSE tree.root
      BY <2>4, <2>5 DEF Hung
    <3>2. ASSUME NEW x \in linked, NEW d \in Dir
          PROVE  u.child[x][d] = IF x = e.parent /\ d = e.dir THEN target ELSE tree.child[x][d]
      <4>1. x \in Node \ {target}
        BY <2>1, <1>3
      <4> QED
        BY <4>1, <2>4, <2>5 DEF Hung
    <3> QED
      BY <3>1, <3>2 DEF LeafAt
  <2>8. WayTo(u.child, u.root, linked \cup {target}, rp, target)
    BY <2>7, <2>e, <1>3, <1>4, WayToLeaf
  <2>9. SomeRb(u.child, u.root, u.color, linked \cup {target}, NULL, NULL, {target})
    <3>1. CASE e.parent = NULL
      <4>1. tree.root = NULL /\ linked = {} /\ u.root = target
        BY <3>1, <2>2, <2>7, <1>3, <1>4 DEF IsTree, LeafAt
      <4>2. SomeRb(u.child, target, u.color, {target}, NULL, NULL, {target})
        BY <2>5, <1>4, AddFirst
      <4>3. linked \cup {target} = {target}
        BY <4>1
      <4> QED
        BY <4>1, <4>2, <4>3
    <3>2. CASE e.parent # NULL
      <4> DEFINE q == e.parent
                 f == e.dir
      <4>1. q \in linked /\ f \in Dir /\ tree.child[q][f] = NULL
        BY <3>2, <2>2
      <4>2. OnPath(tree.child, linked, D, Val[target], q) /\ Before(f, target, q)
        BY <3>2, <2>w, <1>3 DEF InsertDescendInv
      <4>3. u.root = tree.root
        BY <3>2, <2>7 DEF LeafAt
      <4>4. Hangs(tree.child, u.child, linked, target, q, f)
        BY <2>5, <2>7 DEF Hangs, LeafAt
      <4> HIDE DEF q, f
      <4> QED
        BY <4>1, <4>2, <4>3, <4>4, <2>1, <2>5, <2>6, <1>3, <1>4, AddLeaf
    <3> QED
      BY <3>1, <3>2
  <2>10. AtEnd' = target /\ Leads(AtEnd)'
    BY <2>8, <1>5 DEF AtEnd, Leads, WorkLink, WayTo
  <2>11. InsertColorInv'
    BY <2>5, <2>10, <1>4, <1>5 DEF InsertColorInv
  <2>12. OwedAt' = NULL /\ OwedDir' = NULL /\ Exempt' = {target}
    BY <2>10, <1>5 DEF OwedAt, OwedDir, Exempt
  <2>13. Typed'
    BY <2>5, <1>3, <1>4, <1>5 DEF Typed
  <2> QED
    BY <2>9, <2>11, <2>12, <2>13, <1>5, WriteStep
<1>6. CASE cur # NULL /\ Return(cur, <<>>) /\ UNCHANGED <<tree, linked>>
  BY <1>2, <1>4, <1>6, ReturnsRead
<1>7. CASE /\ cur # NULL /\ Val[target] # Val[cur] /\ cur' = p /\ rp' = Push(rp, cur, dir)
           /\ UNCHANGED <<tree, linked, at, pc, call, target, ret>>
  <2>0. cur \in linked
    BY <1>4, <1>7
  <2>1. /\ dir \in Dir
        /\ \A m \in D[cur] : Val[m] = Val[target] => m \in D[p]
        /\ IF dir = RB_LEFT THEN Val[target] < Val[cur] ELSE Val[cur] < Val[target]
    BY <2>0, <1>3, <1>4, <1>7, SearchSide
  <2>2. p \in linked \cup {NULL}
    BY <2>0, <2>1, <1>3 DEF IsTree
  <2> HIDE DEF dir
  <2>3. Pushes(tree.child, tree.root, linked, rp, cur, dir)
    BY <2>0, <2>1, <1>3, <1>4, PushWay
  <2>4. Leads(cur)' /\ WorkLink'.parent = cur /\ WorkLink'.dir = dir
    BY <2>3, <1>7 DEF Leads, Pushes, WorkLink
  <2>5. Before(dir, target, cur)
    BY <2>1 DEF Before
  <2>6. OnPath(tree.child, linked, D, Val[target], cur)
    <3> SUFFICES ASSUME NEW x \in linked, NEW d \in Dir, cur \in D[tree.child[x][d]]
                 PROVE  IF d = RB_LEFT THEN Val[target] < Val[x] ELSE Val[x] < Val[target]
      BY DEF OnPath
    <3> DEFINE q == WorkLink.parent
               f == WorkLink.dir
               y == tree.child[x][d]
    <3>0. /\ q = NULL => cur = tree.root
          /\ q # NULL => q \in linked /\ f \in Dir /\ tree.child[q][f] = cur
      BY <1>3, <1>4, WayEnd DEF WorkLink
    <3>q. q # NULL => OnPath(tree.child, linked, D, Val[target], q) /\ Before(f, target, q)
      BY <1>3 DEF InsertDescendInv
    <3>n. q # NULL
      <4>1. tree.root \notin D[tree.child[x][d]]
        BY <1>3, RootAtTop
      <4> QED
        BY <4>1, <3>0
    <3> HIDE DEF q, f
    <3>1. CASE y = cur
      <4>1. x = q /\ d = f
        BY <3>0, <3>1, <3>n, <1>3, <1>7, OneParent
      <4> QED
        BY <4>1, <3>q, <3>n DEF Before
    <3>2. CASE y # cur
      <4>1. y \in linked
        <5>1. y \in linked \cup {NULL}
          BY <1>3 DEF IsTree
        <5> QED
          BY <5>1, <1>4
      <4> HIDE DEF y
      <4>2. tree.child[q][f] \in D[y] /\ tree.child[q][f] # y
        BY <3>0, <3>2, <3>n DEF y
      <4>3. q \in D[y]
        BY <4>1, <4>2, <3>0, <3>n, <1>3, ParentIn, SMTT(30)
      <4> QED
        BY <4>3, <3>q, <3>n DEF OnPath, y
    <3> QED
      BY <3>1, <3>2
  <2> HIDE DEF p
  <2>7. \A m \in linked : Val[m] = Val[target] => m \in D[p]
    BY <2>1, <1>3 DEF InsertDescendInv, Seeks
  <2>8. InsertDescendInv(D)'
    BY <2>2, <2>4, <2>5, <2>6, <2>7, <1>3, <1>4, <1>7 DEF InsertDescendInv, Seeks
  <2>9. CallInv(D)'
    BY <2>8, <1>2, <1>7 DEF CallInv
  <2>10. Typed'
    BY <2>2, <1>3, <1>7 DEF Typed, Ptr
  <2> QED
    BY <2>9, <2>10, <1>1, <1>2, <1>7, ReadStep DEF Inv
<1> QED
  BY <1>2, <1>5, <1>6, <1>7

\* Repainting leaves the links alone.
LEMMA PaintFields ==
  ASSUME NEW t \in Tree, NEW L \in SUBSET Node, NEW n \in Node,
         NEW c \in {RB_RED, RB_BLACK}
  PROVE  /\ rb_set_color(t, n, c) \in Tree
         /\ rb_set_color(t, n, c).root = t.root
         /\ rb_set_color(t, n, c).child = t.child
         /\ Paints(t.color, rb_set_color(t, n, c).color, L, n, c)
<1>1. /\ rb_set_color(t, n, c) \in Tree
      /\ rb_set_color(t, n, c).root = t.root
      /\ rb_set_color(t, n, c).child = t.child
      /\ \A x \in Node : rb_set_color(t, n, c).color[x] = IF x = n THEN c ELSE t.color[x]
  BY SetColor, ZenonT(40)
<1> HIDE DEF rb_set_color
<1> QED
  BY <1>1 DEF Paints

\* The end of a stack is the place of the node it leads to.
LEMMA WayPlace ==
  ASSUME NEW ch, NEW r, NEW L \in SUBSET Node, NEW w, NEW n, WayTo(ch, r, L, w, n)
  PROVE  Place(Entry(w, 0)) /\ Above(ch, r, L, n, Entry(w, 0).parent, Entry(w, 0).dir)
<1>1. /\ Above(ch, r, L, n, Entry(w, 0).parent, Entry(w, 0).dir)
      /\ Entry(w, 0).parent # NULL => Entry(w, 0).parent \in L /\ Entry(w, 0).dir \in Dir
  BY WayEnd
<1> QED
  BY <1>1 DEF Place

\* The tree u after a rotation of t at the black node a, whose child p is red,
\* when they have exchanged their colours.
SwappedUp(t, u, L, a, p, dir, q, e) ==
  /\ u \in Tree
  /\ Rotates(t.child, t.root, u.child, u.root, L, a, dir)
  /\ AroundPivot(t.child, t.root, u.child, L, a, p, dir)
  /\ SwapsColors(t.color, u.color, L, a, p)
  /\ SomeRb(u.child, u.root, u.color, L, q, e, {})

\* The last case of rb_insert_color, cases 1 and 3 of rb_remove_color.
LEMMA SwapUp ==
  ASSUME NEW t \in Tree, NEW L \in SUBSET Node, NEW D, NEW B, NEW q, NEW e, NEW X,
         IsRb(t.child, t.root, t.color, L, D, B, q, e, X),
         NEW a \in L, NEW dir \in Dir, NEW p \in L, t.child[a][Opp(dir)] = p,
         NEW pl, Place(pl), Above(t.child, t.root, L, a, pl.parent, pl.dir),
         t.color[a] = RB_BLACK, t.color[p] = RB_RED,
         t.child[a][dir] \in L => t.color[t.child[a][dir]] = RB_BLACK,
         t.child[p][dir] \in L => t.color[t.child[p][dir]] = RB_BLACK,
         X \subseteq {t.child[p][Opp(dir)]},
         q # p, ~(q = a /\ e = Opp(dir))
  PROVE  SwappedUp(t, Hang(rb_rotate(rb_set_color(rb_set_color(t, p, RB_BLACK), a, RB_RED), a, dir),
                           pl, p),
                   L, a, p, dir, q, e)
<1> DEFINE t1 == rb_set_color(t, p, RB_BLACK)
           t2 == rb_set_color(t1, a, RB_RED)
           u == Hang(rb_rotate(t2, a, dir), pl, p)
<1>1. a \in Node /\ p \in Node /\ IsTree(t.child, t.root, L, D)
  BY DEF IsRb
<1>2. /\ t1 \in Tree /\ t1.root = t.root /\ t1.child = t.child
      /\ Paints(t.color, t1.color, L, p, RB_BLACK)
  BY <1>1, PaintFields
<1> HIDE DEF t1
<1>3. /\ t2 \in Tree /\ t2.root = t1.root /\ t2.child = t1.child
      /\ Paints(t1.color, t2.color, L, a, RB_RED)
  BY <1>1, <1>2, PaintFields
<1> HIDE DEF t2
<1>4. SwapsColors(t.color, t2.color, L, a, p)
  BY <1>2, <1>3 DEF Paints, SwapsColors
<1>5. Rotated(t2, u, L, a, dir)
  <2>1. IsTree(t2.child, t2.root, L, D) /\ t2.child[a][Opp(dir)] = p
        /\ Above(t2.child, t2.root, L, a, pl.parent, pl.dir)
    BY <1>1, <1>2, <1>3
  <2> QED
    BY <2>1, <1>3, RotateFields
<1> HIDE DEF u
<1>6. /\ u \in Tree /\ u.color = t2.color
      /\ Rotates(t.child, t.root, u.child, u.root, L, a, dir)
  BY <1>2, <1>3, <1>5 DEF Rotated
<1>7. AroundPivot(t.child, t.root, u.child, L, a, p, dir)
  BY <1>1, <1>6, RotateLinks
<1>8. SomeRb(u.child, u.root, u.color, L, q, e, {})
  BY <1>4, <1>6, RotateSwap
<1>9. SwappedUp(t, u, L, a, p, dir, q, e)
  BY <1>4, <1>6, <1>7, <1>8 DEF SwappedUp
<1> QED
  BY <1>9 DEF u, t2, t1

\* A red node n below a red parent has a grandparent, which is black.
RedUp(t, L, n, q, f, g, dir) ==
  /\ q \in L /\ f \in Dir /\ g \in L /\ dir \in Dir
  /\ t.color[q] = RB_RED /\ t.color[g] = RB_BLACK
  /\ t.child[g][dir] = q
  /\ t.child[q][f] = n
  /\ n # q /\ n # g /\ q # g

\* The stack w that leads to n has entries for both, and the rest leads to the
\* grandparent.
RedWay(t, L, w, n) ==
  /\ RedUp(t, L, n, Entry(w, 0).parent, Entry(w, 0).dir, Entry(w, -1).parent, Entry(w, -1).dir)
  /\ WayTo(t.child, t.root, L, Pop(w, 2), Entry(w, -1).parent)
  /\ Place(Entry(w, -2))
  /\ Above(t.child, t.root, L, Entry(w, -1).parent, Entry(w, -2).parent, Entry(w, -2).dir)

\* A red parent is not the root, so the entries rb_insert_color reads are there.
LEMMA RedParent ==
  ASSUME NEW t \in Tree, NEW L \in SUBSET Node, NEW D, NEW B, NEW n \in L, NEW e,
         IsRb(t.child, t.root, t.color, L, D, B, NULL, e, {n}),
         NEW w, WayTo(t.child, t.root, L, w, n),
         t.color[n] = RB_RED, IsRed(t, Entry(w, 0).parent)
  PROVE  RedWay(t, L, w, n)
<1> DEFINE q == Entry(w, 0).parent
           f == Entry(w, 0).dir
           v == Pop(w, 1)
           g == Entry(w, -1).parent
           dir == Entry(w, -1).dir
           x == Pop(v, 1)
<1>1. IsTree(t.child, t.root, L, D) /\ RedsApart(t.child, t.root, t.color, L, {n})
  BY DEF IsRb
<1>2. LinkFacts(t.child, t.root, L, D)
  BY <1>1, TreeLinks
<1>3. q # NULL /\ t.color[q] = RB_RED
  BY DEF IsRed
<1>4. q \in L /\ f \in Dir /\ t.child[q][f] = n
  BY <1>3, WayEnd
<1>5. q # n
  BY <1>2, <1>4 DEF LinkFacts
<1>7. q # t.root
  BY <1>1, <1>3, <1>4, <1>5 DEF RedsApart, RB_RED, RB_BLACK
<1>p. Pops(t.child, t.root, L, w)
  BY <1>3, PopWay
<1>v. WayTo(t.child, t.root, L, v, q) /\ Entry(v, 0) = Entry(w, -1)
  BY <1>p DEF Pops
<1>8. g \in L /\ t.child[g][dir] = q /\ dir \in Dir /\ g # NULL
  <2> HIDE DEF v, q
  <2>1. /\ Entry(v, 0).parent = NULL => q = t.root
        /\ Entry(v, 0).parent # NULL => /\ Entry(v, 0).parent \in L /\ Entry(v, 0).dir \in Dir
                                        /\ t.child[Entry(v, 0).parent][Entry(v, 0).dir] = q
    BY <1>v, WayEnd
  <2> QED
    BY <2>1, <1>7, <1>v
<1>x. WayTo(t.child, t.root, L, x, g)
  <2>1. Pops(t.child, t.root, L, v)
    <3> HIDE DEF v, q
    <3>1. Entry(v, 0).parent # NULL
      BY <1>v, <1>8
    <3> QED
      BY <3>1, <1>v, PopWay
  <2> QED
    BY <2>1, <1>v DEF Pops
<1>y. Pop(w, 2) = x /\ Entry(x, 0) = Entry(w, -2)
  BY <1>3, <1>8, PopTwo
<1>z. Place(Entry(w, -2)) /\ Above(t.child, t.root, L, g, Entry(w, -2).parent, Entry(w, -2).dir)
  <2> HIDE DEF x, g
  <2>1. Place(Entry(x, 0)) /\ Above(t.child, t.root, L, g, Entry(x, 0).parent, Entry(x, 0).dir)
    BY <1>x, WayPlace
  <2> QED
    BY <2>1, <1>y
<1> HIDE DEF q, g, dir, f, v, x
<1>9. g # q /\ g # n
  BY <1>2, <1>4, <1>8 DEF LinkFacts
<1>10. t.color[g] = RB_BLACK
  <2>1. t.color[g] \in {RB_RED, RB_BLACK}
    BY <1>8 DEF IsRb
  <2> QED
    BY <2>1, <1>1, <1>3, <1>4, <1>5, <1>8 DEF RedsApart, RB_RED, RB_BLACK
<1>11. RedUp(t, L, n, q, f, g, dir)
  BY <1>3, <1>4, <1>5, <1>8, <1>9, <1>10 DEF RedUp
<1>12. WayTo(t.child, t.root, L, Pop(w, 2), g)
  BY <1>x, <1>y
<1> QED
  BY <1>11, <1>12, <1>z DEF RedWay, q, g, dir, f

\* What InsertCase23 makes of t.
Straightened(u, L) ==
  /\ u \in Tree
  /\ SomeRb(u.child, u.root, u.color, L, NULL, NULL, {})

\* Case 3 of rb_insert_color: q is an outer child, the red n its outer child.
LEMMA Case3 ==
  ASSUME NEW t \in Tree, NEW L \in SUBSET Node, NEW D, NEW B, NEW n,
         IsRb(t.child, t.root, t.color, L, D, B, NULL, NULL, {n}),
         NEW q \in L, NEW g \in L, NEW dir \in Dir, t.child[g][dir] = q, t.child[q][dir] = n,
         t.color[q] = RB_RED, t.color[g] = RB_BLACK,
         t.child[g][Opp(dir)] \in L => t.color[t.child[g][Opp(dir)]] = RB_BLACK,
         t.child[q][Opp(dir)] \in L => t.color[t.child[q][Opp(dir)]] = RB_BLACK,
         NEW pl, Place(pl), Above(t.child, t.root, L, g, pl.parent, pl.dir),
         NEW t2, t2 = rb_set_color(rb_set_color(t, q, RB_BLACK), g, RB_RED)
  PROVE  Straightened(Hang(rb_rotate(t2, g, Opp(dir)), pl, Pivot(t2, g, Opp(dir))), L)
<1> DEFINE od == Opp(dir)
           v == Hang(rb_rotate(rb_set_color(rb_set_color(t, q, RB_BLACK), g, RB_RED), g, od), pl, q)
<1>1. /\ od \in Dir /\ Opp(od) = dir /\ q \in Node /\ g \in Node
      /\ NULL # q /\ NULL # g
  BY Sides, NullAssumption
<1>2. {n} \subseteq {t.child[q][Opp(od)]} /\ t.child[g][Opp(od)] = q
  BY <1>1
<1>3. /\ t.child[g][od] \in L => t.color[t.child[g][od]] = RB_BLACK
      /\ t.child[q][od] \in L => t.color[t.child[q][od]] = RB_BLACK
  OBVIOUS
<1>4. Pivot(t2, g, od) = q
  <2> DEFINE t1 == rb_set_color(t, q, RB_BLACK)
  <2>1. t1 \in Tree /\ t1.child = t.child
    BY <1>1, PaintFields
  <2> HIDE DEF t1
  <2>2. rb_set_color(t1, g, RB_RED).child = t1.child
    BY <1>1, <2>1, PaintFields
  <2> QED
    BY <2>1, <2>2, <1>2 DEF Pivot, t1
<1> HIDE DEF od
<1>5. SwappedUp(t, v, L, g, q, od, NULL, NULL)
  BY <1>1, <1>2, <1>3, SwapUp
<1>6. Straightened(v, L)
  BY <1>5 DEF SwappedUp, Straightened
<1> QED
  BY <1>4, <1>6 DEF od

\* Cases 2 and 3 of rb_insert_color as changes of the links.
LEMMA Case23 ==
  ASSUME NEW t \in Tree, NEW L \in SUBSET Node, NEW D, NEW B, NEW n \in L,
         IsRb(t.child, t.root, t.color, L, D, B, NULL, NULL, {n}),
         t.color[n] = RB_RED, NEW w, RedWay(t, L, w, n),
         IsBlack(t, t.child[Entry(w, -1).parent][Opp(Entry(w, -1).dir)])
  PROVE  Straightened(InsertCase23(t, w), L)
<1> DEFINE q == Entry(w, 0).parent
           f == Entry(w, 0).dir
           g == Entry(w, -1).parent
           dir == Entry(w, -1).dir
           pl == Entry(w, -2)
           u == InsertCase23(t, w)
<1>1. /\ q \in L /\ g \in L /\ dir \in Dir /\ t.color[q] = RB_RED /\ t.color[g] = RB_BLACK
      /\ t.child[g][dir] = q /\ n # q /\ n # g /\ q # g /\ f \in Dir /\ t.child[q][f] = n
      /\ Place(pl) /\ Above(t.child, t.root, L, g, pl.parent, pl.dir)
  BY DEF RedUp, RedWay
<1>3. /\ Opp(dir) \in Dir /\ Opp(Opp(dir)) = dir /\ Opp(dir) # dir
      /\ \A d \in Dir : d = dir \/ d = Opp(dir)
  BY <1>1, Sides
<1>4. /\ IsTree(t.child, t.root, L, D) /\ RedsApart(t.child, t.root, t.color, L, {n})
      /\ \A x \in L : t.color[x] \in {RB_RED, RB_BLACK}
  BY DEF IsRb
<1>l. LinkFacts(t.child, t.root, L, D)
  BY <1>4, TreeLinks
<1>5. t.child[g][Opp(dir)] \in L => t.color[t.child[g][Opp(dir)]] = RB_BLACK
  BY <1>4, NullAssumption DEF IsBlack, IsRed
<1>6. \A x \in L, d \in Dir :
        t.child[x][d] \in L /\ t.color[x] = RB_RED /\ t.child[x][d] # n
          => t.color[t.child[x][d]] = RB_BLACK
  BY <1>4 DEF RedsApart
<1>7. CASE f = dir
  <2> DEFINE t2 == rb_set_color(rb_set_color(t, q, RB_BLACK), g, RB_RED)
  <2>2. u = Hang(rb_rotate(t2, g, Opp(dir)), pl, Pivot(t2, g, Opp(dir)))
    BY <1>7 DEF InsertCase23
  <2>3. t.child[q][Opp(dir)] \in L => t.color[t.child[q][Opp(dir)]] = RB_BLACK
    <3>1. t.child[q][Opp(dir)] # n
      BY <1>1, <1>3, <1>7, <1>l, NullAssumption DEF LinkFacts
    <3> QED
      BY <3>1, <1>1, <1>3, <1>6
  <2>4. t.child[q][dir] = n
    BY <1>1, <1>7
  <2> HIDE DEF q, g, dir, pl, t2, f
  <2>5. Straightened(Hang(rb_rotate(t2, g, Opp(dir)), pl, Pivot(t2, g, Opp(dir))), L)
    BY <2>3, <2>4, <1>1, <1>5, Case3 DEF t2
  <2> QED
    BY <2>2, <2>5
<1>8. CASE f # dir
  <2> DEFINE e2 == [parent |-> g, dir |-> dir]
             t1 == Hang(rb_rotate(t, q, dir), e2, n)
             t2 == rb_set_color(rb_set_color(t1, n, RB_BLACK), g, RB_RED)
  <2>0. f = Opp(dir) /\ t.child[q][Opp(dir)] = n /\ Pivot(t, q, dir) = n
    BY <1>1, <1>3, <1>8 DEF Pivot
  <2>e. /\ e2.parent = g /\ e2.dir = dir /\ Place(e2) /\ g # NULL
        /\ Above(t.child, t.root, L, q, e2.parent, e2.dir)
    BY <1>1, NullAssumption DEF Place, Above
  <2>1. u = Hang(rb_rotate(t2, g, Opp(dir)), pl, Pivot(t2, g, Opp(dir)))
    <3>1. t1 = rb_set_child(rb_rotate(t, q, dir), g, dir, n)
      BY <2>e DEF Hang
    <3>2. Entry(w, 0).dir # Entry(w, -1).dir
      BY <1>8
    <3> QED
      BY <2>0, <3>1, <3>2 DEF InsertCase23
  <2> HIDE DEF q, g, dir, pl, f, e2, u
  <2>2. Rotated(t, t1, L, q, dir)
    BY <2>0, <2>e, <1>1, <1>4, RotateFields
  <2> HIDE DEF t1
  <2>3. /\ t1 \in Tree /\ t1.color = t.color
        /\ Rotates(t.child, t.root, t1.child, t1.root, L, q, dir)
    BY <2>2 DEF Rotated
  <2>4. AroundPivot(t.child, t.root, t1.child, L, q, n, dir)
    BY <2>0, <2>3, <1>1, <1>4, RotateLinks
  <2>5. SomeRb(t1.child, t1.root, t.color, L, NULL, NULL, {q})
    <3>1. NULL # q /\ NULL # n
      BY <1>1, NullAssumption
    <3> QED
      BY <3>1, <2>0, <2>3, <1>1, RotateBent
  <2>6. PICK D1, B1 : IsRb(t1.child, t1.root, t1.color, L, D1, B1, NULL, NULL, {q})
    BY <2>3, <2>5 DEF SomeRb
  <2>7. /\ t1.child[g][dir] = n /\ t1.child[n][dir] = q
        /\ t1.child[n][Opp(dir)] = t.child[n][Opp(dir)]
    BY <2>4, <1>1, <1>3 DEF AroundPivot
  <2>8. t1.child[g][Opp(dir)] = t.child[g][Opp(dir)]
    <3>1. t.child[g][Opp(dir)] # q
      BY <1>1, <1>3, <1>l, NullAssumption DEF LinkFacts
    <3> QED
      BY <3>1, <2>4, <1>1, <1>3 DEF AroundPivot
  <2>9. t1.child[n][Opp(dir)] \in L => t1.color[t1.child[n][Opp(dir)]] = RB_BLACK
    <3>1. t.child[n][Opp(dir)] # n
      BY <1>3, <1>l DEF LinkFacts
    <3> QED
      BY <3>1, <2>3, <2>7, <1>3, <1>6
  <2>10. t1.child[g][Opp(dir)] \in L => t1.color[t1.child[g][Opp(dir)]] = RB_BLACK
    BY <2>3, <2>8, <1>5
  <2>11. Above(t1.child, t1.root, L, g, pl.parent, pl.dir)
    <3>1. g \notin D[q]
      BY <1>1, <1>l DEF LinkFacts
    <3> QED
      BY <3>1, <2>0, <2>3, <1>1, <1>4, AboveKept
  <2>12. t1.color[g] = RB_BLACK /\ t1.color[n] = RB_RED
    BY <2>3, <1>1
  <2> HIDE DEF t2
  <2>13. Straightened(Hang(rb_rotate(t2, g, Opp(dir)), pl, Pivot(t2, g, Opp(dir))), L)
    BY <2>3, <2>6, <2>7, <2>9, <2>10, <2>11, <2>12, <1>1, Case3 DEF t2
  <2> QED
    BY <2>1, <2>13 DEF u
<1> QED
  BY <1>7, <1>8

\* Painting the root black, as rb_insert_color does at its end and
\* rb_remove_color after case 4.
LEMMA RootBlack ==
  ASSUME NEW u \in Tree, NEW L \in SUBSET Node, L # {}, NEW D, NEW B, NEW X,
         IsRb(u.child, u.root, u.color, L, D, B, NULL, NULL, X),
         X \subseteq {u.root} \cup {u.child[u.root][d] : d \in Dir}
  PROVE  Straightened(rb_set_color(u, u.root, RB_BLACK), L)
<1> DEFINE v == rb_set_color(u, u.root, RB_BLACK)
<1>1. u.root \in L /\ u.root \in Node
  <2>1. u.root \in L \cup {NULL} /\ D[u.root] = L /\ D[NULL] = {}
    BY DEF IsRb, IsTree
  <2> QED
    BY <2>1
<1>2. /\ v \in Tree /\ v.root = u.root /\ v.child = u.child
      /\ Paints(u.color, v.color, L, u.root, RB_BLACK)
  <2>1. RB_BLACK \in {RB_RED, RB_BLACK}
    OBVIOUS
  <2> QED
    BY <1>1, <2>1, PaintFields
<1> HIDE DEF v
<1>3. SomeRb(u.child, u.root, v.color, L, NULL, NULL, {})
  BY <1>1, <1>2, PaintRoot, ZenonT(40)
<1>4. Straightened(v, L)
  BY <1>2, <1>3 DEF Straightened
<1> QED
  BY <1>4 DEF v

\* The state at the top of the loop of rb_insert_color.
LEMMA InsertColorFacts ==
  ASSUME Inv, pc = "insert_color"
  PROVE  /\ Typed /\ tree \in Tree /\ linked \in SUBSET Node
         /\ target \in Node /\ AtEnd \in linked /\ tree.color[AtEnd] = RB_RED
         /\ WayTo(tree.child, tree.root, linked, rp, AtEnd)
         /\ SomeRb(tree.child, tree.root, tree.color, linked, NULL, NULL, {AtEnd})
<1>1. PICK D, B : Shape(D, B) /\ CallInv(D)
  BY DEF Inv
<1>2. IsRb(tree.child, tree.root, tree.color, linked, D, B, NULL, NULL, {AtEnd})
  BY <1>1 DEF Shape, OwedAt, OwedDir, Exempt
<1> QED
  BY <1>1, <1>2 DEF SomeRb, Inv, Typed, CallInv, InsertColorInv, Leads

\* A turn of rb_insert_color moves the one red-red pair up or removes it.
LEMMA InsertColorStep == ASSUME Inv, InsertColor PROVE Inv'
<1> DEFINE n == AtEnd
           q == Entry(rp, 0).parent
           g == Entry(rp, -1).parent
           dir == Entry(rp, -1).dir
           uncle == tree.child[g][Opp(dir)]
           t == InsertCase23(tree, rp)
<1>1. /\ pc = "insert_color" /\ linked' = linked
      /\ \/ /\ IsBlack(tree, q) /\ tree' = rb_set_color(tree, tree.root, RB_BLACK)
            /\ Return(target, <<>>)
         \/ /\ IsRed(tree, q) /\ IsRed(tree, uncle)
            /\ tree' = InsertCase1(tree, q, uncle, g) /\ rp' = Pop(rp, 2)
            /\ UNCHANGED <<cur, at, pc, call, target, ret>>
         \/ /\ IsRed(tree, q) /\ IsBlack(tree, uncle)
            /\ tree' = rb_set_color(t, t.root, RB_BLACK)
            /\ Return(target, <<>>)
  BY DEF InsertColor, InsertDone, Continue
<1>2. /\ Typed /\ tree \in Tree /\ linked \in SUBSET Node
      /\ target \in Node /\ n \in linked /\ tree.color[n] = RB_RED
      /\ WayTo(tree.child, tree.root, linked, rp, n)
      /\ SomeRb(tree.child, tree.root, tree.color, linked, NULL, NULL, {n})
  BY <1>1, InsertColorFacts
<1>3. PICK D, B : IsRb(tree.child, tree.root, tree.color, linked, D, B, NULL, NULL, {n})
  BY <1>2 DEF SomeRb
<1>4. IsTree(tree.child, tree.root, linked, D) /\ RedsApart(tree.child, tree.root, tree.color, linked, {n})
  BY <1>3 DEF IsRb
<1>5. target \in Ptr /\ linked # {}
  BY <1>2 DEF Ptr
<1> HIDE DEF n
<1>6. CASE /\ IsBlack(tree, q) /\ tree' = rb_set_color(tree, tree.root, RB_BLACK)
           /\ Return(target, <<>>)
  <2>0. PlaceOf(tree.child, tree.root, linked, n, q, Entry(rp, 0).dir)
    <3>1. Above(tree.child, tree.root, linked, n, Entry(rp, 0).parent, Entry(rp, 0).dir)
      BY <1>2, WayEnd
    <3> QED
      BY <3>1, <1>2, <1>4, AboveLink
  <2>1. Straightened(tree', linked)
    <3>1. CASE n = tree.root
      <4>1. {n} \subseteq {tree.root} \cup {tree.child[tree.root][d] : d \in Dir}
        BY <3>1
      <4> QED
        BY <4>1, <1>2, <1>3, <1>5, <1>6, RootBlack
    <3>2. CASE n # tree.root
      <4>1. q \in linked /\ \A x \in linked, d \in Dir : tree.child[x][d] = n => x = q
        BY <3>2, <2>0 DEF PlaceOf
      <4>2. tree.color[q] # RB_RED
        BY <4>1, <1>2, <1>6, NullAssumption DEF IsBlack, IsRed
      <4> HIDE DEF q
      <4>3. RedsApart(tree.child, tree.root, tree.color, linked, {})
        BY <4>1, <4>2, <3>2, <1>4 DEF RedsApart
      <4> DEFINE X == {}
      <4>4. IsRb(tree.child, tree.root, tree.color, linked, D, B, NULL, NULL, X)
        BY <4>3, <1>3 DEF IsRb
      <4>5. X \subseteq {tree.root} \cup {tree.child[tree.root][d] : d \in Dir}
        OBVIOUS
      <4> HIDE DEF X
      <4> QED
        BY <4>4, <4>5, <1>2, <1>5, <1>6, RootBlack
    <3> QED
      BY <3>1, <3>2
  <2> QED
    BY <2>1, <1>1, <1>2, <1>5, <1>6, Returns DEF Straightened
<1>7. ASSUME IsRed(tree, q) PROVE RedWay(tree, linked, rp, n)
  BY <1>2, <1>3, <1>7, RedParent
<1>8. CASE /\ IsRed(tree, q) /\ IsRed(tree, uncle)
           /\ tree' = InsertCase1(tree, q, uncle, g) /\ rp' = Pop(rp, 2)
           /\ UNCHANGED <<cur, at, pc, call, target, ret>>
  <2> DEFINE f == Entry(rp, 0).dir
  <2>1. RedUp(tree, linked, n, q, f, g, dir) /\ WayTo(tree.child, tree.root, linked, rp', g)
    BY <1>7, <1>8 DEF RedWay
  <2> HIDE DEF q, g, dir, f
  <2>2. /\ q \in linked /\ g \in linked /\ dir \in Dir /\ f \in Dir
        /\ tree.color[q] = RB_RED /\ tree.color[g] = RB_BLACK
        /\ tree.child[g][dir] = q /\ tree.child[q][f] = n /\ n # q /\ n # g /\ q # g
    BY <2>1 DEF RedUp
  <2>4. uncle \in linked /\ tree.color[uncle] = RB_RED /\ Opp(dir) \in Dir
    <3>1. uncle # NULL /\ tree.color[uncle] = RB_RED
      BY <1>8 DEF IsRed
    <3>2. Opp(dir) \in Dir
      BY <2>2, Sides
    <3> QED
      BY <3>1, <3>2, <2>2, <1>4 DEF IsTree
  <2> DEFINE t1 == rb_set_color(tree, q, RB_BLACK)
             t2 == rb_set_color(t1, uncle, RB_BLACK)
             t3 == rb_set_color(t2, g, RB_RED)
  <2>5. tree.child[g][Opp(dir)] = uncle
    OBVIOUS
  <2> HIDE DEF uncle
  <2>6. /\ t1 \in Tree /\ t1.root = tree.root /\ t1.child = tree.child
        /\ Paints(tree.color, t1.color, linked, q, RB_BLACK)
    BY <2>2, <1>2, PaintFields
  <2> HIDE DEF t1
  <2>7. /\ t2 \in Tree /\ t2.root = t1.root /\ t2.child = t1.child
        /\ Paints(t1.color, t2.color, linked, uncle, RB_BLACK)
    BY <2>4, <2>6, <1>2, PaintFields
  <2> HIDE DEF t2
  <2>8. /\ t3 \in Tree /\ t3.root = t2.root /\ t3.child = t2.child
        /\ Paints(t2.color, t3.color, linked, g, RB_RED)
    BY <2>2, <2>7, <1>2, PaintFields
  <2>9. tree' = t3
    BY <1>8 DEF InsertCase1, t1, t2
  <2> HIDE DEF t3
  <2>10. PaintsFamily(tree.color, t3.color, linked, g, q, uncle)
    BY <2>6, <2>7, <2>8 DEF Paints, PaintsFamily
  <2>11. SomeRb(tree.child, tree.root, t3.color, linked, NULL, NULL, {g})
    <3>1. NULL \notin {g, q, uncle}
      BY <2>2, <2>4, <1>2, NullAssumption
    <3> QED
      BY <3>1, <2>2, <2>4, <2>5, <2>10, <1>2, <1>3, PushRed
  <2>12. t3.color[g] = RB_RED
    BY <2>2, <2>8 DEF Paints
  <2>13. tree'.child = tree.child /\ tree'.root = tree.root /\ tree' \in Tree
    BY <2>6, <2>7, <2>8, <2>9
  <2>14. AtEnd' = g /\ Leads(AtEnd)'
    BY <2>1, <2>13, <1>1 DEF AtEnd, Leads, WayTo, WorkLink
  <2>15. UNCHANGED <<linked, pc, call, target, cur, at, ret>>
    BY <1>1, <1>8
  <2>16. Typed'
    BY <2>13, <2>15, <1>2 DEF Typed
  <2>17. OwedAt' = NULL /\ OwedDir' = NULL /\ Exempt' = {g}
    BY <2>14, <2>15, <1>1 DEF OwedAt, OwedDir, Exempt
  <2>18. InsertColorInv'
    BY <2>2, <2>9, <2>12, <2>14, <2>15, <1>2 DEF InsertColorInv
  <2>19. SomeRb(tree'.child, tree'.root, tree'.color, linked', OwedAt', OwedDir', Exempt')
    BY <2>9, <2>11, <2>13, <2>15, <2>17
  <2> QED
    BY <2>15, <2>16, <2>18, <2>19, <1>1, WriteStep
<1>9. CASE /\ IsRed(tree, q) /\ IsBlack(tree, uncle)
           /\ tree' = rb_set_color(t, t.root, RB_BLACK)
           /\ Return(target, <<>>)
  <2>1. RedWay(tree, linked, rp, n)
    BY <1>7, <1>9
  <2>2. IsBlack(tree, tree.child[Entry(rp, -1).parent][Opp(Entry(rp, -1).dir)])
    BY <1>9
  <2> HIDE DEF q, g, dir, uncle
  <2>3. Straightened(t, linked)
    BY <2>1, <2>2, <1>2, <1>3, Case23
  <2> HIDE DEF t
  <2>4. t \in Tree
    BY <2>3 DEF Straightened
  <2> DEFINE X == {}
  <2>5. PICK D1, B1 : IsRb(t.child, t.root, t.color, linked, D1, B1, NULL, NULL, X)
    BY <2>3 DEF Straightened, SomeRb
  <2>6. X \subseteq {t.root} \cup {t.child[t.root][d] : d \in Dir}
    OBVIOUS
  <2> HIDE DEF X
  <2>7. Straightened(tree', linked)
    BY <2>4, <2>5, <2>6, <1>2, <1>5, <1>9, RootBlack
  <2> QED
    BY <2>7, <1>1, <1>2, <1>5, <1>9, Returns DEF Straightened
<1> QED
  BY <1>1, <1>6, <1>8, <1>9

-----------------------------------------------------------------------------
(* Removing.                                                               *)

\* The client's scribbles on a node that is out of the tree change nothing.
LEMMA PoisonKeeps ==
  ASSUME NEW t \in Tree, NEW L \in SUBSET Node, NEW n \in Node, n \notin L,
         NEW X, SomeRb(t.child, t.root, t.color, L, NULL, NULL, X)
  PROVE  /\ Poison(t, n) \in Tree
         /\ SomeRb(Poison(t, n).child, Poison(t, n).root, Poison(t, n).color, L, NULL, NULL, X)
<1> DEFINE u == Poison(t, n)
<1>1. /\ u \in Tree /\ u.root = t.root
      /\ \A x \in Node \ {n} : u.child[x] = t.child[x] /\ u.color[x] = t.color[x]
  BY PoisonFields
<1> HIDE DEF u
<1>2. SameOn(t.child, u.child, L) /\ SameOn(t.color, u.color, L)
  BY <1>1 DEF SameOn
<1>3. SomeRb(u.child, t.root, u.color, L, NULL, NULL, X)
  BY <1>2, OthersFree
<1> QED
  BY <1>1, <1>3 DEF u

\* The state after Unlink: the stack leads to c, which is in the place of the
\* node that left.
Unlinked(t, L, path, c) ==
  /\ t \in Tree
  /\ c \in L \cup {NULL}
  /\ WayTo(t.child, t.root, L, path, c)

\* rb_remove returns, or goes on to rb_remove_color, which owes a black at the
\* end of the stack.
LEMMA UnlinkStep ==
  ASSUME Typed, target \in linked, NEW t, NEW black, NEW path, NEW c, Unlink(t, path, black, c),
         Unlinked(t, linked \ {target}, path, c),
         black \in {RB_RED, RB_BLACK},
         SomeRb(t.child, t.root, t.color, linked \ {target},
                IF black = RB_BLACK THEN Entry(path, 0).parent ELSE NULL, Entry(path, 0).dir, {c}),
         black = RB_RED => c = NULL
  PROVE  Inv'
<1> DEFINE L == linked \ {target}
           q == Entry(path, 0).parent
           e == Entry(path, 0).dir
<1>1. t \in Tree /\ c \in L \cup {NULL} /\ WayTo(t.child, t.root, L, path, c)
  BY DEF Unlinked
<1>2. linked' = L /\ L \in SUBSET Node /\ target \in Node /\ target \notin L /\ target \in Ptr
  BY DEF Unlink, Typed, Ptr
<1>3. /\ RB_RED # RB_BLACK /\ NULL \notin L
      /\ SomeRb(t.child, t.root, t.color, L, IF black = RB_BLACK THEN q ELSE NULL, e, {c})
  BY <1>2, NullAssumption DEF RB_RED, RB_BLACK
<1> HIDE DEF L
<1>4. CASE black = RB_RED /\ tree' = Poison(t, target) /\ Return(target, <<>>)
  <2>1. SomeRb(t.child, t.root, t.color, L, NULL, e, {c}) /\ c = NULL
    BY <1>3, <1>4
  <2>2. SomeRb(t.child, t.root, t.color, L, NULL, e, {})
    <3>1. {c} \cap L \subseteq {}
      BY <2>1, <1>3
    <3> QED
      BY <3>1, <2>1, <1>2, Excuse
  <2>3. SomeRb(t.child, t.root, t.color, L, NULL, NULL, {})
    <3>1. PICK D, B : IsRb(t.child, t.root, t.color, L, D, B, NULL, e, {})
      BY <2>2 DEF SomeRb
    <3>2. IsRb(t.child, t.root, t.color, L, D, B, NULL, NULL, {})
      BY <3>1, <1>2, OwedNowhere
    <3> QED
      BY <3>2 DEF SomeRb
  <2>4. /\ tree' \in Tree
        /\ SomeRb(tree'.child, tree'.root, tree'.color, L, NULL, NULL, {})
    BY <2>3, <1>1, <1>2, <1>4, PoisonKeeps
  <2>5. linked' \subseteq Node
    BY <1>2
  <2> QED
    BY <2>4, <2>5, <1>2, <1>4, Returns
<1>5. CASE /\ black = RB_BLACK /\ tree' = t /\ pc' = "remove_color" /\ rp' = path /\ cur' = c
           /\ UNCHANGED <<at, call, target, ret>>
  <2>1. SomeRb(t.child, t.root, t.color, L, q, e, {c})
    BY <1>3, <1>5
  <2>4. OwedAt' = q /\ OwedDir' = e
    BY <1>5 DEF OwedAt, OwedDir, WorkLink
  <2>5. Exempt' = IF c # NULL THEN {c} \cup {t.child[c][d] : d \in Dir} ELSE {}
    BY <1>5 DEF Exempt
  <2>7. SomeRb(t.child, t.root, t.color, L, q, e, Exempt')
    <3>1. {c} \cap L \subseteq Exempt'
      BY <2>5, <1>3
    <3> QED
      BY <3>1, <2>1, <1>2, Excuse
  <2>8. Typed'
    BY <1>1, <1>2, <1>5 DEF Typed, Ptr
  <2>9. RemoveColorInv'
    BY <1>1, <1>2, <1>5 DEF RemoveColorInv, Leads
  <2>10. SomeRb(tree'.child, tree'.root, tree'.color, linked', OwedAt', OwedDir', Exempt')
    BY <2>4, <2>7, <1>2, <1>5
  <2> QED
    BY <2>8, <2>9, <2>10, <1>5, WriteStep
<1> QED
  BY <1>4, <1>5 DEF Unlink

\* What hanging the only child c of n in n's place makes of t.
Spliced(t, u, L, n, c) ==
  /\ u \in Tree
  /\ u.color = t.color
  /\ Splices(t.child, t.root, u.child, u.root, L, n, c)

\* What the assignments of rb_remove do when the node has at most one child.
LEMMA SpliceFields ==
  ASSUME NEW t \in Tree, NEW L \in SUBSET Node, NEW D, IsTree(t.child, t.root, L, D),
         NEW n \in L, NEW c \in Ptr,
         NEW e, Place(e), Above(t.child, t.root, L, n, e.parent, e.dir)
  PROVE  Spliced(t, Hang(t, e, c), L, n, c)
<1> DEFINE u == Hang(t, e, c)
<1>1. Hung(t, u, e, c)
  BY HangFields
<1> HIDE DEF u
<1>2. PlaceOf(t.child, t.root, L, n, e.parent, e.dir)
  BY AboveLink
<1>3. u \in Tree /\ u.color = t.color
  BY <1>1 DEF Hung
<1>4. Splices(t.child, t.root, u.child, u.root, L, n, c)
  <2>1. u.root = IF t.root = n THEN c ELSE t.root
    BY <1>1, <1>2 DEF Hung, PlaceOf
  <2>2. ASSUME NEW x \in L \ {n}, NEW d \in Dir
        PROVE  u.child[x][d] = IF t.child[x][d] = n THEN c ELSE t.child[x][d]
    <3>1. x \in Node /\ x \in L
      OBVIOUS
    <3>2. t.child[x][d] = n <=> x = e.parent /\ d = e.dir
      BY <3>1, <1>2 DEF PlaceOf
    <3>3. u.child[x][d] = IF x = e.parent /\ d = e.dir THEN c ELSE t.child[x][d]
      BY <3>1, <1>1 DEF Hung
    <3> QED
      BY <3>2, <3>3
  <2> QED
    BY <2>1, <2>2 DEF Splices
<1> QED
  BY <1>3, <1>4 DEF Spliced, u

\* The stack that led to the node leads to what is in its place.
LEMMA WaySpliced ==
  ASSUME NEW ch, NEW r, NEW L \in SUBSET Node, NEW D, IsTree(ch, r, L, D), NEW n \in L,
         NEW w, WayTo(ch, r, L, w, n), NEW c, NEW ch2, NEW r2,
         Splices(ch, r, ch2, r2, L, n, c)
  PROVE  WayTo(ch2, r2, L \ {n}, w, c)
<1>1. Redirects(ch, r, ch2, r2, L, D, n, c)
  BY DEF Splices, Redirects
<1> QED
  BY <1>1, WayRedirected

\* rb_remove unlinks a node with at most one child, or looks for the successor.
LEMMA RbRemoveStep == ASSUME Inv, RbRemove PROVE Inv'
<1>1. PICK D, B : Shape(D, B) /\ CallInv(D)
  BY DEF Inv
<1> DEFINE left == tree.child[target][RB_LEFT]
           right == tree.child[target][RB_RIGHT]
           c == IF left = NULL THEN right ELSE left
           pl == Entry(rp, 0)
           t == Hang(tree, pl, c)
           L == linked \ {target}
<1>2. /\ pc = "rb_remove"
      /\ \/ (left = NULL \/ right = NULL) /\ Unlink(t, rp, tree.color[target], c)
         \/ /\ left # NULL /\ right # NULL /\ pc' = "successor" /\ cur' = right
            /\ rp' = Push(rp, target, RB_RIGHT)
            /\ UNCHANGED <<tree, linked, at, call, target, ret>>
  BY DEF RbRemove
<1>3. /\ IsRb(tree.child, tree.root, tree.color, linked, D, B, NULL, NULL, {})
      /\ IsTree(tree.child, tree.root, linked, D)
      /\ linked \in SUBSET Node /\ Typed /\ tree \in Tree /\ RemoveInv
      /\ WayTo(tree.child, tree.root, linked, rp, target)
  BY <1>1, <1>2, QuietShape DEF Inv, Typed, CallInv, Leads
<1>4. target \in linked /\ RB_LEFT \in Dir /\ RB_RIGHT \in Dir
  BY <1>3 DEF RemoveInv, Dir
<1>5. left \in linked \cup {NULL} /\ right \in linked \cup {NULL}
  BY <1>3, <1>4 DEF IsTree
<1>l. LinkFacts(tree.child, tree.root, linked, D)
  BY <1>3, TreeLinks
<1>6. CASE (left = NULL \/ right = NULL) /\ Unlink(t, rp, tree.color[target], c)
  <2>1. OnlyChild(tree.child, target, c)
    <3>1. Opp(RB_LEFT) = RB_RIGHT /\ Opp(RB_RIGHT) = RB_LEFT
      BY DEF Opp, RB_LEFT, RB_RIGHT
    <3> QED
      BY <3>1, <1>4, <1>6 DEF OnlyChild
  <2>2. c \in linked \cup {NULL} /\ c # target
    <3>1. left # target /\ right # target
      BY <1>4, <1>l DEF LinkFacts
    <3> QED
      BY <3>1, <1>5
  <2> HIDE DEF c
  <2>p. Place(pl) /\ Above(tree.child, tree.root, linked, target, pl.parent, pl.dir)
    BY <1>3, WayPlace
  <2>3. Spliced(tree, t, linked, target, c)
    <3>1. c \in Ptr
      BY <2>2, <1>3 DEF Ptr
    <3> HIDE DEF pl
    <3> QED
      BY <3>1, <2>p, <1>3, <1>4, SpliceFields
  <2>4. Unlink(t, rp, tree.color[target], c)
    BY <1>6
  <2> HIDE DEF t
  <2>5. /\ t \in Tree /\ t.color = tree.color
        /\ Splices(tree.child, tree.root, t.child, t.root, linked, target, c)
    BY <2>3 DEF Spliced
  <2>6. WayTo(t.child, t.root, L, rp, c)
    BY <2>5, <1>3, <1>4, WaySpliced
  <2>7. /\ IsRb(t.child, t.root, t.color, L, Without(D, target), B,
                Debt(tree.color, target, pl.parent), pl.dir, {c})
        /\ tree.color[target] = RB_RED => c = NULL
    <3>1. SameOn(tree.color, t.color, L)
      BY <2>5 DEF SameOn
    <3> DEFINE q == pl.parent
               e == pl.dir
    <3>2. Above(tree.child, tree.root, linked, target, q, e)
      BY <2>p
    <3> HIDE DEF q, e
    <3>3. /\ IsRb(t.child, t.root, t.color, L, Without(D, target), B,
                  Debt(tree.color, target, q), e, {c})
          /\ tree.color[target] = RB_RED => c = NULL
      BY <3>1, <3>2, <2>1, <2>5, <1>3, <1>4, RemoveOne
    <3> QED
      BY <3>3 DEF q, e
  <2>10. Unlinked(t, L, rp, c)
    BY <2>2, <2>5, <2>6 DEF Unlinked
  <2>11. SomeRb(t.child, t.root, t.color, L,
                IF tree.color[target] = RB_BLACK THEN pl.parent ELSE NULL, pl.dir, {c})
    BY <2>7 DEF SomeRb, Debt
  <2>12. tree.color[target] \in {RB_RED, RB_BLACK}
    BY <1>3, <1>4, TreeFields
  <2> QED
    BY <2>4, <2>7, <2>10, <2>11, <2>12, <1>3, <1>4, UnlinkStep
<1>7. CASE /\ left # NULL /\ right # NULL /\ pc' = "successor" /\ cur' = right
           /\ rp' = Push(rp, target, RB_RIGHT)
           /\ UNCHANGED <<tree, linked, at, call, target, ret>>
  <2>1. right \in linked /\ right \in D[right]
    BY <1>5, <1>7, <1>l DEF LinkFacts
  <2>2. Typed'
    BY <2>1, <1>3, <1>7, <1>2 DEF Typed, Ptr
  <2>3. RemoveInv'
    BY <1>3, <1>7 DEF RemoveInv
  <2>p. Pushes(tree.child, tree.root, linked, rp, target, RB_RIGHT)
    BY <1>3, <1>4, PushWay
  <2>w. WayTo(tree.child, tree.root, linked, rp', right)
    BY <2>p, <1>7 DEF Pushes
  <2>e. \E k \in 2..Len(rp') : rp'[k] = [parent |-> target, dir |-> RB_RIGHT]
    <3>1. Len(rp') \in Nat /\ Len(rp) \in Nat /\ Len(rp) >= 1
      BY <2>w, <1>3, WayLen DEF WayTo
    <3>2. Len(rp') = Len(rp) + 1 /\ Entry(rp', 0) = [parent |-> target, dir |-> RB_RIGHT]
      BY <2>p, <1>7 DEF Pushes
    <3>3. Len(rp') \in 2..Len(rp') /\ Entry(rp', 0) = rp'[Len(rp')]
      BY <3>1, <3>2 DEF Entry
    <3> QED
      BY <3>2, <3>3
  <2>4. SuccessorInv(D)'
    BY <2>1, <2>3, <2>w, <2>e, <1>7 DEF SuccessorInv, Leads
  <2>5. CallInv(D)'
    BY <2>4, <1>7 DEF CallInv
  <2> QED
    BY <2>2, <2>5, <1>1, <1>2, <1>3, <1>7, ReadStep
<1> QED
  BY <1>2, <1>6, <1>7

\* The links around node n and its successor s, the leftmost node below n's
\* right child: s hangs at the link ds of q.
Pair(t, L, D, n, s, q, ds) ==
  /\ n \in L /\ s \in L /\ q \in L /\ ds \in Dir /\ s # n /\ q # s
  /\ \A x \in L, d \in Dir : t.child[x][d] = s <=> x = q /\ d = ds
  /\ t.child[n][RB_LEFT] \in L /\ t.child[n][RB_RIGHT] \in L
  /\ t.child[n][RB_LEFT] # s
  /\ t.child[s][RB_RIGHT] \in L \cup {NULL}
  /\ t.child[s][RB_RIGHT] \notin {n, s}
  /\ q = n <=> t.child[n][RB_RIGHT] = s
  /\ q # n => q \in D[n]
  /\ s \in D[n]

\* Where the node removed and its successor stand, when the node has both children.
LEMMA PairFacts ==
  ASSUME NEW t \in Tree, NEW L \in SUBSET Node, NEW D, IsTree(t.child, t.root, L, D),
         NEW n \in L, t.child[n][RB_LEFT] # NULL,
         NEW s \in D[t.child[n][RB_RIGHT]], t.child[s][RB_LEFT] = NULL,
         NEW q \in L, NEW ds \in Dir, t.child[q][ds] = s
  PROVE  Pair(t, L, D, n, s, q, ds)
<1> DEFINE left == t.child[n][RB_LEFT]
           right == t.child[n][RB_RIGHT]
           c == t.child[s][RB_RIGHT]
<1>l. LinkFacts(t.child, t.root, L, D)
  BY TreeLinks
<1>1. RB_LEFT \in Dir /\ RB_RIGHT \in Dir /\ RB_LEFT # RB_RIGHT /\ NULL \notin L
      /\ \A d \in Dir : d = RB_LEFT \/ d = RB_RIGHT
  BY NullAssumption DEF Dir, RB_LEFT, RB_RIGHT
<1>2. left \in L /\ right \in L /\ s \in L
  BY <1>1 DEF IsTree, Ptr
<1>3. /\ left # n /\ right # n /\ left # right
      /\ D[right] \subseteq D[n] /\ n \notin D[right] /\ left \in D[left]
  BY <1>1, <1>2, <1>l DEF LinkFacts
<1>4. s \in D[n] /\ s # n
  BY <1>3
<1>5. left # s
  <2>1. left \notin D[right]
    <3>1. \A m \in D[left] : Before(RB_LEFT, m, n)
      BY <1>1 DEF IsTree
    <3>2. \A m \in D[right] : Before(RB_RIGHT, m, n)
      BY <1>1 DEF IsTree
    <3>3. Val[left] \in Int /\ Val[n] \in Int
      BY <1>2, ValAssumption
    <3> HIDE DEF left, right
    <3> QED
      BY <3>1, <3>2, <3>3, <1>1, <1>3 DEF Before
  <2> QED
    BY <2>1
<1>8. c \in L \cup {NULL}
  BY <1>1, <1>2 DEF IsTree
<1>9. q # s /\ \A x \in L, d \in Dir : t.child[x][d] = s <=> x = q /\ d = ds
  BY <1>1, <1>2, <1>l DEF LinkFacts
<1>10. c # n
  <2> SUFFICES ASSUME c = n PROVE FALSE
    OBVIOUS
  <2>1. n \in D[s]
    BY <1>1, <1>2, <1>8, <1>l DEF LinkFacts
  <2>2. D[s] \subseteq D[right]
    BY <1>2, Nested
  <2> QED
    BY <2>1, <2>2, <1>3
<1>11. c # s
  BY <1>1, <1>2, <1>l DEF LinkFacts
<1>12. q = n <=> right = s
  <2>1. ASSUME q = n PROVE right = s
    <3>1. ds = RB_RIGHT
      BY <2>1, <1>1, <1>5
    <3> QED
      BY <3>1, <2>1
  <2>2. ASSUME right = s PROVE q = n
    BY <2>2, <1>1, <1>9
  <2> QED
    BY <2>1, <2>2
<1>13. ASSUME q # n PROVE q \in D[n]
  <2>1. s # right
    BY <1>12, <1>13
  <2> HIDE DEF right
  <2>2. t.child[q][ds] \in D[right] /\ t.child[q][ds] # right
    BY <2>1 DEF right
  <2>3. q \in D[right]
    BY <2>2, <1>2, ParentIn
  <2> QED
    BY <2>3, <1>3
<1> QED
  BY <1>1, <1>2, <1>3, <1>4, <1>5, <1>8, <1>9, <1>10, <1>11, <1>12, <1>13 DEF Pair

\* Transplant, for a successor at the place e and a node at the place pl.
MovedUp(t, n, s, e, pl) ==
  LET t1 == IF e.parent = n THEN t
            ELSE rb_copy_right_child(rb_set_child(t, e.parent, e.dir, t.child[s][RB_RIGHT]), s, n)
  IN  Hang(rb_copy_left_child_color(t1, s, n), pl, s)

\* What MovedUp makes of t.
Transplanted(t, u, L, n, s) ==
  /\ u \in Tree
  /\ Transplants(t.child, t.root, u.child, u.root, L, n, s, t.child[s][RB_RIGHT])
  /\ Recolors(t.color, u.color, L, n, s)

\* The first part of Transplant: the right child of s in the place of s, and s
\* above the right child of n, when that is not s.
Detached(t, v, L, n, s, q) ==
  /\ v \in Tree /\ v.root = t.root /\ v.color = t.color
  /\ \A x \in L, d \in Dir :
       v.child[x][d] = IF q # n /\ x = s /\ d = RB_RIGHT THEN t.child[n][RB_RIGHT]
                       ELSE IF q # n /\ t.child[x][d] = s THEN t.child[s][RB_RIGHT]
                       ELSE t.child[x][d]

\* What taking a successor that is not the right child out of its place changes.
LEMMA DetachFields ==
  ASSUME NEW t \in Tree, NEW L \in SUBSET Node, NEW D, NEW n, NEW s, NEW q, NEW ds,
         Pair(t, L, D, n, s, q, ds)
  PROVE  Detached(t, IF q = n THEN t
                     ELSE rb_copy_right_child(rb_set_child(t, q, ds, t.child[s][RB_RIGHT]), s, n),
                  L, n, s, q)
<1> DEFINE c == t.child[s][RB_RIGHT]
           right == t.child[n][RB_RIGHT]
           t1 == rb_set_child(t, q, ds, c)
           v == rb_copy_right_child(t1, s, n)
<1>1. /\ n \in L /\ s \in L /\ q \in L /\ ds \in Dir /\ s # n /\ q # s
      /\ \A x \in L, d \in Dir : t.child[x][d] = s <=> x = q /\ d = ds
      /\ right \in L /\ c \in L \cup {NULL}
  BY DEF Pair
<1>2. CASE q = n
  BY <1>2 DEF Detached
<1>3. CASE q # n
  <2>2. /\ q \in Node /\ s \in Node /\ n \in Node /\ c \in Ptr /\ right \in Ptr
        /\ RB_RIGHT \in Dir
    BY <1>1 DEF Ptr, Dir
  <2> HIDE DEF c, right
  <2>4. /\ t1 \in Tree /\ t1.root = t.root /\ t1.color = t.color
        /\ \A x \in Node, d \in Dir :
             t1.child[x][d] = IF x = q /\ d = ds THEN c ELSE t.child[x][d]
    BY <2>2, <1>1, SetChild
  <2> HIDE DEF t1
  <2>5. t1.child[n][RB_RIGHT] = right
    BY <2>2, <2>4, <1>3 DEF right
  <2>6. v = rb_set_child(t1, s, RB_RIGHT, right)
    BY <2>5 DEF rb_copy_right_child, rb_set_child
  <2> HIDE DEF v
  <2> DEFINE w == rb_set_child(t1, s, RB_RIGHT, right)
  <2>7. /\ w \in Tree /\ w.root = t1.root /\ w.color = t1.color
        /\ \A x \in Node, d \in Dir :
             w.child[x][d] = IF x = s /\ d = RB_RIGHT THEN right ELSE t1.child[x][d]
    <3>1. t1 \in Tree
      BY <2>4
    <3> QED
      BY <3>1, <2>2, SetChild
  <2>8. v = w
    BY <2>6
  <2> HIDE DEF w
  <2>9. ASSUME NEW x \in L, NEW d \in Dir
        PROVE  v.child[x][d] = IF x = s /\ d = RB_RIGHT THEN right
                               ELSE IF t.child[x][d] = s THEN c ELSE t.child[x][d]
    BY <2>4, <2>7, <2>8, <1>1
  <2>10. v \in Tree /\ v.root = t.root /\ v.color = t.color
    BY <2>4, <2>7, <2>8
  <2>11. Detached(t, v, L, n, s, q)
    BY <2>9, <2>10, <1>3 DEF Detached, c, right
  <2> QED
    BY <2>11, <1>3 DEF v, t1, c
<1> QED
  BY <1>2, <1>3

\* The last part: s takes the left child and the colour of n.
Copied(t, u, s, n) ==
  /\ u \in Tree /\ u.root = t.root
  /\ \A x \in Node, d \in Dir :
       u.child[x][d] = IF x = s /\ d = RB_LEFT THEN t.child[n][RB_LEFT] ELSE t.child[x][d]
  /\ \A x \in Node : u.color[x] = IF x = s THEN t.color[n] ELSE t.color[x]

\* rb_copy_left_child_color does that.
LEMMA CopyFields ==
  ASSUME NEW t \in Tree, NEW s \in Node, NEW n \in Node
  PROVE  Copied(t, rb_copy_left_child_color(t, s, n), s, n)
<1>1. t.child[n][RB_LEFT] \in Ptr /\ t.color[n] \in {RB_RED, RB_BLACK} /\ RB_LEFT \in Dir
  BY TreeFields DEF Dir
<1> DEFINE c == t.child[n][RB_LEFT]
           k == t.color[n]
<1> HIDE DEF c, k
<1>2. rb_copy_left_child_color(t, s, n) = [t EXCEPT !.child[s][RB_LEFT] = c, !.color[s] = k]
  BY DEF rb_copy_left_child_color, rb_set_left_child_color, c, k
<1> DEFINE u == [t EXCEPT !.child[s][RB_LEFT] = c, !.color[s] = k]
<1>3. /\ u \in Tree /\ u.root = t.root
      /\ \A x \in Node, d \in Dir :
           u.child[x][d] = IF x = s /\ d = RB_LEFT THEN c ELSE t.child[x][d]
      /\ \A x \in Node : u.color[x] = IF x = s THEN k ELSE t.color[x]
  BY <1>1 DEF Tree, c, k
<1> HIDE DEF u
<1> QED
  BY <1>2, <1>3 DEF Copied, u, c, k

\* What moving the successor into the removed node's place changes, in both cases.
LEMMA TransplantFields ==
  ASSUME NEW t \in Tree, NEW L \in SUBSET Node, NEW D, IsTree(t.child, t.root, L, D),
         NEW n, NEW s, NEW e, Pair(t, L, D, n, s, e.parent, e.dir),
         NEW pl, Place(pl), Above(t.child, t.root, L, n, pl.parent, pl.dir)
  PROVE  Transplanted(t, MovedUp(t, n, s, e, pl), L, n, s)
<1> DEFINE q == e.parent
           ds == e.dir
           c == t.child[s][RB_RIGHT]
           left == t.child[n][RB_LEFT]
           right == t.child[n][RB_RIGHT]
           v == IF q = n THEN t ELSE rb_copy_right_child(rb_set_child(t, q, ds, c), s, n)
           t4 == rb_copy_left_child_color(v, s, n)
           u == Hang(t4, pl, s)
<1>0. MovedUp(t, n, s, e, pl) = u
  BY DEF MovedUp
<1>p. Pair(t, L, D, n, s, q, ds)
  OBVIOUS
<1> HIDE DEF q, ds
<1>1. /\ n \in L /\ s \in L /\ q \in L /\ ds \in Dir /\ s # n /\ q # s
      /\ \A x \in L, d \in Dir : t.child[x][d] = s <=> x = q /\ d = ds
      /\ left \in L /\ right \in L /\ left # s
      /\ c \in L \cup {NULL} /\ c \notin {n, s}
      /\ (q = n <=> right = s) /\ (q # n => q \in D[n]) /\ s \in D[n]
  BY <1>p DEF Pair
<1>2. /\ n \in Node /\ s \in Node /\ q \in Node
      /\ s \in Ptr /\ NULL \notin L
      /\ RB_LEFT \in Dir /\ RB_RIGHT \in Dir /\ RB_LEFT # RB_RIGHT
      /\ \A d \in Dir : d = RB_LEFT \/ d = RB_RIGHT
  BY <1>1, NullAssumption DEF Ptr, Dir, RB_LEFT, RB_RIGHT
<1>l. LinkFacts(t.child, t.root, L, D)
  BY TreeLinks
<1>3. PlaceOf(t.child, t.root, L, n, pl.parent, pl.dir)
  BY <1>1, AboveLink
<1>4. pl.parent # NULL => pl.parent \in L /\ pl.parent # s /\ pl.parent # n /\ pl.parent # q
  <2> DEFINE up == pl.parent
  <2> SUFFICES ASSUME up # NULL PROVE up \in L /\ up # n /\ up # s /\ up # q
    OBVIOUS
  <2>0. up \in L /\ pl.dir \in Dir /\ t.child[up][pl.dir] = n
    BY <1>3 DEF PlaceOf
  <2> HIDE DEF up
  <2>1. up \notin D[n]
    BY <2>0, <1>l DEF LinkFacts
  <2>2. n \in D[n]
    BY <1>1, <1>l DEF LinkFacts
  <2> QED
    BY <2>0, <2>1, <2>2, <1>1
<1>5. Detached(t, v, L, n, s, q)
  BY <1>p, DetachFields
<1> HIDE DEF v, c, left, right
<1>6. /\ v \in Tree /\ v.root = t.root /\ v.color = t.color
      /\ \A x \in L, d \in Dir :
           v.child[x][d] = IF q # n /\ x = s /\ d = RB_RIGHT THEN right
                           ELSE IF q # n /\ t.child[x][d] = s THEN c ELSE t.child[x][d]
  BY <1>5 DEF Detached, c, right
<1>7. v.child[n][RB_LEFT] = left
  BY <1>1, <1>2, <1>6 DEF left
<1>8. /\ t4 \in Tree /\ t4.root = v.root
      /\ \A x \in Node, d \in Dir :
           t4.child[x][d] = IF x = s /\ d = RB_LEFT THEN left ELSE v.child[x][d]
      /\ \A x \in Node : t4.color[x] = IF x = s THEN v.color[n] ELSE v.color[x]
  <2>1. v \in Tree /\ s \in Node /\ n \in Node
    BY <1>2, <1>6
  <2>2. Copied(v, t4, s, n)
    BY <2>1, CopyFields
  <2> HIDE DEF t4
  <2> QED
    BY <2>2, <1>7 DEF Copied
<1> HIDE DEF t4
<1>9. Hung(t4, u, pl, s)
  BY <1>2, <1>8, HangFields
<1> HIDE DEF u
<1>10. /\ u \in Tree /\ u.color = t4.color
       /\ u.root = IF pl.parent = NULL THEN s ELSE t.root
       /\ \A x \in Node, d \in Dir :
            u.child[x][d] = IF x = pl.parent /\ d = pl.dir THEN s ELSE t4.child[x][d]
  BY <1>6, <1>8, <1>9 DEF Hung
<1>11. u.root = IF t.root = n THEN s ELSE t.root
  BY <1>3, <1>10 DEF PlaceOf
<1>12. s # pl.parent
  BY <1>1, <1>2, <1>4
<1>13. ASSUME NEW d \in Dir
       PROVE  u.child[s][d] = IF t.child[n][d] = s THEN c ELSE t.child[n][d]
  <2>1. u.child[s][d] = IF d = RB_LEFT THEN left ELSE v.child[s][d]
    BY <1>2, <1>8, <1>10, <1>12
  <2>2. CASE d = RB_LEFT
    BY <2>1, <2>2, <1>1 DEF left
  <2>3. CASE d = RB_RIGHT
    <3>1. u.child[s][d] = IF q # n THEN right ELSE c
      BY <2>1, <2>3, <1>1, <1>2, <1>6 DEF c
    <3> QED
      BY <3>1, <2>3, <1>1 DEF right
  <2> QED
    BY <2>2, <2>3, <1>2
<1>14. ASSUME NEW x \in L \ {n, s}, NEW d \in Dir
       PROVE  u.child[x][d] = IF t.child[x][d] = n THEN s
                              ELSE IF t.child[x][d] = s THEN c ELSE t.child[x][d]
  <2>0. x \in L /\ x \in Node /\ x # n /\ x # s
    OBVIOUS
  <2>1. t.child[x][d] = n <=> x = pl.parent /\ d = pl.dir
    BY <2>0, <1>3 DEF PlaceOf
  <2>2. v.child[x][d] = IF t.child[x][d] = s THEN c ELSE t.child[x][d]
    <3>1. q = n => t.child[x][d] # s
      BY <2>0, <1>1
    <3> QED
      BY <3>1, <2>0, <1>6
  <2>3. t4.child[x][d] = v.child[x][d]
    BY <2>0, <1>8
  <2>4. u.child[x][d] = IF t.child[x][d] = n THEN s ELSE t4.child[x][d]
    BY <2>0, <2>1, <1>10
  <2> QED
    BY <2>2, <2>3, <2>4
<1>15. Transplants(t.child, t.root, u.child, u.root, L, n, s, c)
  BY <1>11, <1>13, <1>14 DEF Transplants
<1>16. \A x \in Node : u.color[x] = IF x = s THEN t.color[n] ELSE t.color[x]
  BY <1>6, <1>8, <1>10
<1>17. Recolors(t.color, u.color, L, n, s)
  BY <1>2, <1>16 DEF Recolors, SameOn
<1> QED
  BY <1>0, <1>10, <1>15, <1>17 DEF Transplanted, c

\* The stack to s passes node n at its entry k, going right.
Through(w, k, n) == k \in 2..Len(w) /\ w[k] = [parent |-> n, dir |-> RB_RIGHT]

\* The stack v, w with s for n, leads to c.
Exchanged(ch, r, L, w, v, n, s, c) ==
  /\ WayTo(ch, r, L, v, c)
  /\ Entry(v, 0) = [parent |-> Renamed(Entry(w, 0).parent, n, s), dir |-> Entry(w, 0).dir]
  /\ Len(v) = Len(w)

\* The stack rb_remove leaves when s has taken the place of n: its entry for n
\* is one for s, and it leads to the child of s.
LEMMA WayTransplanted ==
  ASSUME NEW ch, NEW r, NEW L \in SUBSET Node, NEW D, IsTree(ch, r, L, D),
         NEW s \in L, NEW n \in L, NEW w, WayTo(ch, r, L, w, s), NEW k, Through(w, k, n),
         NEW c, NEW ch2, NEW r2, Transplants(ch, r, ch2, r2, L, n, s, c)
  PROVE  Exchanged(ch2, r2, L \ {n}, w, [w EXCEPT ![k].parent = s], n, s, c)
<1> DEFINE v == [w EXCEPT ![k].parent = s]
           N == Len(w)
           M(y) == IF y = n THEN s ELSE IF y = s THEN c ELSE y
           L2 == L \ {n}
<1>0. Way(ch, r, L, w) /\ w \in Seq(StackEntry) /\ w # <<>>
      /\ w[1] = [parent |-> NULL, dir |-> NULL] /\ LinkAt(ch, r, w[N]) = s
  <2>1. Entry(w, 0) = w[Len(w)]
    BY WayEnd
  <2> QED
    BY <2>1 DEF WayTo, Way
<1>s. Steps(ch, L, w)
  BY <1>0, WaySteps
<1>a. AllAbove(ch, L, D, w, s)
  BY WayAbove
<1>l. LinkFacts(ch, r, L, D)
  BY TreeLinks
<1>1. N \in Nat /\ N >= 2 /\ k \in 2..N /\ k \in 1..N /\ k # 1 /\ DOMAIN w = 1..N
      /\ w[k] = [parent |-> n, dir |-> RB_RIGHT]
  BY <1>s, <1>0, WayLen DEF Steps, Through
<1>2. n # s /\ n # NULL /\ s # NULL /\ s \in Ptr /\ RB_RIGHT \in Dir
  <2>1. w[k].parent # s
    BY <1>1, <1>a DEF AllAbove
  <2> QED
    BY <2>1, <1>1, NullAssumption DEF Ptr, Dir
<1>3. /\ v[k] = [parent |-> s, dir |-> RB_RIGHT]
      /\ \A i \in 1..N : i # k => v[i] = w[i]
      /\ v \in Seq(StackEntry) /\ Len(v) = N
  <2> DEFINE es == [parent |-> s, dir |-> RB_RIGHT]
  <2>1. [w[k] EXCEPT !.parent = s] = es
    BY <1>1
  <2>2. v = [w EXCEPT ![k] = es]
    BY <2>1
  <2>3. es \in StackEntry
    BY <1>2 DEF StackEntry
  <2> HIDE DEF v, es
  <2>4. v \in Seq(StackEntry) /\ Len(v) = N /\ v[k] = es /\ \A i \in 1..N : i # k => v[i] = w[i]
    BY <2>2, <2>3, <1>0, <1>1
  <2> QED
    BY <2>4 DEF es
<1> HIDE DEF v, N
<1>4. ASSUME NEW i \in 2..N
      PROVE  /\ w[i].parent \in L /\ w[i].dir \in Dir /\ w[i].parent # s /\ w[i].parent # NULL
             /\ w[i] = [parent |-> w[i].parent, dir |-> w[i].dir]
             /\ (w[i].parent = n <=> i = k)
  <2>1. i \in 2..Len(w) /\ k \in 2..Len(w) /\ w[k].parent = n
    BY <1>1 DEF N
  <2>2. w[i].parent # s /\ (w[i].parent = n <=> i = k)
    BY <2>1, <1>a DEF AllAbove
  <2> QED
    BY <2>1, <2>2, <1>s DEF Steps
<1>5. ASSUME NEW i \in 2..N PROVE v[i] \in [parent : L2, dir : Dir]
  <2>1. CASE i = k
    BY <2>1, <1>2, <1>3
  <2>2. CASE i # k
    <3>1. v[i] = w[i]
      BY <2>2, <1>1, <1>3
    <3>2. w[i].parent \in L2 /\ w[i].dir \in Dir
          /\ w[i] = [parent |-> w[i].parent, dir |-> w[i].dir]
      BY <2>2, <1>4
    <3> QED
      BY <3>1, <3>2
  <2> QED
    BY <2>1, <2>2
<1>6. ASSUME NEW i \in 1..(N - 1)
      PROVE  LinkAt(ch, r, w[i]) = w[i + 1].parent /\ w[i + 1].parent # s /\ i + 1 \in 2..N
  <2>1. i + 1 \in 2..N /\ i \in 1..(Len(w) - 1)
    BY <1>1 DEF N
  <2> QED
    BY <2>1, <1>0, <1>4 DEF Way
<1>7. ASSUME NEW i \in 1..N
      PROVE  LinkAt(ch2, r2, v[i]) = M(LinkAt(ch, r, w[i]))
  <2>1. CASE i = 1
    <3>1. LinkAt(ch, r, w[i]) = r /\ LinkAt(ch2, r2, v[i]) = r2
      BY <2>1, <1>0, <1>1, <1>3 DEF LinkAt
    <3>2. r # s
      <4>1. 1 \in 1..(N - 1)
        BY <1>1
      <4> QED
        BY <4>1, <3>1, <2>1, <1>6
    <3> QED
      BY <3>1, <3>2 DEF Transplants
  <2>2. CASE i = k
    <3>1. LinkAt(ch, r, w[i]) = ch[n][RB_RIGHT] /\ LinkAt(ch2, r2, v[i]) = ch2[s][RB_RIGHT]
      BY <2>2, <1>1, <1>2, <1>3 DEF LinkAt
    <3>2. ch[n][RB_RIGHT] # n
      BY <1>2, <1>l DEF LinkFacts
    <3> QED
      BY <3>1, <3>2, <1>2 DEF Transplants
  <2>3. CASE i # 1 /\ i # k
    <3>0. i \in 2..N
      BY <2>3, <1>1
    <3> DEFINE x == w[i].parent
               d == w[i].dir
    <3>1. x \in L \ {n, s} /\ d \in Dir /\ x # NULL /\ v[i] = w[i]
      BY <3>0, <2>3, <1>3, <1>4
    <3>2. LinkAt(ch, r, w[i]) = ch[x][d] /\ LinkAt(ch2, r2, v[i]) = ch2[x][d]
      BY <3>1 DEF LinkAt
    <3> HIDE DEF x, d
    <3> QED
      BY <3>1, <3>2 DEF Transplants
  <2> QED
    BY <2>1, <2>2, <2>3
<1>8. ASSUME NEW i \in 1..(N - 1) PROVE LinkAt(ch2, r2, v[i]) = v[i + 1].parent
  <2>1. i \in 1..N /\ i + 1 \in 2..N /\ i + 1 \in 1..N
    BY <1>1
  <2>2. LinkAt(ch2, r2, v[i]) = IF w[i + 1].parent = n THEN s ELSE w[i + 1].parent
    BY <2>1, <1>6, <1>7
  <2>3. v[i + 1].parent = IF i + 1 = k THEN s ELSE w[i + 1].parent
    BY <2>1, <1>3
  <2> QED
    BY <2>1, <2>2, <2>3, <1>4
<1>9. v[1] = [parent |-> NULL, dir |-> NULL] /\ v # <<>>
  BY <1>0, <1>1, <1>3
<1>10. Way(ch2, r2, L2, v)
  BY <1>3, <1>5, <1>8, <1>9 DEF Way
<1>11. Entry(v, 0) = v[N] /\ Entry(w, 0) = w[N] /\ N \in 2..N /\ N \in 1..N
  BY <1>1, <1>3 DEF Entry, N
<1>12. LinkAt(ch2, r2, Entry(v, 0)) = c
  BY <1>0, <1>2, <1>7, <1>11
<1>13. v[N] = [parent |-> Renamed(w[N].parent, n, s), dir |-> w[N].dir]
  <2>1. CASE N = k
    BY <2>1, <1>1, <1>3 DEF Renamed
  <2>2. CASE N # k
    BY <2>2, <1>3, <1>4, <1>11 DEF Renamed
  <2> QED
    BY <2>1, <2>2
<1>14. WayTo(ch2, r2, L2, v, c)
  BY <1>10, <1>12 DEF WayTo
<1> QED
  BY <1>3, <1>11, <1>13, <1>14 DEF Exchanged, v, N

\* The entry that NodeEntry finds, and the one below it, the place of the node.
LEMMA NodeEntryFacts ==
  ASSUME NEW r, NEW L \in SUBSET Node, NEW ch, NEW D, IsTree(ch, r, L, D),
         NEW s \in L, WayTo(ch, r, L, rp, s), target \in L,
         \E k \in 2..Len(rp) : rp[k] = [parent |-> target, dir |-> RB_RIGHT]
  PROVE  /\ Through(rp, NodeEntry, target)
         /\ Place(rp[NodeEntry - 1])
         /\ Above(ch, r, L, target, rp[NodeEntry - 1].parent, rp[NodeEntry - 1].dir)
<1>0. Way(ch, r, L, rp)
  BY DEF WayTo
<1>s. Steps(ch, L, rp)
  BY <1>0, WaySteps
<1>a. AllAbove(ch, L, D, rp, s)
  BY WayAbove
<1>1. PICK k \in 2..Len(rp) : rp[k] = [parent |-> target, dir |-> RB_RIGHT]
  OBVIOUS
<1>2. rp[1] = [parent |-> NULL, dir |-> NULL] /\ target # NULL /\ Len(rp) \in Nat
  BY <1>0, <1>s, NullAssumption DEF Way, Steps
<1>3. k \in 1..Len(rp) /\ rp[k].parent = target
  BY <1>1, <1>2
<1> DEFINE N == NodeEntry
<1>4. N \in 1..Len(rp) /\ rp[N].parent = target
  BY <1>3 DEF NodeEntry
<1> HIDE DEF N
<1>5. N \in 2..Len(rp)
  <2>1. N # 1
    BY <1>2, <1>4
  <2> QED
    BY <2>1, <1>2, <1>4
<1>6. N = k
  BY <1>1, <1>4, <1>5, <1>a DEF AllAbove
<1>7. Through(rp, N, target)
  BY <1>1, <1>6 DEF Through
<1>8. N - 1 \in 1..(Len(rp) - 1)
  BY <1>2, <1>5
<1>9. LinkAt(ch, r, rp[N - 1]) = target
  <2>1. LinkAt(ch, r, rp[N - 1]) = rp[(N - 1) + 1].parent
    BY <1>0, <1>8 DEF Way
  <2>2. (N - 1) + 1 = N
    BY <1>5
  <2> QED
    BY <2>1, <2>2, <1>4
<1>10. CASE N = 2
  <2>1. rp[N - 1].parent = NULL
    BY <1>2, <1>10
  <2> QED
    BY <2>1, <1>7, <1>9 DEF Place, Above, LinkAt, N
<1>11. CASE N # 2
  <2>1. N - 1 \in 2..Len(rp)
    BY <1>2, <1>5, <1>11
  <2>2. rp[N - 1].parent \in L /\ rp[N - 1].dir \in Dir /\ rp[N - 1].parent # NULL
    BY <2>1, <1>s DEF Steps
  <2> QED
    BY <2>2, <1>7, <1>9 DEF Place, Above, LinkAt, N
<1> QED
  BY <1>10, <1>11

\* A turn of the successor search, and the move of the successor at its end.
LEMMA SuccessorStep == ASSUME Inv, Successor PROVE Inv'
<1>1. PICK D, B : Shape(D, B) /\ CallInv(D)
  BY DEF Inv
<1> DEFINE right == tree.child[target][RB_RIGHT]
           near == tree.child[cur][RB_LEFT]
           c == tree.child[cur][RB_RIGHT]
           pl == Entry(rp, 0)
           q == pl.parent
           e == pl.dir
           up == rp[NodeEntry - 1]
           t == Transplant(tree, target, cur)
           path == [rp EXCEPT ![NodeEntry].parent = cur]
           L == linked \ {target}
<1>2. /\ pc = "successor"
      /\ \/ /\ near # NULL /\ cur' = near /\ rp' = Push(rp, cur, RB_LEFT)
            /\ UNCHANGED <<tree, linked, at, pc, call, target, ret>>
         \/ near = NULL /\ Unlink(t, path, tree.color[cur], c)
  BY DEF Successor, Continue
<1>3. /\ IsRb(tree.child, tree.root, tree.color, linked, D, B, NULL, NULL, {})
      /\ IsTree(tree.child, tree.root, linked, D)
      /\ linked \in SUBSET Node /\ Typed /\ tree \in Tree /\ SuccessorInv(D)
  BY <1>1, <1>2, QuietShape DEF Inv, Typed, CallInv
<1>l. LinkFacts(tree.child, tree.root, linked, D)
  BY <1>3, TreeLinks
<1>4. /\ target \in linked /\ RemoveInv /\ tree.child[target][RB_LEFT] # NULL /\ cur \in D[right]
      /\ WayTo(tree.child, tree.root, linked, rp, cur)
      /\ \E k \in 2..Len(rp) : rp[k] = [parent |-> target, dir |-> RB_RIGHT]
      /\ \A m \in D[right] \ D[cur] : \A k \in D[cur] : Val[k] < Val[m]
      /\ RB_LEFT \in Dir /\ RB_RIGHT \in Dir
  BY <1>3 DEF SuccessorInv, RemoveInv, Leads, Dir
<1>5. right \in linked /\ cur \in linked /\ D[right] \subseteq linked
  BY <1>3, <1>4 DEF IsTree, Ptr
<1>6. \A m \in D[cur] : m = cur \/ m \in D[near] \/ m \in D[c]
  BY <1>3, <1>5 DEF IsTree
<1>7. /\ \A m \in D[near] : Before(RB_LEFT, m, cur)
      /\ \A m \in D[c] : Before(RB_RIGHT, m, cur)
      /\ D[near] \subseteq D[cur] /\ D[c] \subseteq D[cur]
  BY <1>3, <1>4, <1>5 DEF IsTree
<1>8. D[cur] \subseteq D[right]
  BY <1>3, <1>4, <1>5, Nested
<1>v. \A m \in linked : Val[m] \in Int
  BY <1>3, ValAssumption
<1>9. CASE /\ near # NULL /\ cur' = near /\ rp' = Push(rp, cur, RB_LEFT)
           /\ UNCHANGED <<tree, linked, at, pc, call, target, ret>>
  <2>1. near \in linked
    BY <1>3, <1>4, <1>5, <1>9 DEF IsTree
  <2>2. near \in D[near]
    BY <2>1, <1>l DEF LinkFacts
  <2>p. Pushes(tree.child, tree.root, linked, rp, cur, RB_LEFT)
    BY <1>3, <1>4, <1>5, PushWay
  <2>w. WayTo(tree.child, tree.root, linked, rp', near)
    BY <2>p, <1>9 DEF Pushes
  <2>e. \E k \in 2..Len(rp') : rp'[k] = [parent |-> target, dir |-> RB_RIGHT]
    <3>1. Len(rp') \in Nat /\ Len(rp) \in Nat
      BY <2>w, <1>4, WayLen DEF WayTo
    <3>2. Len(rp') = Len(rp) + 1 /\ \A k \in 1..Len(rp) : rp'[k] = rp[k]
      BY <2>p, <1>9 DEF Pushes
    <3>3. PICK k \in 2..Len(rp) : rp[k] = [parent |-> target, dir |-> RB_RIGHT]
      BY <1>4
    <3>4. k \in 1..Len(rp) /\ k \in 2..Len(rp')
      BY <3>1, <3>2
    <3> QED
      BY <3>2, <3>3, <3>4
  <2> HIDE DEF near, right, c
  <2>3. ASSUME NEW m \in D[right] \ D[near], NEW k \in D[near] PROVE Val[k] < Val[m]
    <3>1. Val[k] < Val[cur]
      BY <1>7 DEF Before
    <3>2. m \in D[c] => Val[cur] < Val[m]
      BY <1>7 DEF Before, RB_LEFT, RB_RIGHT
    <3>3. m \notin D[cur] => Val[k] < Val[m]
      BY <1>4, <1>7
    <3>4. Val[k] \in Int /\ Val[m] \in Int /\ Val[cur] \in Int
      BY <1>5, <1>7, <1>8, <1>v
    <3> QED
      BY <3>1, <3>2, <3>3, <3>4, <1>6
  <2>4. near \in D[right]
    BY <2>2, <1>7, <1>8
  <2>5. RemoveInv'
    BY <1>4, <1>9 DEF RemoveInv
  <2>6. SuccessorInv(D)'
    BY <2>3, <2>4, <2>5, <2>w, <2>e, <1>4, <1>9 DEF SuccessorInv, Leads, right
  <2>7. CallInv(D)'
    BY <2>6, <1>2, <1>9 DEF CallInv
  <2>8. Typed'
    BY <2>1, <1>3, <1>9 DEF Typed, Ptr
  <2> QED
    BY <2>7, <2>8, <1>1, <1>2, <1>3, <1>9, ReadStep
<1>10. CASE near = NULL /\ Unlink(t, path, tree.color[cur], c)
  <2>e. Through(rp, NodeEntry, target) /\ Place(up)
        /\ Above(tree.child, tree.root, linked, target, up.parent, up.dir)
    BY <1>3, <1>4, <1>5, NodeEntryFacts
  <2>q. q \in linked /\ e \in Dir /\ tree.child[q][e] = cur
    <3>1. cur # tree.root
      <4>1. tree.root \notin D[tree.child[target][RB_RIGHT]]
        BY <1>3, <1>4, RootAtTop
      <4> QED
        BY <4>1, <1>4
    <3>2. /\ (pl.parent = NULL => cur = tree.root)
          /\ (pl.parent # NULL => pl.parent \in linked /\ pl.dir \in Dir
                                  /\ tree.child[pl.parent][pl.dir] = cur)
      BY <1>3, <1>4, WayEnd
    <3> QED
      BY <3>1, <3>2
  <2>1. Pair(tree, linked, D, target, cur, q, e)
    BY <2>q, <1>3, <1>4, <1>10, PairFacts
  <2>2. Transplanted(tree, t, linked, target, cur)
    <3>1. t = MovedUp(tree, target, cur, pl, up)
      BY DEF Transplant, MovedUp
    <3> HIDE DEF t, up, pl
    <3>2. Pair(tree, linked, D, target, cur, pl.parent, pl.dir)
      BY <2>1
    <3>3. Transplanted(tree, MovedUp(tree, target, cur, pl, up), linked, target, cur)
      BY <3>2, <2>e, <1>3, TransplantFields
    <3> QED
      BY <3>1, <3>3
  <2>3. Unlink(t, path, tree.color[cur], c)
    BY <1>10
  <2> HIDE DEF t
  <2>4. /\ t \in Tree
        /\ Transplants(tree.child, tree.root, t.child, t.root, linked, target, cur, c)
        /\ Recolors(tree.color, t.color, linked, target, cur)
    BY <2>2 DEF Transplanted
  <2>5. /\ cur # target /\ c \in linked \cup {NULL} /\ c # target /\ c # cur
    BY <2>1 DEF Pair
  <2>6. /\ WayTo(t.child, t.root, L, path, c)
        /\ Entry(path, 0) = [parent |-> Renamed(q, target, cur), dir |-> e]
    <3> HIDE DEF c
    <3> DEFINE k == NodeEntry
    <3>1. Through(rp, k, target)
      BY <2>e
    <3> HIDE DEF k
    <3>2. Exchanged(t.child, t.root, L, rp, [rp EXCEPT ![k].parent = cur], target, cur, c)
      BY <3>1, <2>4, <1>3, <1>4, <1>5, WayTransplanted
    <3> QED
      BY <3>2 DEF Exchanged, k
  <2>7. \A m \in D[right] : m = cur \/ Val[cur] < Val[m]
    <3> SUFFICES ASSUME NEW m \in D[right], m # cur PROVE Val[cur] < Val[m]
      OBVIOUS
    <3>0. cur \in D[cur] /\ D[near] = {}
      BY <1>3, <1>5, <1>10, <1>l DEF LinkFacts, IsTree
    <3>1. CASE m \in D[cur]
      <4>1. m \in D[c]
        BY <3>0, <3>1, <1>6
      <4> QED
        BY <4>1, <1>7 DEF Before, RB_LEFT, RB_RIGHT
    <3>2. CASE m \notin D[cur]
      BY <3>0, <3>2, <1>4
    <3> QED
      BY <3>1, <3>2
  <2> HIDE DEF path, e, q
  <2>8. /\ SomeRb(t.child, t.root, t.color, L, Debt(tree.color, cur, Renamed(q, target, cur)), e, {c})
        /\ tree.color[cur] = RB_RED => c = NULL
    <3>3. Follows(tree.child, D, target, cur, c)
      BY <2>7, <1>4, <1>10 DEF Follows
    <3> HIDE DEF c, L
    <3>4. target \in linked /\ linked \in SUBSET Node
      BY <1>3, <1>4
    <3>5. IsRb(tree.child, tree.root, tree.color, linked, D, B, NULL, NULL, {})
      BY <1>3
    <3> DEFINE ch == tree.child
               col == tree.color
               ch2 == t.child
               col2 == t.color
    <3> HIDE DEF ch, col, ch2, col2
    <3>7. /\ IsRb(ch, tree.root, col, linked, D, B, NULL, NULL, {})
          /\ Follows(ch, D, target, cur, c) /\ LinkTo(ch, linked, q, e, cur)
          /\ Transplants(ch, tree.root, ch2, t.root, linked, target, cur, c)
          /\ Recolors(col, col2, linked, target, cur)
      BY <3>3, <3>5, <2>4, <2>q DEF ch, col, ch2, col2, LinkTo
    <3>8. /\ SomeRb(ch2, t.root, col2, linked \ {target}, Debt(col, cur, Renamed(q, target, cur)), e, {c})
          /\ col[cur] = RB_RED => c = NULL
      BY <3>4, <3>7, RemoveTwo
    <3> QED
      BY <3>8 DEF L, ch, col, ch2, col2
  <2> HIDE DEF c
  <2>10. Unlinked(t, L, path, c)
    BY <2>4, <2>5, <2>6 DEF Unlinked
  <2>11. SomeRb(t.child, t.root, t.color, L,
                IF tree.color[cur] = RB_BLACK THEN Entry(path, 0).parent ELSE NULL,
                Entry(path, 0).dir, {c})
    <3>1. Entry(path, 0).parent = Renamed(q, target, cur) /\ Entry(path, 0).dir = e
      BY <2>6
    <3> QED
      BY <3>1, <2>8 DEF Debt
  <2>12. tree.color[cur] \in {RB_RED, RB_BLACK}
    BY <1>3, <1>5, TreeFields
  <2> QED
    BY <2>3, <2>8, <2>10, <2>11, <2>12, <1>3, <1>4, UnlinkStep
<1> QED
  BY <1>2, <1>9, <1>10

-----------------------------------------------------------------------------
(* rb_remove_color.                                                        *)

\* rb_remove is done.
LEMMA RemoveDoneStep ==
  ASSUME Typed, linked' = linked, target \in Node \ linked,
         NEW t, NEW n, n \in linked \cup {NULL}, RemoveDone(t, n), t \in Tree,
         NEW u, u = IF n = NULL THEN t ELSE rb_set_color(t, n, RB_BLACK),
         SomeRb(u.child, u.root, u.color, linked, NULL, NULL, {})
  PROVE  Inv'
<1>1. tree' = Poison(u, target) /\ Return(target, <<>>)
  BY DEF RemoveDone
<1>2. u \in Tree
  <2>1. CASE n = NULL
    BY <2>1
  <2>2. CASE n # NULL
    <3>1. n \in Node /\ linked \in SUBSET Node /\ u = rb_set_color(t, n, RB_BLACK)
      BY <2>2 DEF Typed
    <3> QED
      BY <3>1, PaintFields
  <2> QED
    BY <2>1, <2>2
<1>3. linked \in SUBSET Node /\ target \in Node /\ target \notin linked /\ target \in Ptr
  BY DEF Typed, Ptr
<1>4. tree' \in Tree /\ SomeRb(tree'.child, tree'.root, tree'.color, linked, NULL, NULL, {})
  BY <1>1, <1>2, <1>3, PoisonKeeps
<1> QED
  BY <1>1, <1>3, <1>4, Returns

\* The tree in the loop of rb_remove_color, once case 1 is out of the way: a
\* black is owed at the link dir of q, whose other child is black; q is at the
\* place pl.
Working(t, L, q, dir, pl) ==
  /\ t \in Tree
  /\ q \in L /\ dir \in Dir
  /\ SomeRb(t.child, t.root, t.color, L, q, dir, {})
  /\ t.child[q][Opp(dir)] \in L
  /\ t.color[t.child[q][Opp(dir)]] = RB_BLACK
  /\ Place(pl) /\ Above(t.child, t.root, L, q, pl.parent, pl.dir)

\* At the end of the stack w, which leads to c.
WorkingAt(t, L, w, c) ==
  /\ Working(t, L, Entry(w, 0).parent, Entry(w, 0).dir, Entry(w, -1))
  /\ WayTo(t.child, t.root, L, w, c)

AfterCase1(t, w) == IF IsCase1(t, w) THEN RemoveCase1(t, w) ELSE t
PathAfterCase1(t, w) == IF IsCase1(t, w) THEN PathCase1(t, w) ELSE w

\* Case 1 makes the sibling black, and its stack has an entry for the old one.
LEMMA AfterCase1Works ==
  ASSUME NEW t \in Tree, NEW L \in SUBSET Node, NEW w, NEW c, WayTo(t.child, t.root, L, w, c),
         Entry(w, 0).parent # NULL, NEW D, NEW B,
         IsRb(t.child, t.root, t.color, L, D, B, Entry(w, 0).parent, Entry(w, 0).dir, {}),
         IsBlack(t, c)
  PROVE  /\ WorkingAt(AfterCase1(t, w), L, PathAfterCase1(t, w), c)
         /\ Entry(PathAfterCase1(t, w), 0) = Entry(w, 0)
         /\ Len(PathAfterCase1(t, w)) = Len(w) + IF IsCase1(t, w) THEN 1 ELSE 0
<1> DEFINE q == Entry(w, 0).parent
           dir == Entry(w, 0).dir
           pl == Entry(w, -1)
           x == Pop(w, 1)
           s == t.child[q][Opp(dir)]
           t1 == rb_set_color(rb_set_color(t, s, RB_BLACK), q, RB_RED)
           u == Hang(rb_rotate(t1, q, dir), pl, s)
<1>0. /\ q \in L /\ dir \in Dir /\ t.child[q][dir] = c
      /\ Entry(w, 0) = [parent |-> q, dir |-> dir]
  BY WayEnd
<1>x. WayTo(t.child, t.root, L, x, q) /\ Entry(x, 0) = pl /\ Len(x) = Len(w) - 1
  <2>1. Pops(t.child, t.root, L, w)
    BY PopWay
  <2> QED
    BY <2>1 DEF Pops
<1>n. Len(w) \in Nat
  BY WayLen DEF WayTo
<1>b. IsRb(t.child, t.root, t.color, L, D, B, q, dir, {})
  OBVIOUS
<1>c. /\ IsCase1(t, w) <=> t.color[s] = RB_RED
      /\ PathCase1(t, w) = Push(Push(x, s, dir), q, dir)
  BY DEF IsCase1, PathCase1, Pivot
<1>d. RemoveCase1(t, w) = u
  <2>1. Pivot(t1, q, dir) = s
    BY DEF Pivot, rb_set_color
  <2> QED
    BY <2>1 DEF RemoveCase1, Pivot
<1> HIDE DEF q, dir, pl, x
<1>p. Place(pl) /\ Above(t.child, t.root, L, q, pl.parent, pl.dir)
  BY <1>x, WayPlace
<1>1. /\ IsTree(t.child, t.root, L, D) /\ RedsApart(t.child, t.root, t.color, L, {})
      /\ \A y \in L : t.color[y] \in {RB_RED, RB_BLACK}
      /\ RB_RED # RB_BLACK /\ Opp(dir) \in Dir /\ Opp(dir) # dir /\ NULL \notin L
  BY <1>0, <1>b, Sides, NullAssumption DEF IsRb, RB_RED, RB_BLACK
<1>l. LinkFacts(t.child, t.root, L, D)
  BY <1>1, TreeLinks
<1>2. s \in L /\ B[s] = B[t.child[q][dir]] + 1
  BY <1>0, <1>b, HoleSide
<1>3. CASE t.color[s] # RB_RED
  <2>1. AfterCase1(t, w) = t /\ t.color[s] = RB_BLACK /\ PathAfterCase1(t, w) = w
    BY <1>1, <1>2, <1>3, <1>c DEF AfterCase1, PathAfterCase1
  <2>2. Working(t, L, q, dir, pl)
    BY <2>1, <1>0, <1>2, <1>b, <1>p DEF Working, SomeRb
  <2> QED
    BY <2>1, <2>2, <1>3, <1>c, <1>n DEF WorkingAt, q, dir, pl
<1>4. CASE t.color[s] = RB_RED
  <2> DEFINE y == Push(x, s, dir)
             v == Push(y, q, dir)
  <2>1. AfterCase1(t, w) = u /\ PathAfterCase1(t, w) = v
    BY <1>4, <1>c, <1>d DEF AfterCase1, PathAfterCase1
  <2>2. t.color[q] = RB_BLACK
    BY <1>0, <1>1, <1>2, <1>4 DEF RedsApart
  <2>3. t.child[q][Opp(dir)] = s
    OBVIOUS
  <2> HIDE DEF s
  <2>4. s # q
    BY <2>3, <1>0, <1>1, <1>l DEF LinkFacts
  <2>5. t.child[s][dir] \in L
    <3>1. B[s] > 0
      <4>1. t.child[q][dir] \in Ptr
        BY <1>0, <1>1 DEF IsTree, Ptr
      <4>2. B[t.child[q][dir]] \in Nat
        BY <4>1, <1>b DEF IsRb, Balanced
      <4> QED
        BY <4>2, <1>2
    <3>2. t.child[s][dir] \in L \cup {NULL}
      BY <1>0, <1>1, <1>2 DEF IsTree
    <3>3. B[s] = t.color[s] + B[t.child[s][dir]] + 0
      BY <2>4, <1>0, <1>2, <1>b DEF IsRb, Balanced, Owes
    <3>4. B[t.child[s][dir]] \in Nat /\ B[NULL] = 0
      BY <3>2, <1>b DEF IsRb, Balanced, Ptr
    <3> QED
      BY <3>1, <3>2, <3>3, <3>4, <1>4 DEF RB_RED
  <2>6. t.color[t.child[s][dir]] = RB_BLACK
    BY <2>5, <1>0, <1>1, <1>2, <1>4 DEF RedsApart
  <2>7. SwappedUp(t, u, L, q, s, dir, q, dir)
    <3> DEFINE X == {}
    <3>1. /\ t.child[q][dir] \in L => t.color[t.child[q][dir]] = RB_BLACK
          /\ q # s /\ ~(q = q /\ dir = Opp(dir)) /\ X \subseteq {t.child[s][Opp(dir)]}
      BY <2>4, <1>0, <1>1 DEF IsBlack, IsRed
    <3>3. IsRb(t.child, t.root, t.color, L, D, B, q, dir, X)
      BY <1>b
    <3> HIDE DEF X
    <3> QED
      BY <3>1, <3>3, <2>2, <2>3, <2>6, <1>0, <1>2, <1>4, <1>p, SwapUp
  <2> HIDE DEF u
  <2>8. /\ u \in Tree /\ SomeRb(u.child, u.root, u.color, L, q, dir, {})
        /\ Rotates(t.child, t.root, u.child, u.root, L, q, dir)
        /\ u.child[q][Opp(dir)] = t.child[s][dir]
        /\ u.child[q][dir] = t.child[q][dir] /\ u.child[s][dir] = q
        /\ t.child[s][dir] # q /\ t.child[s][dir] # s
    BY <2>7 DEF SwappedUp, AroundPivot
  <2>9. u.color[t.child[s][dir]] = RB_BLACK
    BY <2>5, <2>6, <2>7, <2>8 DEF SwappedUp, SwapsColors
  <2>10. WayTo(u.child, u.root, L, x, s)
    BY <2>3, <2>8, <1>0, <1>1, <1>2, <1>x, WayTurned
  <2>11. Pushes(u.child, u.root, L, x, s, dir)
    BY <2>10, <1>0, <1>2, PushWay
  <2>12. /\ WayTo(u.child, u.root, L, y, q) /\ Len(y) = Len(x) + 1
         /\ Entry(y, 0) = [parent |-> s, dir |-> dir]
    BY <2>8, <2>11 DEF Pushes
  <2>y. Len(y) \in Nat /\ Len(y) >= 1
    BY <2>12, WayLen DEF WayTo
  <2> HIDE DEF y
  <2>13. Pushes(u.child, u.root, L, y, q, dir)
    BY <2>12, <1>0, PushWay
  <2>14. /\ WayTo(u.child, u.root, L, v, c) /\ Len(v) = Len(y) + 1
         /\ Entry(v, 0) = [parent |-> q, dir |-> dir]
         /\ \A k \in 1..Len(y) : v[k] = y[k]
    BY <2>8, <2>13, <1>0 DEF Pushes
  <2> HIDE DEF v
  <2>15. Entry(v, -1) = [parent |-> s, dir |-> dir]
    <3>1. Entry(v, -1) = v[Len(y)] /\ Entry(y, 0) = y[Len(y)]
      BY <2>14, <2>y DEF Entry
    <3> QED
      BY <3>1, <2>12, <2>14, <2>y
  <2>16. Place(Entry(v, -1)) /\ Above(u.child, u.root, L, q, Entry(v, -1).parent, Entry(v, -1).dir)
    BY <2>8, <2>15, <1>0, <1>2 DEF Place, Above
  <2>17. Working(u, L, q, dir, Entry(v, -1))
    BY <2>5, <2>8, <2>9, <2>16, <1>0 DEF Working
  <2>18. Entry(v, 0).parent = q /\ Entry(v, 0).dir = dir /\ Entry(v, 0) = Entry(w, 0)
         /\ Len(v) = Len(w) + 1
    BY <2>12, <2>14, <1>0, <1>x, <1>n
  <2> QED
    BY <2>1, <2>14, <2>17, <2>18, <1>4, <1>c DEF WorkingAt
<1> QED
  BY <1>3, <1>4

\* Case 3 keeps the tree in that state, with a red node on the far side.
LEMMA Case3Works ==
  ASSUME NEW t, NEW L \in SUBSET Node, NEW q, NEW dir, NEW pl, Working(t, L, q, dir, pl),
         NEW s, s = t.child[q][Opp(dir)],
         IsBlack(t, t.child[s][Opp(dir)]), IsRed(t, t.child[s][dir]),
         NEW u, u = RemoveCase3(t, q, s, dir)
  PROVE  /\ Working(u, L, q, dir, pl)
         /\ IsRed(u, u.child[u.child[q][Opp(dir)]][Opp(dir)])
<1> DEFINE near == t.child[s][dir]
           od == Opp(dir)
           e == [parent |-> q, dir |-> od]
<1>1. /\ t \in Tree /\ q \in L /\ dir \in Dir /\ s \in L
      /\ t.color[s] = RB_BLACK
      /\ Place(pl) /\ Above(t.child, t.root, L, q, pl.parent, pl.dir)
  BY DEF Working
<1>2. PICK D, B : IsRb(t.child, t.root, t.color, L, D, B, q, dir, {})
  BY DEF Working, SomeRb
<1>3. /\ IsTree(t.child, t.root, L, D) /\ RedsApart(t.child, t.root, t.color, L, {})
      /\ \A x \in L : t.color[x] \in {RB_RED, RB_BLACK}
      /\ RB_RED # RB_BLACK /\ NULL \notin L
      /\ od \in Dir /\ od # dir /\ Opp(od) = dir
  BY <1>1, <1>2, Sides, NullAssumption DEF IsRb, RB_RED, RB_BLACK
<1>l. LinkFacts(t.child, t.root, L, D)
  BY <1>3, TreeLinks
<1>4. near \in L /\ t.color[near] = RB_RED /\ near # NULL
  BY <1>1, <1>3 DEF IsRed, IsTree
<1>5. t.child[s][od] \in L => t.color[t.child[s][od]] = RB_BLACK
  BY <1>3 DEF IsBlack, IsRed
<1>6. near # q /\ near # s /\ q # s /\ q \notin D[s]
  BY <1>1, <1>3, <1>4, <1>l DEF LinkFacts
<1>7. u = Hang(rb_rotate(rb_set_color(rb_set_color(t, near, RB_BLACK), s, RB_RED), s, od), e, near)
  BY <1>1, <1>3 DEF RemoveCase3, Hang
<1>8. t.child[s][Opp(od)] = near /\ t.child[q][od] = s
  BY <1>3
<1>e. Place(e) /\ Above(t.child, t.root, L, s, e.parent, e.dir)
  BY <1>1, <1>3, <1>8 DEF Place, Above
<1> HIDE DEF near, od, e
<1>9. t.child[near][od] \in L => t.color[t.child[near][od]] = RB_BLACK
  BY <1>3, <1>4 DEF RedsApart
<1>10. SwappedUp(t, u, L, s, near, od, q, dir)
  <2> DEFINE X == {}
             v == Hang(rb_rotate(rb_set_color(rb_set_color(t, near, RB_BLACK), s, RB_RED), s, od),
                       e, near)
  <2>1. X \subseteq {t.child[near][Opp(od)]} /\ ~(q = s /\ dir = Opp(od))
    BY <1>6
  <2>2. IsRb(t.child, t.root, t.color, L, D, B, q, dir, X)
    BY <1>2
  <2> HIDE DEF X
  <2>3. SwappedUp(t, v, L, s, near, od, q, dir)
    BY <2>1, <2>2, <1>1, <1>3, <1>4, <1>5, <1>6, <1>8, <1>9, <1>e, SwapUp
  <2> QED
    BY <2>3, <1>7
<1>11. /\ u \in Tree /\ SomeRb(u.child, u.root, u.color, L, q, dir, {})
       /\ Rotates(t.child, t.root, u.child, u.root, L, s, od)
       /\ u.child[q][od] = near /\ u.child[near][od] = s
  <2>1. /\ u \in Tree /\ SomeRb(u.child, u.root, u.color, L, q, dir, {})
        /\ Rotates(t.child, t.root, u.child, u.root, L, s, od)
        /\ AroundPivot(t.child, t.root, u.child, L, s, near, od)
    BY <1>10 DEF SwappedUp
  <2>2. u.child[near][od] = s
    BY <2>1 DEF AroundPivot
  <2>3. q \in L \ {s, near} /\ od \in Dir
    BY <1>1, <1>3, <1>6
  <2>4. u.child[q][od] = near
    BY <2>1, <2>3, <1>8 DEF AroundPivot
  <2> QED
    BY <2>1, <2>2, <2>4
<1>12. u.color[near] = RB_BLACK /\ u.color[s] = RB_RED
  BY <1>1, <1>4, <1>6, <1>10 DEF SwappedUp, SwapsColors
<1>a. Above(u.child, u.root, L, q, pl.parent, pl.dir)
  <2> DEFINE q2 == pl.parent
             e2 == pl.dir
  <2>1. Above(t.child, t.root, L, q, q2, e2)
    BY <1>1
  <2> HIDE DEF q2, e2
  <2>2. Above(u.child, u.root, L, q, q2, e2)
    BY <2>1, <1>1, <1>3, <1>4, <1>6, <1>8, <1>11, AboveKept
  <2> QED
    BY <2>2 DEF q2, e2
<1>13. Working(u, L, q, dir, pl)
  BY <1>1, <1>4, <1>11, <1>12, <1>a DEF Working, od
<1>14. IsRed(u, u.child[u.child[q][od]][od])
  BY <1>1, <1>3, <1>11, <1>12 DEF IsRed
<1> QED
  BY <1>13, <1>14 DEF od

\* Case 4 repays the black.
LEMMA Case4Works ==
  ASSUME NEW t, NEW L \in SUBSET Node, NEW w,
         Working(t, L, Entry(w, 0).parent, Entry(w, 0).dir, Entry(w, -1)),
         IsRed(t, t.child[t.child[Entry(w, 0).parent][Opp(Entry(w, 0).dir)]][Opp(Entry(w, 0).dir)])
  PROVE  Straightened(RemoveCase4(t, w), L)
<1> DEFINE q == Entry(w, 0).parent
           dir == Entry(w, 0).dir
           pl == Entry(w, -1)
           s == t.child[q][Opp(dir)]
           far == t.child[s][Opp(dir)]
           k == t.color[q]
           t1 == rb_set_color(t, s, k)
           t2 == rb_set_color(t1, q, RB_BLACK)
           t3 == rb_set_color(t2, far, RB_BLACK)
           v == Hang(rb_rotate(t3, q, dir), pl, s)
<1>0. Working(t, L, q, dir, pl) /\ IsRed(t, far)
  OBVIOUS
<1>9. RemoveCase4(t, w) = v
  BY DEF RemoveCase4, Pivot
<1> HIDE DEF q, dir, pl
<1>1. /\ t \in Tree /\ q \in L /\ dir \in Dir /\ s \in L
      /\ t.color[s] = RB_BLACK
      /\ Place(pl) /\ Above(t.child, t.root, L, q, pl.parent, pl.dir)
  BY <1>0 DEF Working
<1>2. PICK D, B : IsRb(t.child, t.root, t.color, L, D, B, q, dir, {})
  BY <1>0 DEF Working, SomeRb
<1>3. /\ IsTree(t.child, t.root, L, D) /\ Opp(dir) \in Dir /\ NULL \notin L
      /\ k \in {RB_RED, RB_BLACK}
  BY <1>1, <1>2, Sides, NullAssumption DEF IsRb
<1>4. far \in L /\ t.color[far] = RB_RED
  BY <1>0, <1>1, <1>3 DEF IsRed, IsTree
<1>5. q \in Node /\ s \in Node /\ far \in Node
  BY <1>1, <1>4
<1>10. t.child[q][Opp(dir)] = s /\ t.child[s][Opp(dir)] = far
  OBVIOUS
<1> HIDE DEF far, s, k
<1>6. /\ t1 \in Tree /\ t1.root = t.root /\ t1.child = t.child
      /\ Paints(t.color, t1.color, L, s, k)
  BY <1>1, <1>3, <1>5, PaintFields
<1> HIDE DEF t1
<1>7. /\ t2 \in Tree /\ t2.root = t1.root /\ t2.child = t1.child
      /\ Paints(t1.color, t2.color, L, q, RB_BLACK)
  BY <1>5, <1>6, PaintFields
<1> HIDE DEF t2
<1>8. /\ t3 \in Tree /\ t3.root = t2.root /\ t3.child = t2.child
      /\ Paints(t2.color, t3.color, L, far, RB_BLACK)
  BY <1>5, <1>7, PaintFields
<1> HIDE DEF t3
<1>l. LinkFacts(t.child, t.root, L, D)
  BY <1>3, TreeLinks
<1>11. s # q /\ far # s /\ far # q
  BY <1>1, <1>3, <1>4, <1>10, <1>l DEF LinkFacts
<1>12. PaintsLast(t.color, t3.color, L, q, s, far)
  BY <1>6, <1>7, <1>8, <1>11 DEF Paints, PaintsLast, k
<1>13. Rotated(t3, v, L, q, dir)
  <2>1. /\ IsTree(t3.child, t3.root, L, D) /\ t3.child[q][Opp(dir)] = s
        /\ Above(t3.child, t3.root, L, q, pl.parent, pl.dir)
    BY <1>1, <1>3, <1>6, <1>7, <1>8, <1>10
  <2> QED
    BY <2>1, <1>1, <1>8, RotateFields
<1> HIDE DEF v
<1>14. /\ v \in Tree /\ v.color = t3.color
       /\ Rotates(t.child, t.root, v.child, v.root, L, q, dir)
  BY <1>6, <1>7, <1>8, <1>13 DEF Rotated
<1>15. SomeRb(v.child, v.root, v.color, L, NULL, NULL, {})
  BY <1>1, <1>2, <1>4, <1>10, <1>12, <1>14, RotateLast
<1> QED
  BY <1>9, <1>14, <1>15 DEF Straightened

\* The state at the top of the loop of rb_remove_color.
LEMMA RemoveColorFacts ==
  ASSUME Inv, pc = "remove_color"
  PROVE  /\ Typed /\ tree \in Tree /\ linked \in SUBSET Node /\ NULL \notin linked
         /\ target \in Node \ linked /\ cur \in linked \cup {NULL}
         /\ WayTo(tree.child, tree.root, linked, rp, cur)
         /\ SomeRb(tree.child, tree.root, tree.color, linked,
                   Entry(rp, 0).parent, Entry(rp, 0).dir, Exempt)
         /\ Exempt = IF cur # NULL THEN {cur} \cup {tree.child[cur][d] : d \in Dir} ELSE {}
         /\ cur = tree.root <=> Entry(rp, 0).parent = NULL
<1>1. PICK D, B : Shape(D, B) /\ CallInv(D)
  BY DEF Inv
<1> DEFINE q == Entry(rp, 0).parent
           e == Entry(rp, 0).dir
<1>2. IsRb(tree.child, tree.root, tree.color, linked, D, B, q, e, Exempt)
  BY <1>1 DEF Shape, OwedAt, OwedDir, WorkLink
<1>3. /\ Typed /\ tree \in Tree /\ linked \in SUBSET Node /\ NULL \notin linked
      /\ target \in Node \ linked /\ cur \in linked \cup {NULL}
      /\ WayTo(tree.child, tree.root, linked, rp, cur)
  BY <1>1, NullAssumption DEF Inv, Typed, CallInv, RemoveColorInv, Leads
<1>4. Exempt = IF cur # NULL THEN {cur} \cup {tree.child[cur][d] : d \in Dir} ELSE {}
  BY DEF Exempt
<1>5. IsTree(tree.child, tree.root, linked, D)
  BY <1>2 DEF IsRb
<1>l. LinkFacts(tree.child, tree.root, linked, D)
  BY <1>3, <1>5, TreeLinks
<1>6. /\ q = NULL => cur = tree.root
      /\ q # NULL => q \in linked /\ e \in Dir /\ tree.child[q][e] = cur
  BY <1>3, WayEnd
<1> HIDE DEF q, e
<1>7. ASSUME cur = tree.root PROVE q = NULL
  <2>1. CASE tree.root = NULL
    <3>1. linked = {}
      BY <2>1, <1>5 DEF IsTree
    <3> QED
      BY <3>1, <1>6
  <2>2. CASE tree.root # NULL
    BY <2>2, <1>6, <1>7, <1>l DEF LinkFacts
  <2> QED
    BY <2>1, <2>2
<1> QED
  <2>1. SomeRb(tree.child, tree.root, tree.color, linked, q, e, Exempt)
    BY <1>2 DEF SomeRb
  <2>2. cur = tree.root <=> q = NULL
    BY <1>6, <1>7
  <2> QED
    BY <2>1, <2>2, <1>3, <1>4 DEF q, e

\* While the loop runs, nothing but the black at the end of the stack is wrong.
LEMMA LoopFacts ==
  ASSUME Inv, pc = "remove_color", RemoveLoops
  PROVE  /\ Entry(rp, 0).parent # NULL
         /\ IsBlack(tree, cur)
         /\ SomeRb(tree.child, tree.root, tree.color, linked,
                   Entry(rp, 0).parent, Entry(rp, 0).dir, {})
<1> DEFINE q == Entry(rp, 0).parent
           e == Entry(rp, 0).dir
           X == Exempt
<1>0. /\ linked \in SUBSET Node /\ cur \in linked \cup {NULL}
      /\ SomeRb(tree.child, tree.root, tree.color, linked, q, e, X)
      /\ X = IF cur # NULL THEN {cur} \cup {tree.child[cur][d] : d \in Dir} ELSE {}
      /\ cur = tree.root <=> q = NULL
  BY RemoveColorFacts
<1>1. IsBlack(tree, cur) /\ q # NULL
  BY <1>0 DEF RemoveLoops
<1> HIDE DEF q, e, X
<1>2. PICK D, B : IsRb(tree.child, tree.root, tree.color, linked, D, B, q, e, X)
  BY <1>0 DEF SomeRb
<1>3. CASE cur = NULL
  BY <1>0, <1>1, <1>3 DEF q, e
<1>4. CASE cur # NULL
  <2>1. X \subseteq {cur} \cup {tree.child[cur][d] : d \in Dir}
    BY <1>0, <1>4
  <2>2. cur \in linked /\ tree.color[cur] = RB_BLACK
    BY <1>0, <1>1, <1>2, <1>4 DEF IsBlack, IsRed, IsRb
  <2>3. IsRb(tree.child, tree.root, tree.color, linked, D, B, q, e, {})
    BY <2>1, <2>2, <1>0, <1>2, NoReds
  <2> QED
    BY <2>3, <1>1 DEF SomeRb, q, e
<1> QED
  BY <1>3, <1>4

\* Case 2 of rb_remove_color: the sibling goes red and the black is owed one
\* link further up.
LEMMA Case2Step ==
  ASSUME Typed, pc = "remove_color", linked' = linked, target \in Node \ linked,
         NEW t, NEW w, NEW c, WorkingAt(t, linked, w, c),
         NEW q, q = Entry(w, 0).parent, NEW dir, dir = Entry(w, 0).dir,
         NEW s, s = t.child[q][Opp(dir)],
         IsBlack(t, t.child[s][Opp(dir)]), IsBlack(t, t.child[s][dir]),
         tree' = rb_set_color(t, s, RB_RED), Continue(q, Pop(w, 1))
  PROVE  Inv'
<1> DEFINE pl == Entry(w, -1)
           v == Pop(w, 1)
           q2 == pl.parent
           e2 == pl.dir
<1>0. Working(t, linked, q, dir, pl) /\ WayTo(t.child, t.root, linked, w, c)
  BY DEF WorkingAt
<1>1. /\ t \in Tree /\ q \in linked /\ dir \in Dir /\ s \in linked /\ t.color[s] = RB_BLACK
      /\ linked \in SUBSET Node /\ NULL \notin linked
      /\ SomeRb(t.child, t.root, t.color, linked, q, dir, {})
      /\ Above(t.child, t.root, linked, q, q2, e2)
  BY <1>0, NullAssumption DEF Working, Typed
<1>2. cur' = q /\ rp' = v /\ UNCHANGED <<at, pc, call, target, ret>>
  BY DEF Continue
<1>v. WayTo(t.child, t.root, linked, v, q) /\ Entry(v, 0) = pl
  <2>1. Entry(w, 0).parent # NULL
    BY <1>1
  <2>2. Pops(t.child, t.root, linked, w)
    BY <2>1, <1>0, <1>1, PopWay
  <2> QED
    BY <2>2 DEF Pops
<1> HIDE DEF v
<1>3. PICK D, B : IsRb(t.child, t.root, t.color, linked, D, B, q, dir, {})
  BY <1>1 DEF SomeRb
<1>4. /\ IsTree(t.child, t.root, linked, D)
      /\ \A x \in linked : t.color[x] \in {RB_RED, RB_BLACK}
      /\ \A d \in Dir : d = dir \/ d = Opp(dir)
      /\ Opp(dir) \in Dir
  BY <1>1, <1>3, Sides DEF IsRb
<1>5. \A d \in Dir : t.child[s][d] \in linked => t.color[t.child[s][d]] = RB_BLACK
  BY <1>1, <1>4, ZenonT(40) DEF IsBlack, IsRed
<1>7. /\ tree' \in Tree /\ tree'.root = t.root /\ tree'.child = t.child
      /\ Paints(t.color, tree'.color, linked, s, RB_RED)
  <2>1. s \in Node /\ RB_RED \in {RB_RED, RB_BLACK}
    BY <1>1
  <2> QED
    BY <2>1, <1>1, PaintFields, ZenonT(40)
<1>9. OwedAt' = q2 /\ OwedDir' = e2 /\ pc' = "remove_color"
  BY <1>2, <1>v DEF OwedAt, OwedDir, WorkLink
<1> HIDE DEF pl, q2, e2
<1>8. SomeRb(t.child, t.root, tree'.color, linked, q2, e2, {s})
  BY <1>1, <1>3, <1>5, <1>7, PushHole, ZenonT(40)
<1>10. s \in Exempt'
  <2>1. Exempt' = {q} \cup {t.child[q][d] : d \in Dir}
    BY <1>1, <1>2, <1>7, <1>9 DEF Exempt
  <2> QED
    BY <2>1, <1>4
<1>11. SomeRb(t.child, t.root, tree'.color, linked, q2, e2, Exempt')
  <2>1. {s} \cap linked \subseteq Exempt'
    BY <1>10
  <2> QED
    BY <2>1, <1>8, <1>1, Excuse
<1>13. Typed'
  BY <1>1, <1>2, <1>7 DEF Typed, Ptr
<1>14. RemoveColorInv'
  BY <1>1, <1>2, <1>7, <1>v DEF RemoveColorInv, Leads
<1>15. SomeRb(tree'.child, tree'.root, tree'.color, linked', OwedAt', OwedDir', Exempt')
  BY <1>7, <1>9, <1>11
<1> QED
  BY <1>9, <1>13, <1>14, <1>15, WriteStep

\* Cases 3 and 4 of rb_remove_color, after which the whole tree is right.
LEMMA Case34Step ==
  ASSUME Typed, linked' = linked, target \in Node \ linked,
         NEW t, NEW w, NEW c, WorkingAt(t, linked, w, c),
         NEW q, q = Entry(w, 0).parent, NEW dir, dir = Entry(w, 0).dir,
         NEW s, s = t.child[q][Opp(dir)],
         IsRed(t, t.child[s][Opp(dir)]) \/ IsRed(t, t.child[s][dir]),
         NEW t3, t3 = IF IsBlack(t, t.child[s][Opp(dir)]) THEN RemoveCase3(t, q, s, dir) ELSE t,
         NEW t4, t4 = RemoveCase4(t3, w), RemoveDone(t4, t4.root)
  PROVE  Inv'
<1> DEFINE pl == Entry(w, -1)
<1>0. Working(t, linked, q, dir, pl) /\ linked \in SUBSET Node
  BY DEF WorkingAt, Typed
<1>1. Working(t3, linked, q, dir, pl) /\ IsRed(t3, t3.child[t3.child[q][Opp(dir)]][Opp(dir)])
  <2>1. CASE IsBlack(t, t.child[s][Opp(dir)])
    <3>1. IsRed(t, t.child[s][dir]) /\ t3 = RemoveCase3(t, q, s, dir)
      BY <2>1 DEF IsBlack
    <3> HIDE DEF pl
    <3> QED
      BY <3>1, <2>1, <1>0, Case3Works
  <2>2. CASE ~IsBlack(t, t.child[s][Opp(dir)])
    BY <2>2, <1>0 DEF IsBlack
  <2> QED
    BY <2>1, <2>2
<1>2. Straightened(t4, linked)
  BY <1>0, <1>1, Case4Works
<1>3. t4 \in Tree /\ SomeRb(t4.child, t4.root, t4.color, linked, NULL, NULL, {})
  BY <1>2 DEF Straightened
<1> DEFINE X == {}
<1>4. PICK D, B : IsRb(t4.child, t4.root, t4.color, linked, D, B, NULL, NULL, X)
  BY <1>3 DEF SomeRb
<1>5. linked # {} /\ t4.root \in linked /\ t4.root # NULL
  <2>1. t4.root \in linked \cup {NULL} /\ D[NULL] = {} /\ D[t4.root] = linked
    BY <1>4 DEF IsRb, IsTree
  <2>2. q \in linked
    BY <1>0 DEF Working
  <2> QED
    BY <2>1, <2>2, <1>0, NullAssumption
<1>6. X \subseteq {t4.root} \cup {t4.child[t4.root][d] : d \in Dir}
  OBVIOUS
<1> HIDE DEF X
<1> DEFINE u == rb_set_color(t4, t4.root, RB_BLACK)
<1>7. Straightened(u, linked)
  BY <1>0, <1>3, <1>4, <1>5, <1>6, RootBlack
<1>8. u = IF t4.root = NULL THEN t4 ELSE rb_set_color(t4, t4.root, RB_BLACK)
  BY <1>5
<1> HIDE DEF u
<1>9. SomeRb(u.child, u.root, u.color, linked, NULL, NULL, {})
  BY <1>7 DEF Straightened
<1> QED
  BY <1>3, <1>5, <1>8, <1>9, RemoveDoneStep

\* The end of rb_remove_color: the node at the end of the stack goes black.
LEMMA RemoveExitStep ==
  ASSUME Inv, pc = "remove_color", ~RemoveLoops, RemoveDone(tree, cur), linked' = linked
  PROVE  Inv'
<1> DEFINE u == IF cur = NULL THEN tree ELSE rb_set_color(tree, cur, RB_BLACK)
           q == Entry(rp, 0).parent
           e == Entry(rp, 0).dir
           X == Exempt
<1>0. /\ Typed /\ tree \in Tree /\ linked \in SUBSET Node /\ NULL \notin linked
      /\ target \in Node \ linked /\ cur \in linked \cup {NULL}
      /\ WayTo(tree.child, tree.root, linked, rp, cur)
      /\ SomeRb(tree.child, tree.root, tree.color, linked, q, e, X)
      /\ X = IF cur # NULL THEN {cur} \cup {tree.child[cur][d] : d \in Dir} ELSE {}
      /\ cur = tree.root <=> q = NULL
  BY RemoveColorFacts
<1>1. q # NULL => q \in linked /\ e \in Dir /\ tree.child[q][e] = cur
  BY <1>0, WayEnd
<1> HIDE DEF q, e, X
<1>2. PICK D, B : IsRb(tree.child, tree.root, tree.color, linked, D, B, q, e, X)
  BY <1>0 DEF SomeRb
<1>3. CASE cur = NULL
  <2>1. tree.root = NULL /\ q = NULL /\ X = {}
    BY <1>0, <1>3 DEF RemoveLoops, IsBlack, IsRed
  <2>2. IsRb(tree.child, tree.root, tree.color, linked, D, B, NULL, e, {})
    BY <2>1, <1>2
  <2>3. IsRb(tree.child, tree.root, tree.color, linked, D, B, NULL, NULL, {})
    BY <2>2, <1>0, OwedNowhere
  <2>4. SomeRb(tree.child, tree.root, tree.color, linked, NULL, NULL, {})
    BY <2>3 DEF SomeRb
  <2>5. tree = IF cur = NULL THEN tree ELSE rb_set_color(tree, cur, RB_BLACK)
    BY <1>3
  <2> QED
    BY <2>4, <2>5, <1>0, RemoveDoneStep
<1>4. CASE cur # NULL
  <2>1. cur \in linked /\ cur \in Node /\ u = rb_set_color(tree, cur, RB_BLACK)
    BY <1>0, <1>4
  <2>2. /\ u \in Tree /\ u.root = tree.root /\ u.child = tree.child
        /\ Paints(tree.color, u.color, linked, cur, RB_BLACK)
    <3>1. RB_BLACK \in {RB_RED, RB_BLACK}
      OBVIOUS
    <3> QED
      BY <3>1, <2>1, <1>0, PaintFields
  <2>3. u = IF cur = NULL THEN tree ELSE rb_set_color(tree, cur, RB_BLACK)
    OBVIOUS
  <2> HIDE DEF u
  <2>4. X \subseteq {cur} \cup {tree.child[cur][d] : d \in Dir}
    BY <1>0, <1>4
  <2>5. CASE q # NULL
    <3>1. q \in linked /\ e \in Dir /\ tree.child[q][e] = cur /\ cur # tree.root
      BY <2>5, <1>0, <1>1
    <3>2. tree.color[cur] = RB_RED
      BY <3>1 DEF RemoveLoops, IsBlack, IsRed
    <3>3. SomeRb(tree.child, tree.root, u.color, linked, NULL, NULL, {})
      BY <3>1, <3>2, <2>1, <2>2, <2>4, <1>0, <1>2, PaintHole
    <3>4. SomeRb(u.child, u.root, u.color, linked, NULL, NULL, {})
      BY <3>3, <2>2
    <3> QED
      BY <3>4, <2>3, <1>0, RemoveDoneStep
  <2>6. CASE q = NULL
    <3>1. cur = tree.root
      BY <2>6, <1>0
    <3>2. IsRb(tree.child, cur, tree.color, linked, D, B, NULL, NULL, X)
      BY <3>1, <2>6, <1>0, <1>2, OwedNowhere
    <3>3. SomeRb(tree.child, cur, u.color, linked, NULL, NULL, {})
      BY <3>2, <2>1, <2>2, <2>4, <1>0, PaintRoot
    <3>4. SomeRb(u.child, u.root, u.color, linked, NULL, NULL, {})
      BY <3>1, <3>3, <2>2
    <3> QED
      BY <3>4, <2>3, <1>0, RemoveDoneStep
  <2> QED
    BY <2>5, <2>6
<1> QED
  BY <1>3, <1>4

\* A turn of rb_remove_color once case 1 is out of the way.
RemoveTurn(t, w) ==
  LET q   == Entry(w, 0).parent
      dir == Entry(w, 0).dir
      s   == t.child[q][Opp(dir)]
      far == t.child[s][Opp(dir)]
      near == t.child[s][dir]
      t3  == IF IsBlack(t, far) THEN RemoveCase3(t, q, s, dir) ELSE t
      t4  == RemoveCase4(t3, w)
  IN  \/ /\ IsBlack(t, far) /\ IsBlack(t, near)
         /\ tree' = rb_set_color(t, s, RB_RED)
         /\ Continue(q, Pop(w, 1))
      \/ /\ IsRed(t, far) \/ IsRed(t, near)
         /\ RemoveDone(t4, t4.root)

\* RemoveColor in these terms.
LEMMA RemoveColorTurn ==
  ASSUME RemoveColor
  PROVE  /\ pc = "remove_color" /\ linked' = linked
         /\ \/ ~RemoveLoops /\ RemoveDone(tree, cur)
            \/ RemoveLoops /\ RemoveTurn(AfterCase1(tree, rp), PathAfterCase1(tree, rp))
BY DEF RemoveColor, RemoveTurn, AfterCase1, PathAfterCase1, Pivot

\* What case 1 leaves, in the loop.
LEMMA TurnFacts ==
  ASSUME Inv, pc = "remove_color", RemoveLoops
  PROVE  /\ WorkingAt(AfterCase1(tree, rp), linked, PathAfterCase1(tree, rp), cur)
         /\ Len(PathAfterCase1(tree, rp)) = Len(rp) + IF IsCase1(tree, rp) THEN 1 ELSE 0
<1>0. /\ tree \in Tree /\ linked \in SUBSET Node
      /\ WayTo(tree.child, tree.root, linked, rp, cur)
  BY RemoveColorFacts
<1>1. /\ Entry(rp, 0).parent # NULL /\ IsBlack(tree, cur)
      /\ SomeRb(tree.child, tree.root, tree.color, linked, Entry(rp, 0).parent, Entry(rp, 0).dir, {})
  BY LoopFacts
<1>2. PICK D, B : IsRb(tree.child, tree.root, tree.color, linked, D, B,
                       Entry(rp, 0).parent, Entry(rp, 0).dir, {})
  BY <1>1 DEF SomeRb
<1> QED
  BY <1>0, <1>1, <1>2, AfterCase1Works

\* One turn of the loop of rb_remove_color, or its end.
LEMMA RemoveColorStep == ASSUME Inv, RemoveColor PROVE Inv'
<1>0. /\ pc = "remove_color" /\ linked' = linked
      /\ \/ ~RemoveLoops /\ RemoveDone(tree, cur)
         \/ RemoveLoops /\ RemoveTurn(AfterCase1(tree, rp), PathAfterCase1(tree, rp))
  BY RemoveColorTurn
<1>1. CASE ~RemoveLoops /\ RemoveDone(tree, cur)
  BY <1>0, <1>1, RemoveExitStep
<1>2. CASE RemoveLoops /\ RemoveTurn(AfterCase1(tree, rp), PathAfterCase1(tree, rp))
  <2> DEFINE t == AfterCase1(tree, rp)
             w == PathAfterCase1(tree, rp)
  <2>1. WorkingAt(t, linked, w, cur) /\ RemoveTurn(t, w)
    BY <1>0, <1>2, TurnFacts
  <2>2. Typed /\ target \in Node \ linked
    BY <1>0, RemoveColorFacts
  <2> HIDE DEF t, w
  <2> DEFINE q == Entry(w, 0).parent
             dir == Entry(w, 0).dir
             s == t.child[q][Opp(dir)]
             t3 == IF IsBlack(t, t.child[s][Opp(dir)]) THEN RemoveCase3(t, q, s, dir) ELSE t
             t4 == RemoveCase4(t3, w)
  <2>3. CASE /\ IsBlack(t, t.child[s][Opp(dir)]) /\ IsBlack(t, t.child[s][dir])
             /\ tree' = rb_set_color(t, s, RB_RED) /\ Continue(q, Pop(w, 1))
    BY <2>1, <2>2, <2>3, <1>0, Case2Step
  <2>4. CASE /\ IsRed(t, t.child[s][Opp(dir)]) \/ IsRed(t, t.child[s][dir])
             /\ RemoveDone(t4, t4.root)
    BY <2>1, <2>2, <2>4, <1>0, Case34Step
  <2> QED
    BY <2>1, <2>3, <2>4 DEF RemoveTurn
<1> QED
  BY <1>0, <1>1, <1>2

-----------------------------------------------------------------------------
(* The inductive invariant, and what it says.                              *)

\* Every step keeps the invariant.
LEMMA InvNext == Inv /\ [Next]_vars => Inv'
<1> SUFFICES ASSUME Inv, [Next]_vars PROVE Inv'
  OBVIOUS
<1>1. CASE RB_ROOT_INIT
  BY <1>1, RootInitStep
<1>2. ASSUME NEW n \in Node, Insert(n) PROVE Inv'
  BY <1>2, InsertStep
<1>3. CASE RemoveNode
  BY <1>3, RemoveNodeStep
<1>4. ASSUME NEW k \in Key, NEW op \in {"find", "remove"}, Find(op, k) PROVE Inv'
  BY <1>4, FindCall
<1>5. ASSUME NEW op \in {"first", "last"}, Iter(op) PROVE Inv'
  BY <1>5, IterStep
<1>6. ASSUME NEW op \in {"next", "prev"}, IterNext(op) PROVE Inv'
  BY <1>6, IterNextStep
<1>7. CASE InsertDescend
  BY <1>7, InsertDescendStep
<1>8. CASE InsertColor
  BY <1>8, InsertColorStep
<1>9. CASE FindStep
  BY <1>9, FindStepStep
<1>10. CASE RbRemove
  BY <1>10, RbRemoveStep
<1>11. CASE Successor
  BY <1>11, SuccessorStep
<1>12. CASE RemoveColor
  BY <1>12, RemoveColorStep
<1>13. CASE IterDown
  BY <1>13, IterDownStep
<1>14. CASE IterUp
  BY <1>14, IterUpStep
<1>15. CASE UNCHANGED vars
  <2>0. /\ tree' = tree /\ linked' = linked /\ pc' = pc /\ call' = call /\ target' = target
        /\ cur' = cur /\ rp' = rp /\ at' = at /\ ret' = ret
    BY <1>15 DEF vars
  <2>1. PICK D, B : Shape(D, B) /\ CallInv(D)
    BY DEF Inv
  <2>2. Typed'
    BY <2>0 DEF Inv, Typed
  <2>3. Shape(D, B)'
    BY <2>0, <2>1 DEF Shape, OwedAt, OwedDir, Exempt, AtEnd, WorkLink
  <2>4. CallInv(D)'
    BY <2>0, <2>1 DEF CallInv, IdleInv, InsertDescendInv, InsertColorInv, FindInv, RemoveInv,
                      SuccessorInv, RemoveColorInv, IterDownInv, IterUpInv, Candidates,
                      Seeks, Leads, AtEnd, WorkLink
  <2> QED
    BY <2>2, <2>3, <2>4 DEF Inv
<1> QED
  BY <1>1, <1>2, <1>3, <1>4, <1>5, <1>6, <1>7, <1>8, <1>9, <1>10, <1>11, <1>12, <1>13, <1>14,
     <1>15 DEF Next, Client, Library

\* In every reachable state the links and colours are those of a red-black
\* search tree of the nodes inserted and not removed, but for what the
\* running loop of rbtree_compact.c still owes; the RB_PATH in use is the way
\* from the root to the node of the running loop, and the locals of the
\* running call mean what its loop invariant says.
THEOREM Invariance == Spec => []Inv
<1>1. Init => Inv
  BY InvInit
<1>2. Inv /\ [Next]_vars => Inv'
  BY InvNext
<1> QED
  BY <1>1, <1>2, PTL DEF Spec

-----------------------------------------------------------------------------
(* The stack.                                                              *)

\* The node the stack of the running call leads to.
EndOfStack == IF pc = "idle" THEN at
              ELSE IF pc = "rb_remove" THEN target
              ELSE IF pc \in {"iter_up", "insert_color"} THEN AtEnd
              ELSE cur

\* There is a stack wherever the code reads it.
LEMMA StackLeads ==
  ASSUME Inv
  PROVE  /\ rp = <<>> \/ Leads(EndOfStack)
         /\ rp = <<>> => pc \in {"idle", "iter_down"}
<1>1. PICK D, B : Shape(D, B) /\ CallInv(D)
  BY DEF Inv
<1>2. pc \in {"idle", "insert_descend", "insert_color", "find", "rb_remove",
              "successor", "remove_color", "iter_down", "iter_up"}
  BY DEF Inv, Typed
<1>3. CASE pc = "idle"
  BY <1>1, <1>3 DEF CallInv, IdleInv, EndOfStack
<1>4. CASE pc = "insert_descend"
  BY <1>1, <1>4 DEF CallInv, InsertDescendInv, EndOfStack, Leads, WayTo, Way
<1>5. CASE pc = "insert_color"
  BY <1>1, <1>5 DEF CallInv, InsertColorInv, EndOfStack, Leads, WayTo, Way
<1>6. CASE pc = "find"
  BY <1>1, <1>6 DEF CallInv, FindInv, EndOfStack, Leads, WayTo, Way
<1>7. CASE pc = "rb_remove"
  BY <1>1, <1>7 DEF CallInv, EndOfStack, Leads, WayTo, Way
<1>8. CASE pc = "successor"
  BY <1>1, <1>8 DEF CallInv, SuccessorInv, EndOfStack, Leads, WayTo, Way
<1>9. CASE pc = "remove_color"
  BY <1>1, <1>9 DEF CallInv, RemoveColorInv, EndOfStack, Leads, WayTo, Way
<1>10. CASE pc = "iter_down"
  BY <1>1, <1>10 DEF CallInv, IterDownInv, EndOfStack
<1>11. CASE pc = "iter_up"
  BY <1>1, <1>11 DEF CallInv, IterUpInv, EndOfStack, Leads, WayTo, Way
<1> QED
  BY <1>2, <1>3, <1>4, <1>5, <1>6, <1>7, <1>8, <1>9, <1>10, <1>11

\* An entry above the bottom names a linked node and a side.
LEMMA InvTyped == Inv => TypeOK
<1> SUFFICES ASSUME Inv PROVE TypeOK
  OBVIOUS
<1>1. Typed /\ linked \in SUBSET Node
  BY DEF Inv, Typed
<1>2. ASSUME rp # <<>>
      PROVE  /\ Head(rp) = [parent |-> NULL, dir |-> NULL]
             /\ \A k \in 2..Len(rp) : rp[k] \in [parent : Node, dir : Dir]
  <2>1. Way(tree.child, tree.root, linked, rp)
    BY <1>2, StackLeads DEF Leads, WayTo
  <2>2. rp \in Seq(StackEntry) /\ rp[1] = [parent |-> NULL, dir |-> NULL]
        /\ \A k \in 2..Len(rp) : rp[k] \in [parent : linked, dir : Dir]
    BY <2>1 DEF Way
  <2>3. Head(rp) = rp[1]
    BY <2>2, <1>2, HeadTailProperties
  <2>4. [parent : linked, dir : Dir] \subseteq [parent : Node, dir : Dir]
    BY <1>1
  <2> QED
    BY <2>2, <2>3, <2>4
<1> QED
  BY <1>1, <1>2 DEF TypeOK, Typed

\* The memory of rbtree_compact.c and the locals of its functions keep their
\* types, and only the bottom entry of a stack has no node and no direction.
THEOREM TypeCorrect == Spec => []TypeOK
BY Invariance, InvTyped, PTL

\* An entry says where the node of the next one hangs, and the last one where
\* the node of the running loop does.
LEMMA InvPath == Inv => PathMatches
<1> SUFFICES ASSUME Inv, NEW k \in 1..Len(rp)
             PROVE  LinkAt(tree.child, tree.root, rp[k]) =
                      IF k < Len(rp) THEN rp[k + 1].parent
                      ELSE IF k = 1 /\ pc \in {"iter_up", "insert_color"} THEN tree.root ELSE Tip
  BY DEF PathMatches, LinkAt
<1>1. rp # <<>>
  <2> SUFFICES ASSUME rp = <<>> PROVE FALSE
    OBVIOUS
  <2>1. Len(rp) = 0
    OBVIOUS
  <2> QED
    BY <2>1
<1>2. WayTo(tree.child, tree.root, linked, rp, EndOfStack)
  BY <1>1, StackLeads DEF Leads
<1>3. Way(tree.child, tree.root, linked, rp) /\ linked \in SUBSET Node
  BY <1>2 DEF WayTo, Inv, Typed
<1>4. Len(rp) \in Nat /\ Len(rp) >= 1
  BY <1>3, WayLen
<1>5. CASE k < Len(rp)
  <2>1. k \in 1..(Len(rp) - 1)
    BY <1>4, <1>5
  <2> QED
    BY <2>1, <1>3, <1>5 DEF Way
<1>6. CASE ~(k < Len(rp))
  <2>1. k = Len(rp)
    BY <1>4, <1>6
  <2>2. /\ Entry(rp, 0) = rp[Len(rp)]
        /\ Entry(rp, 0).parent = NULL <=> Len(rp) = 1
    BY <1>2, <1>3, WayEnd
  <2>3. LinkAt(tree.child, tree.root, rp[k]) = EndOfStack
    BY <2>1, <2>2, <1>2 DEF WayTo
  <2>4. CASE pc \in {"iter_up", "insert_color"}
    <3>1. EndOfStack = AtEnd
      BY <2>4 DEF EndOfStack
    <3>2. AtEnd = LinkAt(tree.child, tree.root, Entry(rp, 0))
      BY DEF AtEnd, WorkLink
    <3>3. CASE k = 1
      <4>1. Entry(rp, 0).parent = NULL
        BY <3>3, <2>1, <2>2
      <4>2. AtEnd = tree.root
        BY <3>2, <4>1 DEF LinkAt
      <4> QED
        BY <4>2, <3>1, <3>3, <2>3, <2>4, <1>6
    <3>4. CASE k # 1
      <4>1. Entry(rp, 0).parent # NULL
        BY <3>4, <2>1, <2>2
      <4>2. AtEnd = tree.child[Entry(rp, 0).parent][Entry(rp, 0).dir]
        BY <3>2, <4>1 DEF LinkAt
      <4>3. Tip = AtEnd
        BY <4>2, <2>4 DEF Tip, WorkLink
      <4> QED
        BY <4>3, <3>1, <3>4, <2>3, <1>6
    <3> QED
      BY <3>3, <3>4
  <2>5. CASE pc \notin {"iter_up", "insert_color"}
    <3>1. Tip = EndOfStack
      BY <2>5 DEF Tip, EndOfStack
    <3> QED
      BY <3>1, <2>3, <2>5, <1>6
  <2> QED
    BY <2>4, <2>5
<1> QED
  BY <1>5, <1>6

\* The RB_PATH is always the way from the root to the node it is about: it
\* replaces the parent pointers through every search, walk and rotation, and
\* when a successor takes the removed node's place in the middle of it.
THEOREM PathCorrect == Spec => []PathMatches
BY Invariance, InvPath, PTL

-----------------------------------------------------------------------------
(* No dereference of NULL.                                                 *)

\* Where a fix-up reads a grandparent or sibling unchecked, the invariant has it linked.
LEMMA InvNoNull == Inv => NoNullDereference
<1> SUFFICES ASSUME Inv PROVE NoNullDereference
  OBVIOUS
<1>0. linked \in SUBSET Node /\ NULL \notin linked /\ tree \in Tree
  BY NullAssumption DEF Inv, Typed
<1>p. PICK D, B : Shape(D, B) /\ CallInv(D)
  BY DEF Inv
<1>1. ASSUME pc = "insert_color", IsRed(tree, Entry(rp, 0).parent)
      PROVE  Entry(rp, -1).parent # NULL
  <2> DEFINE n == AtEnd
  <2>1. n \in linked /\ WayTo(tree.child, tree.root, linked, rp, n) /\ tree.color[n] = RB_RED
    BY <1>1, <1>p DEF CallInv, InsertColorInv, Leads
  <2>2. IsRb(tree.child, tree.root, tree.color, linked, D, B, NULL, NULL, {n})
    BY <1>1, <1>p DEF Shape, OwedAt, OwedDir, Exempt
  <2> HIDE DEF n
  <2>3. RedWay(tree, linked, rp, n)
    BY <2>1, <2>2, <1>0, <1>1, RedParent
  <2> QED
    BY <2>3, <1>0 DEF RedWay, RedUp
<1>2. ASSUME pc = "remove_color", RemoveLoops
      PROVE  /\ WorkLink.parent # NULL
             /\ LET sibling == tree.child[WorkLink.parent][Opp(WorkLink.dir)]
                IN  /\ sibling # NULL
                    /\ IsRed(tree, sibling) =>
                         NULL \notin {tree.child[sibling][dir] : dir \in Dir}
  <2> DEFINE q == Entry(rp, 0).parent
             e == Entry(rp, 0).dir
             s == tree.child[q][Opp(e)]
  <2>1. q # NULL /\ WayTo(tree.child, tree.root, linked, rp, cur)
    BY <1>2, LoopFacts, RemoveColorFacts
  <2>2. q \in linked /\ e \in Dir
    BY <2>1, <1>0, WayEnd
  <2>3. IsRb(tree.child, tree.root, tree.color, linked, D, B, q, e, Exempt)
    BY <1>2, <1>p DEF Shape, OwedAt, OwedDir, WorkLink
  <2> HIDE DEF q, e
  <2>4. s \in linked /\ B[s] = B[tree.child[q][e]] + 1
    BY <2>2, <2>3, <1>0, HoleSide
  <2>5. s # q /\ tree.child[q][e] \in Ptr /\ B \in [Ptr -> Nat]
    <3>1. IsTree(tree.child, tree.root, linked, D) /\ Opp(e) \in Dir
      BY <2>2, <2>3, Sides DEF IsRb
    <3>2. LinkFacts(tree.child, tree.root, linked, D)
      BY <3>1, <1>0, TreeLinks
    <3> QED
      BY <3>1, <3>2, <2>2, <2>3, <2>4, <1>0 DEF LinkFacts, IsTree, IsRb, Balanced, Ptr
  <2>6. B[s] > 0
    BY <2>4, <2>5
  <2> HIDE DEF s
  <2>7. ASSUME IsRed(tree, s), NEW d \in Dir PROVE tree.child[s][d] # NULL
    <3>1. tree.child[s][d] \in linked
      BY <2>3, <2>4, <2>5, <2>6, <2>7, <1>0, RedHeight DEF IsRed
    <3> QED
      BY <3>1, <1>0
  <2> QED
    BY <2>1, <2>4, <2>7, <1>0 DEF e, s, q, WorkLink
<1> QED
  BY <1>1, <1>2 DEF NoNullDereference

\* The grandparent rb_insert_color and the sibling and nephews
\* rb_remove_color dereference without a test are never NULL.
THEOREM NoNull == Spec => []NoNullDereference
BY Invariance, InvNoNull, PTL

-----------------------------------------------------------------------------
(* The shape of the tree.                                                  *)

\* A child has fewer nodes below it.
LEMMA FewerBelow ==
  ASSUME NEW L \in SUBSET Node, NEW ch, NEW r, NEW D, IsTree(ch, r, L, D),
         NEW x \in L, NEW d \in Dir
  PROVE  /\ IsFiniteSet(D[x]) /\ Cardinality(D[x]) \in Nat
         /\ Cardinality(D[ch[x][d]]) \in Nat
         /\ Cardinality(D[ch[x][d]]) + 1 <= Cardinality(D[x])
<1> DEFINE S == D[x]
           T == D[ch[x][d]]
<1>1. LinkFacts(ch, r, L, D) /\ D \in [Ptr -> SUBSET L]
  BY TreeLinks DEF IsTree
<1>2. S \subseteq Node /\ T \subseteq S /\ x \in S /\ x \notin T
  <2>1. x \in Ptr
    BY DEF Ptr
  <2> QED
    BY <2>1, <1>1 DEF LinkFacts
<1> HIDE DEF S, T
<1>3. IsFiniteSet(S) /\ Cardinality(S) \in Nat
  BY <1>2, NodeAssumption, FS_Subset, FS_CardinalityType
<1>4. IsFiniteSet(S \ {x}) /\ Cardinality(S \ {x}) = Cardinality(S) - 1
  BY <1>2, <1>3, FS_RemoveElement
<1>5. T \subseteq S \ {x}
  BY <1>2
<1>6. IsFiniteSet(T) /\ Cardinality(T) <= Cardinality(S \ {x})
  BY <1>4, <1>5, FS_Subset
<1>7. Cardinality(T) \in Nat
  BY <1>6, FS_CardinalityType
<1>8. Cardinality(T) + 1 <= Cardinality(S)
  BY <1>3, <1>4, <1>6, <1>7
<1> QED
  BY <1>3, <1>7, <1>8 DEF S, T

\* down is the function that Below defines.
GoesDown(down) ==
  down = [k \in Nat |->
           [m \in Ptr |->
             IF k = 0 \/ m = NULL THEN {}
             ELSE {m} \cup UNION {down[k - 1][tree.child[m][dir]] : dir \in Dir}]]

\* There is such a function.
LEMMA DownExists == ASSUME tree \in Tree PROVE \E down : GoesDown(down)
<1> DEFINE S == [Ptr -> SUBSET Ptr]
           f0 == [m \in Ptr |-> {}]
           Ext(g, m) == {m} \cup UNION {g[tree.child[m][dir]] : dir \in Dir}
           F == [g \in S |-> [m \in Ptr |-> IF m = NULL THEN {} ELSE Ext(g, m)]]
<1>1. \A m \in Ptr, dir \in Dir : m # NULL => tree.child[m][dir] \in Ptr
  BY TreeFields DEF Ptr
<1>2. f0 \in S
  OBVIOUS
<1>3. F \in [S -> S]
  <2>1. ASSUME NEW g \in S, NEW m \in Ptr, m # NULL PROVE Ext(g, m) \in SUBSET Ptr
    <3>1. \A dir \in Dir : g[tree.child[m][dir]] \in SUBSET Ptr
      BY <2>1, <1>1
    <3> QED
      BY <3>1
  <2> HIDE DEF Ext
  <2>2. ASSUME NEW g \in S
        PROVE  [m \in Ptr |-> IF m = NULL THEN {} ELSE Ext(g, m)] \in S
    BY <2>1
  <2> QED
    BY <2>2
<1> HIDE DEF S, f0, F, Ext
<1>4. PICK f : Iterates(f, S, f0, F)
  BY <1>2, <1>3, Iteration
<1>5. f \in [Nat -> S] /\ f[0] = f0 /\ \A n \in Nat : f[n + 1] = F[f[n]]
  BY <1>4 DEF Iterates
<1>6. ASSUME NEW k \in Nat
      PROVE  f[k] = [m \in Ptr |-> IF k = 0 \/ m = NULL THEN {} ELSE Ext(f[k - 1], m)]
  <2>1. CASE k = 0
    BY <2>1, <1>5 DEF f0
  <2>2. CASE k # 0
    <3>1. k - 1 \in Nat /\ (k - 1) + 1 = k
      BY <2>2
    <3>2. f[k] = F[f[k - 1]] /\ f[k - 1] \in S
      BY <3>1, <1>5
    <3>3. F[f[k - 1]] = [m \in Ptr |-> IF m = NULL THEN {} ELSE Ext(f[k - 1], m)]
      BY <3>2 DEF F
    <3> QED
      BY <3>2, <3>3, <2>2
  <2> QED
    BY <2>1, <2>2
<1>7. f = [k \in Nat |-> [m \in Ptr |-> IF k = 0 \/ m = NULL THEN {} ELSE Ext(f[k - 1], m)]]
  BY <1>5, <1>6
<1>8. GoesDown(f)
  BY <1>7 DEF GoesDown, Ext
<1> QED
  BY <1>8

\* The links lead from a node to the nodes of its subtree.
LEMMA BelowIs ==
  ASSUME tree \in Tree, linked \in SUBSET Node,
         NEW D, IsTree(tree.child, tree.root, linked, D), NEW n \in linked \cup {NULL}
  PROVE  Below(n) = D[n]
<1> DEFINE down == CHOOSE f : GoesDown(f)
<1>1. GoesDown(down)
  BY DownExists
<1>2. Below(n) = down[Cardinality(Node)][n]
  BY DEF Below, GoesDown
<1> HIDE DEF down
<1>3. /\ \A m \in Ptr : down[0][m] = {}
      /\ \A k \in Nat : down[k + 1][NULL] = {}
      /\ \A k \in Nat : \A m \in Node :
           down[k + 1][m] = {m} \cup UNION {down[k][tree.child[m][dir]] : dir \in Dir}
  <2>1. \A m \in Ptr : down[0][m] = {}
    BY <1>1 DEF GoesDown
  <2>2. ASSUME NEW k \in Nat
        PROVE  down[k + 1] = [x \in Ptr |->
                                IF x = NULL THEN {}
                                ELSE {x} \cup UNION {down[k][tree.child[x][dir]] : dir \in Dir}]
    <3>1. k + 1 \in Nat /\ k + 1 # 0 /\ (k + 1) - 1 = k
      OBVIOUS
    <3>2. down[k + 1] = [x \in Ptr |-> IF k + 1 = 0 \/ x = NULL THEN {}
                           ELSE {x} \cup UNION {down[(k + 1) - 1][tree.child[x][dir]] : dir \in Dir}]
      BY <3>1, <1>1 DEF GoesDown
    <3> QED
      BY <3>1, <3>2
  <2>3. NULL \in Ptr /\ \A m \in Node : m \in Ptr /\ m # NULL
    BY NullAssumption DEF Ptr
  <2> QED
    BY <2>1, <2>2, <2>3
<1>4. /\ \A x \in linked \cup {NULL} : x \in Ptr
      /\ NULL \notin linked /\ D[NULL] = {} /\ D \in [Ptr -> SUBSET linked]
  BY NullAssumption DEF Ptr, IsTree
<1> DEFINE Good == {k \in Nat : \A x \in linked \cup {NULL} :
                                  Cardinality(D[x]) <= k => down[k][x] = D[x]}
<1>5. 0 \in Good
  <2>1. ASSUME NEW x \in linked, Cardinality(D[x]) <= 0 PROVE FALSE
    <3>1. /\ Cardinality(D[x]) \in Nat
          /\ Cardinality(D[tree.child[x][RB_LEFT]]) \in Nat
          /\ Cardinality(D[tree.child[x][RB_LEFT]]) + 1 <= Cardinality(D[x])
      BY FewerBelow DEF Dir
    <3> QED
      BY <3>1, <2>1
  <2> QED
    BY <2>1, <1>3, <1>4
<1>6. ASSUME NEW k \in Nat, k \in Good PROVE k + 1 \in Good
  <2>1. ASSUME NEW x \in linked \cup {NULL}, Cardinality(D[x]) <= k + 1
        PROVE  down[k + 1][x] = D[x]
    <3>1. CASE x = NULL
      BY <3>1, <1>3, <1>4
    <3>2. CASE x # NULL
      <4>0. x \in linked /\ x \in Node
        BY <3>2
      <4>1. ASSUME NEW d \in Dir PROVE down[k][tree.child[x][d]] = D[tree.child[x][d]]
        <5> DEFINE c == tree.child[x][d]
        <5>1. /\ Cardinality(D[x]) \in Nat /\ Cardinality(D[c]) \in Nat
              /\ Cardinality(D[c]) + 1 <= Cardinality(D[x])
          BY <4>0, FewerBelow
        <5>2. Cardinality(D[c]) <= k
          BY <5>1, <2>1
        <5>3. c \in linked \cup {NULL}
          BY <4>0 DEF IsTree
        <5> QED
          BY <5>2, <5>3, <1>6
      <4>2. UNION {down[k][tree.child[x][dir]] : dir \in Dir}
              = D[tree.child[x][RB_LEFT]] \cup D[tree.child[x][RB_RIGHT]]
        <5>1. {down[k][tree.child[x][dir]] : dir \in Dir} = {D[tree.child[x][dir]] : dir \in Dir}
          BY <4>1
        <5>2. {D[tree.child[x][dir]] : dir \in Dir}
                = {D[tree.child[x][RB_LEFT]], D[tree.child[x][RB_RIGHT]]}
          BY DEF Dir
        <5> QED
          BY <5>1, <5>2
      <4>3. D[x] = {x} \cup D[tree.child[x][RB_LEFT]] \cup D[tree.child[x][RB_RIGHT]]
        BY <4>0 DEF IsTree
      <4> QED
        BY <4>0, <4>2, <4>3, <1>3
    <3> QED
      BY <3>1, <3>2
  <2> QED
    BY <2>1
<1>7. Nat \subseteq Good
  <2> HIDE DEF Good
  <2> QED
    BY <1>5, <1>6, SetInduction
<1>8. Cardinality(Node) \in Nat /\ Cardinality(D[n]) <= Cardinality(Node)
  <2> DEFINE U == D[n]
  <2>1. U \subseteq Node
    BY <1>4
  <2> HIDE DEF U
  <2>2. Cardinality(U) <= Cardinality(Node)
    BY <2>1, NodeAssumption, FS_Subset
  <2> QED
    BY <2>2, NodeAssumption, FS_CardinalityType DEF U
<1> QED
  BY <1>2, <1>7, <1>8

\* The invariant gives the recursive TreeShape that the runs check.
LEMMA InvShape == Inv => TreeShape
<1> SUFFICES ASSUME Inv PROVE TreeShape
  OBVIOUS
<1>1. tree \in Tree /\ linked \in SUBSET Node /\ NULL \notin linked
  BY NullAssumption DEF Inv, Typed
<1>2. PICK D : IsTree(tree.child, tree.root, linked, D)
  BY DEF Inv, Shape, IsRb
<1>3. LinkFacts(tree.child, tree.root, linked, D)
  BY <1>1, <1>2, TreeLinks
<1>4. \A n \in linked \cup {NULL} : Below(n) = D[n]
  BY <1>1, <1>2, BelowIs
<1>5. Links
  <2>1. RB_EMPTY(tree) <=> linked = {}
    BY <1>1, <1>2 DEF IsTree, RB_EMPTY
  <2>2. Below(tree.root) = linked
    BY <1>2, <1>4 DEF IsTree
  <2>3. ASSUME NEW n \in linked
        PROVE  Cardinality({e \in linked \X Dir : tree.child[e[1]][e[2]] = n})
                 = IF n = tree.root THEN 0 ELSE 1
    <3> DEFINE S == {e \in linked \X Dir : tree.child[e[1]][e[2]] = n}
    <3>1. CASE n = tree.root
      <4>1. S = {}
        BY <3>1, <1>1, <1>3 DEF LinkFacts
      <4> QED
        BY <4>1, <3>1, FS_EmptySet
    <3>2. CASE n # tree.root
      <4>1. PICK p \in linked, d \in Dir : tree.child[p][d] = n
        BY <3>2, <1>1, <1>2, HasParent
      <4>2. S = {<<p, d>>}
        <5>1. <<p, d>> \in S
          BY <4>1
        <5>2. ASSUME NEW e \in S PROVE e = <<p, d>>
          <6>1. e[1] \in linked /\ e[2] \in Dir /\ e = <<e[1], e[2]>>
                /\ tree.child[e[1]][e[2]] = n
            BY <5>2
          <6>2. e[1] = p /\ e[2] = d
            BY <6>1, <4>1, <1>1, <1>3 DEF LinkFacts
          <6> QED
            BY <6>1, <6>2
        <5> QED
          BY <5>1, <5>2
      <4> QED
        BY <4>2, <3>2, FS_Singleton
    <3> QED
      BY <3>1, <3>2
  <2> QED
    BY <2>1, <2>2, <2>3 DEF Links
<1>6. SearchOrder
  <2>1. ASSUME NEW n \in linked
        PROVE  /\ \A m \in Below(tree.child[n][RB_LEFT]) : Val[m] < Val[n]
               /\ \A m \in Below(tree.child[n][RB_RIGHT]) : Val[m] > Val[n]
    <3> DEFINE l == tree.child[n][RB_LEFT]
               r == tree.child[n][RB_RIGHT]
    <3>1. /\ l \in linked \cup {NULL} /\ r \in linked \cup {NULL}
          /\ D \in [Ptr -> SUBSET linked]
          /\ \A m \in D[l] : Before(RB_LEFT, m, n)
          /\ \A m \in D[r] : Before(RB_RIGHT, m, n)
      BY <1>2 DEF IsTree, Dir
    <3> HIDE DEF l, r
    <3>2. Below(l) = D[l] /\ Below(r) = D[r] /\ l \in Ptr /\ r \in Ptr
      BY <3>1, <1>1, <1>4 DEF Ptr
    <3>3. \A m \in D[l] : Val[m] < Val[n]
      BY <3>1 DEF Before, RB_LEFT, RB_RIGHT
    <3>4. \A m \in D[r] : Val[m] > Val[n]
      <4>1. ASSUME NEW m \in D[r] PROVE Val[m] > Val[n]
        <5>1. Val[n] < Val[m]
          BY <3>1 DEF Before, RB_LEFT, RB_RIGHT
        <5>2. m \in Node /\ n \in Node
          BY <3>1, <3>2, <1>1
        <5>3. Val[m] \in Int /\ Val[n] \in Int
          BY <5>2, ValAssumption
        <5> QED
          BY <5>1, <5>3
      <4> QED
        BY <4>1
    <3> QED
      BY <3>2, <3>3, <3>4 DEF l, r
  <2> QED
    BY <2>1 DEF SearchOrder
<1> QED
  BY <1>5, <1>6 DEF TreeShape

\* In every state between two loop turns of rbtree_compact.c, the links form
\* one search tree of the nodes inserted and not removed, whatever rotations
\* and transplants went before.
THEOREM ShapeKept == Spec => []TreeShape
BY Invariance, InvShape, PTL

-----------------------------------------------------------------------------
(* The colours.                                                            *)

\* Entry e is the only one that leads to n.
OnlyLink(ch, r, L, e, n) ==
  /\ n = r /\ n # NULL => e.parent = NULL
  /\ \A p \in L, d \in Dir : ch[p][d] = n /\ n # NULL => e = [parent |-> p, dir |-> d]

\* The end of the stack is the one link to the node it leads to.
LEMMA LastLink ==
  ASSUME NEW ch, NEW r, NEW L \in SUBSET Node, NEW D, IsTree(ch, r, L, D),
         NEW w, NEW n, WayTo(ch, r, L, w, n)
  PROVE  OnlyLink(ch, r, L, Entry(w, 0), n)
<1> DEFINE q == Entry(w, 0).parent
           e == Entry(w, 0).dir
<1>1. LinkFacts(ch, r, L, D)
  BY TreeLinks
<1>2. /\ q = NULL => n = r
      /\ q # NULL => q \in L /\ e \in Dir /\ ch[q][e] = n
                     /\ Entry(w, 0) = [parent |-> q, dir |-> e]
  BY WayEnd
<1> HIDE DEF q, e
<1>3. n = r /\ n # NULL => q = NULL
  BY <1>1, <1>2 DEF LinkFacts
<1>4. ASSUME NEW p \in L, NEW d \in Dir, ch[p][d] = n, n # NULL
      PROVE  Entry(w, 0) = [parent |-> p, dir |-> d]
  <2>1. n # r
    BY <1>1, <1>4 DEF LinkFacts
  <2>2. q = p /\ e = d
    BY <2>1, <1>1, <1>2, <1>4 DEF LinkFacts
  <2> QED
    BY <2>1, <2>2, <1>2
<1> QED
  BY <1>3, <1>4 DEF q, OnlyLink

\* The invariant gives RedRule.
LEMMA InvReds == Inv => RedRule
<1> SUFFICES ASSUME Inv PROVE RedRule
  OBVIOUS
<1>1. tree \in Tree /\ linked \in SUBSET Node /\ NULL \notin linked
  BY NullAssumption DEF Inv, Typed
<1>2. PICK D, B : /\ Shape(D, B) /\ CallInv(D)
                  /\ IsTree(tree.child, tree.root, linked, D)
  BY DEF Inv, Shape, IsRb
<1>3. RedsApart(tree.child, tree.root, tree.color, linked, Exempt)
  BY <1>2 DEF Shape, IsRb
<1>l. LinkFacts(tree.child, tree.root, linked, D)
  BY <1>1, <1>2, TreeLinks
<1>r. RB_RED # RB_BLACK
  BY DEF RB_RED, RB_BLACK
<1>i. pc = "insert_color" => /\ WayTo(tree.child, tree.root, linked, rp, AtEnd)
                             /\ Exempt = {AtEnd}
  BY <1>2 DEF CallInv, InsertColorInv, Leads, Exempt
<1>d. pc = "remove_color" =>
        /\ WayTo(tree.child, tree.root, linked, rp, cur) /\ cur \in linked \cup {NULL}
        /\ Exempt = IF cur # NULL THEN {cur} \cup {tree.child[cur][d] : d \in Dir} ELSE {}
  BY RemoveColorFacts
<1>j. pc = "insert_color" => OnlyLink(tree.child, tree.root, linked, WorkLink, AtEnd)
  BY <1>1, <1>2, <1>i, LastLink DEF WorkLink
<1>e. pc = "remove_color" => OnlyLink(tree.child, tree.root, linked, WorkLink, cur)
  BY <1>1, <1>2, <1>d, LastLink DEF WorkLink
<1>o. pc \notin {"insert_color", "remove_color"} => Exempt = {}
  BY DEF Exempt
<1>4. ASSUME IsRed(tree, tree.root)
      PROVE  pc \in {"insert_color", "remove_color"} /\ WorkLink.parent = NULL
  <2>1. tree.root # NULL /\ tree.color[tree.root] = RB_RED
    BY <1>4 DEF IsRed
  <2>2. tree.root \in linked /\ tree.root \in Exempt
    BY <2>1, <1>2, <1>3, <1>r DEF RedsApart, IsTree
  <2>3. CASE pc = "insert_color"
    BY <2>1, <2>2, <2>3, <1>i, <1>j DEF OnlyLink
  <2>4. CASE pc = "remove_color"
    <3>1. tree.root = cur
      BY <2>1, <2>2, <2>4, <1>d, <1>l DEF LinkFacts
    <3> QED
      BY <3>1, <2>1, <2>4, <1>e DEF OnlyLink
  <2> QED
    BY <2>2, <2>3, <2>4, <1>o
<1>5. ASSUME NEW n \in linked, NEW dir \in Dir, IsRed(tree, n), IsRed(tree, tree.child[n][dir])
      PROVE  \/ /\ pc \in {"insert_color", "remove_color"}
                /\ WorkLink = [parent |-> n, dir |-> dir]
             \/ pc = "remove_color" /\ cur = n
  <2> DEFINE c == tree.child[n][dir]
  <2>1. /\ c # NULL /\ tree.color[c] = RB_RED /\ tree.color[n] = RB_RED
    BY <1>5 DEF IsRed
  <2>2. c \in linked /\ c \in Exempt
    <3>1. c \in linked
      BY <2>1, <1>2 DEF IsTree
    <3> QED
      BY <3>1, <2>1, <1>3, <1>r DEF RedsApart
  <2>3. CASE pc = "insert_color"
    <3>1. c = AtEnd
      BY <2>2, <2>3, <1>i
    <3> QED
      BY <3>1, <2>1, <2>3, <1>j DEF OnlyLink
  <2>4. CASE pc = "remove_color" /\ c = cur
    BY <2>1, <2>4, <1>e DEF OnlyLink
  <2>5. CASE pc = "remove_color" /\ c # cur
    <3>1. PICK d \in Dir : c = tree.child[cur][d]
      BY <2>2, <2>5, <1>d
    <3>2. cur \in linked
      BY <2>2, <2>5, <1>d
    <3>3. cur = n
      BY <3>1, <3>2, <2>1, <1>l DEF LinkFacts
    <3> QED
      BY <3>3, <2>5
  <2> QED
    BY <2>2, <2>3, <2>4, <2>5, <1>o
<1> QED
  BY <1>4, <1>5 DEF RedRule

\* h is the function that Heights defines.
Measures(h) ==
  h = [k \in Nat |->
        [m \in Ptr |->
          IF k = 0 \/ m = NULL THEN {0}
          ELSE UNION {{b + Missing(m, dir) + (IF IsBlack(tree, m) THEN 1 ELSE 0) :
                         b \in h[k - 1][tree.child[m][dir]]} : dir \in Dir}]]

\* There is such a function.
LEMMA MeasureExists == ASSUME tree \in Tree PROVE \E h : Measures(h)
<1> DEFINE S == [Ptr -> SUBSET Nat]
           f0 == [m \in Ptr |-> {0}]
           Ext(g, m) == UNION {{b + Missing(m, dir) + (IF IsBlack(tree, m) THEN 1 ELSE 0) :
                                  b \in g[tree.child[m][dir]]} : dir \in Dir}
           F == [g \in S |-> [m \in Ptr |-> IF m = NULL THEN {0} ELSE Ext(g, m)]]
<1>1. \A m \in Ptr, dir \in Dir : m # NULL => tree.child[m][dir] \in Ptr
  BY TreeFields DEF Ptr
<1>2. f0 \in S
  OBVIOUS
<1>3. F \in [S -> S]
  <2>1. ASSUME NEW g \in S, NEW m \in Ptr, m # NULL PROVE Ext(g, m) \in SUBSET Nat
    <3>1. \A dir \in Dir : g[tree.child[m][dir]] \in SUBSET Nat
      BY <2>1, <1>1
    <3>2. \A dir \in Dir : Missing(m, dir) \in Nat
      BY DEF Missing
    <3>3. (IF IsBlack(tree, m) THEN 1 ELSE 0) \in Nat
      OBVIOUS
    <3> QED
      BY <3>1, <3>2, <3>3
  <2> HIDE DEF Ext
  <2>2. ASSUME NEW g \in S
        PROVE  [m \in Ptr |-> IF m = NULL THEN {0} ELSE Ext(g, m)] \in S
    BY <2>1
  <2> QED
    BY <2>2
<1> HIDE DEF S, f0, F, Ext
<1>4. PICK f : Iterates(f, S, f0, F)
  BY <1>2, <1>3, Iteration
<1>5. f \in [Nat -> S] /\ f[0] = f0 /\ \A n \in Nat : f[n + 1] = F[f[n]]
  BY <1>4 DEF Iterates
<1>6. ASSUME NEW k \in Nat
      PROVE  f[k] = [m \in Ptr |-> IF k = 0 \/ m = NULL THEN {0} ELSE Ext(f[k - 1], m)]
  <2>1. CASE k = 0
    BY <2>1, <1>5 DEF f0
  <2>2. CASE k # 0
    <3>1. k - 1 \in Nat /\ (k - 1) + 1 = k
      BY <2>2
    <3>2. f[k] = F[f[k - 1]] /\ f[k - 1] \in S
      BY <3>1, <1>5
    <3>3. F[f[k - 1]] = [m \in Ptr |-> IF m = NULL THEN {0} ELSE Ext(f[k - 1], m)]
      BY <3>2 DEF F
    <3> QED
      BY <3>2, <3>3, <2>2
  <2> QED
    BY <2>1, <2>2
<1>7. f = [k \in Nat |-> [m \in Ptr |-> IF k = 0 \/ m = NULL THEN {0} ELSE Ext(f[k - 1], m)]]
  BY <1>5, <1>6
<1>8. Measures(f)
  BY <1>7 DEF Measures, Ext
<1> QED
  BY <1>8

\* What a link adds to the blacks below it is what the balance says.
LEMMA BlackStep ==
  ASSUME Inv, NEW D, NEW B, Shape(D, B), NEW x \in linked, NEW d \in Dir
  PROVE  /\ B[tree.child[x][d]] \in Nat /\ B[x] \in Nat
         /\ B[tree.child[x][d]] + Missing(x, d) + (IF IsBlack(tree, x) THEN 1 ELSE 0) = B[x]
<1> DEFINE c == tree.child[x][d]
           i == IF IsBlack(tree, x) THEN 1 ELSE 0
<1>1. linked \in SUBSET Node /\ NULL \notin linked
  BY NullAssumption DEF Inv, Typed
<1>2. IsRb(tree.child, tree.root, tree.color, linked, D, B, OwedAt, OwedDir, Exempt)
  BY DEF Shape
<1>3. /\ B[x] = tree.color[x] + B[c] + Owes(x, d, OwedAt, OwedDir)
      /\ tree.color[x] \in {RB_RED, RB_BLACK}
      /\ B \in [Ptr -> Nat] /\ c \in Ptr /\ x \in Ptr
  BY <1>1, <1>2 DEF IsRb, Balanced, IsTree, Ptr
<1>4. i = tree.color[x]
  BY <1>1, <1>3 DEF IsBlack, IsRed, RB_RED, RB_BLACK
<1>5. Missing(x, d) = Owes(x, d, OwedAt, OwedDir)
  <2>1. CASE pc # "remove_color"
    BY <2>1, <1>1 DEF Missing, Owes, OwedAt
  <2>2. CASE pc = "remove_color"
    <3>1. WayTo(tree.child, tree.root, linked, rp, cur)
      BY <2>2, RemoveColorFacts
    <3>2. WorkLink.parent # NULL => WorkLink = [parent |-> WorkLink.parent, dir |-> WorkLink.dir]
      BY <3>1, <1>1, WayEnd DEF WorkLink
    <3>3. WorkLink = [parent |-> x, dir |-> d] <=> (x = WorkLink.parent /\ d = WorkLink.dir)
      BY <3>2, <1>1
    <3> QED
      BY <3>3, <2>2 DEF Missing, Owes, OwedAt, OwedDir
  <2> QED
    BY <2>1, <2>2
<1>6. Missing(x, d) \in Nat /\ i \in Nat /\ B[c] \in Nat /\ B[x] \in Nat
  BY <1>3 DEF Missing
<1> HIDE DEF i, c
<1>7. B[c] + Missing(x, d) + i = i + B[c] + Missing(x, d)
  BY <1>6
<1>8. B[c] + Missing(x, d) + i = B[x]
  BY <1>3, <1>4, <1>5, <1>7
<1> QED
  BY <1>6, <1>8 DEF i, c

\* All paths down from the root have the height of the invariant.
LEMMA HeightIs ==
  ASSUME Inv, NEW D, NEW B, Shape(D, B)
  PROVE  Heights = {B[tree.root]}
<1> DEFINE h == CHOOSE f : Measures(f)
           Add(m, dir, b) == b + Missing(m, dir) + (IF IsBlack(tree, m) THEN 1 ELSE 0)
<1>0. /\ tree \in Tree /\ linked \in SUBSET Node /\ NULL \notin linked
      /\ IsTree(tree.child, tree.root, linked, D) /\ B[NULL] = 0
  BY NullAssumption DEF Inv, Typed, Shape, IsRb, Balanced
<1>1. Measures(h)
  BY <1>0, MeasureExists
<1>2. Heights = h[Cardinality(Node)][tree.root]
  BY DEF Heights, Measures
<1> HIDE DEF h
<1>b. \A x \in linked, d \in Dir : Add(x, d, B[tree.child[x][d]]) = B[x]
  BY BlackStep
<1>3. /\ \A m \in Ptr : h[0][m] = {0}
      /\ \A k \in Nat : h[k + 1][NULL] = {0}
      /\ \A k \in Nat : \A m \in Node :
           h[k + 1][m] = UNION {{Add(m, dir, b) : b \in h[k][tree.child[m][dir]]} : dir \in Dir}
  <2>1. \A m \in Ptr : h[0][m] = {0}
    BY <1>1 DEF Measures
  <2>2. ASSUME NEW k \in Nat
        PROVE  h[k + 1] = [x \in Ptr |->
                 IF x = NULL THEN {0}
                 ELSE UNION {{Add(x, dir, b) : b \in h[k][tree.child[x][dir]]} : dir \in Dir}]
    <3>1. k + 1 \in Nat /\ k + 1 # 0 /\ (k + 1) - 1 = k
      OBVIOUS
    <3>2. h[k + 1] = [x \in Ptr |-> IF k + 1 = 0 \/ x = NULL THEN {0}
             ELSE UNION {{Add(x, dir, b) : b \in h[(k + 1) - 1][tree.child[x][dir]]} : dir \in Dir}]
      BY <3>1, <1>1 DEF Measures
    <3> HIDE DEF Add
    <3> QED
      BY <3>1, <3>2
  <2>3. NULL \in Ptr /\ \A m \in Node : m \in Ptr /\ m # NULL
    BY NullAssumption DEF Ptr
  <2> HIDE DEF Add
  <2> QED
    BY <2>1, <2>2, <2>3
<1> HIDE DEF Add
<1>4. \A x \in linked \cup {NULL} : x \in Ptr
  BY <1>0 DEF Ptr
<1> DEFINE Good == {k \in Nat : \A x \in linked \cup {NULL} :
                                  Cardinality(D[x]) <= k => h[k][x] = {B[x]}}
<1>5. 0 \in Good
  <2>1. ASSUME NEW x \in linked, Cardinality(D[x]) <= 0 PROVE FALSE
    <3>1. /\ Cardinality(D[x]) \in Nat
          /\ Cardinality(D[tree.child[x][RB_LEFT]]) \in Nat
          /\ Cardinality(D[tree.child[x][RB_LEFT]]) + 1 <= Cardinality(D[x])
      BY <1>0, FewerBelow DEF Dir
    <3> QED
      BY <3>1, <2>1
  <2> QED
    BY <2>1, <1>0, <1>3, <1>4
<1>6. ASSUME NEW k \in Nat, k \in Good PROVE k + 1 \in Good
  <2>1. ASSUME NEW x \in linked \cup {NULL}, Cardinality(D[x]) <= k + 1
        PROVE  h[k + 1][x] = {B[x]}
    <3>1. CASE x = NULL
      BY <3>1, <1>0, <1>3, <1>4
    <3>2. CASE x # NULL
      <4>0. x \in linked /\ x \in Node
        BY <3>2, <1>0
      <4>1. ASSUME NEW d \in Dir PROVE {Add(x, d, b) : b \in h[k][tree.child[x][d]]} = {B[x]}
        <5> DEFINE c == tree.child[x][d]
        <5>1. /\ Cardinality(D[x]) \in Nat /\ Cardinality(D[c]) \in Nat
              /\ Cardinality(D[c]) + 1 <= Cardinality(D[x])
          BY <4>0, <1>0, FewerBelow
        <5>2. Cardinality(D[c]) <= k
          BY <5>1, <2>1
        <5>3. c \in linked \cup {NULL}
          BY <4>0, <1>0 DEF IsTree
        <5>4. h[k][c] = {B[c]}
          BY <5>2, <5>3, <1>6
        <5>5. Add(x, d, B[c]) = B[x]
          BY <4>0, <1>b
        <5> QED
          BY <5>4, <5>5
      <4>2. {{Add(x, dir, b) : b \in h[k][tree.child[x][dir]]} : dir \in Dir} = {{B[x]}}
        <5>1. RB_LEFT \in Dir
          BY DEF Dir
        <5> QED
          BY <4>1, <5>1
      <4>3. h[k + 1][x]
              = UNION {{Add(x, dir, b) : b \in h[k][tree.child[x][dir]]} : dir \in Dir}
        BY <4>0, <1>3
      <4>4. UNION {{B[x]}} = {B[x]}
        OBVIOUS
      <4> QED
        BY <4>2, <4>3, <4>4, Zenon
    <3> QED
      BY <3>1, <3>2
  <2> QED
    BY <2>1
<1>7. Nat \subseteq Good
  <2> HIDE DEF Good
  <2> QED
    BY <1>5, <1>6, SetInduction
<1>8. /\ Cardinality(Node) \in Nat /\ Cardinality(D[tree.root]) <= Cardinality(Node)
      /\ tree.root \in linked \cup {NULL}
  <2>1. D[tree.root] = linked /\ tree.root \in linked \cup {NULL}
    BY <1>0 DEF IsTree
  <2>2. Cardinality(linked) <= Cardinality(Node)
    BY <1>0, NodeAssumption, FS_Subset
  <2> QED
    BY <2>1, <2>2, NodeAssumption, FS_CardinalityType
<1> QED
  BY <1>2, <1>7, <1>8

\* In every turn of rb_insert_color and rb_remove_color, no red node has a red
\* child but where the loop works, and all paths from the root down pass the
\* same number of black nodes, counting the one still owed.
THEOREM ColorsKept == Spec => []ColorRules
<1>1. Inv => BlackRule
  <2> SUFFICES ASSUME Inv PROVE Cardinality(Heights) = 1
    BY DEF BlackRule
  <2>1. PICK D, B : Shape(D, B)
    BY DEF Inv
  <2>2. Heights = {B[tree.root]}
    BY <2>1, HeightIs
  <2> QED
    BY <2>2, FS_Singleton
<1>2. Inv => ColorRules
  BY <1>1, InvReds DEF ColorRules
<1> QED
  BY <1>2, Invariance, PTL

-----------------------------------------------------------------------------
(* The depth of the tree, and the length of the stack.                     *)

\* The recursion of Pow2 defines a function.
LEMMA Pow2Is ==
  /\ Pow2[0] = 1
  /\ \A k \in Nat : Pow2[k] \in Nat /\ Pow2[k] >= 1 /\ Pow2[k + 1] = 2 * Pow2[k]
<1> DEFINE S == Nat
           F == [x \in S |-> 2 * x]
           Is(g) == g = [k \in Nat |-> IF k = 0 THEN 1 ELSE 2 * g[k - 1]]
<1>1. 1 \in S /\ F \in [S -> S]
  OBVIOUS
<1> HIDE DEF S, F
<1>2. PICK f : Iterates(f, S, 1, F)
  BY <1>1, Iteration
<1>3. f \in [Nat -> Nat] /\ f[0] = 1 /\ \A n \in Nat : f[n + 1] = 2 * f[n]
  BY <1>2 DEF Iterates, S, F
<1>4. ASSUME NEW k \in Nat PROVE f[k] = IF k = 0 THEN 1 ELSE 2 * f[k - 1]
  <2>1. CASE k = 0
    BY <2>1, <1>3
  <2>2. CASE k # 0
    <3>1. k - 1 \in Nat /\ (k - 1) + 1 = k
      BY <2>2
    <3> QED
      BY <3>1, <2>2, <1>3
  <2> QED
    BY <2>1, <2>2
<1>5. Is(f)
  BY <1>3, <1>4
<1>6. Pow2 = CHOOSE g : Is(g)
  BY DEF Pow2
<1>7. Is(Pow2)
  <2> HIDE DEF Is
  <2> QED
    BY <1>5, <1>6
<1>8. Pow2[0] = 1
  BY <1>7
<1>9. ASSUME NEW k \in Nat PROVE Pow2[k + 1] = 2 * Pow2[k]
  <2>1. k + 1 \in Nat /\ k + 1 # 0 /\ (k + 1) - 1 = k
    OBVIOUS
  <2>2. Pow2[k + 1] = IF k + 1 = 0 THEN 1 ELSE 2 * Pow2[(k + 1) - 1]
    BY <2>1, <1>7
  <2> QED
    BY <2>1, <2>2
<1> HIDE DEF Is
<1> DEFINE T == {k \in Nat : Pow2[k] \in Nat /\ Pow2[k] >= 1}
<1>10. 0 \in T
  BY <1>8
<1>11. \A k \in Nat : k \in T => k + 1 \in T
  <2>1. ASSUME NEW k \in Nat, k \in T PROVE k + 1 \in T
    <3> DEFINE x == Pow2[k]
    <3>1. x \in Nat /\ x >= 1 /\ Pow2[k + 1] = 2 * x
      BY <2>1, <1>9
    <3> HIDE DEF x
    <3>2. 2 * x \in Nat /\ 2 * x >= 1
      BY <3>1
    <3> QED
      BY <3>1, <3>2
  <2> QED
    BY <2>1
<1>12. Nat \subseteq T
  <2> HIDE DEF T
  <2> QED
    BY <1>10, <1>11, SetInduction
<1> QED
  BY <1>8, <1>9, <1>12

\* A larger exponent gives a larger power.
LEMMA Pow2Grows ==
  ASSUME NEW i \in Nat, NEW j \in Nat, i <= j
  PROVE  Pow2[i] <= Pow2[j]
<1> DEFINE T == {k \in Nat : Pow2[i] <= Pow2[i + k]}
<1>1. 0 \in T
  <2>1. i + 0 = i /\ Pow2[i] \in Nat
    BY Pow2Is
  <2> QED
    BY <2>1
<1>2. ASSUME NEW k \in Nat, k \in T PROVE k + 1 \in T
  <2> DEFINE x == Pow2[i]
             y == Pow2[i + k]
  <2>1. i + k \in Nat /\ i + (k + 1) = (i + k) + 1
    OBVIOUS
  <2>2. x \in Nat /\ y \in Nat /\ y >= 1 /\ Pow2[(i + k) + 1] = 2 * y
    BY <2>1, Pow2Is
  <2>3. x <= y
    BY <1>2
  <2> HIDE DEF x, y
  <2>4. x <= 2 * y
    BY <2>2, <2>3
  <2> QED
    BY <2>1, <2>2, <2>4 DEF x
<1>3. Nat \subseteq T
  <2> HIDE DEF T
  <2> QED
    BY <1>1, <1>2, SetInduction
<1>4. j - i \in Nat /\ i + (j - i) = j
  OBVIOUS
<1>5. j - i \in T
  BY <1>3, <1>4
<1> QED
  BY <1>4, <1>5

\* Twice the exponent gives the square.
LEMMA Pow2Square ==
  ASSUME NEW b \in Nat
  PROVE  Pow2[2 * b] = Pow2[b] * Pow2[b]
<1> DEFINE T == {k \in Nat : Pow2[2 * k] = Pow2[k] * Pow2[k]}
<1>1. 0 \in T
  <2>1. 2 * 0 = 0 /\ Pow2[0] = 1 /\ 1 * 1 = 1
    BY Pow2Is
  <2> QED
    BY <2>1
<1>2. ASSUME NEW k \in Nat, k \in T PROVE k + 1 \in T
  <2> DEFINE x == Pow2[k]
             y == Pow2[2 * k]
             z == Pow2[2 * k + 1]
  <2>1. 2 * k \in Nat /\ 2 * k + 1 \in Nat /\ 2 * (k + 1) = (2 * k + 1) + 1
    OBVIOUS
  <2>2. x \in Nat /\ y \in Nat /\ z \in Nat /\ Pow2[k + 1] = 2 * x /\ z = 2 * y
        /\ Pow2[(2 * k + 1) + 1] = 2 * z
    BY <2>1, Pow2Is
  <2>3. y = x * x
    BY <1>2
  <2> HIDE DEF x, y, z
  <2>4. 2 * z = (2 * x) * (2 * x)
    BY <2>2, <2>3
  <2> QED
    BY <2>1, <2>2, <2>4
<1>3. Nat \subseteq T
  <2> HIDE DEF T
  <2> QED
    BY <1>1, <1>2, SetInduction
<1> QED
  BY <1>3

\* A larger number has a larger square.
LEMMA Squares ==
  ASSUME NEW a \in Nat, NEW b \in Nat, a <= b
  PROVE  a * a <= b * b
<1> DEFINE c == b - a
<1>1. c \in Nat /\ b = a + c
  OBVIOUS
<1> HIDE DEF c
<1>2. (a + c) * (a + c) = a * a + (2 * (a * c) + c * c)
  BY <1>1
<1>3. a * a \in Nat /\ a * c \in Nat /\ c * c \in Nat
  BY <1>1
<1>4. a * a <= a * a + (2 * (a * c) + c * c)
  BY <1>3
<1> QED
  BY <1>1, <1>2, <1>4

\* No node is below both children.
LEMMA BelowSum ==
  ASSUME NEW L \in SUBSET Node, NEW ch, NEW r, NEW D, IsTree(ch, r, L, D), NEW x \in L
  PROVE  Cardinality(D[x])
           = Cardinality(D[ch[x][RB_LEFT]]) + Cardinality(D[ch[x][RB_RIGHT]]) + 1
<1> DEFINE S == D[ch[x][RB_LEFT]]
           T == D[ch[x][RB_RIGHT]]
           U == D[x]
<1>1. /\ U = {x} \cup S \cup T /\ D \in [Ptr -> SUBSET L]
      /\ ch[x][RB_LEFT] \in Ptr /\ ch[x][RB_RIGHT] \in Ptr
  BY DEF IsTree, Ptr, Dir
<1>2. x \notin S /\ x \notin T /\ S \cap T = {}
  <2>1. RB_LEFT \in Dir /\ RB_RIGHT \in Dir /\ Opp(RB_LEFT) = RB_RIGHT
    BY DEF Dir, Opp, RB_LEFT, RB_RIGHT
  <2>2. \A d \in Dir : x \notin D[ch[x][d]] /\ D[ch[x][d]] \cap D[ch[x][Opp(d)]] = {}
    BY BelowNode, ZenonT(40)
  <2> QED
    BY <2>1, <2>2
<1>3. S \subseteq Node /\ T \subseteq Node
  BY <1>1
<1> HIDE DEF S, T, U
<1>4. IsFiniteSet(S) /\ IsFiniteSet(T) /\ Cardinality(S) \in Nat /\ Cardinality(T) \in Nat
  BY <1>3, NodeAssumption, FS_Subset, FS_CardinalityType
<1>5. /\ IsFiniteSet(S \cup T)
      /\ Cardinality(S \cup T) = Cardinality(S) + Cardinality(T) - Cardinality(S \cap T)
  BY <1>4, FS_Union
<1>6. Cardinality(S \cup T) = Cardinality(S) + Cardinality(T)
  <2>1. Cardinality(S \cap T) = 0
    BY <1>2, FS_EmptySet
  <2> QED
    BY <2>1, <1>4, <1>5
<1>7. Cardinality((S \cup T) \cup {x}) = Cardinality(S \cup T) + 1
  BY <1>2, <1>5, FS_AddElement
<1>8. U = (S \cup T) \cup {x}
  BY <1>1
<1>9. Cardinality(U) = Cardinality(S) + Cardinality(T) + 1
  BY <1>6, <1>7, <1>8
<1> QED
  BY <1>9 DEF S, T, U

\* A subtree of black height b has at least 2^b - 1 nodes.
LEMMA HeightSize ==
  ASSUME NEW L \in SUBSET Node, NEW ch, NEW r, NEW col, NEW D, NEW B, NEW e, NEW X,
         IsRb(ch, r, col, L, D, B, NULL, e, X), NEW n \in L \cup {NULL}
  PROVE  Pow2[B[n]] <= Cardinality(D[n]) + 1
<1>0. /\ IsTree(ch, r, L, D) /\ NULL \notin L /\ D[NULL] = {} /\ B[NULL] = 0
      /\ \A x \in L : col[x] \in {RB_RED, RB_BLACK}
      /\ \A x \in L \cup {NULL} : x \in Ptr
      /\ D \in [Ptr -> SUBSET L] /\ B \in [Ptr -> Nat]
  BY NullAssumption DEF IsRb, IsTree, Balanced, Ptr
<1>f. \A x \in L \cup {NULL} : Cardinality(D[x]) \in Nat /\ D[x] \subseteq L
  <2>1. ASSUME NEW x \in L \cup {NULL} PROVE Cardinality(D[x]) \in Nat /\ D[x] \subseteq L
    <3> DEFINE S == D[x]
    <3>1. S \subseteq L /\ S \subseteq Node
      BY <1>0
    <3> HIDE DEF S
    <3>2. Cardinality(S) \in Nat
      BY <3>1, NodeAssumption, FS_Subset, FS_CardinalityType
    <3> QED
      BY <3>1, <3>2 DEF S
  <2> QED
    BY <2>1
<1> DEFINE Good == {k \in Nat : \A x \in L \cup {NULL} :
                      Cardinality(D[x]) <= k => Pow2[B[x]] <= Cardinality(D[x]) + 1}
<1>n. Pow2[B[NULL]] <= Cardinality(D[NULL]) + 1
  BY <1>0, Pow2Is, FS_EmptySet
<1>1. 0 \in Good
  <2>1. ASSUME NEW x \in L, Cardinality(D[x]) <= 0 PROVE FALSE
    <3>1. /\ Cardinality(D[x]) \in Nat
          /\ Cardinality(D[ch[x][RB_LEFT]]) \in Nat
          /\ Cardinality(D[ch[x][RB_LEFT]]) + 1 <= Cardinality(D[x])
      BY <1>0, FewerBelow DEF Dir
    <3> QED
      BY <3>1, <2>1
  <2> QED
    BY <2>1, <1>n
<1>2. ASSUME NEW k \in Nat, k \in Good PROVE k + 1 \in Good
  <2>1. ASSUME NEW x \in L, Cardinality(D[x]) <= k + 1
        PROVE  Pow2[B[x]] <= Cardinality(D[x]) + 1
    <3> DEFINE l == ch[x][RB_LEFT]
               m == ch[x][RB_RIGHT]
               cl == Cardinality(D[l])
               cm == Cardinality(D[m])
               cx == Cardinality(D[x])
               b == B[l]
               p == Pow2[b]
    <3>1. l \in L \cup {NULL} /\ m \in L \cup {NULL}
      BY <1>0 DEF IsTree, Dir
    <3>2. cx = cl + cm + 1 /\ cl \in Nat /\ cm \in Nat /\ cx <= k + 1
      BY <2>1, <3>1, <1>0, <1>f, BelowSum
    <3>3. B[x] = col[x] + b /\ B[x] = col[x] + B[m] /\ b \in Nat /\ B[m] \in Nat
      <4>1. /\ B[x] = col[x] + b + Owes(x, RB_LEFT, NULL, e)
            /\ B[x] = col[x] + B[m] + Owes(x, RB_RIGHT, NULL, e)
        BY DEF IsRb, Balanced, Dir
      <4>2. Owes(x, RB_LEFT, NULL, e) = 0 /\ Owes(x, RB_RIGHT, NULL, e) = 0
        BY <1>0 DEF Owes
      <4>3. b \in Nat /\ B[m] \in Nat /\ col[x] \in Nat
        BY <3>1, <1>0 DEF RB_RED, RB_BLACK
      <4> HIDE DEF b, m, l
      <4> QED
        BY <4>1, <4>2, <4>3
    <3>4. cl <= k => Pow2[b] <= cl + 1
      BY <3>1, <1>2
    <3>5. cm <= k => Pow2[B[m]] <= cm + 1
      BY <3>1, <1>2
    <3>6. col[x] = 0 \/ col[x] = 1
      BY <1>0 DEF RB_RED, RB_BLACK
    <3>7. p \in Nat /\ p >= 1 /\ Pow2[b + 1] = 2 * p
      BY <3>3, Pow2Is
    <3> HIDE DEF l, m, cl, cm, cx, b
    <3>8. B[m] = b
      BY <3>3, <3>6
    <3>9. cl <= k /\ cm <= k
      BY <3>2
    <3>10. p <= cl + 1 /\ p <= cm + 1
      BY <3>4, <3>5, <3>8, <3>9
    <3> HIDE DEF p
    <3>11. Pow2[B[x]] = p \/ Pow2[B[x]] = 2 * p
      <4>1. CASE col[x] = 0
        BY <4>1, <3>3 DEF p
      <4>2. CASE col[x] = 1
        <5>1. B[x] = b + 1
          BY <4>2, <3>3
        <5> QED
          BY <5>1, <3>7
      <4> QED
        BY <4>1, <4>2, <3>6
    <3>12. Pow2[B[x]] <= cx + 1
      BY <3>2, <3>7, <3>10, <3>11
    <3> QED
      BY <3>12 DEF cx
  <2> QED
    BY <2>1, <1>n
<1>3. Nat \subseteq Good
  <2> HIDE DEF Good
  <2> QED
    BY <1>1, <1>2, SetInduction
<1>4. Cardinality(D[n]) \in Good
  BY <1>3, <1>f
<1> QED
  BY <1>4, <1>f

\* Before its turns start, the tree has no red node below a red one, so at
\* least every other node of a stack is black.
ShortTo(ch, r, col, B, w, k) ==
  LET y == LinkAt(ch, r, w[k])
  IN  (k - 1) + (IF y = NULL THEN 0 ELSE 1 - col[y]) + 2 * B[y] <= 2 * B[r]

\* They are, at every entry.
LEMMA ShortPath ==
  ASSUME NEW L \in SUBSET Node, NEW ch, NEW r, NEW col, NEW D, NEW B, NEW e,
         IsRb(ch, r, col, L, D, B, NULL, e, {}),
         NEW w, Way(ch, r, L, w), NEW i \in 1..Len(w)
  PROVE  ShortTo(ch, r, col, B, w, i)
<1>0. /\ IsTree(ch, r, L, D) /\ NULL \notin L /\ B[NULL] = 0
      /\ \A x \in L : col[x] \in {RB_RED, RB_BLACK}
      /\ \A x \in L \cup {NULL} : x \in Ptr
      /\ B \in [Ptr -> Nat] /\ RedsApart(ch, r, col, L, {}) /\ r \in L \cup {NULL}
      /\ \A x \in L, d \in Dir : ch[x][d] \in L \cup {NULL}
  BY NullAssumption DEF IsRb, IsTree, Balanced, Ptr
<1>l. Len(w) \in Nat /\ Len(w) >= 1
  BY WayLen
<1>s. Steps(ch, L, w)
  BY WaySteps
<1>b. \A x \in L : col[x] = 0 \/ col[x] = 1
  BY <1>0 DEF RB_RED, RB_BLACK
<1> DEFINE Good == {k \in Nat : k + 1 <= Len(w) => ShortTo(ch, r, col, B, w, k + 1)}
<1>1. 0 \in Good
  <2>1. LinkAt(ch, r, w[1]) = r
    BY DEF LinkAt, Way
  <2>2. r # NULL => col[r] = 1
    BY <1>0 DEF RedsApart, RB_BLACK
  <2>3. B[r] \in Nat
    BY <1>0
  <2>4. ShortTo(ch, r, col, B, w, 1)
    BY <2>1, <2>2, <2>3 DEF ShortTo
  <2> QED
    BY <2>4
<1>2. ASSUME NEW k \in Nat, k \in Good PROVE k + 1 \in Good
  <2> SUFFICES ASSUME (k + 1) + 1 <= Len(w) PROVE ShortTo(ch, r, col, B, w, (k + 1) + 1)
    OBVIOUS
  <2> DEFINE j == k + 1
             y == LinkAt(ch, r, w[j])
             f == w[j + 1].dir
             z == LinkAt(ch, r, w[j + 1])
  <2>0. j \in Nat /\ j >= 1 /\ j + 1 <= Len(w) /\ (j + 1) - 1 = j /\ j - 1 = k
        /\ j \in 1..(Len(w) - 1) /\ j + 1 \in 2..Len(w)
    BY <1>l
  <2>1. ShortTo(ch, r, col, B, w, j)
    BY <2>0, <1>2, <1>l
  <2> HIDE DEF j
  <2>2. y = w[j + 1].parent /\ y \in L /\ f \in Dir /\ y # NULL
    <3>1. y = w[j + 1].parent
      BY <2>0 DEF Way
    <3>2. w[j + 1].parent \in L /\ f \in Dir /\ w[j + 1].parent # NULL
      BY <2>0, <1>s DEF Steps
    <3> QED
      BY <3>1, <3>2
  <2>3. z = ch[y][f]
    BY <2>2 DEF LinkAt
  <2>4. (j - 1) + (1 - col[y]) + 2 * B[y] <= 2 * B[r]
    BY <2>1, <2>2 DEF ShortTo
  <2>5. B[y] = col[y] + B[z]
    <3>1. B[y] = col[y] + B[z] + Owes(y, f, NULL, e)
      BY <2>2, <2>3 DEF IsRb, Balanced
    <3>2. Owes(y, f, NULL, e) = 0
      BY <2>2 DEF Owes
    <3>3. col[y] \in Nat /\ B[z] \in Nat
      BY <2>2, <2>3, <1>0, <1>b
    <3> HIDE DEF y, z, f
    <3> QED
      BY <3>1, <3>2, <3>3
  <2>6. B[y] \in Nat /\ B[z] \in Nat /\ B[r] \in Nat /\ (col[y] = 0 \/ col[y] = 1)
    BY <2>2, <2>3, <1>0, <1>b
  <2>7. z # NULL => (col[z] = 0 \/ col[z] = 1) /\ (col[y] = 0 => col[z] = 1)
    BY <2>2, <2>3, <1>0, <1>b DEF RedsApart, RB_RED, RB_BLACK
  <2> HIDE DEF y, z, f
  <2> DEFINE c == IF z = NULL THEN 0 ELSE 1 - col[z]
  <2>8. c \in {0, 1} /\ (col[y] = 0 => c = 0)
    BY <2>7
  <2> HIDE DEF c
  <2>9. j + c + 2 * B[z] <= 2 * B[r]
    <3> DEFINE g == B[y]
               h == B[z]
               t == B[r]
               v == col[y]
    <3>1. /\ g \in Nat /\ h \in Nat /\ t \in Nat /\ c \in Nat /\ c <= 1
          /\ g = v + h /\ (j - 1) + (1 - v) + 2 * g <= 2 * t
          /\ (v = 0 /\ c = 0) \/ v = 1
      BY <2>4, <2>5, <2>6, <2>8
    <3> HIDE DEF g, h, t, v
    <3>2. j + c + 2 * h <= 2 * t
      <4>1. CASE v = 0 /\ c = 0
        BY <4>1, <3>1, <2>0
      <4>2. CASE v = 1
        BY <4>2, <3>1, <2>0
      <4> QED
        BY <4>1, <4>2, <3>1
    <3> QED
      BY <3>2 DEF h, t
  <2>10. ShortTo(ch, r, col, B, w, j + 1)
    BY <2>0, <2>9 DEF ShortTo, c, z
  <2> QED
    BY <2>10 DEF j
<1>3. Nat \subseteq Good
  <2> HIDE DEF Good
  <2> QED
    BY <1>1, <1>2, SetInduction
<1>4. i - 1 \in Nat /\ (i - 1) + 1 = i /\ i <= Len(w)
  BY <1>l
<1>5. i - 1 \in Good
  BY <1>3, <1>4
<1> QED
  BY <1>4, <1>5

\* A stack is at most twice as long as the logarithm of the number of nodes,
\* and shorter by one if it leads to a black node.
LEMMA ShortStack ==
  ASSUME NEW L \in SUBSET Node, NEW ch, NEW r, NEW col, NEW D, NEW B, NEW e,
         IsRb(ch, r, col, L, D, B, NULL, e, {}),
         NEW w, NEW n, WayTo(ch, r, L, w, n)
  PROVE  /\ Len(w) \in Nat /\ Len(w) >= 1 /\ Cardinality(L) \in Nat
         /\ Pow2[Len(w) - 1] <= (Cardinality(L) + 1) * (Cardinality(L) + 1)
         /\ n \in L /\ col[n] = RB_BLACK =>
              Pow2[Len(w)] <= (Cardinality(L) + 1) * (Cardinality(L) + 1)
<1> DEFINE N == Len(w)
           b == B[r]
           C == Cardinality(L) + 1
<1>0. /\ IsTree(ch, r, L, D) /\ NULL \notin L /\ D[r] = L /\ r \in L \cup {NULL}
      /\ \A x \in L \cup {NULL} : x \in Ptr
      /\ B \in [Ptr -> Nat]
  BY NullAssumption DEF IsRb, IsTree, Balanced, Ptr
<1>1. Way(ch, r, L, w) /\ LinkAt(ch, r, w[N]) = n /\ n \in L \cup {NULL}
  <2>1. /\ Entry(w, 0) = w[Len(w)]
        /\ Entry(w, 0).parent = NULL => n = r
        /\ Entry(w, 0).parent # NULL =>
             /\ Entry(w, 0).parent \in L /\ Entry(w, 0).dir \in Dir
             /\ ch[Entry(w, 0).parent][Entry(w, 0).dir] = n
    BY WayEnd
  <2>2. n \in L \cup {NULL}
    BY <2>1, <1>0 DEF IsTree
  <2> QED
    BY <2>1, <2>2 DEF WayTo
<1>2. N \in Nat /\ N >= 1
  BY <1>1, WayLen
<1>3. Cardinality(L) \in Nat
  BY NodeAssumption, FS_Subset, FS_CardinalityType
<1>4. C \in Nat /\ Pow2[b] <= C /\ b \in Nat
  <2>1. Pow2[b] <= Cardinality(D[r]) + 1
    BY <1>0, HeightSize
  <2> QED
    BY <2>1, <1>0, <1>3
<1>5. Pow2[2 * b] <= C * C
  <2> DEFINE p == Pow2[b]
  <2>1. p \in Nat /\ p <= C /\ Pow2[2 * b] = p * p
    BY <1>4, Pow2Is, Pow2Square
  <2> HIDE DEF p, C
  <2>2. p * p <= C * C
    BY <2>1, <1>4, Squares
  <2> QED
    BY <2>1, <2>2
<1>6. ASSUME NEW k \in Nat, k <= 2 * b PROVE Pow2[k] <= C * C
  <2> DEFINE m == 2 * b
  <2>1. m \in Nat /\ k <= m
    BY <1>4, <1>6
  <2> HIDE DEF m
  <2>2. Pow2[k] <= Pow2[m] /\ Pow2[k] \in Nat /\ Pow2[m] \in Nat
    BY <2>1, Pow2Grows, Pow2Is
  <2>3. Pow2[m] <= C * C
    BY <1>5 DEF m
  <2>4. C * C \in Nat
    <3> HIDE DEF C
    <3> QED
      BY <1>4
  <2> DEFINE s == C * C
  <2> HIDE DEF s
  <2>5. Pow2[m] <= s /\ s \in Nat
    BY <2>3, <2>4 DEF s
  <2>6. Pow2[k] <= s
    BY <2>2, <2>5
  <2> QED
    BY <2>6 DEF s
<1>7. N \in 1..N
  <2> HIDE DEF N
  <2> QED
    BY <1>2
<1>8. (N - 1) + (IF n = NULL THEN 0 ELSE 1 - col[n]) + 2 * B[n] <= 2 * b
  <2>1. ShortTo(ch, r, col, B, w, N)
    BY <1>1, <1>7, ShortPath
  <2> QED
    BY <2>1, <1>1 DEF ShortTo
<1>9. B[n] \in Nat /\ (n \in L => col[n] = 0 \/ col[n] = 1)
  BY <1>0, <1>1 DEF IsRb, RB_RED, RB_BLACK
<1>10. n \in L /\ col[n] = RB_BLACK => B[n] >= 1
  <2> SUFFICES ASSUME n \in L, col[n] = RB_BLACK PROVE B[n] >= 1
    OBVIOUS
  <2> DEFINE c == ch[n][RB_LEFT]
             o == Owes(n, RB_LEFT, NULL, e)
  <2>1. B[n] = col[n] + B[c] + o
    BY DEF IsRb, Balanced, Dir
  <2>2. B[c] \in Nat /\ o \in Nat
    BY <1>0 DEF IsTree, Dir, Owes
  <2> HIDE DEF c, o
  <2> QED
    BY <2>1, <2>2 DEF RB_BLACK
<1> HIDE DEF N, b
<1>11. N - 1 \in Nat /\ N - 1 <= 2 * b
  BY <1>1, <1>2, <1>4, <1>8, <1>9
<1>12. n \in L /\ col[n] = RB_BLACK => N <= 2 * b
  BY <1>0, <1>2, <1>4, <1>8, <1>9, <1>10
<1>13. Pow2[N - 1] <= C * C
  BY <1>6, <1>11
<1>14. n \in L /\ col[n] = RB_BLACK => Pow2[N] <= C * C
  BY <1>2, <1>6, <1>12
<1> QED
  BY <1>2, <1>3, <1>13, <1>14 DEF N

\* No fix-up loop is running.
Quiet == pc \notin {"insert_color", "remove_color"}

\* Then the tree is a red-black tree, and the bound follows from its height.
LEMMA QuietBound == Inv /\ Quiet => PathBound
<1> SUFFICES ASSUME Inv, Quiet, rp # <<>> PROVE Pow2[Depth] <= (Size + 1) * (Size + 1)
  BY DEF PathBound
<1>1. WayTo(tree.child, tree.root, linked, rp, EndOfStack) /\ linked \in SUBSET Node
  BY StackLeads DEF Leads, Inv, Typed
<1>2. PICK D, B : IsRb(tree.child, tree.root, tree.color, linked, D, B, NULL, NULL, {})
  BY DEF Inv, Shape, Quiet, OwedAt, OwedDir, Exempt
<1> DEFINE X == {}
<1>3. IsRb(tree.child, tree.root, tree.color, linked, D, B, NULL, NULL, X)
  BY <1>2
<1>4. /\ Pow2[Len(rp) - 1] <= (Cardinality(linked) + 1) * (Cardinality(linked) + 1)
      /\ Cardinality(linked) \in Nat
  BY <1>1, <1>2, ShortStack
<1>5. Depth = Len(rp) - 1 /\ Size = Cardinality(linked)
  BY <1>4 DEF Depth, Size, Quiet
<1> QED
  BY <1>4, <1>5

\* Only these steps go on in a fix-up loop.
LEMMA LoopSteps ==
  ASSUME Next, ~(Quiet')
  PROVE  InsertDescend \/ InsertColor \/ RbRemove \/ Successor \/ RemoveColor
<1>1. ASSUME RB_ROOT_INIT PROVE FALSE
  BY <1>1 DEF RB_ROOT_INIT, Quiet
<1>2. ASSUME NEW n \in Node, Insert(n) PROVE FALSE
  BY <1>2 DEF Insert, Quiet
<1>3. ASSUME RemoveNode PROVE FALSE
  BY <1>3 DEF RemoveNode, Quiet
<1>4. ASSUME NEW k, NEW op, Find(op, k) PROVE FALSE
  BY <1>4 DEF Find, Quiet
<1>5. ASSUME NEW op, Iter(op) PROVE FALSE
  BY <1>5 DEF Iter, Quiet
<1>6. ASSUME NEW op, IterNext(op) PROVE FALSE
  BY <1>6 DEF IterNext, Quiet
<1>7. ASSUME FindStep PROVE FALSE
  BY <1>7 DEF FindStep, Quiet, Return, Continue
<1>8. ASSUME IterDown PROVE FALSE
  BY <1>8 DEF IterDown, Quiet, Return, Continue
<1>9. ASSUME IterUp PROVE FALSE
  BY <1>9 DEF IterUp, Quiet, Return, Continue
<1> QED
  BY <1>1, <1>2, <1>3, <1>4, <1>5, <1>6, <1>7, <1>8, <1>9 DEF Next, Client, Library

\* A stack no longer than one within the bound is within it.
LEMMA BoundKept ==
  ASSUME NEW i \in Nat, NEW j \in Nat, i <= j, NEW s \in Nat, NEW z \in Nat, s <= z,
         Pow2[j] <= (s + 1) * (s + 1)
  PROVE  Pow2[i] <= (z + 1) * (z + 1)
<1> DEFINE a == s + 1
           b == z + 1
           p == a * a
           q == b * b
<1>1. a \in Nat /\ b \in Nat /\ a <= b
  OBVIOUS
<1> HIDE DEF a, b
<1>2. p <= q /\ p \in Nat /\ q \in Nat
  BY <1>1, Squares
<1>3. Pow2[i] <= Pow2[j] /\ Pow2[i] \in Nat /\ Pow2[j] \in Nat
  BY Pow2Grows, Pow2Is
<1>4. Pow2[j] <= p
  BY DEF a
<1> HIDE DEF p, q
<1>5. Pow2[i] <= q
  BY <1>2, <1>3, <1>4
<1> QED
  BY <1>5 DEF q, b

\* The node on top has gone and the stack is as long as before.
LEMMA UnlinkBound ==
  ASSUME Inv, pc \in {"rb_remove", "successor"}, NEW t, NEW w, NEW n, NEW c,
         target \in linked, Len(w) = Len(rp),
         n \in linked, Leads(n), Unlink(t, w, tree.color[n], c), ~(Quiet')
  PROVE  PathBound'
<1>1. tree.color[n] = RB_BLACK /\ pc' = "remove_color" /\ rp' = w /\ linked' = linked \ {target}
  BY DEF Unlink, Quiet, Return
<1>2. linked \in SUBSET Node /\ WayTo(tree.child, tree.root, linked, rp, n)
  BY DEF Leads, Inv, Typed
<1>3. PICK D, B : IsRb(tree.child, tree.root, tree.color, linked, D, B, NULL, NULL, {})
  BY DEF Inv, Shape, OwedAt, OwedDir, Exempt
<1>4. /\ Pow2[Len(rp)] <= (Cardinality(linked) + 1) * (Cardinality(linked) + 1)
      /\ Cardinality(linked) \in Nat /\ Len(rp) \in Nat
  BY <1>1, <1>2, <1>3, ShortStack
<1>5. IsFiniteSet(linked)
  BY <1>2, NodeAssumption, FS_Subset
<1>6. Cardinality(linked \ {target}) = Cardinality(linked) - 1
  BY <1>5, FS_RemoveElement
<1>7. Size' = Cardinality(linked)
  BY <1>1, <1>4, <1>6 DEF Size
<1>8. Depth' = Len(rp)
  BY <1>1, <1>4 DEF Depth
<1> QED
  BY <1>4, <1>7, <1>8 DEF PathBound

\* A step that goes on in a fix-up loop keeps the bound: the stack gets no
\* longer, and the loop starts with a stack short enough.
LEMMA BoundStep == Inv /\ PathBound /\ [Next]_vars => PathBound' \/ Quiet'
<1> SUFFICES ASSUME Inv, PathBound, [Next]_vars, ~(Quiet') PROVE PathBound'
  OBVIOUS
<1>0. linked \in SUBSET Node /\ IsFiniteSet(linked) /\ Cardinality(linked) \in Nat
  BY NodeAssumption, FS_Subset, FS_CardinalityType DEF Inv, Typed
<1>p. PICK D, B : Shape(D, B) /\ CallInv(D)
  BY DEF Inv
<1>1. CASE UNCHANGED vars
  <2>1. rp' = rp /\ pc' = pc /\ linked' = linked
    BY <1>1 DEF vars
  <2> QED
    BY <2>1 DEF PathBound, Depth, Size
<1>2. CASE InsertDescend
  <2>1. /\ pc = "insert_descend" /\ pc' = "insert_color" /\ rp' = rp
        /\ linked' = linked \cup {target}
    BY <1>2 DEF InsertDescend, Quiet, Return, Continue
  <2>2. Leads(cur) /\ rp # <<>>
    BY <2>1, <1>p DEF CallInv, InsertDescendInv, Leads, WayTo, Way
  <2>3. Len(rp) \in Nat /\ Len(rp) >= 1
    BY <2>2, WayLen DEF Leads, WayTo
  <2>4. IsFiniteSet(linked \cup {target}) /\ linked \subseteq linked \cup {target}
    BY <1>0, FS_AddElement
  <2>5. /\ Cardinality(linked) <= Cardinality(linked \cup {target})
        /\ Cardinality(linked \cup {target}) \in Nat
    BY <2>4, FS_Subset, FS_CardinalityType
  <2> DEFINE i == Len(rp) - 1
             z == Cardinality(linked \cup {target})
  <2>6. Depth = i /\ Size = Cardinality(linked) /\ Depth' = i /\ Size' = z /\ i \in Nat
    BY <2>1, <2>3, <2>5, <1>0 DEF Depth, Size
  <2>7. Pow2[i] <= (Cardinality(linked) + 1) * (Cardinality(linked) + 1)
    BY <2>2, <2>6 DEF PathBound
  <2> HIDE DEF i, z
  <2>8. i <= i /\ z \in Nat /\ Cardinality(linked) <= z
    BY <2>5, <2>6 DEF z
  <2>9. Pow2[i] <= (z + 1) * (z + 1)
    BY <2>6, <2>7, <2>8, <1>0, BoundKept
  <2> QED
    BY <2>6, <2>9 DEF PathBound
<1>3. CASE InsertColor
  <2>1. /\ pc = "insert_color" /\ pc' = pc /\ rp' = Pop(rp, 2) /\ linked' = linked
        /\ IsRed(tree, Entry(rp, 0).parent)
    BY <1>3 DEF InsertColor, Quiet, InsertDone, Return, Continue
  <2> DEFINE n == AtEnd
             v == Pop(rp, 1)
             q == Entry(rp, 0).parent
             i == Len(rp) - 1
             j == Len(rp) - 3
  <2>2. n \in linked /\ WayTo(tree.child, tree.root, linked, rp, n) /\ tree.color[n] = RB_RED
    BY <2>1, <1>p DEF CallInv, InsertColorInv, Leads
  <2>3. IsRb(tree.child, tree.root, tree.color, linked, D, B, NULL, NULL, {n})
    BY <2>1, <1>p DEF Shape, OwedAt, OwedDir, Exempt
  <2> HIDE DEF n
  <2>4. RedWay(tree, linked, rp, n)
    BY <2>1, <2>2, <2>3, <1>0, RedParent DEF Inv, Typed
  <2>5. Entry(rp, 0).parent # NULL /\ Entry(rp, -1).parent # NULL
    BY <2>4, <1>0, NullAssumption DEF RedWay, RedUp
  <2>6. /\ WayTo(tree.child, tree.root, linked, v, q)
        /\ Len(v) = Len(rp) - 1 /\ Entry(v, 0) = Entry(rp, -1)
    BY <2>2, <2>5, <1>0, PopWay DEF Pops
  <2>7. rp' = Pop(v, 1)
    BY <2>1, <2>2, <2>5, <1>0, PopTwo
  <2> HIDE DEF v, q
  <2>8. Len(Pop(v, 1)) = Len(v) - 1 /\ WayTo(tree.child, tree.root, linked, Pop(v, 1), Entry(v, 0).parent)
    BY <2>5, <2>6, <1>0, PopWay DEF Pops
  <2>9. Len(Pop(v, 1)) \in Nat /\ Len(Pop(v, 1)) >= 1 /\ Len(rp) \in Nat /\ rp # <<>>
    BY <2>2, <2>8, WayLen DEF WayTo, Way
  <2>10. i \in Nat /\ j \in Nat /\ j <= i /\ Depth = i /\ Depth' = j
         /\ Size = Cardinality(linked) /\ Size' = Cardinality(linked)
    BY <2>1, <2>6, <2>7, <2>8, <2>9, <1>0 DEF Depth, Size
  <2>11. Pow2[i] <= (Cardinality(linked) + 1) * (Cardinality(linked) + 1)
    BY <2>9, <2>10 DEF PathBound
  <2> HIDE DEF i, j
  <2>12. Pow2[j] <= (Cardinality(linked) + 1) * (Cardinality(linked) + 1)
    BY <2>10, <2>11, <1>0, BoundKept
  <2> QED
    BY <2>10, <2>12 DEF PathBound
<1>4. CASE RbRemove
  <2> DEFINE left == tree.child[target][RB_LEFT]
             c == IF left = NULL THEN tree.child[target][RB_RIGHT] ELSE left
             t == Hang(tree, Entry(rp, 0), c)
  <2>1. pc = "rb_remove" /\ Unlink(t, rp, tree.color[target], c)
    BY <1>4 DEF RbRemove, Quiet
  <2>2. target \in linked /\ Leads(target)
    BY <2>1, <1>p DEF CallInv, RemoveInv
  <2> HIDE DEF t, c
  <2> QED
    BY <2>1, <2>2, UnlinkBound
<1>5. CASE Successor
  <2> DEFINE t == Transplant(tree, target, cur)
             w == [rp EXCEPT ![NodeEntry].parent = cur]
             c == tree.child[cur][RB_RIGHT]
  <2>1. pc = "successor" /\ Unlink(t, w, tree.color[cur], c)
    BY <1>5 DEF Successor, Quiet, Continue
  <2>2. target \in linked /\ Leads(cur) /\ cur \in linked
    <3>1. target \in linked /\ Leads(cur) /\ cur \in D[tree.child[target][RB_RIGHT]]
      BY <2>1, <1>p DEF CallInv, SuccessorInv, RemoveInv
    <3>2. IsTree(tree.child, tree.root, linked, D)
      BY <1>p DEF Shape, IsRb
    <3> QED
      BY <3>1, <3>2, <1>0, LinkNested DEF Dir
  <2>3. Len(w) = Len(rp)
    <3>1. rp \in Seq(StackEntry)
      BY <2>2 DEF Leads, WayTo, Way
    <3> QED
      BY <3>1
  <2> HIDE DEF t, w, c
  <2> QED
    BY <2>1, <2>2, <2>3, UnlinkBound
<1>6. CASE RemoveColor
  <2> DEFINE u == AfterCase1(tree, rp)
             w == PathAfterCase1(tree, rp)
             i == Len(rp)
             j == Len(Pop(w, 1))
             z == Cardinality(linked) + 1
  <2>1. pc = "remove_color" /\ linked' = linked /\ RemoveLoops /\ RemoveTurn(u, w)
    BY <1>6, RemoveColorTurn DEF Quiet, RemoveDone, Return
  <2>2. rp' = Pop(w, 1) /\ pc' = pc
    BY <2>1 DEF RemoveTurn, Quiet, RemoveDone, Return, Continue
  <2>3. /\ WorkingAt(u, linked, w, cur)
        /\ Len(w) = i + IF IsCase1(tree, rp) THEN 1 ELSE 0
    BY <2>1, TurnFacts
  <2>4. WayTo(tree.child, tree.root, linked, rp, cur)
    BY <2>1, RemoveColorFacts
  <2>5. i \in Nat /\ i >= 1 /\ rp # <<>>
    BY <2>4, WayLen DEF WayTo, Way
  <2> HIDE DEF u, w
  <2>6. WayTo(u.child, u.root, linked, w, cur) /\ Entry(w, 0).parent # NULL
    BY <2>3, <1>0, NullAssumption DEF WorkingAt, Working
  <2>7. Len(Pop(w, 1)) = Len(w) - 1 /\ Len(w) \in Nat /\ Len(w) >= 1
    <3>1. Pops(u.child, u.root, linked, w)
      BY <2>6, <1>0, PopWay
    <3>2. Len(w) \in Nat /\ Len(w) >= 1
      BY <2>6, WayLen DEF WayTo
    <3> QED
      BY <3>1, <3>2 DEF Pops
  <2>8. j \in Nat /\ j <= i
    BY <2>3, <2>5, <2>7
  <2>9. Depth = i /\ Depth' = j /\ Size = z /\ Size' = z /\ z \in Nat
    BY <2>1, <2>2, <2>5, <2>8, <1>0 DEF Depth, Size
  <2>10. Pow2[i] <= (z + 1) * (z + 1)
    BY <2>5, <2>9 DEF PathBound
  <2> HIDE DEF i, j, z
  <2>11. z <= z
    BY <2>9
  <2>12. Pow2[j] <= (z + 1) * (z + 1)
    BY <2>5, <2>8, <2>9, <2>10, <2>11, BoundKept
  <2> QED
    BY <2>9, <2>12 DEF PathBound
<1> QED
  BY <1>1, <1>2, <1>3, <1>4, <1>5, <1>6, LoopSteps

\* The stack never holds more than 2 * log2(n + 1) entries above the bottom
\* one for a tree of n nodes, the entry that case 1 of rb_remove_color adds
\* included: the sizeof(void *) * 8 entries of an RB_PATH are enough as long
\* as (n + 1)^2 < 2^(sizeof(void *) * 8).
THEOREM PathShort == Spec => []PathBound
<1>1. Init => PathBound
  BY DEF Init, PathBound
<1>2. Inv /\ Quiet => PathBound
  BY QuietBound
<1>3. Inv /\ PathBound /\ [Next]_vars => PathBound' \/ Quiet'
  BY BoundStep
<1> QED
  BY <1>1, <1>2, <1>3, Invariance, PTL DEF Spec

-----------------------------------------------------------------------------
(* The tree is an ordered set.                                             *)

Fixup == {"insert_color", "remove_color"}

\* The least node of a set, when one is known; there is none in the empty set.
LEMMA LeastIs ==
  ASSUME NEW S \in SUBSET Node, NEW n \in S, \A m \in S : m # n => Val[n] < Val[m]
  PROVE  Set!Least(S) = n
<1>1. \A m \in S : Val[m] \in Int
  BY ValAssumption
<1> DEFINE Low(x) == x \in S /\ \A m \in S : Val[x] <= Val[m]
<1>2. Low(n)
  BY <1>1
<1>3. \A x : Low(x) => x = n
  BY <1>1
<1>4. Set!Least(S) = CHOOSE x : Low(x)
  BY DEF Set!Least
<1> HIDE DEF Low
<1> QED
  BY <1>2, <1>3, <1>4

\* The greatest of a set is the node all others lie below.
LEMMA GreatestIs ==
  ASSUME NEW S \in SUBSET Node, NEW n \in S, \A m \in S : m # n => Val[m] < Val[n]
  PROVE  Set!Greatest(S) = n
<1>1. \A m \in S : Val[m] \in Int
  BY ValAssumption
<1> DEFINE High(x) == x \in S /\ \A m \in S : Val[m] <= Val[x]
<1>2. High(n)
  BY <1>1
<1>3. \A x : High(x) => x = n
  BY <1>1
<1>4. Set!Greatest(S) = CHOOSE x : High(x)
  BY DEF Set!Greatest
<1> HIDE DEF High
<1> QED
  BY <1>2, <1>3, <1>4

\* An empty set has no outermost node.
LEMMA NoneLeast == Set!Least({}) = NULL /\ Set!Greatest({}) = NULL
BY DEF Set!Least, Set!Greatest

\* What the ordered set answers to each request, and what it does.
LEMMA Answers ==
  ASSUME NEW c
  PROVE  /\ c.op = "insert" =>
              /\ Set!Answer(c) = IF Set!WithKey(Val[c.arg]) = NULL THEN c.arg
                                 ELSE Set!WithKey(Val[c.arg])
              /\ Set!Effect(c) = linked \cup {Set!Answer(c)}
         /\ c.op \in {"find", "remove"} => Set!Answer(c) = Set!WithKey(c.arg)
         /\ c.op = "rb_remove" => Set!Answer(c) = c.arg
         /\ c.op \in {"remove", "rb_remove"} => Set!Effect(c) = linked \ {Set!Answer(c)}
         /\ c.op = "first" => Set!Answer(c) = Set!Least(linked)
         /\ c.op = "last" => Set!Answer(c) = Set!Greatest(linked)
         /\ c.op = "next" =>
              Set!Answer(c) = IF c.arg = NULL THEN NULL
                              ELSE Set!Least({n \in linked : Val[c.arg] < Val[n]})
         /\ c.op = "prev" =>
              Set!Answer(c) = IF c.arg = NULL THEN NULL
                              ELSE Set!Greatest({n \in linked : Val[n] < Val[c.arg]})
         /\ c.op \in {"find", "first", "last", "next", "prev"} => Set!Effect(c) = linked
BY DEF Set!Answer, Set!Effect

\* A step at which the abstract call takes effect and answers, one at which it
\* takes effect only, one at which it answers only, one at which it begins.
LEMMA AppliesNow ==
  ASSUME pc \notin Fixup, call.op \notin {"none", "reply"},
         linked' = Set!Effect(call), NEW path, Return(Set!Answer(call), path)
  PROVE  Set!Next
<1>1. call \notin {Set!None} \cup [op : {"reply"}, arg : Node]
  BY DEF Set!None
<1>2. call' = Set!None /\ ret' = Set!Answer(call) /\ pc' \notin Fixup
  BY DEF Return, None, Set!None, Fixup
<1>3. Set!Apply
  BY <1>1, <1>2 DEF Set!Apply, Fixup
<1> QED
  BY <1>3 DEF Set!Next

\* A call that enters a fix-up loop has taken effect and owes its reply.
LEMMA AppliesLater ==
  ASSUME pc \notin Fixup, call.op \notin {"none", "reply"}, linked' = Set!Effect(call),
         pc' \in Fixup, target' = Set!Answer(call), ret' = ret
  PROVE  Set!Next
<1>1. call \notin {Set!None} \cup [op : {"reply"}, arg : Node]
  BY DEF Set!None
<1>2. Set!Apply
  BY <1>1 DEF Set!Apply, Fixup
<1> QED
  BY <1>2 DEF Set!Next

\* A fix-up loop that returns gives the reply owed.
LEMMA Replies ==
  ASSUME pc \in Fixup, NEW path, Return(target, path), linked' = linked
  PROVE  Set!Next
<1>1. call' = Set!None /\ ret' = target /\ pc' \notin Fixup
  BY DEF Return, None, Set!None, Fixup
<1>2. Set!Reply
  BY <1>1 DEF Set!Reply, Fixup
<1> QED
  BY <1>2 DEF Set!Next

\* A client's call is the abstract request.
LEMMA Invokes ==
  ASSUME Inv, pc = "idle", pc' \notin Fixup, call' \in Set!Request, ret' = NULL,
         linked' = linked
  PROVE  Set!Next
<1>1. call = Set!None
  BY DEF Inv, CallInv, IdleInv, None, Set!None
<1>2. Set!Invoke
  BY <1>1 DEF Set!Invoke, Fixup
<1> QED
  BY <1>2 DEF Set!Next

\* A step that leaves contents, request and reply alone is a stutter.
LEMMA Stutters ==
  ASSUME UNCHANGED <<linked, call, ret>>,
         \/ pc \notin Fixup /\ pc' \notin Fixup
         \/ UNCHANGED <<pc, target>>
  PROVE  UNCHANGED Set!setVars
BY DEF Set!setVars, Fixup

\* The node with a key, and no node with it.
LEMMA KeyHeld ==
  ASSUME Inv, NEW n \in linked
  PROVE  Set!WithKey(Val[n]) = n
<1>1. linked \in SUBSET Node
  BY DEF Inv, Typed
<1>2. PICK D : IsTree(tree.child, tree.root, linked, D)
  BY DEF Inv, Shape, IsRb
<1> DEFINE S == {m \in linked : Val[m] = Val[n]}
<1>3. S \in SUBSET Node /\ n \in S /\ \A m \in S : m = n
  BY <1>1, <1>2, KeysDiffer
<1>4. Set!WithKey(Val[n]) = Set!Least(S)
  BY DEF Set!WithKey
<1> HIDE DEF S
<1> QED
  BY <1>3, <1>4, LeastIs

\* The abstract set has no node with a key no linked node has.
LEMMA KeyMissing ==
  ASSUME NEW k, \A m \in linked : Val[m] # k
  PROVE  Set!WithKey(k) = NULL
<1>1. {m \in linked : Val[m] = k} = {}
  OBVIOUS
<1> QED
  BY <1>1, NoneLeast DEF Set!WithKey

\* n is the outermost of the nodes the running walk looks for.
Outermost(n) ==
  \/ n = NULL /\ Candidates = {}
  \/ n \in Candidates /\ \A m \in Candidates : m # n => Before(DownDir(call.op), n, m)

\* It is the answer the ordered set gives.
LEMMA WalkAnswer ==
  ASSUME Inv, call.op \in {"first", "last", "next", "prev"}, NEW n, Outermost(n)
  PROVE  Set!Answer(call) = n /\ Set!Effect(call) = linked
<1>1. linked \in SUBSET Node
  BY DEF Inv, Typed
<1>2. Set!Effect(call) = linked
  BY Answers
<1> DEFINE S == Candidates
<1>3. S \in SUBSET Node
  BY <1>1 DEF Candidates
<1>4. CASE call.op \in {"first", "next"}
  <2>1. DownDir(call.op) = RB_LEFT
    BY <1>4 DEF DownDir
  <2>2. Set!Answer(call) = Set!Least(S)
    <3>1. CASE call.op = "first"
      BY <3>1, Answers DEF Candidates
    <3>2. CASE call.op = "next" /\ call.arg = NULL
      BY <3>2, Answers, NoneLeast DEF Candidates
    <3>3. CASE call.op = "next" /\ call.arg # NULL
      <4>1. S = {m \in linked : Val[call.arg] < Val[m]}
        BY <3>3, <2>1 DEF Candidates, Before
      <4> QED
        BY <4>1, <3>3, Answers
    <3> QED
      BY <3>1, <3>2, <3>3, <1>4
  <2>3. \/ n = NULL /\ S = {}
        \/ n \in S /\ \A m \in S : m # n => Val[n] < Val[m]
    BY <2>1 DEF Outermost, Before
  <2> HIDE DEF S
  <2>4. Set!Least(S) = n
    BY <2>3, <1>3, LeastIs, NoneLeast
  <2> QED
    BY <2>2, <2>4, <1>2
<1>5. CASE call.op \in {"last", "prev"}
  <2>1. DownDir(call.op) = RB_RIGHT /\ RB_RIGHT # RB_LEFT
    BY <1>5 DEF DownDir, RB_RIGHT, RB_LEFT
  <2>2. Set!Answer(call) = Set!Greatest(S)
    <3>1. CASE call.op = "last"
      BY <3>1, Answers DEF Candidates
    <3>2. CASE call.op = "prev" /\ call.arg = NULL
      BY <3>2, Answers, NoneLeast DEF Candidates
    <3>3. CASE call.op = "prev" /\ call.arg # NULL
      <4>1. S = {m \in linked : Val[m] < Val[call.arg]}
        BY <3>3, <2>1 DEF Candidates, Before
      <4> QED
        BY <4>1, <3>3, Answers
    <3> QED
      BY <3>1, <3>2, <3>3, <1>5
  <2>3. \/ n = NULL /\ S = {}
        \/ n \in S /\ \A m \in S : m # n => Val[m] < Val[n]
    BY <2>1 DEF Outermost, Before
  <2> HIDE DEF S
  <2>4. Set!Greatest(S) = n
    BY <2>3, <1>3, GreatestIs, NoneLeast
  <2> QED
    BY <2>2, <2>4, <1>2
<1> QED
  BY <1>4, <1>5

\* A walk ends at the outermost node: running down the tree ...
LEMMA IterDownRefines ==
  ASSUME Inv, IterDown
  PROVE  [Set!Next]_(Set!setVars)
<1>1. PICK D, B : Shape(D, B) /\ CallInv(D)
  BY DEF Inv
<1> DEFINE dd == DownDir(call.op)
           q == tree.child[cur][dd]
<1>2. /\ pc = "iter_down" /\ UNCHANGED <<tree, linked>> /\ pc \notin Fixup
      /\ \/ cur = NULL /\ Return(NULL, rp)
         \/ cur # NULL /\ q = NULL /\ Return(cur, rp)
         \/ UNCHANGED <<pc, call, target, ret>>
  BY DEF IterDown, Continue, Fixup
<1>3. /\ IsTree(tree.child, tree.root, linked, D) /\ IterDownInv(D)
      /\ linked \in SUBSET Node
  BY <1>1, <1>2, QuietShape DEF Inv, Typed, CallInv, Fixup
<1>4. call.op \in {"first", "last", "next", "prev"}
  BY <1>3 DEF IterDownInv
<1>5. CASE cur = NULL /\ Return(NULL, rp)
  <2>1. Outermost(NULL)
    BY <1>3, <1>5 DEF Outermost, IterDownInv
  <2>2. Set!Answer(call) = NULL /\ Set!Effect(call) = linked
    BY <2>1, <1>4, WalkAnswer
  <2> QED
    BY <2>2, <1>2, <1>4, <1>5, AppliesNow
<1>6. CASE cur # NULL /\ q = NULL /\ Return(cur, rp)
  <2>1. cur \in linked /\ dd \in Dir /\ Opp(dd) \in Dir /\ \A d \in Dir : d = dd \/ d = Opp(dd)
    BY <1>3, <1>6, Sides DEF IterDownInv, DownDir, Dir
  <2>2. cur \in D[cur] /\ D[cur] \subseteq linked /\ D[NULL] = {}
    <3>1. cur \in D[cur]
      BY <2>1, <1>3, BelowNode
    <3> QED
      BY <3>1, <2>1, <1>3 DEF IsTree, Ptr
  <2>3. \A m \in D[cur] : m # cur => m \in D[tree.child[cur][Opp(dd)]]
    <3>1. \A m \in D[cur] : m = cur \/ \E d \in Dir : m \in D[tree.child[cur][d]]
      BY <2>1, <1>3 DEF IsTree, Dir
    <3> QED
      BY <3>1, <2>1, <2>2, <1>6
  <2>4. \A m \in D[cur] : m # cur => Before(dd, cur, m)
    <3> SUFFICES ASSUME NEW m \in D[cur], m # cur PROVE Before(dd, cur, m)
      OBVIOUS
    <3>1. Before(Opp(dd), m, cur) /\ m \in Node /\ cur \in Node
      BY <2>1, <2>2, <2>3, <1>3 DEF IsTree
    <3> HIDE DEF dd
    <3> QED
      BY <3>1, <2>1, BeforeFacts
  <2>5. Outermost(cur)
    BY <2>2, <2>4, <1>3 DEF Outermost, IterDownInv
  <2>6. Set!Answer(call) = cur /\ Set!Effect(call) = linked
    BY <2>5, <1>4, WalkAnswer
  <2> QED
    BY <2>6, <1>2, <1>4, <1>6, AppliesNow
<1>7. CASE UNCHANGED <<pc, call, target, ret>>
  BY <1>2, <1>7, Stutters
<1> QED
  BY <1>2, <1>5, <1>6, <1>7

\* ... or climbing it.
LEMMA IterUpRefines ==
  ASSUME Inv, IterUp
  PROVE  [Set!Next]_(Set!setVars)
<1>1. PICK D, B : Shape(D, B) /\ CallInv(D)
  BY DEF Inv
<1> DEFINE dd == DownDir(call.op)
           c == AtEnd
           p == WorkLink.parent
           e == WorkLink.dir
<1>2. /\ pc = "iter_up" /\ UNCHANGED <<tree, linked>> /\ pc \notin Fixup
      /\ \/ p = NULL /\ Return(NULL, rp)
         \/ p # NULL /\ e = dd /\ Return(p, Pop(rp, 1))
         \/ UNCHANGED <<pc, call, target, ret>>
  BY DEF IterUp, Continue, WorkLink, Fixup
<1>3. /\ IsTree(tree.child, tree.root, linked, D) /\ IterUpInv(D)
      /\ linked \in SUBSET Node /\ NULL \notin linked
  BY <1>1, <1>2, QuietShape, NullAssumption DEF Inv, Typed, CallInv, Fixup
<1>4. /\ call.op \in {"next", "prev"} /\ c \in linked /\ call.arg \in D[c]
      /\ call.arg \in linked /\ D[c] \cap Candidates = {} /\ call.arg # NULL
      /\ WayTo(tree.child, tree.root, linked, rp, c)
  BY <1>3 DEF IterUpInv, Leads
<1>5. dd \in Dir /\ Opp(dd) \in Dir /\ \A d \in Dir : d = dd \/ d = Opp(dd)
  BY Sides DEF DownDir, Dir
<1>6. Candidates = {m \in linked : Before(dd, call.arg, m)}
  BY <1>4 DEF Candidates
<1>u. /\ p = NULL => c = tree.root
      /\ p # NULL => p \in linked /\ e \in Dir /\ tree.child[p][e] = c
  BY <1>3, <1>4, WayEnd DEF WorkLink
<1> HIDE DEF c
<1>7. CASE (p = NULL /\ Return(p, rp)) \/ (p # NULL /\ e = dd /\ Return(p, Pop(rp, 1)))
  <2>1. Outermost(p)
    <3>1. CASE p = NULL
      <4>1. D[c] = linked
        BY <3>1, <1>3, <1>u DEF IsTree
      <4>2. Candidates \subseteq linked
        BY <1>6
      <4> QED
        BY <4>1, <4>2, <3>1, <1>4 DEF Outermost
    <3>2. CASE p # NULL
      <4>1. p \in linked /\ e \in Dir /\ tree.child[p][e] = c
        BY <3>2, <1>u
      <4>2. tree.child[p][dd] = c
        BY <4>1, <3>2, <1>7
      <4> HIDE DEF p, dd, e
      <4>3. BeyondNode(tree.child, linked, D, p, dd)
        BY <4>1, <1>3, <1>5, Beyond
      <4>4. /\ \A m \in D[c] : Before(dd, m, p)
            /\ D[p] = {p} \cup D[c] \cup D[tree.child[p][Opp(dd)]]
        BY <4>1, <4>2, <1>3, <1>5 DEF IsTree, Dir
      <4>5. p \in Candidates
        BY <4>1, <4>4, <1>4, <1>6
      <4>6. ASSUME NEW m \in Candidates, m # p PROVE Before(dd, p, m)
        <5>1. m \in linked /\ m \notin D[c] /\ Before(dd, call.arg, m)
          BY <4>6, <1>4, <1>6
        <5>2. CASE m \in D[p]
          <6>1. m \in D[tree.child[p][Opp(dd)]]
            BY <5>1, <5>2, <4>4, <4>6
          <6> QED
            BY <6>1, <4>3 DEF BeyondNode
        <5>3. CASE m \notin D[p]
          <6>1. PICK d \in Dir : \A k \in D[p] : Before(d, k, m)
            BY <5>1, <5>3, <4>1, <1>3, Interval
          <6>2. p \in D[p] /\ call.arg \in D[p]
            BY <4>4, <1>4
          <6>3. d = dd
            <7>1. Before(d, call.arg, m) /\ call.arg \in Node /\ m \in Node
              BY <6>1, <6>2, <5>1, <1>3, <1>4
            <7>2. d = dd \/ d = Opp(dd)
              BY <1>5
            <7> QED
              BY <7>1, <7>2, <5>1, <1>5, BeforeFacts
          <6> QED
            BY <6>1, <6>2, <6>3
        <5> QED
          BY <5>2, <5>3
      <4> QED
        BY <4>5, <4>6 DEF Outermost, dd
    <3> QED
      BY <3>1, <3>2
  <2> HIDE DEF p
  <2>2. Set!Answer(call) = p /\ Set!Effect(call) = linked
    BY <2>1, <1>4, WalkAnswer
  <2>3. Return(p, rp) \/ Return(p, Pop(rp, 1))
    BY <1>7
  <2> QED
    BY <2>2, <2>3, <1>2, <1>4, AppliesNow
<1>8. CASE UNCHANGED <<pc, call, target, ret>>
  BY <1>2, <1>8, Stutters
<1>9. \/ (p = NULL /\ Return(p, rp)) \/ (p # NULL /\ e = dd /\ Return(p, Pop(rp, 1)))
      \/ UNCHANGED <<pc, call, target, ret>>
  BY <1>2
<1> QED
  BY <1>7, <1>8, <1>9, Zenon

\* A search ends at the node with the key, or where it would be.
LEMMA FindRefines ==
  ASSUME Inv, FindStep
  PROVE  [Set!Next]_(Set!setVars)
<1>1. PICK D, B : Shape(D, B) /\ CallInv(D)
  BY DEF Inv
<1>2. pc = "find" /\ UNCHANGED <<tree, linked>> /\ pc \notin Fixup
  BY DEF FindStep, Fixup
<1>3. /\ IsTree(tree.child, tree.root, linked, D) /\ FindInv(D)
      /\ linked \in SUBSET Node /\ NULL \notin linked
  BY <1>1, <1>2, QuietShape, NullAssumption DEF Inv, Typed, CallInv, Fixup
<1>4. call.op \in {"find", "remove"} /\ cur \in linked \cup {NULL} /\ Seeks(D, call.arg)
  BY <1>3 DEF FindInv
<1>5. CASE cur = NULL /\ Return(NULL, rp)
  <2>1. \A m \in linked : Val[m] # call.arg
    BY <1>3, <1>4, <1>5 DEF Seeks, IsTree
  <2>2. Set!Answer(call) = NULL
    BY <2>1, <1>4, KeyMissing, Answers
  <2>3. Set!Effect(call) = linked
    <3>1. linked \ {NULL} = linked
      BY <1>3
    <3> QED
      BY <3>1, <2>2, <1>4, Answers
  <2> QED
    BY <2>2, <2>3, <1>2, <1>4, <1>5, AppliesNow
<1>6. CASE cur # NULL /\ Val[cur] = call.arg /\ call.op = "find" /\ Return(cur, rp)
  <2>1. Set!WithKey(Val[cur]) = cur
    BY <1>4, <1>6, KeyHeld
  <2>2. Set!Answer(call) = cur /\ Set!Effect(call) = linked
    BY <2>1, <1>6, Answers
  <2> QED
    BY <2>2, <1>2, <1>4, <1>6, AppliesNow
<1>7. CASE UNCHANGED <<pc, call, target, ret>>
  BY <1>2, <1>7, Stutters
<1>8. CASE pc' = "rb_remove" /\ UNCHANGED <<call, ret>>
  <2>1. pc' \notin Fixup
    BY <1>8 DEF Fixup
  <2> QED
    BY <2>1, <1>2, <1>8, Stutters
<1> QED
  BY <1>5, <1>6, <1>7, <1>8 DEF FindStep, Continue

\* An insertion links the node, or finds the one that has its key.
LEMMA InsertDescendRefines ==
  ASSUME Inv, InsertDescend
  PROVE  [Set!Next]_(Set!setVars)
<1>1. PICK D, B : Shape(D, B) /\ CallInv(D)
  BY DEF Inv
<1>2. /\ pc = "insert_descend" /\ pc \notin Fixup
      /\ \/ /\ cur = NULL
            /\ linked' = linked \cup {target} /\ pc' = "insert_color"
            /\ UNCHANGED <<call, target, ret>>
         \/ /\ cur # NULL /\ Val[target] = Val[cur] /\ Return(cur, <<>>)
            /\ UNCHANGED <<tree, linked>>
         \/ UNCHANGED <<tree, linked, pc, call, target, ret>>
  BY DEF InsertDescend, Continue, Fixup
<1>3. /\ IsTree(tree.child, tree.root, linked, D) /\ InsertDescendInv(D)
      /\ linked \in SUBSET Node /\ NULL \notin linked
  BY <1>1, <1>2, QuietShape, NullAssumption DEF Inv, Typed, CallInv, Fixup
<1>4. /\ target \in Node /\ target # NULL /\ call.op = "insert" /\ call.arg = target
      /\ cur \in linked \cup {NULL}
      /\ Seeks(D, Val[target]) /\ Val[target] \in Int /\ D[NULL] = {}
  BY <1>3, NullAssumption, ValAssumption DEF InsertDescendInv, IsTree
<1>5. CASE /\ cur = NULL /\ linked' = linked \cup {target} /\ pc' = "insert_color"
           /\ UNCHANGED <<call, target, ret>>
  <2>1. \A m \in linked : Val[m] # Val[target]
    BY <1>4, <1>5 DEF Seeks
  <2>2. Set!WithKey(Val[target]) = NULL
    BY <2>1, KeyMissing
  <2>3. Set!Answer(call) = target /\ Set!Effect(call) = linked \cup {target}
    BY <2>2, <1>4, Answers
  <2>4. pc' \in Fixup
    BY <1>5 DEF Fixup
  <2> QED
    BY <2>3, <2>4, <1>2, <1>4, <1>5, AppliesLater
<1>6. CASE cur # NULL /\ Val[target] = Val[cur] /\ Return(cur, <<>>) /\ UNCHANGED <<tree, linked>>
  <2>1. cur \in linked /\ Set!WithKey(Val[cur]) = cur
    BY <1>4, <1>6, KeyHeld
  <2>2. Set!Answer(call) = cur /\ Set!Effect(call) = linked \cup {cur}
    BY <2>1, <1>4, <1>6, Answers
  <2> QED
    BY <2>1, <2>2, <1>2, <1>4, <1>6, AppliesNow
<1>7. CASE UNCHANGED <<tree, linked, pc, call, target, ret>>
  BY <1>2, <1>7, Stutters
<1> QED
  BY <1>2, <1>5, <1>6, <1>7

\* rb_remove takes effect when the node is out of the tree.
LEMMA UnlinkRefines ==
  ASSUME Inv, pc \notin Fixup, RemoveInv,
         NEW t, NEW k, NEW q, NEW c, Unlink(t, k, q, c)
  PROVE  Set!Next
<1>1. target \in linked /\ call.op \in {"remove", "rb_remove"}
  BY DEF RemoveInv
<1>2. Set!Answer(call) = target
  <2>1. CASE call = [op |-> "remove", arg |-> Val[target]]
    BY <2>1, <1>1, KeyHeld, Answers
  <2>2. CASE call = [op |-> "rb_remove", arg |-> target]
    BY <2>2, Answers
  <2> QED
    BY <2>1, <2>2 DEF RemoveInv
<1>3. linked' = Set!Effect(call)
  BY <1>1, <1>2, Answers DEF Unlink
<1>4. CASE Return(target, <<>>)
  BY <1>1, <1>2, <1>3, <1>4, AppliesNow
<1>5. CASE pc' = "remove_color" /\ UNCHANGED <<call, target, ret>>
  <2>1. pc' \in Fixup
    BY <1>5 DEF Fixup
  <2> QED
    BY <2>1, <1>1, <1>2, <1>3, <1>5, AppliesLater
<1> QED
  BY <1>4, <1>5 DEF Unlink

\* rb_remove with at most one child is the abstract removal, else a stutter.
LEMMA RbRemoveRefines ==
  ASSUME Inv, RbRemove
  PROVE  [Set!Next]_(Set!setVars)
<1>1. pc = "rb_remove" /\ pc \notin Fixup /\ RemoveInv
  BY DEF RbRemove, Fixup, Inv, CallInv
<1>2. \/ \E t, k, q, c : Unlink(t, k, q, c)
      \/ pc' = "successor" /\ UNCHANGED <<linked, call, ret>>
  BY DEF RbRemove
<1>3. CASE pc' = "successor" /\ UNCHANGED <<linked, call, ret>>
  <2>1. pc' \notin Fixup
    BY <1>3 DEF Fixup
  <2> QED
    BY <2>1, <1>1, <1>3, Stutters
<1> QED
  BY <1>1, <1>2, <1>3, UnlinkRefines

\* The successor search stutters until the move, which is the abstract removal.
LEMMA SuccessorRefines ==
  ASSUME Inv, Successor
  PROVE  [Set!Next]_(Set!setVars)
<1>1. pc = "successor" /\ pc \notin Fixup /\ RemoveInv
  BY DEF Successor, Fixup, Inv, CallInv, SuccessorInv
<1>2. \/ \E t, k, q, c : Unlink(t, k, q, c)
      \/ UNCHANGED <<linked, pc, call, target, ret>>
  BY DEF Successor, Continue
<1> QED
  BY <1>1, <1>2, UnlinkRefines, Stutters

\* The fix-up loops change nothing the client sees, and then reply.
LEMMA FixupRefines ==
  ASSUME InsertColor \/ RemoveColor
  PROVE  [Set!Next]_(Set!setVars)
<1>1. pc \in Fixup /\ linked' = linked
  BY DEF InsertColor, RemoveColor, Fixup
<1>2. \/ Return(target, <<>>)
      \/ UNCHANGED <<pc, call, target, ret>>
  BY DEF InsertColor, InsertDone, RemoveColor, RemoveDone, Continue
<1> QED
  BY <1>1, <1>2, Replies, Stutters

\* The client's calls.
LEMMA ClientRefines ==
  ASSUME Inv, Client
  PROVE  Set!Next
<1>0. pc = "idle" => call = Set!None /\ linked \subseteq Node
  BY DEF Inv, Typed, CallInv, IdleInv, None, Set!None
<1>1. CASE RB_ROOT_INIT
  <2>1. Set!Reset
    BY <1>0, <1>1 DEF RB_ROOT_INIT, Set!Reset
  <2> QED
    BY <2>1 DEF Set!Next
<1>2. ASSUME NEW n \in Node, Insert(n) PROVE Set!Next
  <2>1. pc = "idle" /\ pc' \notin Fixup /\ ret' = NULL /\ linked' = linked
    BY <1>2 DEF Insert, Call, Fixup
  <2>2. call' \in Set!Request
    BY <1>2 DEF Insert, Call, Set!Request
  <2> QED
    BY <2>1, <2>2, Invokes
<1>a. pc = "idle" => at \in linked \cup {NULL}
  BY DEF Inv, CallInv, IdleInv
<1>3. ASSUME RemoveNode PROVE Set!Next
  <2>1. pc = "idle" /\ pc' \notin Fixup /\ ret' = NULL /\ linked' = linked /\ at # NULL
    BY <1>3 DEF RemoveNode, Call, Fixup
  <2>2. call' \in Set!Request
    BY <2>1, <1>3, <1>a DEF RemoveNode, Call, Set!Request
  <2> QED
    BY <2>1, <2>2, Invokes
<1>4. ASSUME NEW k \in Key, NEW op \in {"find", "remove"}, Find(op, k) PROVE Set!Next
  <2>1. pc = "idle" /\ pc' \notin Fixup /\ ret' = NULL /\ linked' = linked
    BY <1>4 DEF Find, Call, Fixup
  <2>2. call' \in Set!Request
    BY <1>4 DEF Find, Call, Set!Request, Key, Set!Key
  <2> QED
    BY <2>1, <2>2, Invokes
<1>5. ASSUME NEW op \in {"first", "last"}, Iter(op) PROVE Set!Next
  <2>1. pc = "idle" /\ pc' \notin Fixup /\ ret' = NULL /\ linked' = linked
    BY <1>5 DEF Iter, Call, Fixup
  <2>2. call' \in Set!Request
    BY <1>5 DEF Iter, Call, Set!Request
  <2> QED
    BY <2>1, <2>2, Invokes
<1>6. ASSUME NEW op \in {"next", "prev"}, IterNext(op) PROVE Set!Next
  <2>1. pc = "idle" /\ pc' \notin Fixup /\ ret' = NULL /\ linked' = linked
    BY <1>6 DEF IterNext, Call, Fixup
  <2>2. call' \in Set!Request
    BY <2>1, <1>6, <1>a DEF IterNext, Call, Set!Request
  <2> QED
    BY <2>1, <2>2, Invokes
<1> QED
  BY <1>1, <1>2, <1>3, <1>4, <1>5, <1>6 DEF Client

\* Every step is a step of the ordered set or a stutter.
LEMMA NextRefines == Inv /\ [Next]_vars => [Set!Next]_(Set!setVars)
<1> SUFFICES ASSUME Inv, [Next]_vars PROVE [Set!Next]_(Set!setVars)
  OBVIOUS
<1>1. CASE UNCHANGED vars
  BY <1>1 DEF vars, Set!setVars
<1>2. CASE Client
  BY <1>2, ClientRefines
<1>3. CASE Library
  BY <1>3, InsertDescendRefines, FixupRefines, FindRefines, RbRemoveRefines, SuccessorRefines,
     IterDownRefines, IterUpRefines DEF Library
<1> QED
  BY <1>1, <1>2, <1>3 DEF Next

\* Every call of rbtree_compact.h answers as the ordered set does: insert refuses a
\* second node with the key and names the first, find and remove find exactly
\* the keys present, and the walks give the neighbours in key order, from a
\* stack an earlier call left, for any number of nodes and after any calls.
THEOREM Refinement == Spec => ImplementsOrderedSet
<1>1. Init => Set!Init
  BY DEF Init, Set!Init, None, Set!None
<1>2. Inv /\ [Next]_vars => [Set!Next]_(Set!setVars)
  BY NextRefines
<1> QED
  BY <1>1, <1>2, Invariance, PTL DEF Spec, ImplementsOrderedSet, Set!Spec

-----------------------------------------------------------------------------
(* A walk put aside, across inserts.                                       *)

\* The rotations of rb_insert_color at g, its child q and grandchild n put c
\* in the place of g, and change no link of any other node but the one to g.
TurnedDown(ch, r, ch2, r2, L, g, q, n, c) ==
  /\ c \in {q, n}
  /\ r2 = IF r = g THEN c ELSE r
  /\ \A x \in L \ {g, q, n}, d \in Dir : ch2[x][d] = IF ch[x][d] = g THEN c ELSE ch[x][d]

\* q is a child of g, and n a child of q.
Line(ch, r, L, g, q, n) ==
  /\ g \in L /\ q \in L /\ n \in L
  /\ q # g /\ n # g /\ n # q /\ r # q /\ r # n
  /\ \A x \in L, d \in Dir : /\ ch[x][d] = q => x = g
                             /\ ch[x][d] = n => x = q
                             /\ ch[x][d] = g => x \notin {g, q, n}

\* The nodes that cases 2 and 3 turn stand in a line.
LEMMA RedLine ==
  ASSUME NEW t, NEW L \in SUBSET Node, NEW D, IsTree(t.child, t.root, L, D), NEW n \in L,
         NEW q, NEW f, NEW g, NEW dir, RedUp(t, L, n, q, f, g, dir)
  PROVE  Line(t.child, t.root, L, g, q, n)
<1>l. LinkFacts(t.child, t.root, L, D)
  BY TreeLinks
<1>1. /\ q \in L /\ f \in Dir /\ g \in L /\ dir \in Dir /\ t.child[g][dir] = q /\ t.child[q][f] = n
      /\ n # q /\ n # g /\ q # g /\ n # NULL /\ q # NULL /\ g # NULL
  BY NullAssumption DEF RedUp
<1>2. t.root # q /\ t.root # n
  BY <1>1, <1>l DEF LinkFacts
<1>3. ASSUME NEW x \in L, NEW d \in Dir
      PROVE  (t.child[x][d] = q => x = g) /\ (t.child[x][d] = n => x = q)
  BY <1>1, <1>l DEF LinkFacts
<1>4. ASSUME NEW x \in L, NEW d \in Dir, t.child[x][d] = g PROVE x \notin {g, q, n}
  <2>1. g \in D[x] /\ g \notin D[q] /\ D[n] \subseteq D[q]
    BY <1>1, <1>4, <1>l DEF LinkFacts
  <2>2. x # g
    BY <1>1, <1>4, <1>l DEF LinkFacts
  <2> QED
    BY <2>1, <2>2
<1> QED
  BY <1>1, <1>2, <1>3, <1>4 DEF Line

\* Painting p and g and turning g down is a rotation of the links.
LEMMA PaintAndTurn ==
  ASSUME NEW t \in Tree, NEW L \in SUBSET Node, NEW D, IsTree(t.child, t.root, L, D),
         NEW g \in L, NEW od \in Dir, NEW p \in L, t.child[g][Opp(od)] = p,
         NEW pl, Place(pl), Above(t.child, t.root, L, g, pl.parent, pl.dir),
         NEW t2, t2 = rb_set_color(rb_set_color(t, p, RB_BLACK), g, RB_RED),
         NEW u, u = Hang(rb_rotate(t2, g, od), pl, Pivot(t2, g, od))
  PROVE  /\ u.root = IF t.root = g THEN p ELSE t.root
         /\ AroundPivot(t.child, t.root, u.child, L, g, p, od)
         /\ u \in Tree
<1> DEFINE t1 == rb_set_color(t, p, RB_BLACK)
<1>1. t1 \in Tree /\ t1.root = t.root /\ t1.child = t.child
  BY PaintFields
<1>2. t2 = rb_set_color(t1, g, RB_RED)
  OBVIOUS
<1> HIDE DEF t1
<1>3. t2 \in Tree /\ t2.root = t.root /\ t2.child = t.child
  BY <1>1, <1>2, PaintFields
<1>4. u = Hang(rb_rotate(t2, g, od), pl, p)
  BY <1>3 DEF Pivot
<1>5. IsTree(t2.child, t2.root, L, D) /\ t2.child[g][Opp(od)] = p
      /\ Above(t2.child, t2.root, L, g, pl.parent, pl.dir)
  BY <1>3
<1>6. Rotated(t2, u, L, g, od)
  BY <1>3, <1>4, <1>5, RotateFields
<1>7. u \in Tree /\ Rotates(t.child, t.root, u.child, u.root, L, g, od)
  BY <1>3, <1>6 DEF Rotated
<1>8. AroundPivot(t.child, t.root, u.child, L, g, p, od)
  BY <1>7, RotateLinks
<1> QED
  BY <1>7, <1>8 DEF Rotates

\* Cases 2 and 3 of rb_insert_color turn three nodes.
LEMMA Case23Turns ==
  ASSUME NEW t \in Tree, NEW L \in SUBSET Node, NEW D, IsTree(t.child, t.root, L, D),
         NEW n \in L, NEW w, RedWay(t, L, w, n)
  PROVE  \E c : TurnedDown(t.child, t.root, InsertCase23(t, w).child, InsertCase23(t, w).root, L,
                           Entry(w, -1).parent, Entry(w, 0).parent, n, c)
<1> DEFINE q == Entry(w, 0).parent
           f == Entry(w, 0).dir
           g == Entry(w, -1).parent
           dir == Entry(w, -1).dir
           od == Opp(dir)
           pl == Entry(w, -2)
           u == InsertCase23(t, w)
<1>1. /\ RedUp(t, L, n, q, f, g, dir)
      /\ Place(pl) /\ Above(t.child, t.root, L, g, pl.parent, pl.dir)
  BY DEF RedWay
<1>7. CASE f = dir
  <2> DEFINE t2 == rb_set_color(rb_set_color(t, q, RB_BLACK), g, RB_RED)
  <2>1. u = Hang(rb_rotate(t2, g, od), pl, Pivot(t2, g, od))
    BY <1>7 DEF InsertCase23
  <2> HIDE DEF q, f, g, dir, pl, u, t2
  <2>2. /\ q \in L /\ g \in L /\ dir \in Dir /\ t.child[g][dir] = q
        /\ Opp(dir) \in Dir /\ Opp(Opp(dir)) = dir
    BY <1>1, Sides DEF RedUp
  <2>3. od \in Dir /\ t.child[g][Opp(od)] = q
    BY <2>2
  <2> HIDE DEF od
  <2>4. /\ u.root = IF t.root = g THEN q ELSE t.root
        /\ AroundPivot(t.child, t.root, u.child, L, g, q, od)
    <3>1. t2 = rb_set_color(rb_set_color(t, q, RB_BLACK), g, RB_RED)
      BY DEF t2
    <3> QED
      BY <3>1, <2>1, <2>2, <2>3, <1>1, PaintAndTurn, SMTT(30)
  <2>5. TurnedDown(t.child, t.root, u.child, u.root, L, g, q, n, q)
    BY <2>4 DEF TurnedDown, AroundPivot
  <2> QED
    BY <2>5 DEF u, g, q
<1>8. CASE f # dir
  <2> DEFINE e2 == [parent |-> g, dir |-> dir]
             t1 == Hang(rb_rotate(t, q, dir), e2, n)
             t2 == rb_set_color(rb_set_color(t1, n, RB_BLACK), g, RB_RED)
  <2>s. /\ q \in L /\ f \in Dir /\ g \in L /\ dir \in Dir /\ t.child[g][dir] = q
        /\ t.child[q][f] = n /\ n # q /\ n # g /\ q # g
        /\ Opp(dir) \in Dir /\ Opp(Opp(dir)) = dir /\ Opp(dir) # dir
        /\ \A d \in Dir : d = dir \/ d = Opp(dir)
    <3>1. /\ q \in L /\ f \in Dir /\ g \in L /\ dir \in Dir /\ t.child[g][dir] = q
          /\ t.child[q][f] = n /\ n # q /\ n # g /\ q # g
      BY <1>1 DEF RedUp
    <3> QED
      BY <3>1, Sides
  <2>0. t.child[q][Opp(dir)] = n /\ Pivot(t, q, dir) = n
    BY <2>s, <1>8 DEF Pivot
  <2>e. /\ e2.parent = g /\ e2.dir = dir /\ Place(e2) /\ g # NULL
        /\ Above(t.child, t.root, L, q, e2.parent, e2.dir)
    BY <2>s, NullAssumption DEF Place, Above
  <2>1. u = Hang(rb_rotate(t2, g, od), pl, Pivot(t2, g, od))
    <3>1. t1 = rb_set_child(rb_rotate(t, q, dir), g, dir, n)
      BY <2>e DEF Hang
    <3>2. Entry(w, 0).dir # Entry(w, -1).dir
      BY <1>8
    <3> QED
      BY <2>0, <3>1, <3>2 DEF InsertCase23
  <2> HIDE DEF q, g, dir, pl, f, e2, u
  <2>l. Line(t.child, t.root, L, g, q, n)
    BY <1>1, RedLine
  <2>2. Rotated(t, t1, L, q, dir)
    BY <2>0, <2>e, <2>s, RotateFields
  <2> HIDE DEF t1
  <2>3. t1 \in Tree /\ Rotates(t.child, t.root, t1.child, t1.root, L, q, dir)
    BY <2>2 DEF Rotated
  <2>4. AroundPivot(t.child, t.root, t1.child, L, q, n, dir)
    BY <2>0, <2>3, <2>s, RotateLinks
  <2>5. t1.root = t.root
    BY <2>3, <2>l DEF Rotates, Line
  <2>6. t1.child[g][dir] = n
    BY <2>4, <2>s DEF AroundPivot
  <2>7. ASSUME NEW x \in L \ {g, q, n}, NEW d \in Dir PROVE t1.child[x][d] = t.child[x][d]
    <3>1. t.child[x][d] # q
      BY <2>l DEF Line
    <3> QED
      BY <3>1, <2>4 DEF AroundPivot
  <2>8. Above(t1.child, t1.root, L, g, pl.parent, pl.dir)
    <3>1. g \notin D[q]
      <4>1. LinkFacts(t.child, t.root, L, D)
        BY TreeLinks
      <4> QED
        BY <4>1, <2>s DEF LinkFacts
    <3> QED
      BY <3>1, <2>0, <2>3, <2>s, <1>1, AboveKept
  <2>9. PICK D1 : IsTree(t1.child, t1.root, L, D1)
    BY <2>0, <2>3, <2>s, RotateTree
  <2>10. od \in Dir /\ t1.child[g][Opp(od)] = n
    BY <2>s, <2>6
  <2> HIDE DEF od, t2
  <2>11. /\ u.root = IF t1.root = g THEN n ELSE t1.root
         /\ AroundPivot(t1.child, t1.root, u.child, L, g, n, od)
    BY <2>1, <2>3, <2>8, <2>9, <2>10, <2>s, <1>1, PaintAndTurn DEF t2
  <2>12. TurnedDown(t.child, t.root, u.child, u.root, L, g, q, n, n)
    BY <2>5, <2>7, <2>11 DEF TurnedDown, AroundPivot
  <2> QED
    BY <2>12 DEF u, g, q
<1> QED
  BY <1>7, <1>8

\* A stack that names none of the three nodes' top stays a way through the tree.
LEMMA WayPassesBy ==
  ASSUME NEW ch, NEW r, NEW L \in SUBSET Node, NEW w, NEW m, WayTo(ch, r, L, w, m),
         NEW g, NEW q, NEW n, Line(ch, r, L, g, q, n), m # g,
         \A k \in 2..Len(w) : w[k].parent # g,
         NEW ch2, NEW r2, NEW c, TurnedDown(ch, r, ch2, r2, L, g, q, n, c)
  PROVE  WayTo(ch2, r2, L, w, m)
<1>0. Way(ch, r, L, w) /\ Len(w) \in Nat /\ Len(w) >= 1 /\ w[1].parent = NULL
  BY WayLen DEF WayTo, Way
<1>s. Steps(ch, L, w)
  BY <1>0, WaySteps
<1>1. ASSUME NEW k \in 2..Len(w)
      PROVE  \/ r = w[k].parent
             \/ k - 1 \in 2..Len(w) /\ w[k - 1].parent \in L /\ w[k - 1].dir \in Dir
                /\ ch[w[k - 1].parent][w[k - 1].dir] = w[k].parent
  <2>0. k - 1 \in 1..(Len(w) - 1) /\ (k - 1) + 1 = k
    BY <1>0
  <2>1. LinkAt(ch, r, w[k - 1]) = w[k].parent
    <3>1. \A i \in 1..(Len(w) - 1) : LinkAt(ch, r, w[i]) = w[i + 1].parent
      BY <1>0 DEF Way
    <3> QED
      BY <3>1, <2>0, <1>1
  <2>2. CASE k = 2
    BY <2>1, <2>2, <1>0 DEF LinkAt
  <2>3. CASE k # 2
    <3>1. k - 1 \in 2..Len(w)
      BY <2>3, <1>0
    <3>2. w[k - 1].parent \in L /\ w[k - 1].dir \in Dir /\ w[k - 1].parent # NULL
      BY <3>1, <1>s DEF Steps
    <3> QED
      BY <3>1, <3>2, <2>1 DEF LinkAt
  <2> QED
    BY <2>2, <2>3
<1>2. ASSUME NEW k \in 2..Len(w) PROVE w[k].parent \in L \ {g, q} /\ w[k].dir \in Dir
  <2>1. w[k].parent \in L /\ w[k].dir \in Dir
    BY <1>s DEF Steps
  <2>2. ASSUME w[k].parent = q PROVE FALSE
    <3>1. q \in L /\ r # q /\ \A x \in L, d \in Dir : ch[x][d] = q => x = g
      BY DEF Line
    <3> QED
      BY <3>1, <2>2, <1>1
  <2> QED
    BY <2>1, <2>2
<1>3. ASSUME NEW k \in 2..Len(w) PROVE w[k].parent # n
  <2> SUFFICES ASSUME w[k].parent = n PROVE FALSE
    OBVIOUS
  <2>1. n \in L /\ r # n /\ \A x \in L, d \in Dir : ch[x][d] = n => x = q
    BY DEF Line
  <2> QED
    BY <2>1, <1>1, <1>2
<1>4. ASSUME NEW k \in 1..Len(w), LinkAt(ch, r, w[k]) # g
      PROVE  LinkAt(ch2, r2, w[k]) = LinkAt(ch, r, w[k])
  <2>1. CASE k = 1
    BY <2>1, <1>0, <1>4 DEF LinkAt, TurnedDown
  <2>2. CASE k # 1
    <3>1. k \in 2..Len(w)
      BY <2>2, <1>0
    <3>2. w[k].parent \in L \ {g, q, n} /\ w[k].dir \in Dir /\ w[k].parent # NULL
      BY <3>1, <1>2, <1>3, NullAssumption
    <3> QED
      BY <3>2, <1>4 DEF LinkAt, TurnedDown
  <2> QED
    BY <2>1, <2>2
<1>5. ASSUME NEW k \in 1..(Len(w) - 1) PROVE LinkAt(ch2, r2, w[k]) = LinkAt(ch, r, w[k])
  <2>1. k \in 1..Len(w) /\ k + 1 \in 2..Len(w)
    BY <1>0
  <2>2. LinkAt(ch, r, w[k]) = w[k + 1].parent
    BY <1>0 DEF Way
  <2>3. w[k + 1].parent # g
    BY <2>1
  <2> QED
    BY <2>1, <2>2, <2>3, <1>4
<1>6. SameWay(ch, r, ch2, r2, L, w)
  BY <1>2, <1>5 DEF SameWay
<1>7. LinkAt(ch2, r2, Entry(w, 0)) = m
  <2>1. Entry(w, 0) = w[Len(w)] /\ Len(w) \in 1..Len(w)
    BY <1>0, WayEnd
  <2>2. LinkAt(ch, r, w[Len(w)]) = m
    BY <2>1 DEF WayTo
  <2> QED
    BY <2>1, <2>2, <1>4
<1> QED
  BY <1>0, <1>6, <1>7, WayChanged

\* The stack w to m names the node g, or leads to it.
Names(w, m, g) == m = g \/ \E k \in 1..Len(w) : w[k].parent = g

\* An entry of w does not lead to the next one, or the last one not to m.
Misleads(ch, r, w, m) ==
  \E k \in 1..Len(w) : LinkAt(ch, r, w[k]) # IF k < Len(w) THEN w[k + 1].parent ELSE m

\* The entry that led to the top of the three leads to another node.
LEMMA WayBroken ==
  ASSUME NEW ch, NEW r, NEW L \in SUBSET Node, NEW w, NEW m, WayTo(ch, r, L, w, m),
         NEW g, NEW q, NEW n, Line(ch, r, L, g, q, n),
         NEW ch2, NEW r2, NEW c, TurnedDown(ch, r, ch2, r2, L, g, q, n, c),
         Names(w, m, g)
  PROVE  Misleads(ch2, r2, w, m)
<1>0. Way(ch, r, L, w) /\ Len(w) \in Nat /\ Len(w) >= 1 /\ w[1].parent = NULL
  BY WayLen DEF WayTo, Way
<1>s. Steps(ch, L, w)
  BY <1>0, WaySteps
<1>1. \E k \in 1..Len(w) :
        LinkAt(ch, r, w[k]) = g /\ g = IF k < Len(w) THEN w[k + 1].parent ELSE m
  <2>1. CASE m = g
    <3>1. Entry(w, 0) = w[Len(w)] /\ Len(w) \in 1..Len(w) /\ ~(Len(w) < Len(w))
      BY <1>0, WayEnd
    <3>2. LinkAt(ch, r, w[Len(w)]) = m
      BY <3>1 DEF WayTo
    <3> QED
      BY <3>1, <3>2, <2>1
  <2>2. ASSUME NEW j \in 1..Len(w), w[j].parent = g
        PROVE  \E k \in 1..Len(w) :
                 LinkAt(ch, r, w[k]) = g /\ g = IF k < Len(w) THEN w[k + 1].parent ELSE m
    <3>1. g # NULL
      BY NullAssumption DEF Line
    <3>2. j # 1
      BY <3>1, <2>2, <1>0
    <3> DEFINE k == j - 1
    <3>3. k \in 1..(Len(w) - 1) /\ k \in 1..Len(w) /\ k < Len(w) /\ k + 1 = j
      BY <3>2, <1>0
    <3>4. LinkAt(ch, r, w[k]) = w[k + 1].parent
      <4> HIDE DEF k
      <4> QED
        BY <3>3, <1>0 DEF Way
    <3> HIDE DEF k
    <3> QED
      BY <3>3, <3>4, <2>2
  <2> QED
    BY <2>1, <2>2 DEF Names
<1>2. PICK k \in 1..Len(w) :
        LinkAt(ch, r, w[k]) = g /\ g = IF k < Len(w) THEN w[k + 1].parent ELSE m
  BY <1>1
<1>3. LinkAt(ch2, r2, w[k]) = c
  <2>1. CASE k = 1
    BY <2>1, <1>0, <1>2 DEF LinkAt, TurnedDown
  <2>2. CASE k # 1
    <3>1. k \in 2..Len(w)
      BY <2>2, <1>0
    <3>2. w[k].parent \in L /\ w[k].dir \in Dir /\ w[k].parent # NULL
      BY <3>1, <1>s DEF Steps
    <3>3. ch[w[k].parent][w[k].dir] = g
      BY <3>2, <1>2 DEF LinkAt
    <3>4. w[k].parent \in L \ {g, q, n}
      BY <3>2, <3>3 DEF Line
    <3> QED
      BY <3>2, <3>3, <3>4 DEF LinkAt, TurnedDown
  <2> QED
    BY <2>1, <2>2
<1>4. c # g
  BY DEF TurnedDown, Line
<1> QED
  BY <1>2, <1>3, <1>4 DEF Misleads

\* A new leaf at a NULL link is on no way that leads to a node.
LEMMA WayBesideLeaf ==
  ASSUME NEW ch, NEW r, NEW L \in SUBSET Node, NEW w, NEW m \in L, WayTo(ch, r, L, w, m),
         NEW e, LinkAt(ch, r, e) = NULL, NEW n, NEW ch2, NEW r2,
         LeafAt(ch, r, ch2, r2, L, e, n)
  PROVE  WayTo(ch2, r2, L \cup {n}, w, m)
<1>0. Way(ch, r, L, w) /\ Len(w) \in Nat /\ Len(w) >= 1 /\ w[1].parent = NULL
  BY WayLen DEF WayTo, Way
<1>s. Steps(ch, L, w)
  BY <1>0, WaySteps
<1>1. ASSUME NEW k \in 1..Len(w), LinkAt(ch, r, w[k]) # NULL
      PROVE  LinkAt(ch2, r2, w[k]) = LinkAt(ch, r, w[k])
  <2>1. CASE k = 1
    BY <2>1, <1>0, <1>1 DEF LinkAt, LeafAt
  <2>2. CASE k # 1
    <3>1. k \in 2..Len(w)
      BY <2>2, <1>0
    <3>2. w[k].parent \in L /\ w[k].dir \in Dir /\ w[k].parent # NULL
      BY <3>1, <1>s DEF Steps
    <3>3. ~(w[k].parent = e.parent /\ w[k].dir = e.dir)
      BY <3>2, <1>1 DEF LinkAt
    <3> QED
      BY <3>2, <3>3 DEF LinkAt, LeafAt
  <2> QED
    BY <2>1, <2>2
<1>2. ASSUME NEW k \in 1..(Len(w) - 1) PROVE LinkAt(ch2, r2, w[k]) = LinkAt(ch, r, w[k])
  <2>1. k \in 1..Len(w) /\ k + 1 \in 2..Len(w)
    BY <1>0
  <2>2. LinkAt(ch, r, w[k]) = w[k + 1].parent
    BY <1>0 DEF Way
  <2>3. w[k + 1].parent # NULL
    BY <2>1, <1>s DEF Steps
  <2> QED
    BY <2>1, <2>2, <2>3, <1>1
<1>3. \A k \in 2..Len(w) : w[k].parent \in L \cup {n}
  BY <1>s DEF Steps
<1>4. SameWay(ch, r, ch2, r2, L \cup {n}, w)
  BY <1>2, <1>3 DEF SameWay
<1>5. LinkAt(ch2, r2, Entry(w, 0)) = m
  <2>1. Entry(w, 0) = w[Len(w)] /\ Len(w) \in 1..Len(w)
    BY <1>0, WayEnd
  <2>2. LinkAt(ch, r, w[Len(w)]) = m /\ m # NULL
    BY <2>1, NullAssumption DEF WayTo
  <2> QED
    BY <2>1, <2>2, <1>1
<1> QED
  BY <1>0, <1>4, <1>5, WayChanged

\* An insertion that has found its place hangs a leaf at a NULL link.
LEMMA LeafLinked ==
  ASSUME Inv, InsertDescend, cur = NULL
  PROVE  /\ LeafAt(tree.child, tree.root, tree'.child, tree'.root, linked, Entry(rp, 0), target)
         /\ LinkAt(tree.child, tree.root, Entry(rp, 0)) = NULL
         /\ linked' = linked \cup {target}
<1>1. PICK D, B : Shape(D, B) /\ CallInv(D)
  BY DEF Inv
<1> DEFINE e == Entry(rp, 0)
           t == Hang(tree, e, target)
<1>2. /\ pc = "insert_descend" /\ linked' = linked \cup {target}
      /\ tree' = MakeLeaf(t, target)
  BY DEF InsertDescend
<1>3. /\ linked \in SUBSET Node /\ tree \in Tree /\ InsertDescendInv(D) /\ D[NULL] = {}
  BY <1>1, <1>2, QuietShape DEF Inv, Typed, CallInv, IsRb, IsTree
<1>4. /\ target \in Node /\ target \in Ptr /\ target \notin linked
      /\ WayTo(tree.child, tree.root, linked, rp, NULL)
  BY <1>3 DEF InsertDescendInv, Seeks, Ptr, Leads
<1>5. LinkAt(tree.child, tree.root, e) = NULL
  BY <1>4 DEF WayTo
<1>6. Place(e)
  BY <1>3, <1>4, WayPlace
<1> HIDE DEF e
<1>7. Hung(tree, t, e, target)
  BY <1>3, <1>4, <1>6, HangFields
<1> HIDE DEF t
<1>8. /\ tree'.root = t.root
      /\ \A x \in Node \ {target} : tree'.child[x] = t.child[x]
  <2>1. t \in Tree
    BY <1>7 DEF Hung
  <2> QED
    BY <2>1, <1>2, <1>4, MakeLeafFields
<1>9. LeafAt(tree.child, tree.root, tree'.child, tree'.root, linked, e, target)
  <2>1. ASSUME NEW x \in linked, NEW d \in Dir
        PROVE  tree'.child[x][d] = IF x = e.parent /\ d = e.dir THEN target ELSE tree.child[x][d]
    <3>1. x \in Node \ {target}
      BY <1>3, <1>4
    <3> QED
      BY <3>1, <1>7, <1>8 DEF Hung
  <2>2. tree'.root = IF e.parent = NULL THEN target ELSE tree.root
    BY <1>7, <1>8 DEF Hung
  <2> QED
    BY <2>1, <2>2 DEF LeafAt
<1> QED
  BY <1>2, <1>5, <1>9 DEF e

\* The turn of rb_insert_color that is to be taken rotates.
Rotating ==
  /\ IsRed(tree, Entry(rp, 0).parent)
  /\ IsBlack(tree, tree.child[Entry(rp, -1).parent][Opp(Entry(rp, -1).dir)])

\* What a turn does to the links: nothing, or it turns three nodes.
LEMMA InsertColorLinks ==
  ASSUME Inv, InsertColor
  PROVE  /\ linked' = linked
         /\ ~Rotating => tree'.child = tree.child /\ tree'.root = tree.root
         /\ Rotating =>
              /\ Line(tree.child, tree.root, linked, Entry(rp, -1).parent, Entry(rp, 0).parent, AtEnd)
              /\ \E c : TurnedDown(tree.child, tree.root, tree'.child, tree'.root, linked,
                                   Entry(rp, -1).parent, Entry(rp, 0).parent, AtEnd, c)
<1> DEFINE n == AtEnd
           q == Entry(rp, 0).parent
           g == Entry(rp, -1).parent
           dir == Entry(rp, -1).dir
           uncle == tree.child[g][Opp(dir)]
           t == InsertCase23(tree, rp)
<1>1. /\ pc = "insert_color" /\ linked' = linked
      /\ \/ IsBlack(tree, q) /\ tree' = rb_set_color(tree, tree.root, RB_BLACK)
         \/ /\ IsRed(tree, q) /\ IsRed(tree, uncle)
            /\ tree' = InsertCase1(tree, q, uncle, g)
         \/ /\ IsRed(tree, q) /\ IsBlack(tree, uncle)
            /\ tree' = rb_set_color(t, t.root, RB_BLACK)
  BY DEF InsertColor, InsertDone, Continue
<1>2. /\ tree \in Tree /\ linked \in SUBSET Node
      /\ n \in linked /\ tree.color[n] = RB_RED
      /\ WayTo(tree.child, tree.root, linked, rp, n)
      /\ SomeRb(tree.child, tree.root, tree.color, linked, NULL, NULL, {n})
  BY <1>1, InsertColorFacts
<1>3. PICK D, B : IsRb(tree.child, tree.root, tree.color, linked, D, B, NULL, NULL, {n})
  BY <1>2 DEF SomeRb
<1>4. IsTree(tree.child, tree.root, linked, D)
  BY <1>3 DEF IsRb
<1> HIDE DEF n
<1>5. ASSUME IsRed(tree, q) PROVE RedWay(tree, linked, rp, n)
  BY <1>2, <1>3, <1>5, RedParent
<1>6. CASE IsBlack(tree, q) /\ tree' = rb_set_color(tree, tree.root, RB_BLACK)
  <2>1. ~Rotating
    BY <1>6 DEF Rotating, IsBlack
  <2>2. tree.root \in Node
    <3>1. tree.root \in linked \cup {NULL} /\ D[tree.root] = linked /\ D[NULL] = {}
      BY <1>4 DEF IsTree
    <3> QED
      BY <3>1, <1>2
  <2>3. tree'.child = tree.child /\ tree'.root = tree.root
    BY <2>2, <1>2, <1>6, PaintFields
  <2> QED
    BY <2>1, <2>3, <1>1
<1>7. CASE /\ IsRed(tree, q) /\ IsRed(tree, uncle)
           /\ tree' = InsertCase1(tree, q, uncle, g)
  <2>1. ~Rotating
    BY <1>7 DEF Rotating, IsBlack
  <2>2. RedUp(tree, linked, n, q, Entry(rp, 0).dir, g, dir)
    BY <1>5, <1>7 DEF RedWay
  <2>3. q \in Node /\ g \in Node /\ uncle \in Node
    <3>1. q \in linked /\ g \in linked /\ dir \in Dir
      BY <2>2 DEF RedUp
    <3>2. Opp(dir) \in Dir /\ uncle # NULL
      BY <3>1, <1>7, Sides DEF IsRed
    <3>3. uncle \in linked \cup {NULL}
      BY <3>1, <3>2, <1>4 DEF IsTree
    <3> QED
      BY <3>1, <3>2, <3>3, <1>2
  <2> DEFINE t1 == rb_set_color(tree, q, RB_BLACK)
             t2 == rb_set_color(t1, uncle, RB_BLACK)
             t3 == rb_set_color(t2, g, RB_RED)
  <2> HIDE DEF q, g, uncle
  <2>4. t1 \in Tree /\ t1.root = tree.root /\ t1.child = tree.child
    BY <2>3, <1>2, PaintFields
  <2> HIDE DEF t1
  <2>5. t2 \in Tree /\ t2.root = t1.root /\ t2.child = t1.child
    BY <2>3, <2>4, PaintFields
  <2> HIDE DEF t2
  <2>6. t3.root = t2.root /\ t3.child = t2.child
    BY <2>3, <2>5, PaintFields
  <2>7. tree' = t3
    BY <1>7 DEF InsertCase1, t1, t2
  <2> HIDE DEF t3
  <2> QED
    BY <2>1, <2>4, <2>5, <2>6, <2>7, <1>1
<1>8. CASE /\ IsRed(tree, q) /\ IsBlack(tree, uncle)
           /\ tree' = rb_set_color(t, t.root, RB_BLACK)
  <2>1. Rotating
    BY <1>8 DEF Rotating
  <2>2. RedWay(tree, linked, rp, n)
    BY <1>5, <1>8
  <2>3. Line(tree.child, tree.root, linked, g, q, n)
    <3>1. RedUp(tree, linked, n, q, Entry(rp, 0).dir, g, dir)
      BY <2>2 DEF RedWay
    <3> QED
      BY <3>1, <1>2, <1>4, RedLine
  <2>4. \E c : TurnedDown(tree.child, tree.root, t.child, t.root, linked, g, q, n, c)
    BY <2>2, <1>2, <1>4, Case23Turns
  <2>5. tree'.child = t.child /\ tree'.root = t.root
    <3>1. IsBlack(tree, tree.child[Entry(rp, -1).parent][Opp(Entry(rp, -1).dir)])
      BY <1>8
    <3> HIDE DEF q, g, dir, uncle
    <3>2. Straightened(t, linked)
      BY <2>2, <3>1, <1>2, <1>3, Case23
    <3> HIDE DEF t
    <3>3. t \in Tree /\ t.root \in Node
      <4>1. PICK D1, B1 : IsRb(t.child, t.root, t.color, linked, D1, B1, NULL, NULL, {})
        BY <3>2 DEF Straightened, SomeRb
      <4>2. t.root \in linked \cup {NULL} /\ D1[t.root] = linked /\ D1[NULL] = {}
        BY <4>1 DEF IsRb, IsTree
      <4> QED
        BY <4>2, <3>2, <1>2 DEF Straightened
    <3> QED
      BY <3>3, <1>8, PaintFields
  <2> QED
    BY <2>1, <2>3, <2>4, <2>5, <1>1 DEF n
<1> QED
  BY <1>1, <1>6, <1>7, <1>8

\* The stack put aside is the way to its node, unless it is stale.
Aside ==
  wat # NULL /\ ~stale => wat \in linked /\ WayTo(tree.child, tree.root, linked, walk, wat)

\* With a cautious client the tree and the stack in use are as ever, and a
\* removal, which is what ends walks, has dropped the one put aside.
WalkInv ==
  /\ Inv
  /\ wat = NULL => walk = <<>>
  /\ pc \in {"successor", "remove_color"} => wat = NULL
  /\ pc \in Fixup => call.op # "next"
  /\ stale \in BOOLEAN
  /\ Aside

\* Steps that leave the links alone leave the stack put aside right.
LEMMA AsideKept ==
  ASSUME Aside, UNCHANGED <<walkVars, linked>>,
         wat # NULL => tree'.child = tree.child /\ tree'.root = tree.root
  PROVE  Aside'
<1>1. UNCHANGED <<walk, wat, stale>>
  BY DEF walkVars
<1>2. CASE wat = NULL
  BY <1>1, <1>2 DEF Aside
<1>3. CASE wat # NULL
  BY <1>1, <1>3 DEF Aside
<1> QED
  BY <1>2, <1>3

\* Putting the walk aside and taking it up.
LEMMA PutAsideStep == ASSUME WalkInv, PutAside PROVE WalkInv'
<1>1. PICK D, B : Shape(D, B) /\ CallInv(D)
  BY DEF WalkInv, Inv
<1>2. /\ pc = "idle" /\ at # NULL /\ walk' = rp /\ wat' = at /\ stale' = FALSE
      /\ rp' = <<>> /\ at' = NULL /\ UNCHANGED <<tree, linked, pc, call, target, cur, ret>>
  BY DEF PutAside
<1>3. IdleInv /\ Typed
  BY <1>1, <1>2 DEF CallInv, WalkInv, Inv
<1>4. Typed'
  BY <1>2, <1>3 DEF Typed, Ptr
<1>5. CallInv(D)'
  BY <1>2, <1>3 DEF CallInv, IdleInv
<1>6. Inv'
  BY <1>1, <1>2, <1>4, <1>5, ReadStep
<1>7. Aside'
  BY <1>2, <1>3 DEF Aside, IdleInv, Leads
<1> QED
  BY <1>2, <1>6, <1>7 DEF WalkInv, Fixup

\* A walk that is not stale is as good as when it was put aside.
LEMMA TakeUpStep == ASSUME Cautious, WalkInv, TakeUp PROVE WalkInv'
<1>1. PICK D, B : Shape(D, B) /\ CallInv(D)
  BY DEF WalkInv, Inv
<1>2. /\ pc = "idle" /\ wat # NULL /\ ~stale /\ rp' = walk /\ at' = wat
      /\ walk' = <<>> /\ wat' = NULL /\ stale' = FALSE
      /\ UNCHANGED <<tree, linked, pc, call, target, cur, ret>>
  BY DEF TakeUp, DropWalk
<1>3. IdleInv /\ Typed
  BY <1>1, <1>2 DEF CallInv, WalkInv, Inv
<1>4. wat \in linked /\ WayTo(tree.child, tree.root, linked, walk, wat)
  BY <1>2 DEF WalkInv, Aside
<1>5. Typed'
  BY <1>2, <1>3, <1>4 DEF Typed, Ptr
<1>6. CallInv(D)'
  BY <1>2, <1>3, <1>4 DEF CallInv, IdleInv, Leads
<1>7. Inv'
  BY <1>1, <1>2, <1>5, <1>6, ReadStep
<1>8. Aside'
  BY <1>2 DEF Aside
<1> QED
  BY <1>2, <1>7, <1>8 DEF WalkInv, Fixup

\* The grandparent that is to be turned down is on the stack put aside, so
\* there is one.
LEMMA TurnedOnWalk ==
  ASSUME WalkInv, InsertColor, Rotating, OnWalk(Entry(rp, -1).parent)
  PROVE  wat # NULL
<1>1. Entry(rp, -1).parent \in linked /\ linked \in SUBSET Node
  BY InsertColorLinks DEF WalkInv, Line, Inv, Typed
<1>2. Entry(rp, -1).parent # NULL
  BY <1>1, NullAssumption
<1>3. ASSUME wat = NULL PROVE FALSE
  <2>1. walk = <<>> /\ Len(walk) = 0
    BY <1>3 DEF WalkInv
  <2>2. \E k \in 1..Len(walk) : walk[k].parent = Entry(rp, -1).parent
    BY <1>2, <1>3 DEF OnWalk
  <2> QED
    BY <2>1, <2>2
<1> QED
  BY <1>3

\* An insert's fix-up keeps the stack right or is seen to rotate on it.
LEMMA WalkInsertColor ==
  ASSUME WalkInv, InsertColor, stale' = (stale \/ RotatesOnWalk), UNCHANGED <<walk, wat>>
  PROVE  WalkInv'
<1> DEFINE g == Entry(rp, -1).parent
           q == Entry(rp, 0).parent
<1>1. Inv'
  BY InsertColorStep DEF WalkInv
<1>2. RotatesOnWalk <=> Rotating /\ OnWalk(g)
  BY DEF RotatesOnWalk, Rotating
<1>3. Aside'
  <2> SUFFICES ASSUME wat' # NULL, ~stale'
               PROVE  wat' \in linked' /\ WayTo(tree'.child, tree'.root, linked', walk', wat')
    BY DEF Aside
  <2>1. /\ wat # NULL /\ ~stale /\ ~RotatesOnWalk
    OBVIOUS
  <2>2. wat \in linked /\ WayTo(tree.child, tree.root, linked, walk, wat)
    BY <2>1 DEF WalkInv, Aside
  <2>3. linked' = linked /\ linked \in SUBSET Node
    BY InsertColorLinks DEF WalkInv, Inv, Typed
  <2>4. CASE ~Rotating
    <3>1. tree'.child = tree.child /\ tree'.root = tree.root
      BY <2>4, InsertColorLinks DEF WalkInv
    <3> QED
      BY <3>1, <2>2, <2>3
  <2>5. CASE Rotating
    <3>1. PICK c : TurnedDown(tree.child, tree.root, tree'.child, tree'.root, linked,
                              g, q, AtEnd, c)
      BY <2>5, InsertColorLinks DEF WalkInv
    <3>2. Line(tree.child, tree.root, linked, g, q, AtEnd)
      BY <2>5, InsertColorLinks DEF WalkInv
    <3>3. wat # g /\ \A k \in 2..Len(walk) : walk[k].parent # g
      <4>1. ~OnWalk(g)
        BY <2>1, <2>5, <1>2
      <4>2. \A k \in 2..Len(walk) : k \in 1..Len(walk)
        OBVIOUS
      <4> QED
        BY <4>1, <4>2 DEF OnWalk
    <3> HIDE DEF g, q
    <3>4. WayTo(tree'.child, tree'.root, linked, walk, wat)
      BY <3>1, <3>2, <3>3, <2>2, <2>3, WayPassesBy
    <3> QED
      BY <3>4, <2>2, <2>3
  <2> QED
    BY <2>4, <2>5
<1>4. pc = "insert_color" /\ pc' \in {"idle", "insert_color"} /\ (pc' \in Fixup => call' = call)
  BY DEF InsertColor, InsertDone, Return, Continue, Fixup
<1>5. stale' \in BOOLEAN
  BY DEF WalkInv
<1> QED
  BY <1>1, <1>3, <1>4, <1>5 DEF WalkInv, Fixup

\* Linking a leaf keeps the stack right.
LEMMA WalkInsertDescend ==
  ASSUME WalkInv, InsertDescend, UNCHANGED walkVars
  PROVE  WalkInv'
<1>1. Inv'
  BY InsertDescendStep DEF WalkInv
<1>2. Aside'
  <2>1. CASE cur = NULL
    <3> SUFFICES ASSUME wat' # NULL, ~stale'
                 PROVE  wat' \in linked' /\ WayTo(tree'.child, tree'.root, linked', walk', wat')
      BY DEF Aside
    <3>1. walk' = walk /\ wat' = wat /\ wat # NULL /\ ~stale
      BY DEF walkVars
    <3>2. wat \in linked /\ WayTo(tree.child, tree.root, linked, walk, wat)
          /\ linked \in SUBSET Node
      BY <3>1 DEF WalkInv, Aside, Inv, Typed
    <3>3. /\ LeafAt(tree.child, tree.root, tree'.child, tree'.root, linked, Entry(rp, 0), target)
          /\ LinkAt(tree.child, tree.root, Entry(rp, 0)) = NULL
          /\ linked' = linked \cup {target}
      BY <2>1, LeafLinked DEF WalkInv
    <3>4. WayTo(tree'.child, tree'.root, linked \cup {target}, walk, wat)
      BY <3>2, <3>3, WayBesideLeaf
    <3> QED
      BY <3>1, <3>2, <3>3, <3>4
  <2>2. CASE cur # NULL
    <3>1. UNCHANGED <<tree, linked>>
      BY <2>2 DEF InsertDescend
    <3> QED
      BY <3>1, AsideKept DEF WalkInv
  <2> QED
    BY <2>1, <2>2
<1>3. pc = "insert_descend" /\ pc' \in {"insert_descend", "insert_color", "idle"}
      /\ (pc' = "insert_color" => call' = call)
  BY DEF InsertDescend, Return, Continue
<1>4. call.op = "insert"
  <2>1. PICK D, B : Shape(D, B) /\ CallInv(D)
    BY DEF WalkInv, Inv
  <2> QED
    BY <2>1, <1>3 DEF CallInv, InsertDescendInv
<1> QED
  BY <1>1, <1>2, <1>3, <1>4 DEF WalkInv, walkVars, Fixup

\* A step that reads the tree only.
LEMMA WalkRead ==
  ASSUME WalkInv, Inv', UNCHANGED <<walkVars, tree, linked>>,
         pc' \notin {"insert_color", "successor", "remove_color"}
  PROVE  WalkInv'
<1>1. Aside'
  BY AsideKept DEF WalkInv
<1> QED
  BY <1>1 DEF WalkInv, walkVars, Fixup

\* The steps after which nothing of the walk is left.
LEMMA WalkDropped ==
  ASSUME WalkInv, Inv', DropWalk, pc' \in Fixup => call'.op # "next"
  PROVE  WalkInv'
BY DEF WalkInv, DropWalk, Aside

\* The steps of a removal, which run when the walk has been dropped.
LEMMA WalkGone ==
  ASSUME WalkInv, Inv', UNCHANGED walkVars, wat = NULL, pc' \in Fixup => call'.op # "next"
  PROVE  WalkInv'
BY DEF WalkInv, walkVars, Aside

\* Every step of the tree keeps the invariant.
LEMMA WalkStepInv == ASSUME WalkInv, WalkStep PROVE WalkInv'
<1>0. Inv
  BY DEF WalkInv
<1>d. PICK D, B : Shape(D, B) /\ CallInv(D)
  BY <1>0 DEF Inv
<1>1. CASE InsertColor /\ stale' = (stale \/ RotatesOnWalk) /\ UNCHANGED <<walk, wat>>
  BY <1>1, WalkInsertColor
<1>2. CASE RB_ROOT_INIT /\ DropWalk
  <2>1. Inv' /\ pc' \notin Fixup
    BY <1>0, <1>2, RootInitStep DEF RB_ROOT_INIT, Fixup
  <2> QED
    BY <2>1, <1>2, WalkDropped
<1>3. CASE RbRemove /\ DropWalk
  <2>1. Inv'
    BY <1>0, <1>3, RbRemoveStep
  <2>2. call.op # "next"
    BY <1>d, <1>3 DEF RbRemove, CallInv, RemoveInv
  <2>3. pc' \in Fixup => call' = call
    BY <1>3 DEF RbRemove, Unlink, Return, Fixup
  <2> QED
    BY <2>1, <2>2, <2>3, <1>3, WalkDropped
<1>4. ASSUME NEW n \in Node, Insert(n), UNCHANGED walkVars PROVE WalkInv'
  <2>1. Inv' /\ UNCHANGED <<tree, linked>> /\ pc' = "insert_descend"
    BY <1>0, <1>4, InsertStep DEF Insert
  <2> QED
    BY <2>1, <1>4, WalkRead
<1>5. CASE RemoveNode /\ UNCHANGED walkVars
  <2>1. Inv' /\ UNCHANGED <<tree, linked>> /\ pc' = "rb_remove"
    BY <1>0, <1>5, RemoveNodeStep DEF RemoveNode
  <2> QED
    BY <2>1, <1>5, WalkRead
<1>6. ASSUME NEW k \in Key, NEW op \in {"find", "remove"}, Find(op, k), UNCHANGED walkVars
      PROVE  WalkInv'
  <2>1. Inv' /\ UNCHANGED <<tree, linked>> /\ pc' = "find"
    BY <1>0, <1>6, FindCall DEF Find
  <2> QED
    BY <2>1, <1>6, WalkRead
<1>7. ASSUME NEW op \in {"first", "last"}, Iter(op), UNCHANGED walkVars PROVE WalkInv'
  <2>1. Inv' /\ UNCHANGED <<tree, linked>> /\ pc' = "iter_down"
    BY <1>0, <1>7, IterStep DEF Iter
  <2> QED
    BY <2>1, <1>7, WalkRead
<1>8. ASSUME NEW op \in {"next", "prev"}, IterNext(op), UNCHANGED walkVars PROVE WalkInv'
  <2>1. Inv' /\ UNCHANGED <<tree, linked>> /\ pc' \in {"iter_down", "iter_up"}
    BY <1>0, <1>8, IterNextStep DEF IterNext
  <2> QED
    BY <2>1, <1>8, WalkRead
<1>9. CASE InsertDescend /\ UNCHANGED walkVars
  BY <1>9, WalkInsertDescend
<1>10. CASE FindStep /\ UNCHANGED walkVars
  <2>1. Inv' /\ UNCHANGED <<tree, linked>> /\ pc' \in {"find", "idle", "rb_remove"}
    BY <1>0, <1>10, FindStepStep DEF FindStep, Return, Continue
  <2> QED
    BY <2>1, <1>10, WalkRead
<1>11. CASE Successor /\ UNCHANGED walkVars
  <2>1. Inv' /\ wat = NULL
    BY <1>0, <1>11, SuccessorStep DEF Successor, WalkInv
  <2>2. call.op # "next"
    BY <1>d, <1>11 DEF Successor, CallInv, SuccessorInv, RemoveInv
  <2>3. pc' \in Fixup => call' = call
    BY <1>11 DEF Successor, Unlink, Return, Continue, Fixup
  <2> QED
    BY <2>1, <2>2, <2>3, <1>11, WalkGone
<1>12. CASE RemoveColor /\ UNCHANGED walkVars
  <2>1. Inv' /\ pc = "remove_color"
    BY <1>0, <1>12, RemoveColorStep DEF RemoveColor
  <2>2. wat = NULL /\ call.op # "next"
    BY <2>1 DEF WalkInv, Fixup
  <2>3. pc' \in Fixup => call' = call
    BY <1>12 DEF RemoveColor, RemoveDone, Return, Continue, Fixup
  <2> QED
    BY <2>1, <2>2, <2>3, <1>12, WalkGone
<1>13. CASE IterDown /\ UNCHANGED walkVars
  <2>1. Inv' /\ UNCHANGED <<tree, linked>> /\ pc' \in {"iter_down", "idle"}
    BY <1>0, <1>13, IterDownStep DEF IterDown, Return, Continue
  <2> QED
    BY <2>1, <1>13, WalkRead
<1>14. CASE IterUp /\ UNCHANGED walkVars
  <2>1. Inv' /\ UNCHANGED <<tree, linked>> /\ pc' \in {"iter_up", "idle"}
    BY <1>0, <1>14, IterUpStep DEF IterUp, Return, Continue
  <2> QED
    BY <2>1, <1>14, WalkRead
<1> QED
  BY <1>1, <1>2, <1>3, <1>4, <1>5, <1>6, <1>7, <1>8, <1>9, <1>10, <1>11, <1>12, <1>13, <1>14
     DEF WalkStep

\* So do the steps of a cautious client.
LEMMA WalkNextInv ==
  ASSUME Cautious, WalkInv, [WalkNext]_<<vars, walkVars>>
  PROVE  WalkInv'
<1>1. CASE UNCHANGED <<vars, walkVars>>
  <2>1. UNCHANGED vars /\ UNCHANGED walkVars
    BY <1>1
  <2>2. Inv'
    BY <2>1, InvNext DEF WalkInv
  <2>3. UNCHANGED <<tree, linked, pc, call>>
    BY <2>1 DEF vars
  <2>4. Aside'
    BY <2>1, <2>3, AsideKept DEF WalkInv
  <2> QED
    BY <2>1, <2>2, <2>3, <2>4 DEF WalkInv, walkVars
<1>2. CASE PutAside
  BY <1>2, PutAsideStep
<1>3. CASE TakeUp
  BY <1>3, TakeUpStep
<1>4. CASE WalkStep
  BY <1>4, WalkStepInv
<1> QED
  BY <1>1, <1>2, <1>3, <1>4 DEF WalkNext

\* The invariant says what WalkSurvives says.
LEMMA WalkInvSurvives == WalkInv => WalkSurvives
<1> SUFFICES ASSUME WalkInv, ~stale, NEW k \in 1..Len(walk)
             PROVE  LinkAt(tree.child, tree.root, walk[k])
                      = IF k < Len(walk) THEN walk[k + 1].parent ELSE wat
  BY DEF WalkSurvives, WalkLeads, LinkAt
<1>1. CASE wat = NULL
  <2>1. walk = <<>> /\ Len(walk) = 0
    BY <1>1 DEF WalkInv
  <2> QED
    BY <2>1
<1>2. CASE wat # NULL
  <2>1. Way(tree.child, tree.root, linked, walk) /\ linked \in SUBSET Node
        /\ LinkAt(tree.child, tree.root, Entry(walk, 0)) = wat
    BY <1>2 DEF WalkInv, Aside, WayTo, Inv, Typed
  <2>2. Len(walk) \in Nat
    BY <2>1, WayLen
  <2>3. CASE k < Len(walk)
    <3>1. k \in 1..(Len(walk) - 1)
      BY <2>2, <2>3
    <3> QED
      BY <3>1, <2>1, <2>3 DEF Way
  <2>4. CASE ~(k < Len(walk))
    <3>1. k = Len(walk) /\ Entry(walk, 0) = walk[Len(walk)]
      BY <2>2, <2>4 DEF Entry
    <3> QED
      BY <3>1, <2>1, <2>4
  <2> QED
    BY <2>3, <2>4
<1> QED
  BY <1>1, <1>2

\* A walk becomes stale only by a rotation that turns one of its entries away.
LEMMA StaleIsRuined ==
  ASSUME WalkInv, WalkNext, ~stale, stale'
  PROVE  ~WalkLeads'
<1> DEFINE g == Entry(rp, -1).parent
           q == Entry(rp, 0).parent
<1>1. InsertColor /\ RotatesOnWalk /\ walk' = walk /\ wat' = wat
  BY DEF WalkNext, PutAside, TakeUp, DropWalk, WalkStep, walkVars
<1>2. Rotating /\ OnWalk(g)
  BY <1>1 DEF RotatesOnWalk, Rotating
<1>3. wat # NULL
  BY <1>1, <1>2, TurnedOnWalk
<1>4. WayTo(tree.child, tree.root, linked, walk, wat) /\ linked \in SUBSET Node
  BY <1>3 DEF WalkInv, Aside, Inv, Typed
<1>5. Line(tree.child, tree.root, linked, g, q, AtEnd)
  BY <1>1, <1>2, InsertColorLinks DEF WalkInv
<1>6. PICK c : TurnedDown(tree.child, tree.root, tree'.child, tree'.root, linked, g, q, AtEnd, c)
  BY <1>1, <1>2, InsertColorLinks DEF WalkInv
<1>7. Names(walk, wat, g)
  BY <1>2 DEF OnWalk, Names
<1> HIDE DEF g, q
<1>8. Misleads(tree'.child, tree'.root, walk, wat)
  BY <1>4, <1>5, <1>6, <1>7, WayBroken
<1> QED
  BY <1>8, <1>1 DEF WalkLeads, Misleads, LinkAt

\* The client's stacks are none of the tree's business.
LEMMA WalkStepNext == ASSUME WalkStep PROVE Next
BY DEF WalkStep, Next, Client, Library

\* Putting a walk aside or taking it up is no call.
LEMMA WalkRefines ==
  ASSUME WalkInv, [WalkNext]_<<vars, walkVars>>
  PROVE  [Set!Next]_(Set!setVars)
<1>1. CASE UNCHANGED <<vars, walkVars>>
  BY <1>1 DEF vars, Set!setVars
<1>2. CASE PutAside \/ TakeUp
  BY <1>2 DEF PutAside, TakeUp, Set!setVars
<1>3. CASE WalkStep
  BY <1>3, WalkStepNext, NextRefines DEF WalkInv
<1> QED
  BY <1>1, <1>2, <1>3 DEF WalkNext

\* A step that ends rb_next gives the answer of the ordered set.
LEMMA NextAnswers ==
  ASSUME WalkInv, [WalkNext]_<<vars, walkVars>>
  PROVE  [pc # "idle" /\ pc' = "idle" /\ call.op = "next" => ret' = Set!Answer(call)]_vars
<1> SUFFICES ASSUME pc # "idle", pc' = "idle", call.op = "next"
             PROVE  ret' = Set!Answer(call)
  OBVIOUS
<1>1. pc \notin Fixup /\ pc' \notin Fixup
  BY DEF WalkInv, Fixup
<1>2. WalkStep
  BY DEF WalkNext, PutAside, TakeUp, vars
<1>3. IterDown \/ IterUp
  <2>1. PICK D, B : Shape(D, B) /\ CallInv(D)
    BY DEF WalkInv, Inv
  <2>2. pc \notin {"insert_descend", "find", "rb_remove", "successor"}
    BY <2>1 DEF CallInv, InsertDescendInv, FindInv, RemoveInv, SuccessorInv
  <2> QED
    BY <2>2, <1>1, <1>2 DEF WalkStep, RB_ROOT_INIT, RbRemove, Insert, RemoveNode, Find, Iter, IterNext,
       Call, InsertDescend, InsertColor, FindStep, Successor, RemoveColor, Fixup
<1>4. call' = None
  BY <1>3 DEF IterDown, IterUp, Return, Continue
<1>5. [Set!Next]_(Set!setVars)
  BY WalkRefines
<1>6. ~UNCHANGED Set!setVars
  BY <1>1, <1>4 DEF Set!setVars, Fixup, None
<1>7. Set!Apply
  BY <1>1, <1>4, <1>5, <1>6 DEF Set!Next, Set!Reset, Set!Invoke, Set!Reply, Set!None, Set!Request,
     None, Fixup
<1> QED
  BY <1>1, <1>4, <1>7 DEF Set!Apply, None, Fixup

\* A cautious client's two walks and inserts keep the invariant.
LEMMA WalkInvariance == ASSUME Cautious PROVE WalkSpec => []WalkInv
<1>1. WalkInit => WalkInv
  BY InvInit DEF WalkInit, WalkInv, Aside, Init, Fixup
<1>2. WalkInv /\ [WalkNext]_<<vars, walkVars>> => WalkInv'
  BY WalkNextInv
<1> QED
  BY <1>1, <1>2, PTL DEF WalkSpec

\* An RB_PATH put aside outlives other walks and any number of RB_INSERTs, in a
\* tree of any size, as long as rb_insert_color rotates down no node on it.
THEOREM WalksSurvive == ASSUME Cautious PROVE WalkSpec => []WalkSurvives
<1>1. WalkInv => WalkSurvives
  BY WalkInvSurvives
<1> QED
  BY <1>1, WalkInvariance, PTL

\* The rule is not too strict: every rotation of rb_insert_color on the stack
\* leaves an entry that leads somewhere else.
THEOREM WalksRuined == ASSUME Cautious PROVE WalkSpec => RotationRuinsWalk
<1>1. WalkInv /\ [WalkNext]_<<vars, walkVars>>
        => [~stale /\ stale' => ~WalkLeads']_<<vars, walkVars>>
  BY StaleIsRuined
<1> QED
  BY <1>1, WalkInvariance, PTL DEF WalkSpec, RotationRuinsWalk

\* A client that keeps to the rule is answered as by an ordered set, by
\* rb_next and rb_prev on both of its stacks, with inserts in between.
THEOREM WalksRefine == ASSUME Cautious PROVE WalkSpec => ImplementsOrderedSet
<1>1. WalkInit => Set!Init
  BY DEF WalkInit, Init, Set!Init, None, Set!None
<1>2. WalkInv /\ [WalkNext]_<<vars, walkVars>> => [Set!Next]_(Set!setVars)
  BY WalkRefines
<1> QED
  BY <1>1, <1>2, WalkInvariance, PTL DEF WalkSpec, ImplementsOrderedSet, Set!Spec

\* What the header says of rb_next, and a client that inserts during a walk
\* may find false, is true for one that keeps to the rule.
THEOREM CautiousNext == ASSUME Cautious PROVE WalkSpec => NextIsSuccessor
<1>1. WalkInv /\ [WalkNext]_<<vars, walkVars>>
        => [pc # "idle" /\ pc' = "idle" /\ call.op = "next" => ret' = Set!Answer(call)]_vars
  BY NextAnswers
<1> QED
  BY <1>1, WalkInvariance, PTL DEF WalkSpec, NextIsSuccessor
=============================================================================
