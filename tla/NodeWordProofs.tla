--------------------------- MODULE NodeWordProofs ---------------------------
(***************************************************************************)
(* Proofs about NodeWord for every pointer width and every set of even     *)
(* addresses: that the tree modules may treat pointer and colour as two    *)
(* fields.                                                                 *)
(***************************************************************************)
EXTENDS NodeWord, TLAPS

\* Every word keeps a value of its width.
WordsFit ==
  /\ rb_parent_color \in [Addr -> Word]
  /\ rb_child_color \in [Addr -> [Dir -> Word]]

-----------------------------------------------------------------------------
(* Bits and words.                                                         *)

\* A pointer is an even number, and it fits a word together with a colour.
LEMMA PointerEven ==
  ASSUME NEW p \in Ptr
  PROVE  /\ p \in Nat /\ p % 2 = 0
         /\ Addr # {} => p + 1 < WordMod
<1>1. CASE p = 0
  <2>1. ASSUME NEW a \in Addr PROVE 1 < WordMod
    <3>1. a \in 1..(WordMod - 1) /\ WordMod \in Nat
      BY <2>1, WordAssumption, AlignAssumption
    <3> QED
      BY <3>1
  <2> QED
    BY <1>1, <2>1
<1>2. CASE p \in Addr
  <2>1. p \in 1..(WordMod - 1) /\ p % 2 = 0 /\ WordMod \in Nat /\ WordMod % 2 = 0
    BY <1>2, WordAssumption, AlignAssumption
  <2> QED
    BY <2>1
<1> QED
  BY <1>1, <1>2 DEF Ptr, Fields!Ptr

\* Colours are bits, and sides are two different indexes.
LEMMA Constants ==
  /\ Color = {0, 1} /\ Dir = {L, R} /\ L = 0 /\ R = 1
  /\ Fields!Dir = Dir /\ Fields!RB_LEFT = L /\ Fields!RB_RIGHT = R
BY DEF Color, Dir, L, R, Fields!RB_RED, Fields!RB_BLACK, Fields!Dir, Fields!RB_LEFT, Fields!RB_RIGHT

\* p | c reads back as p and c.
LEMMA WithBitReads ==
  ASSUME NEW p \in Ptr, NEW c \in {0, 1}
  PROVE  /\ Address(WithBit(p, c)) = p /\ LowBit(WithBit(p, c)) = c
         /\ Addr # {} => WithBit(p, c) \in Word
<1>1. p \in Nat /\ p % 2 = 0 /\ (Addr # {} => p + 1 < WordMod) /\ WordMod \in Nat
  BY PointerEven, WordAssumption
<1>2. WithBit(p, c) = p + c
  BY <1>1 DEF WithBit
<1>3. (p + c) % 2 = c
  BY <1>1
<1> QED
  BY <1>1, <1>2, <1>3 DEF Address, LowBit, Word

\* A new pointer leaves the colour of the word.
LEMMA SetPtrReads ==
  ASSUME NEW w \in Word, NEW p \in Ptr
  PROVE  /\ Address(SetPtr(w, p)) = p /\ LowBit(SetPtr(w, p)) = LowBit(w)
         /\ Addr # {} => SetPtr(w, p) \in Word
<1>1. LowBit(w) \in {0, 1}
  BY WordAssumption DEF LowBit, Word
<1> QED
  BY <1>1, WithBitReads DEF SetPtr

\* A new colour leaves the pointer of the word, whatever that points at.
LEMMA SetBitReads ==
  ASSUME NEW w \in Word, NEW c \in {0, 1}
  PROVE  /\ Address(SetBit(w, c)) = Address(w) /\ LowBit(SetBit(w, c)) = c
         /\ SetBit(w, c) \in Word
<1>1. w \in Nat /\ w < WordMod /\ WordMod \in Nat /\ WordMod % 2 = 0
  BY WordAssumption DEF Word
<1>2. PICK h \in Nat : Address(w) = 2 * h /\ w \in {2 * h, 2 * h + 1}
  <2>1. w = 2 * (w \div 2) + (w % 2) /\ w \div 2 \in Nat /\ w % 2 \in {0, 1}
    BY <1>1
  <2> QED
    BY <2>1 DEF Address
<1>3. WithBit(2 * h, c) = 2 * h + c /\ (2 * h + c) % 2 = c
  BY DEF WithBit
<1>4. 2 * h + c < WordMod
  BY <1>1, <1>2
<1> QED
  BY <1>1, <1>2, <1>3, <1>4 DEF SetBit, Address, LowBit, Word

-----------------------------------------------------------------------------
(* The setters of RbNode on the fields the getters read.                   *)

ParentFields == [parent : [Addr -> Int], color : [Addr -> Int]]
ChildFields == [child : [Addr -> [Dir -> Int]], color : [Addr -> Int]]

\* A record is its fields.
LEMMA FieldsOnly ==
  /\ \A v \in ParentFields : v = [parent |-> v.parent, color |-> v.color]
  /\ \A v \in ChildFields : v = [child |-> v.child, color |-> v.color]
BY DEF ParentFields, ChildFields

\* What the setters of rbtree.h do to a view, field by field.
LEMMA ParentSetters ==
  ASSUME NEW v \in ParentFields, NEW n \in Addr, NEW p \in Int, NEW c \in Int
  PROVE  /\ Fields!rb_set_parent(v, n, p) =
              [parent |-> [v.parent EXCEPT ![n] = p], color |-> v.color]
         /\ Fields!rb_set_parent_color(v, n, p, c) =
              [parent |-> [v.parent EXCEPT ![n] = p], color |-> [v.color EXCEPT ![n] = c]]
         /\ Fields!rb_set_color(v, n, c) =
              [parent |-> v.parent, color |-> [v.color EXCEPT ![n] = c]]
<1>1. Fields!rb_set_parent(v, n, p) =
        [parent |-> [v.parent EXCEPT ![n] = p], color |-> v.color]
  <2> DEFINE w == Fields!rb_set_parent(v, n, p)
  <2>1. w \in ParentFields /\ w.parent = [v.parent EXCEPT ![n] = p] /\ w.color = v.color
    BY DEF ParentFields, Fields!rb_set_parent
  <2> HIDE DEF w
  <2>2. w = [parent |-> w.parent, color |-> w.color]
    BY <2>1, FieldsOnly
  <2>3. w = [parent |-> [v.parent EXCEPT ![n] = p], color |-> v.color]
    BY <2>1, <2>2
  <2> QED
    BY <2>3 DEF w
<1>2. Fields!rb_set_parent_color(v, n, p, c) =
        [parent |-> [v.parent EXCEPT ![n] = p], color |-> [v.color EXCEPT ![n] = c]]
  <2> DEFINE w == Fields!rb_set_parent_color(v, n, p, c)
  <2>1. /\ w \in ParentFields
        /\ w.parent = [v.parent EXCEPT ![n] = p] /\ w.color = [v.color EXCEPT ![n] = c]
    BY DEF ParentFields, Fields!rb_set_parent_color
  <2> HIDE DEF w
  <2>2. w = [parent |-> w.parent, color |-> w.color]
    BY <2>1, FieldsOnly
  <2>3. w = [parent |-> [v.parent EXCEPT ![n] = p], color |-> [v.color EXCEPT ![n] = c]]
    BY <2>1, <2>2
  <2> QED
    BY <2>3 DEF w
<1>3. Fields!rb_set_color(v, n, c) =
        [parent |-> v.parent, color |-> [v.color EXCEPT ![n] = c]]
  <2> DEFINE w == Fields!rb_set_color(v, n, c)
  <2>1. w \in ParentFields /\ w.parent = v.parent /\ w.color = [v.color EXCEPT ![n] = c]
    BY DEF ParentFields, Fields!rb_set_color
  <2> HIDE DEF w
  <2>2. w = [parent |-> w.parent, color |-> w.color]
    BY <2>1, FieldsOnly
  <2>3. w = [parent |-> v.parent, color |-> [v.color EXCEPT ![n] = c]]
    BY <2>1, <2>2
  <2> QED
    BY <2>3 DEF w
<1> QED
  BY <1>1, <1>2, <1>3

(* What the setters of rbtree_compact.h do to a view, field by field. *)

\* rb_set_child replaces one child.
LEMMA SetChild ==
  ASSUME NEW v \in ChildFields, NEW n \in Addr, NEW dir \in Dir, NEW p \in Int
  PROVE  Fields!rb_set_child(v, n, dir, p) =
           [child |-> [v.child EXCEPT ![n][dir] = p], color |-> v.color]
<1> DEFINE w == Fields!rb_set_child(v, n, dir, p)
<1>2. w \in ChildFields /\ w.child = [v.child EXCEPT ![n][dir] = p] /\ w.color = v.color
  BY DEF ChildFields, Fields!rb_set_child
<1> HIDE DEF w
<1>3. w = [child |-> [v.child EXCEPT ![n][dir] = p], color |-> v.color]
  BY <1>2, FieldsOnly
<1> QED
  BY <1>3 DEF w

\* rb_set_left_child_color replaces the left child and the colour.
LEMMA SetLeft ==
  ASSUME NEW v \in ChildFields, NEW n \in Addr, NEW p \in Int, NEW c \in Int
  PROVE  Fields!rb_set_left_child_color(v, n, p, c) =
           [child |-> [v.child EXCEPT ![n][L] = p], color |-> [v.color EXCEPT ![n] = c]]
<1> DEFINE w == Fields!rb_set_left_child_color(v, n, p, c)
<1>1. Fields!RB_LEFT = L /\ Fields!RB_RIGHT = R /\ L \in Dir /\ R \in Dir
  BY Constants
<1>2. /\ w \in ChildFields
      /\ w.child = [v.child EXCEPT ![n][L] = p] /\ w.color = [v.color EXCEPT ![n] = c]
  BY <1>1 DEF ChildFields, Fields!rb_set_left_child_color
<1> HIDE DEF w
<1>3. w = [child |-> [v.child EXCEPT ![n][L] = p], color |-> [v.color EXCEPT ![n] = c]]
  BY <1>2, FieldsOnly
<1> QED
  BY <1>3 DEF w

\* rb_set_right_child replaces the right child.
LEMMA SetRight ==
  ASSUME NEW v \in ChildFields, NEW n \in Addr, NEW p \in Int
  PROVE  Fields!rb_set_right_child(v, n, p) =
           [child |-> [v.child EXCEPT ![n][R] = p], color |-> v.color]
<1> DEFINE w == Fields!rb_set_right_child(v, n, p)
<1>1. Fields!RB_LEFT = L /\ Fields!RB_RIGHT = R /\ L \in Dir /\ R \in Dir
  BY Constants
<1>2. w \in ChildFields /\ w.child = [v.child EXCEPT ![n][R] = p] /\ w.color = v.color
  BY <1>1 DEF ChildFields, Fields!rb_set_right_child
<1> HIDE DEF w
<1>3. w = [child |-> [v.child EXCEPT ![n][R] = p], color |-> v.color]
  BY <1>2, FieldsOnly
<1> QED
  BY <1>3 DEF w

\* rb_set_color replaces the colour.
LEMMA SetColor ==
  ASSUME NEW v \in ChildFields, NEW n \in Addr, NEW c \in Int
  PROVE  Fields!rb_set_color(v, n, c) =
           [child |-> v.child, color |-> [v.color EXCEPT ![n] = c]]
<1> DEFINE w == Fields!rb_set_color(v, n, c)
<1>2. w \in ChildFields /\ w.child = v.child /\ w.color = [v.color EXCEPT ![n] = c]
  BY DEF ChildFields, Fields!rb_set_color
<1> HIDE DEF w
<1>3. w = [child |-> v.child, color |-> [v.color EXCEPT ![n] = c]]
  BY <1>2, FieldsOnly
<1> QED
  BY <1>3 DEF w

\* A copy sets what it reads.
LEMMA CopySetters ==
  ASSUME NEW v \in ChildFields, NEW n \in Addr, NEW src \in Addr
  PROVE  /\ Fields!rb_copy_left_child_color(v, n, src) =
              [child |-> [v.child EXCEPT ![n][L] = v.child[src][L]],
               color |-> [v.color EXCEPT ![n] = v.color[src]]]
         /\ Fields!rb_copy_right_child(v, n, src) =
              [child |-> [v.child EXCEPT ![n][R] = v.child[src][R]], color |-> v.color]
<1>1. Fields!RB_LEFT = L /\ Fields!RB_RIGHT = R /\ L \in Dir /\ R \in Dir
  BY Constants
<1>2. v.child[src][L] \in Int /\ v.child[src][R] \in Int /\ v.color[src] \in Int
  BY <1>1 DEF ChildFields
<1>3. Fields!rb_copy_left_child_color(v, n, src)
        = Fields!rb_set_left_child_color(v, n, v.child[src][L], v.color[src])
  BY <1>1, Zenon DEF Fields!rb_copy_left_child_color, Fields!rb_set_left_child_color
<1>4. Fields!rb_copy_right_child(v, n, src) = Fields!rb_set_right_child(v, n, v.child[src][R])
  BY <1>1, Zenon DEF Fields!rb_copy_right_child, Fields!rb_set_right_child
<1> QED
  <2>1. Fields!rb_copy_left_child_color(v, n, src) =
          [child |-> [v.child EXCEPT ![n][L] = v.child[src][L]],
           color |-> [v.color EXCEPT ![n] = v.color[src]]]
    BY <1>2, <1>3, SetLeft, Zenon
  <2>2. Fields!rb_copy_right_child(v, n, src) =
          [child |-> [v.child EXCEPT ![n][R] = v.child[src][R]], color |-> v.color]
    BY <1>2, <1>4, SetRight, Zenon
  <2> QED
    BY <2>1, <2>2
\* The views have such fields.
LEMMA ViewTypes == WordsFit => ParentView \in ParentFields /\ ChildView \in ChildFields
<1> SUFFICES ASSUME WordsFit PROVE ParentView \in ParentFields /\ ChildView \in ChildFields
  OBVIOUS
<1>1. \A w \in Word : Address(w) \in Int /\ LowBit(w) \in Int
  BY WordAssumption DEF Word, Address, LowBit
<1>2. L \in Dir
  BY Constants
<1> QED
  BY <1>1, <1>2 DEF WordsFit, ParentView, ChildView, ParentFields, ChildFields

-----------------------------------------------------------------------------
\* Memory that starts as anything holds words.
LEMMA InitFits == Init => WordsFit
<1> SUFFICES ASSUME Init PROVE WordsFit
  OBVIOUS
<1>1. \A n \in Addr : 0 \in Word
  BY WordAssumption, AlignAssumption DEF Word
<1> QED
  BY <1>1 DEF Init, WordsFit, NoParent, NoChild

\* Every accessor stores words.
LEMMA NextFits == WordsFit /\ [Next]_vars => WordsFit'
<1> SUFFICES ASSUME WordsFit, [Next]_vars PROVE WordsFit'
  OBVIOUS
<1>1. CASE UNCHANGED vars
  BY <1>1 DEF vars, WordsFit
<1>2. ASSUME NEW n \in Addr, NEW w \in Word, SetParentWord(n, w) PROVE WordsFit'
  BY <1>2 DEF SetParentWord, WordsFit
<1>3. ASSUME NEW n \in Addr, NEW dir \in Dir, NEW w \in Word, SetChildWord(n, dir, w)
      PROVE  WordsFit'
  BY <1>3 DEF SetChildWord, WordsFit
<1>4. ASSUME NEW n \in Addr, ParentStep(n) PROVE WordsFit'
  <2>1. rb_parent_color[n] \in Word
    BY DEF WordsFit
  <2>2. PICK p \in Ptr, c \in Color :
          rb_set_parent(n, p) \/ rb_set_parent_color(n, p, c) \/ rb_set_color(n, c)
    BY <1>4 DEF ParentStep
  <2>3. c \in {0, 1} /\ LowBit(c) \in {0, 1}
    BY Constants DEF LowBit
  <2>4. CASE rb_set_parent(n, p)
    BY <1>2, <2>1, <2>4, SetPtrReads DEF rb_set_parent
  <2>5. CASE rb_set_parent_color(n, p, c)
    BY <1>2, <2>3, <2>5, WithBitReads DEF rb_set_parent_color
  <2>6. CASE rb_set_color(n, c)
    BY <1>2, <2>1, <2>3, <2>6, SetBitReads DEF rb_set_color
  <2> QED
    BY <2>2, <2>4, <2>5, <2>6
<1>5. ASSUME NEW n \in Addr, ChildStep(n) PROVE WordsFit'
  <2>0. L \in Dir /\ R \in Dir /\ Color = {0, 1}
    BY Constants
  <2>1. \A m \in Addr, dir \in Dir : rb_child_color[m][dir] \in Word
    BY DEF WordsFit
  <2>2. ASSUME NEW p \in Ptr, NEW dir \in Dir, compact_rb_set_child(n, dir, p) PROVE WordsFit'
    BY <1>3, <2>1, <2>2, SetPtrReads DEF compact_rb_set_child
  <2>3. ASSUME NEW p \in Ptr, NEW c \in Color, rb_set_left_child_color(n, p, c) PROVE WordsFit'
    BY <1>3, <2>0, <2>3, WithBitReads DEF rb_set_left_child_color
  <2>4. ASSUME NEW p \in Ptr, rb_set_right_child(n, p) PROVE WordsFit'
    <3>1. p \in Word
      BY PointerEven, WordAssumption DEF Word
    <3> QED
      BY <1>3, <2>0, <2>4, <3>1 DEF rb_set_right_child
  <2>5. ASSUME NEW src \in Addr, rb_copy_left_child_color(n, src) PROVE WordsFit'
    BY <1>3, <2>0, <2>1, <2>5 DEF rb_copy_left_child_color
  <2>6. ASSUME NEW src \in Addr, rb_copy_right_child(n, src) PROVE WordsFit'
    BY <1>3, <2>0, <2>1, <2>6 DEF rb_copy_right_child
  <2>7. ASSUME NEW c \in Color, compact_rb_set_color(n, c) PROVE WordsFit'
    BY <1>3, <2>0, <2>1, <2>7, SetBitReads DEF compact_rb_set_color
  <2> QED
    BY <1>5, <2>2, <2>3, <2>4, <2>5, <2>6, <2>7 DEF ChildStep
<1> QED
  BY <1>1, <1>4, <1>5 DEF Next

\* Whatever words the nodes hold, the getters of rbtree.h see each setter
\* change its own field.
LEMMA ParentFaithful == WordsFit => ParentStepFaithful
<1> SUFFICES ASSUME WordsFit, NEW n \in Addr, NEW p \in Ptr, NEW c \in Color
             PROVE  /\ rb_set_parent(n, p) => ParentView' = Fields!rb_set_parent(ParentView, n, p)
                    /\ rb_set_parent_color(n, p, c) =>
                         ParentView' = Fields!rb_set_parent_color(ParentView, n, p, c)
                    /\ rb_set_color(n, c) => ParentView' = Fields!rb_set_color(ParentView, n, c)
  BY DEF ParentStepFaithful
<1>1. /\ rb_parent_color \in [Addr -> Word] /\ rb_parent_color[n] \in Word
      /\ c \in {0, 1} /\ c \in Int /\ p \in Int /\ LowBit(c) = c
      /\ ParentView \in ParentFields
  BY Constants, PointerEven, ViewTypes DEF WordsFit, LowBit
<1>2. ASSUME NEW w, SetParentWord(n, w)
      PROVE  ParentView' = [parent |-> [ParentView.parent EXCEPT ![n] = Address(w)],
                            color  |-> [ParentView.color EXCEPT ![n] = LowBit(w)]]
  BY <1>1, <1>2 DEF SetParentWord, ParentView
<1>3. /\ ParentView.parent[n] = Address(rb_parent_color[n])
      /\ ParentView.color[n] = LowBit(rb_parent_color[n])
      /\ ParentView.parent \in [Addr -> {Address(rb_parent_color[m]) : m \in Addr}]
      /\ ParentView.color \in [Addr -> {LowBit(rb_parent_color[m]) : m \in Addr}]
  BY DEF ParentView
<1>4. rb_set_parent(n, p) => ParentView' = Fields!rb_set_parent(ParentView, n, p)
  <2> SUFFICES ASSUME rb_set_parent(n, p) PROVE ParentView' = Fields!rb_set_parent(ParentView, n, p)
    OBVIOUS
  <2>1. ParentView' = [parent |-> [ParentView.parent EXCEPT ![n] = p],
                       color  |-> [ParentView.color EXCEPT ![n] = ParentView.color[n]]]
    BY <1>1, <1>2, <1>3, SetPtrReads DEF rb_set_parent
  <2>2. [ParentView.color EXCEPT ![n] = ParentView.color[n]] = ParentView.color
    BY <1>3
  <2> QED
    BY <1>1, <2>1, <2>2, ParentSetters
<1>5. rb_set_parent_color(n, p, c) =>
        ParentView' = Fields!rb_set_parent_color(ParentView, n, p, c)
  <2> SUFFICES ASSUME rb_set_parent_color(n, p, c)
               PROVE  ParentView' = Fields!rb_set_parent_color(ParentView, n, p, c)
    OBVIOUS
  <2>1. ParentView' = [parent |-> [ParentView.parent EXCEPT ![n] = p],
                       color  |-> [ParentView.color EXCEPT ![n] = c]]
    BY <1>1, <1>2, WithBitReads DEF rb_set_parent_color
  <2> QED
    BY <1>1, <2>1, ParentSetters
<1>6. rb_set_color(n, c) => ParentView' = Fields!rb_set_color(ParentView, n, c)
  <2> SUFFICES ASSUME rb_set_color(n, c) PROVE ParentView' = Fields!rb_set_color(ParentView, n, c)
    OBVIOUS
  <2>1. ParentView' = [parent |-> [ParentView.parent EXCEPT ![n] = ParentView.parent[n]],
                       color  |-> [ParentView.color EXCEPT ![n] = c]]
    BY <1>1, <1>2, <1>3, SetBitReads DEF rb_set_color
  <2>2. [ParentView.parent EXCEPT ![n] = ParentView.parent[n]] = ParentView.parent
    BY <1>3
  <2> QED
    BY <1>1, <2>1, <2>2, ParentSetters
<1> QED
  BY <1>4, <1>5, <1>6

\* The same for rbtree_compact.h: the word of a side reads as its child, the
\* left one as the colour too.
LEMMA ChildFaithful == WordsFit => ChildStepFaithful
<1> SUFFICES ASSUME WordsFit PROVE ChildStepFaithful
  OBVIOUS
<1>c. /\ Color = {0, 1} /\ Dir = {L, R} /\ L = 0 /\ R = 1 /\ L \in Dir /\ R \in Dir
      /\ Fields!RB_LEFT = L /\ Fields!RB_RIGHT = R
  BY Constants
<1>w. /\ rb_child_color \in [Addr -> [Dir -> Word]]
      /\ \A m \in Addr, dir \in Dir : rb_child_color[m][dir] \in Word
  BY DEF WordsFit
<1> DEFINE child == ChildView.child
           color == ChildView.color
<1>1. /\ child = [m \in Addr |-> [dir \in Dir |-> Address(rb_child_color[m][dir])]]
      /\ color = [m \in Addr |-> LowBit(rb_child_color[m][L])]
      /\ ChildView \in ChildFields
  BY ViewTypes DEF ChildView
<1>2. ASSUME NEW n \in Addr, NEW dir \in Dir, NEW w, SetChildWord(n, dir, w)
      PROVE  ChildView' = [child |-> [child EXCEPT ![n][dir] = Address(w)],
                           color |-> IF dir = L THEN [color EXCEPT ![n] = LowBit(w)] ELSE color]
  <2>1. rb_child_color' = [rb_child_color EXCEPT ![n][dir] = w]
    BY <1>2 DEF SetChildWord
  <2>2. [m \in Addr |-> [d \in Dir |-> Address(rb_child_color'[m][d])]]
          = [child EXCEPT ![n][dir] = Address(w)]
    <3> DEFINE new == [m \in Addr |-> [d \in Dir |-> Address(rb_child_color'[m][d])]]
               old == [child EXCEPT ![n][dir] = Address(w)]
    <3>1. ASSUME NEW m \in Addr, NEW d \in Dir PROVE new[m][d] = old[m][d]
      <4>1. rb_child_color'[m][d] = IF m = n /\ d = dir THEN w ELSE rb_child_color[m][d]
        BY <2>1, <1>w
      <4>2. old[m][d] = IF m = n /\ d = dir THEN Address(w) ELSE child[m][d]
        BY <1>1
      <4> QED
        BY <4>1, <4>2, <1>1
    <3>2. new = [m \in Addr |-> [d \in Dir |-> new[m][d]]]
      OBVIOUS
    <3>3. old = [m \in Addr |-> [d \in Dir |-> old[m][d]]]
      <4> DEFINE S == Int \cup {Address(w)}
      <4>1. child \in [Addr -> [Dir -> S]]
        BY <1>1 DEF ChildFields
      <4>2. old \in [Addr -> [Dir -> S]]
        BY <4>1
      <4> QED
        BY <4>2
    <3> HIDE DEF new, old
    <3>4. new = old
      BY <3>1, <3>2, <3>3
    <3> QED
      BY <3>4 DEF new, old
  <2>3. [m \in Addr |-> LowBit(rb_child_color'[m][L])]
          = IF dir = L THEN [color EXCEPT ![n] = LowBit(w)] ELSE color
    BY <2>1, <1>1, <1>w, <1>c
  <2> QED
    BY <2>2, <2>3 DEF ChildView
<1> HIDE DEF child, color
<1> SUFFICES ASSUME NEW n \in Addr, NEW src \in Addr, NEW p \in Ptr, NEW c \in Color
             PROVE
    /\ \A dir \in Dir : compact_rb_set_child(n, dir, p) =>
         ChildView' = Fields!rb_set_child(ChildView, n, dir, p)
    /\ rb_set_left_child_color(n, p, c) =>
         ChildView' = Fields!rb_set_left_child_color(ChildView, n, p, c)
    /\ rb_copy_left_child_color(n, src) =>
         ChildView' = Fields!rb_copy_left_child_color(ChildView, n, src)
    /\ rb_set_right_child(n, p) => ChildView' = Fields!rb_set_right_child(ChildView, n, p)
    /\ rb_copy_right_child(n, src) => ChildView' = Fields!rb_copy_right_child(ChildView, n, src)
    /\ compact_rb_set_color(n, c) => ChildView' = Fields!rb_set_color(ChildView, n, c)
  BY DEF ChildStepFaithful
<1>t. ChildView \in ChildFields
  BY <1>1
<1>i. p \in Int /\ c \in Int
  BY <1>c, PointerEven
<1>3. /\ \A m \in Addr, dir \in Dir : child[m][dir] = Address(rb_child_color[m][dir])
      /\ \A m \in Addr : color[m] = LowBit(rb_child_color[m][L])
      /\ [color EXCEPT ![n] = color[n]] = color
      /\ [child EXCEPT ![n][L] = child[n][L]] = child
  <2>1. child \in [Addr -> [Dir -> Int]] /\ color \in [Addr -> Int]
    BY <1>1 DEF ChildFields, child, color
  <2>2. /\ [color EXCEPT ![n] = color[n]] = color
        /\ [child EXCEPT ![n][L] = child[n][L]] = child
    BY <2>1, <1>c
  <2> QED
    BY <2>2, <1>1, <1>c
<1>s. /\ \A dir \in Dir : Fields!rb_set_child(ChildView, n, dir, p) =
                            [child |-> [child EXCEPT ![n][dir] = p], color |-> color]
      /\ Fields!rb_set_left_child_color(ChildView, n, p, c) =
           [child |-> [child EXCEPT ![n][L] = p], color |-> [color EXCEPT ![n] = c]]
      /\ Fields!rb_copy_left_child_color(ChildView, n, src) =
           [child |-> [child EXCEPT ![n][L] = child[src][L]],
            color |-> [color EXCEPT ![n] = color[src]]]
      /\ Fields!rb_set_right_child(ChildView, n, p) =
           [child |-> [child EXCEPT ![n][R] = p], color |-> color]
      /\ Fields!rb_copy_right_child(ChildView, n, src) =
           [child |-> [child EXCEPT ![n][R] = child[src][R]], color |-> color]
      /\ Fields!rb_set_color(ChildView, n, c) =
           [child |-> child, color |-> [color EXCEPT ![n] = c]]
  <2>1. ASSUME NEW dir \in Dir
        PROVE  Fields!rb_set_child(ChildView, n, dir, p) =
                 [child |-> [child EXCEPT ![n][dir] = p], color |-> color]
    BY <1>t, <1>i, SetChild DEF child, color
  <2>2. Fields!rb_set_left_child_color(ChildView, n, p, c) =
          [child |-> [child EXCEPT ![n][L] = p], color |-> [color EXCEPT ![n] = c]]
    BY <1>t, <1>i, SetLeft, Zenon DEF child, color
  <2>3. Fields!rb_set_right_child(ChildView, n, p) =
          [child |-> [child EXCEPT ![n][R] = p], color |-> color]
    BY <1>t, <1>i, SetRight, Zenon DEF child, color
  <2>4. Fields!rb_set_color(ChildView, n, c) =
          [child |-> child, color |-> [color EXCEPT ![n] = c]]
    BY <1>t, <1>i, SetColor, Zenon DEF child, color
  <2>5. Fields!rb_copy_left_child_color(ChildView, n, src) =
          [child |-> [child EXCEPT ![n][L] = child[src][L]],
           color |-> [color EXCEPT ![n] = color[src]]]
    BY <1>t, <1>i, CopySetters, ZenonT(40) DEF child, color
  <2>6. Fields!rb_copy_right_child(ChildView, n, src) =
          [child |-> [child EXCEPT ![n][R] = child[src][R]], color |-> color]
    BY <1>t, <1>i, CopySetters, ZenonT(40) DEF child, color
  <2> QED
    BY <2>1, <2>2, <2>3, <2>4, <2>5, <2>6
<1>4. ASSUME NEW dir \in Dir, compact_rb_set_child(n, dir, p)
      PROVE  ChildView' = Fields!rb_set_child(ChildView, n, dir, p)
  <2>1. ChildView' = [child |-> [child EXCEPT ![n][dir] = p], color |-> color]
    BY <1>2, <1>3, <1>4, <1>w, SetPtrReads DEF compact_rb_set_child
  <2> QED
    BY <2>1, <1>s, <1>3
<1>5. ASSUME rb_set_left_child_color(n, p, c)
      PROVE  ChildView' = Fields!rb_set_left_child_color(ChildView, n, p, c)
  <2>1. ChildView' = [child |-> [child EXCEPT ![n][L] = p], color |-> [color EXCEPT ![n] = c]]
    BY <1>2, <1>5, <1>c, WithBitReads DEF rb_set_left_child_color
  <2> QED
    BY <2>1, <1>s, <1>3
<1>6. ASSUME rb_copy_left_child_color(n, src)
      PROVE  ChildView' = Fields!rb_copy_left_child_color(ChildView, n, src)
  <2>1. ChildView' = [child |-> [child EXCEPT ![n][L] = child[src][L]],
                      color |-> [color EXCEPT ![n] = color[src]]]
    BY <1>2, <1>3, <1>6, <1>c DEF rb_copy_left_child_color
  <2> QED
    BY <2>1, <1>s, <1>3
<1>7. ASSUME rb_set_right_child(n, p)
      PROVE  ChildView' = Fields!rb_set_right_child(ChildView, n, p)
  <2>1. Address(p) = p
    BY PointerEven DEF Address
  <2>2. ChildView' = [child |-> [child EXCEPT ![n][R] = p], color |-> color]
    BY <1>2, <1>7, <1>c, <2>1 DEF rb_set_right_child
  <2> QED
    BY <2>2, <1>s, <1>3
<1>8. ASSUME rb_copy_right_child(n, src)
      PROVE  ChildView' = Fields!rb_copy_right_child(ChildView, n, src)
  <2>1. ChildView' = [child |-> [child EXCEPT ![n][R] = child[src][R]], color |-> color]
    BY <1>2, <1>3, <1>8, <1>c DEF rb_copy_right_child
  <2> QED
    BY <2>1, <1>s, <1>3
<1>9. ASSUME compact_rb_set_color(n, c)
      PROVE  ChildView' = Fields!rb_set_color(ChildView, n, c)
  <2>1. ChildView' = [child |-> [child EXCEPT ![n][L] = child[n][L]],
                      color |-> [color EXCEPT ![n] = c]]
    BY <1>2, <1>3, <1>9, <1>c, <1>w, SetBitReads DEF compact_rb_set_color
  <2> QED
    BY <2>1, <1>s, <1>3
<1> QED
  BY <1>4, <1>5, <1>6, <1>7, <1>8, <1>9

\* For every pointer width and every set of even node addresses, whatever the
\* client's memory held before: the setters of both headers change the field
\* they name and no other, as the tree modules assume.
THEOREM Faithful == Spec => WordsFaithful
<1>1. WordsFit => ParentStepFaithful /\ ChildStepFaithful
  BY ParentFaithful, ChildFaithful
<1> QED
  BY <1>1, InitFits, NextFits, PTL DEF Spec, WordsFaithful
=============================================================================
