--------------------------- MODULE ArrayMapProofs ---------------------------
(***************************************************************************)
(* Proofs about ArrayMap for every set of values, every assignment of keys *)
(* and every capacity that bsearch can cope with (BufLenAssumption).       *)
(***************************************************************************)
EXTENDS ArrayMap, FiniteSetTheorems, TLAPS

\* Where the locals of a running call are, that live slots hold values, and
\* that a running call has not answered yet.
Bounds ==
  /\ am_len <= am_size
  /\ \A k \in Live : am_item[k] \in Item
  /\ pc = "idle" <=> call = None
  /\ pc # "idle" => ret = NULL
  /\ pc = "bsearch" => low \in 0..am_len /\ high \in (-1)..(am_len - 1)
  /\ pc = "shift_up" => /\ call.op = "insert"
                        /\ am_len < am_size /\ index \in 0..am_len /\ i \in index..am_len
  /\ pc = "shift_down" => index \in 0..(am_len - 1) /\ i \in index..(am_len - 1)

Inv == TypeOK /\ Bounds /\ Sorted /\ SearchWindow

-----------------------------------------------------------------------------
(* The conversions between int and unsigned.                               *)

\* The unsigned width is beyond twice the capacity.
LEMMA UintRange == UintMod \in Nat /\ BufLen < UintMod /\ BufLen <= IntMax + 1 /\ UintMod > 1
BY IntMaxAssumption, BufLenAssumption DEF UintMod

\* A length is the same as int and as unsigned.
LEMMA ToUintFits ==
  ASSUME NEW n \in 0..BufLen
  PROVE  ToUint(n) = n
<1>1. n \in Nat /\ n < UintMod
  BY UintRange, BufLenAssumption
<1> QED
  BY <1>1, UintRange DEF ToUint

\* So is an index.
LEMMA ToIntFits ==
  ASSUME NEW n \in 0..(BufLen - 1)
  PROVE  ToInt(n) = n
BY UintRange, IntMaxAssumption, BufLenAssumption DEF ToInt

\* high = am_len - 1 is what it says, -1 for an empty map.
LEMMA LastIndexIs ==
  ASSUME am_len \in 0..BufLen
  PROVE  LastIndex = am_len - 1
<1>1. CASE am_len = 0
  <2>1. (-1) % UintMod = UintMod - 1
    BY UintRange
  <2>2. UintMod - 1 > IntMax
    BY IntMaxAssumption DEF UintMod
  <2> QED
    BY <1>1, <2>1, <2>2, UintRange DEF LastIndex, ToInt, ToUint
<1>2. CASE am_len # 0
  <2>1. am_len - 1 \in 0..BufLen /\ am_len - 1 \in 0..(BufLen - 1)
    BY <1>2, BufLenAssumption
  <2> QED
    BY <2>1, ToUintFits, ToIntFits DEF LastIndex
<1> QED
  BY <1>1, <1>2

\* The middle of a window that is not empty.
LEMMA MedInside ==
  ASSUME low \in Nat, high \in Int, low <= high
  PROVE  Med \in low..high
BY DEF Med

\* What a call searches for is a key.
LEMMA SearchKeyInt ==
  ASSUME TypeOK, Bounds, pc # "idle"
  PROVE  SearchKey \in Int /\ (call.op = "insert" => call.arg \in Item /\ SearchKey = KeyOf[call.arg])
<1>1. \/ call \in [op : {"insert"}, arg : Item]
      \/ call \in [op : {"remove", "find"}, arg : Key]
  BY DEF TypeOK, Bounds
<1> QED
  BY <1>1, KeyOfAssumption DEF SearchKey, Key

-----------------------------------------------------------------------------
\* A freshly initialised map.
LEMMA InitInv == Init => Inv
<1> SUFFICES ASSUME Init PROVE Inv
  OBVIOUS
<1>1. TypeOK
  <2>1. am_item \in [Slot -> Item \cup {NULL}]
    BY DEF Init
  <2>2. 0 \in 0..BufLen /\ 0 \in (-1)..BufLen
    BY BufLenAssumption
  <2> QED
    BY <2>1, <2>2, BufLenAssumption DEF Init, TypeOK
<1>2. Live = {}
  BY DEF Init, Live
<1>3. Bounds /\ Sorted /\ SearchWindow
  BY <1>2, BufLenAssumption DEF Init, Bounds, Sorted, SearchWindow
<1> QED
  BY <1>1, <1>3 DEF Inv

\* Every operation, and every turn of every loop, preserves the invariant.
LEMMA NextInv == Inv /\ [Next]_vars => Inv'
<1> SUFFICES ASSUME Inv, [Next]_vars PROVE Inv'
  OBVIOUS
<1>0. /\ BufLen \in Nat /\ IntMax \in Nat
      /\ am_len \in 0..BufLen /\ am_size \in 0..BufLen /\ am_len <= am_size
  BY BufLenAssumption, IntMaxAssumption DEF Inv, TypeOK, Bounds
<1>keys. \A v \in Item : KeyOf[v] \in Int
  BY KeyOfAssumption
<1>1. ASSUME pc = "idle", pc' = "idle", am_len' = 0, am_size' \in 0..BufLen,
             UNCHANGED <<am_item, call, locals, value, ret>>
      PROVE  Inv'
  <2>1. TypeOK'
    BY <1>0, <1>1 DEF Inv, TypeOK, locals
  <2>2. Live' = {}
    BY <1>1 DEF Live
  <2>3. Bounds' /\ Sorted' /\ SearchWindow'
    BY <1>0, <1>1, <2>2 DEF Inv, Bounds, Sorted, SearchWindow
  <2> QED
    BY <2>1, <2>3 DEF Inv
<1>2. CASE ARRAY_MAP_CLEAR
  BY <1>0, <1>1, <1>2 DEF ARRAY_MAP_CLEAR
<1>3. ASSUME NEW siz \in 0..BufLen, ARRAY_MAP_INIT(siz) PROVE Inv'
  BY <1>0, <1>1, <1>3 DEF ARRAY_MAP_INIT
<1>4. ASSUME NEW op \in {"insert", "remove", "find"}, NEW arg \in Item \cup Key, Call(op, arg),
             [op |-> op, arg |-> arg] \in [op : {"insert"}, arg : Item]
                                     \cup [op : {"remove", "find"}, arg : Key]
      PROVE  Inv'
  <2>1. /\ pc = "idle" /\ pc' = "bsearch" /\ call' = [op |-> op, arg |-> arg]
        /\ low' = 0 /\ high' = am_len - 1
        /\ UNCHANGED <<am_item, am_size, am_len, index, i, value>>
        /\ ret' = NULL
    BY <1>0, <1>4, LastIndexIs DEF Call, mapFields
  <2>2. TypeOK'
    BY <1>0, <1>4, <2>1 DEF Inv, TypeOK
  <2>3. Live' = Live /\ Live = 0..(am_len - 1)
    BY <2>1 DEF Live
  <2>4. call' # None
    BY <2>1 DEF None
  <2>5. Bounds'
    BY <1>0, <2>1, <2>3, <2>4 DEF Inv, Bounds
  <2>6. Sorted' /\ SearchWindow'
    BY <1>0, <2>1, <2>3 DEF Inv, Sorted, SearchWindow
  <2> QED
    BY <2>2, <2>5, <2>6 DEF Inv
<1>5. ASSUME pc = "bsearch", NEW r \in BOOLEAN \cup {NULL}, Return(r),
             UNCHANGED mapFields, value' \in Item \cup {NULL}
      PROVE  Inv'
  <2>1. /\ pc' = "idle" /\ call' = None /\ ret' = r
        /\ low' = 0 /\ high' = 0 /\ index' = 0 /\ i' = 0
        /\ UNCHANGED <<am_item, am_size, am_len>>
    BY <1>5 DEF Return, mapFields
  <2>2. TypeOK'
    BY <1>0, <1>5, <2>1 DEF Inv, TypeOK
  <2>3. Live' = Live
    BY <1>5, <2>1 DEF Live
  <2>4. Bounds' /\ Sorted' /\ SearchWindow'
    BY <1>0, <2>1, <2>3 DEF Inv, Bounds, Sorted, SearchWindow
  <2> QED
    BY <2>2, <2>4 DEF Inv
<1>6. CASE Bsearch
  <2>0. /\ pc = "bsearch" /\ Live = 0..(am_len - 1) /\ Live \subseteq Slot
        /\ low \in 0..am_len /\ high \in (-1)..(am_len - 1)
        /\ \A k \in Live : am_item[k] \in Item
    <3>1. pc = "bsearch"
      BY <1>6 DEF Bsearch
    <3>2. Live = 0..(am_len - 1) /\ Live \subseteq Slot
      BY <1>0, <3>1 DEF Live, Slot
    <3> QED
      BY <3>1, <3>2 DEF Inv, Bounds
  <2>1. /\ SearchKey \in Int
        /\ call.op = "insert" => call.arg \in Item /\ SearchKey = KeyOf[call.arg]
    BY <2>0, SearchKeyInt DEF Inv
  <2>2. \A k \in Live : /\ k < low => KeyOf[am_item[k]] < SearchKey
                        /\ k > high => KeyOf[am_item[k]] > SearchKey
    BY <2>0 DEF Inv, SearchWindow
  <2>3. CASE low > high /\ NotFound
    <3>1. CASE ~(pc' = "shift_up")
      <4>1. UNCHANGED <<mapFields, value>> /\ (Return(FALSE) \/ Return(NULL))
        BY <2>3, <3>1 DEF NotFound
      <4>2. value' \in Item \cup {NULL}
        BY <4>1 DEF Inv, TypeOK
      <4> QED
        BY <1>5, <2>0, <4>1, <4>2
    <3>2. CASE pc' = "shift_up"
      <4>1. /\ call.op = "insert" /\ ~IsFull /\ index' = low /\ i' = ToInt(am_len)
            /\ UNCHANGED <<am_item, am_size, am_len, call, low, high, value, ret>>
        BY <2>3, <3>2 DEF NotFound, Return, mapFields
      <4>2. am_len < am_size /\ i' = am_len
        BY <1>0, <4>1, ToIntFits DEF IsFull
      <4>3. TypeOK'
        BY <1>0, <2>0, <3>2, <4>1, <4>2 DEF Inv, TypeOK
      <4>4. Live' = Live
        BY <1>0, <2>0, <3>2, <4>1, <4>2 DEF Live
      <4>5. Bounds'
        BY <1>0, <2>0, <3>2, <4>1, <4>2, <4>4 DEF Inv, Bounds
      <4>6. Sorted'
        BY <4>1, <4>4 DEF Inv, Sorted
      <4>7. SearchWindow'
        BY <1>0, <2>0, <2>2, <2>3, <3>2, <4>1, <4>4 DEF SearchWindow, SearchKey
      <4> QED
        BY <4>3, <4>5, <4>6, <4>7 DEF Inv
    <3> QED
      BY <3>1, <3>2
  <2>4. CASE low <= high
    <3>0. Med \in low..high /\ Med \in Live /\ Med \in Int /\ am_item[Med] \in Item
      BY <1>0, <2>0, <2>4, MedInside
    <3>1. CASE Found(Med) /\ key_cmp(am_item[Med], SearchKey) = 0
      <4>1. CASE ~(pc' = "shift_down")
        <5>1. /\ UNCHANGED mapFields /\ (Return(FALSE) \/ Return(TRUE))
              /\ value' = am_item[Med] \/ value' = value
          BY <3>1, <4>1 DEF Found
        <5>2. value' \in Item \cup {NULL}
          BY <5>1, <3>0 DEF Inv, TypeOK
        <5> QED
          BY <1>5, <2>0, <5>1, <5>2
      <4>2. CASE pc' = "shift_down"
        <5>1. /\ index' = Med /\ i' = Med
              /\ UNCHANGED <<am_item, am_size, am_len, call, low, high, value, ret>>
          BY <3>1, <4>2 DEF Found, Return, mapFields
        <5>2. TypeOK'
          BY <1>0, <2>0, <3>0, <4>2, <5>1 DEF Inv, TypeOK
        <5>3. Live' = Live \ {Med}
          BY <1>0, <2>0, <4>2, <5>1 DEF Live
        <5>4. Bounds'
          BY <1>0, <2>0, <3>0, <4>2, <5>1, <5>3 DEF Inv, Bounds
        <5>5. Sorted' /\ SearchWindow'
          BY <4>2, <5>1, <5>3 DEF Inv, Sorted, SearchWindow
        <5> QED
          BY <5>2, <5>4, <5>5 DEF Inv
      <4> QED
        BY <4>1, <4>2
    <3>2. CASE /\ \/ GoRight /\ key_cmp(am_item[Med], SearchKey) < 0
                  \/ GoLeft /\ key_cmp(am_item[Med], SearchKey) > 0
               /\ UNCHANGED <<mapFields, pc, call, index, i, value, ret>>
      <4>1. /\ UNCHANGED <<am_item, am_size, am_len, pc, call, index, i, value, ret>>
            /\ Live' = Live /\ SearchKey' = SearchKey
        BY <3>2 DEF mapFields, Live, SearchKey
      <4>2. \/ low' = Med + 1 /\ high' = high /\ KeyOf[am_item[Med]] < SearchKey
            \/ high' = Med - 1 /\ low' = low /\ KeyOf[am_item[Med]] > SearchKey
        BY <2>1, <3>0, <3>2 DEF GoRight, GoLeft, key_cmp
      <4>3. TypeOK'
        BY <1>0, <2>0, <3>0, <4>1, <4>2 DEF Inv, TypeOK
      <4>4. Bounds'
        BY <1>0, <2>0, <3>0, <4>1, <4>2 DEF Inv, Bounds
      <4>5. Sorted'
        BY <4>1 DEF Inv, Sorted
      <4>6. SearchWindow'
        <5>1. \A j, k \in Live : j < k => KeyOf[am_item[j]] < KeyOf[am_item[k]]
          BY DEF Inv, Sorted
        <5>2. ASSUME NEW k \in Live PROVE k \in Int /\ KeyOf[am_item[k]] \in Int
          BY <1>keys, <2>0
        <5>3. \A k \in Live : k < Med => KeyOf[am_item[k]] < KeyOf[am_item[Med]]
          BY <5>1, <3>0
        <5>4. ASSUME NEW k \in Live, k > Med PROVE KeyOf[am_item[k]] > KeyOf[am_item[Med]]
          <6>1. Med < k
            BY <5>2, <5>4, <3>0
          <6>2. KeyOf[am_item[Med]] < KeyOf[am_item[k]]
            BY <5>1, <3>0, <6>1
          <6> QED
            BY <5>2, <3>0, <6>2
        <5>5. \A k \in Live : /\ k < low' => KeyOf[am_item[k]] < SearchKey
                              /\ k > high' => KeyOf[am_item[k]] > SearchKey
          BY <2>1, <2>2, <5>2, <5>3, <5>4, <4>2, <3>0
        <5> QED
          BY <2>0, <4>1, <5>5 DEF SearchWindow
      <4> QED
        BY <4>3, <4>4, <4>5, <4>6 DEF Inv
    <3>3. ~(low > high)
      BY <2>0, <2>4, <1>0
    <3>4. \/ Found(Med) /\ key_cmp(am_item[Med], SearchKey) = 0
          \/ /\ \/ GoRight /\ key_cmp(am_item[Med], SearchKey) < 0
                \/ GoLeft /\ key_cmp(am_item[Med], SearchKey) > 0
             /\ UNCHANGED <<mapFields, pc, call, index, i, value, ret>>
      BY <1>6, <3>3, Zenon DEF Bsearch
    <3> QED
      BY <3>1, <3>2, <3>4
  <2>5. low > high => low > high /\ NotFound
    BY <1>6, <2>0, <1>0 DEF Bsearch
  <2> QED
    BY <2>0, <1>0, <2>3, <2>4, <2>5
<1>7. CASE ShiftUp
  <2>0. /\ pc = "shift_up" /\ Live = (0..am_len) \ {i}
        /\ index \in 0..am_len /\ i \in index..am_len /\ am_len < am_size
        /\ am_item \in [Slot -> Item \cup {NULL}]
        /\ 0..am_len \subseteq Slot /\ i \in Slot /\ index \in Slot
        /\ call.op = "insert" /\ \A k \in Live : am_item[k] \in Item
    <3>1. pc = "shift_up"
      BY <1>7 DEF ShiftUp
    <3>2. index \in 0..am_len /\ i \in index..am_len /\ am_len < am_size
      BY <3>1 DEF Inv, Bounds
    <3>3. 0..am_len \subseteq Slot /\ i \in Slot /\ index \in Slot
      BY <1>0, <3>2 DEF Slot
    <3>4. Live = (0..am_len) \ {i}
      BY <3>1 DEF Live
    <3> QED
      BY <3>1, <3>2, <3>3, <3>4 DEF Inv, TypeOK, Bounds
  <2>1. SearchKey \in Int /\ call.arg \in Item /\ SearchKey = KeyOf[call.arg]
    BY <2>0, SearchKeyInt DEF Inv
  <2>2. \A a, b \in Live : a < b => KeyOf[am_item[a]] < KeyOf[am_item[b]]
    BY DEF Inv, Sorted
  <2>3. \A a \in Live : /\ a < index => KeyOf[am_item[a]] < SearchKey
                        /\ a >= index => KeyOf[am_item[a]] > SearchKey
    BY <2>0 DEF Inv, SearchWindow
  <2>4. CASE ShiftUpLoops
    <3>1. /\ am_item' = [am_item EXCEPT ![i] = am_item[i - 1]] /\ i' = i - 1
          /\ UNCHANGED <<am_size, am_len, pc, call, low, high, index, value, ret>>
      BY <1>7, <2>4 DEF ShiftUp
    <3>2. i > index /\ i - 1 \in 0..am_len /\ i - 1 \in Live /\ i - 1 \in Slot
      BY <1>0, <2>0, <2>4 DEF ShiftUpLoops
    <3>3. Live' = (0..am_len) \ {i - 1}
      BY <2>0, <3>1 DEF Live
    <3>4. am_item' \in [Slot -> Item \cup {NULL}]
      BY <2>0, <3>1, <3>2
    <3>5. TypeOK'
      BY <1>0, <2>0, <3>1, <3>2, <3>4 DEF Inv, TypeOK
    <3>6. ASSUME NEW k \in Live'
          PROVE  /\ k \in Int
                 /\ \/ k # i /\ k \in Live /\ am_item'[k] = am_item[k]
                    \/ k = i /\ am_item'[k] = am_item[i - 1]
      BY <1>0, <2>0, <3>1, <3>2, <3>3
    <3>7. Bounds'
      <4>1. \A k \in Live' : am_item'[k] \in Item
        BY <2>0, <3>2, <3>6
      <4> QED
        BY <1>0, <2>0, <3>1, <3>2, <4>1 DEF Inv, Bounds
    <3>8. Sorted'
      <4>1. ASSUME NEW j \in Live', NEW k \in Live', j < k
            PROVE  KeyOf[am_item'[j]] < KeyOf[am_item'[k]]
        <5>1. CASE j # i /\ k # i
          BY <4>1, <5>1, <2>2, <3>6
        <5>2. CASE j = i
          <6>1. i - 1 < k /\ k # i
            BY <4>1, <5>2, <3>6, <2>0
          <6> QED
            BY <6>1, <5>2, <2>2, <3>2, <3>6
        <5>3. CASE k = i
          <6>1. j < i - 1 /\ j # i
            BY <4>1, <5>3, <3>3, <3>6, <2>0
          <6> QED
            BY <6>1, <5>3, <2>2, <3>2, <3>6
        <5> QED
          BY <5>1, <5>2, <5>3
      <4> QED
        BY <4>1 DEF Sorted
    <3>9. SearchWindow'
      <4>1. ASSUME NEW k \in Live'
            PROVE  /\ k < index => KeyOf[am_item'[k]] < SearchKey
                   /\ k >= index => KeyOf[am_item'[k]] > SearchKey
        <5>1. CASE k # i
          BY <5>1, <2>3, <3>6
        <5>2. CASE k = i
          <6>1. k >= index /\ i - 1 >= index /\ ~(k < index)
            BY <5>2, <2>0, <3>2
          <6> QED
            BY <6>1, <5>2, <2>3, <3>2, <3>6
        <5> QED
          BY <5>1, <5>2
      <4> QED
        BY <4>1, <2>0, <3>1 DEF SearchWindow, SearchKey
    <3> QED
      BY <3>5, <3>7, <3>8, <3>9 DEF Inv
  <2>5. CASE ~ShiftUpLoops
    <3>1. i = index
      BY <2>0, <2>5 DEF ShiftUpLoops
    <3>2. ToUint(am_len + 1) = am_len + 1
      BY <1>0, <2>0, ToUintFits
    <3>3. /\ am_item' = [am_item EXCEPT ![index] = call.arg] /\ am_len' = am_len + 1
          /\ pc' = "idle" /\ call' = None /\ ret' = TRUE
          /\ low' = 0 /\ high' = 0 /\ index' = 0 /\ i' = 0
          /\ UNCHANGED <<am_size, value>>
      BY <1>7, <2>5, <3>2 DEF ShiftUp, Return
    <3>4. am_item' \in [Slot -> Item \cup {NULL}]
      BY <2>0, <2>1, <3>3
    <3>5. TypeOK'
      BY <1>0, <2>0, <3>3, <3>4 DEF Inv, TypeOK
    <3>6. Live' = 0..am_len
      BY <1>0, <2>0, <3>3 DEF Live
    <3>7. ASSUME NEW k \in Live'
          PROVE  /\ k \in Int
                 /\ \/ k # index /\ k \in Live /\ am_item'[k] = am_item[k]
                    \/ k = index /\ am_item'[k] = call.arg
      BY <1>0, <2>0, <3>1, <3>3, <3>6
    <3>8. Bounds'
      <4>1. \A k \in Live' : am_item'[k] \in Item
        BY <2>0, <2>1, <3>7
      <4> QED
        BY <1>0, <2>0, <3>3, <4>1 DEF Bounds
    <3>9. Sorted'
      <4>1. ASSUME NEW j \in Live', NEW k \in Live', j < k
            PROVE  KeyOf[am_item'[j]] < KeyOf[am_item'[k]]
        <5>1. CASE j # index /\ k # index
          BY <4>1, <5>1, <2>2, <3>7
        <5>2. CASE j = index
          <6>1. k >= index /\ k # index
            BY <4>1, <5>2, <3>7, <2>0
          <6>2. KeyOf[am_item[k]] > SearchKey /\ KeyOf[am_item[k]] \in Int
            BY <6>1, <2>3, <3>7, <2>0, <1>keys
          <6> QED
            BY <6>1, <6>2, <5>2, <3>7, <2>1
        <5>3. CASE k = index
          BY <4>1, <5>3, <2>1, <2>3, <3>7
        <5> QED
          BY <5>1, <5>2, <5>3
      <4> QED
        BY <4>1 DEF Sorted
    <3>10. SearchWindow'
      BY <3>3 DEF SearchWindow
    <3> QED
      BY <3>5, <3>8, <3>9, <3>10 DEF Inv
  <2> QED
    BY <2>4, <2>5
<1>8. CASE ShiftDown
  <2>0. /\ pc = "shift_down" /\ Live = (0..(am_len - 1)) \ {i}
        /\ index \in 0..(am_len - 1) /\ i \in index..(am_len - 1)
        /\ am_item \in [Slot -> Item \cup {NULL}] /\ 0..(am_len - 1) \subseteq Slot /\ i \in Slot
        /\ ToUint(am_len - 1) = am_len - 1
        /\ \A k \in Live : am_item[k] \in Item
    <3>1. pc = "shift_down"
      BY <1>8 DEF ShiftDown
    <3>2. index \in 0..(am_len - 1) /\ i \in index..(am_len - 1)
      BY <3>1 DEF Inv, Bounds
    <3>3. 0..(am_len - 1) \subseteq Slot /\ i \in Slot
      BY <1>0, <3>2 DEF Slot
    <3>4. Live = (0..(am_len - 1)) \ {i}
      BY <3>1 DEF Live
    <3>5. ToUint(am_len - 1) = am_len - 1
      BY <1>0, <3>2, ToUintFits
    <3> QED
      BY <3>1, <3>2, <3>3, <3>4, <3>5 DEF Inv, TypeOK, Bounds
  <2>1. \A a, b \in Live : a < b => KeyOf[am_item[a]] < KeyOf[am_item[b]]
    BY DEF Inv, Sorted
  <2>2. CASE i < am_len - 1
    <3>0. ToUint(i + 1) = i + 1
      BY <1>0, <2>0, <2>2, ToUintFits
    <3>1. /\ am_item' = [am_item EXCEPT ![i] = am_item[i + 1]] /\ i' = i + 1
          /\ UNCHANGED <<am_size, am_len, pc, call, low, high, index, value, ret>>
      BY <1>8, <1>0, <2>0, <2>2, <3>0 DEF ShiftDown
    <3>2. i + 1 \in 0..(am_len - 1) /\ i + 1 \in Live /\ i + 1 \in Slot
      BY <1>0, <2>0, <2>2
    <3>3. Live' = (0..(am_len - 1)) \ {i + 1}
      BY <2>0, <3>1 DEF Live
    <3>4. am_item' \in [Slot -> Item \cup {NULL}]
      BY <2>0, <3>1, <3>2
    <3>5. TypeOK'
      BY <1>0, <2>0, <3>1, <3>2, <3>4 DEF Inv, TypeOK
    <3>6. ASSUME NEW k \in Live'
          PROVE  /\ k \in Int
                 /\ \/ k # i /\ k \in Live /\ am_item'[k] = am_item[k]
                    \/ k = i /\ am_item'[k] = am_item[i + 1]
      BY <1>0, <2>0, <3>1, <3>2, <3>3
    <3>7. Bounds'
      <4>1. \A k \in Live' : am_item'[k] \in Item
        BY <2>0, <3>2, <3>6
      <4> QED
        BY <1>0, <2>0, <3>1, <3>2, <4>1 DEF Inv, Bounds
    <3>8. Sorted'
      <4>1. ASSUME NEW j \in Live', NEW k \in Live', j < k
            PROVE  KeyOf[am_item'[j]] < KeyOf[am_item'[k]]
        <5>1. CASE j # i /\ k # i
          BY <4>1, <5>1, <2>1, <3>6
        <5>2. CASE j = i
          <6>1. i + 1 < k /\ k # i
            BY <4>1, <5>2, <3>3, <3>6, <2>0
          <6> QED
            BY <6>1, <5>2, <2>1, <3>2, <3>6
        <5>3. CASE k = i
          <6>1. j < i + 1 /\ j # i
            BY <4>1, <5>3, <3>6, <2>0
          <6> QED
            BY <6>1, <5>3, <2>1, <3>2, <3>6
        <5> QED
          BY <5>1, <5>2, <5>3
      <4> QED
        BY <4>1 DEF Sorted
    <3>9. SearchWindow'
      BY <2>0, <3>1 DEF SearchWindow
    <3> QED
      BY <3>5, <3>7, <3>8, <3>9 DEF Inv
  <2>3. CASE ~(i < am_len - 1)
    <3>1. i = am_len - 1
      BY <1>0, <2>0, <2>3
    <3>2. /\ am_len' = am_len - 1
          /\ pc' = "idle" /\ call' = None /\ ret' = NULL
          /\ low' = 0 /\ high' = 0 /\ index' = 0 /\ i' = 0
          /\ UNCHANGED <<am_item, am_size, value>>
      BY <1>8, <2>0, <2>3 DEF ShiftDown, Return
    <3>3. TypeOK'
      BY <1>0, <2>0, <3>2 DEF Inv, TypeOK
    <3>4. Live' = Live
      BY <1>0, <2>0, <3>1, <3>2 DEF Live
    <3>5. Bounds' /\ Sorted' /\ SearchWindow'
      BY <1>0, <2>0, <3>2, <3>4 DEF Inv, Bounds, Sorted, SearchWindow
    <3> QED
      BY <3>3, <3>5 DEF Inv
  <2> QED
    BY <2>2, <2>3
<1>9. CASE UNCHANGED vars
  BY <1>9 DEF vars, Inv, TypeOK, Bounds, Sorted, SearchWindow, SearchKey, Live
<1> QED
  <2>1. ASSUME NEW v \in Item, Call("insert", v) PROVE Inv'
    BY <1>4, <2>1
  <2>2. ASSUME NEW k \in Key, NEW op \in {"remove", "find"}, Call(op, k) PROVE Inv'
    BY <1>4, <2>2
  <2> QED
    BY <1>2, <1>3, <1>6, <1>7, <1>8, <1>9, <2>1, <2>2 DEF Next, Client, Library

\* The invariant holds throughout.
LEMMA InvAlways == Spec => []Inv
BY InitInv, NextInv, PTL DEF Spec

-----------------------------------------------------------------------------
\* For every capacity bsearch can cope with, the map's fields and the locals of
\* its functions keep their types.
THEOREM TypeCorrect == Spec => []TypeOK
<1>1. Inv => TypeOK
  BY DEF Inv
<1> QED
  BY <1>1, InvAlways, PTL

\* In every turn of every loop the map is sorted without duplicates.
THEOREM StaysSorted == Spec => []Sorted
<1>1. Inv => Sorted
  BY DEF Inv
<1> QED
  BY <1>1, InvAlways, PTL

\* The binary search leaves out of its window only what is smaller or larger
\* than the key, and insert makes room where its value belongs.
THEOREM SearchCorrect == Spec => []SearchWindow
<1>1. Inv => SearchWindow
  BY DEF Inv
<1> QED
  BY <1>1, InvAlways, PTL

\* With 2 * BufLen <= INT_MAX + 1, low + high never overflows and no access
\* leaves the array.
THEOREM NoOverflow == Spec => []NoIntOverflow
<1>1. Inv => NoIntOverflow
  <2> SUFFICES ASSUME Inv PROVE NoIntOverflow
    OBVIOUS
  <2>1. am_len \in 0..BufLen /\ am_len <= BufLen /\ BufLen \in Nat /\ IntMax \in Nat
    BY BufLenAssumption, IntMaxAssumption DEF Inv, TypeOK
  <2>2. ASSUME pc = "bsearch", low <= high PROVE low + high <= IntMax /\ Med \in Live
    <3>1. low \in 0..am_len /\ high \in (-1)..(am_len - 1) /\ Live = 0..(am_len - 1)
      BY <2>2 DEF Inv, Bounds, Live
    <3>2. Med \in low..high
      BY <2>1, <2>2, <3>1, MedInside
    <3>3. low + high <= 2 * BufLen - 2
      BY <2>1, <2>2, <3>1
    <3> QED
      BY <2>1, <3>1, <3>2, <3>3, BufLenAssumption
  <2> QED
    BY <2>1, <2>2 DEF Inv, Bounds, NoIntOverflow
<1> QED
  BY <1>1, InvAlways, PTL

-----------------------------------------------------------------------------
(* What the client sees.                                                   *)

\* The refinement mapping of Map: the values in the live slots, and the call as
\* the client sees it.
Entries == {am_item[k] : k \in Live}
MapCall == IF pc = "shift_down" THEN [op |-> "reply", arg |-> NULL] ELSE call

\* The live slots are indexes of the array.
LEMMA LiveInSlot == ASSUME Inv PROVE Live \subseteq Slot /\ Live \subseteq Int
<1>1. BufLen \in Nat /\ am_len \in 0..BufLen /\ am_size \in 0..BufLen /\ am_len <= am_size
  BY BufLenAssumption DEF Inv, TypeOK, Bounds
<1>2. pc = "shift_up" => am_len < am_size
  BY DEF Inv, Bounds
<1>3. \/ pc = "shift_up" /\ Live = (0..am_len) \ {i}
      \/ Live \subseteq 0..(am_len - 1)
  BY DEF Live, Inv, TypeOK
<1> QED
  BY <1>1, <1>2, <1>3 DEF Slot

\* No two live slots hold values of the same key.
LEMMA KeyOnce ==
  ASSUME Inv, NEW j \in Live, NEW k \in Live, KeyOf[am_item[j]] = KeyOf[am_item[k]]
  PROVE  j = k
<1>1. j \in Int /\ k \in Int
  BY LiveInSlot
<1>2. KeyOf[am_item[j]] \in Int /\ KeyOf[am_item[k]] \in Int
  BY KeyOfAssumption DEF Inv, Bounds
<1>3. ~(j < k) /\ ~(k < j)
  BY <1>2 DEF Inv, Sorted
<1> QED
  BY <1>1, <1>3

\* Cardinality as the abstract map's module sees it.
LEMMA SameCardinality == ASSUME NEW S PROVE Map!Cardinality(S) = Cardinality(S)
BY DEF Map!Cardinality, Cardinality

\* The map holds as many values as am_len says.
LEMMA EntriesCount ==
  ASSUME Inv, pc # "shift_down"
  PROVE  Map!Cardinality(Entries) = am_len
<1>1. am_len \in Nat
  BY BufLenAssumption DEF Inv, TypeOK
<1>2. IsFiniteSet(Live) /\ Cardinality(Live) = am_len
  <2>1. CASE pc = "shift_up"
    <3>1. Live = (0..am_len) \ {i} /\ i \in 0..am_len
      BY <2>1, <1>1 DEF Live, Inv, Bounds
    <3>2. IsFiniteSet(0..am_len) /\ Cardinality(0..am_len) = am_len + 1
      BY <1>1, FS_Interval
    <3>3. IsFiniteSet(Live) /\ Cardinality(Live) = Cardinality(0..am_len) - 1
      BY <3>1, <3>2, FS_RemoveElement, Zenon
    <3> QED
      BY <3>2, <3>3, <1>1
  <2>2. CASE pc # "shift_up"
    <3>1. Live = 0..(am_len - 1)
      BY <2>2 DEF Live
    <3> QED
      BY <3>1, <1>1, FS_Interval
  <2> QED
    BY <2>1, <2>2
<1> DEFINE f == [k \in Live |-> am_item[k]]
<1>3. f \in Bijection(Live, Entries)
  <2>1. f \in [Live -> Entries] /\ \A e \in Entries : \E k \in Live : f[k] = e
    BY DEF Entries
  <2>2. \A j, k \in Live : f[j] = f[k] => j = k
    BY KeyOnce
  <2> QED
    BY <2>1, <2>2 DEF Bijection, Injection, Surjection, IsInjective
<1>4. ExistsBijection(Live, Entries)
  BY <1>3 DEF ExistsBijection
<1> QED
  BY <1>2, <1>4, FS_Bijection, SameCardinality

\* An initialised map is an empty map of the client's view.
LEMMA InitRefines == Init => Map!Init
<1> SUFFICES ASSUME Init PROVE Map!Init
  OBVIOUS
<1>1. Live = {} /\ pc = "idle"
  BY DEF Init, Live
<1>2. am_size \in Nat
  BY BufLenAssumption DEF Init
<1> QED
  BY <1>1, <1>2 DEF Init, Map!Init, Map!Fresh, Map!None, None

\* Every step of array_map.h is one step of the client's view or changes
\* nothing in it.  insert takes effect when the value is stored, remove when
\* bsearch has found it; the turns of the loops move no value in or out.
LEMMA NextRefines == Inv /\ Inv' /\ [Next]_vars => [Map!Next]_Map!mapVars
<1> SUFFICES ASSUME Inv, Inv', [Next]_vars PROVE [Map!Next]_Map!mapVars
  OBVIOUS
<1>0. /\ BufLen \in Nat /\ IntMax \in Nat
      /\ am_len \in 0..BufLen /\ am_size \in 0..BufLen /\ am_len <= am_size
  BY BufLenAssumption, IntMaxAssumption DEF Inv, TypeOK, Bounds
<1>v. /\ Map!mapVars = <<am_size, Entries, MapCall, value, ret>>
      /\ Map!mapVars' = <<am_size', Entries', MapCall', value', ret'>>
  BY DEF Map!mapVars, Entries, MapCall
<1>n. /\ pc = "idle" => MapCall = None
      /\ pc' = "idle" => MapCall' = None
      /\ Map!None = None
  BY DEF Inv, Bounds, MapCall, Map!None, None
<1>e. ASSUME am_item' = am_item, Live' = Live PROVE Entries' = Entries
  BY <1>e DEF Entries
<1>1. ASSUME pc = "idle", pc' = "idle", am_len' = 0, am_size' \in 0..BufLen,
             UNCHANGED <<value, ret>>
      PROVE  Map!Next
  <2>1. Live' = {}
    BY <1>1 DEF Live
  <2>2. Entries' = {}
    BY <2>1 DEF Entries
  <2>3. Map!Reset
    BY <1>0, <1>1, <1>n, <2>2 DEF Map!Reset, Map!Fresh, Entries, MapCall
  <2> QED
    BY <2>3 DEF Map!Next
<1>2. CASE ARRAY_MAP_CLEAR
  BY <1>0, <1>1, <1>2 DEF ARRAY_MAP_CLEAR
<1>3. ASSUME NEW siz \in 0..BufLen, ARRAY_MAP_INIT(siz) PROVE Map!Next
  BY <1>1, <1>3 DEF ARRAY_MAP_INIT
<1>4. ASSUME NEW op, NEW arg, Call(op, arg), [op |-> op, arg |-> arg] \in Map!Request
      PROVE  Map!Next
  <2>1. /\ pc = "idle" /\ pc' = "bsearch" /\ MapCall' = [op |-> op, arg |-> arg] /\ ret' = NULL
        /\ UNCHANGED <<am_item, am_size, am_len, value>>
    BY <1>4 DEF Call, mapFields, MapCall
  <2>2. Live' = Live
    BY <2>1 DEF Live
  <2>3. Map!Invoke
    BY <1>4, <1>e, <1>n, <2>1, <2>2 DEF Map!Invoke, Entries, MapCall
  <2> QED
    BY <2>3 DEF Map!Next
<1>5. CASE Bsearch
  <2>0. /\ pc = "bsearch" /\ MapCall = call /\ ret = NULL
        /\ Live = 0..(am_len - 1)
        /\ low \in 0..am_len /\ high \in (-1)..(am_len - 1)
        /\ \A k \in Live : am_item[k] \in Item /\ KeyOf[am_item[k]] \in Int
    <3>1. pc = "bsearch"
      BY <1>5 DEF Bsearch
    <3> QED
      BY <3>1, KeyOfAssumption DEF Inv, Bounds, MapCall, Live
  <2>1. /\ SearchKey \in Int
        /\ call.op = "insert" => call.arg \in Item /\ SearchKey = KeyOf[call.arg]
        /\ call.op # "insert" => SearchKey = call.arg
    BY <2>0, SearchKeyInt DEF Inv, SearchKey
  <2>2. Map!Cardinality(Entries) = am_len
    BY <2>0, EntriesCount
  <2>3. CASE low > high /\ NotFound
    <3>1. \A v \in Entries : KeyOf[v] # SearchKey
      <4>1. \A k \in Live : /\ k < low => KeyOf[am_item[k]] < SearchKey
                            /\ k > high => KeyOf[am_item[k]] > SearchKey
        BY <2>0 DEF Inv, SearchWindow
      <4>2. \A k \in Live : k < low \/ k > high
        BY <2>0, <2>3, <1>0
      <4>3. \A k \in Live : KeyOf[am_item[k]] # SearchKey
        BY <4>1, <4>2, <2>0, <2>1
      <4> QED
        BY <4>3 DEF Entries
    <3>2. CASE pc' = "shift_up"
      <4>1. /\ call.op = "insert" /\ ~IsFull /\ i' = ToInt(am_len)
            /\ UNCHANGED <<am_item, am_size, am_len, call, value, ret>>
        BY <2>3, <3>2 DEF NotFound, Return, mapFields
      <4>2. i' = am_len
        BY <1>0, <4>1, ToIntFits DEF IsFull
      <4>3. Live' = Live
        BY <1>0, <2>0, <3>2, <4>1, <4>2 DEF Live
      <4>4. MapCall' = MapCall
        BY <2>0, <3>2, <4>1 DEF MapCall
      <4> QED
        BY <4>1, <4>3, <4>4, <1>e, <1>v
    <3>3. CASE ~(pc' = "shift_up")
      <4>1. /\ UNCHANGED <<am_item, am_size, am_len, value>> /\ pc' = "idle"
            /\ \/ call.op = "find" /\ ret' = FALSE
               \/ call.op = "insert" /\ IsFull /\ ret' = FALSE
               \/ call.op = "remove" /\ ret' = NULL
        BY <2>3, <3>3 DEF NotFound, Return, mapFields
      <4>2. Entries' = Entries
        BY <2>0, <4>1, <1>e DEF Live
      <4>3. CASE call.op = "find" /\ ret' = FALSE
        <5>1. Map!Find
          BY <2>0, <2>1, <3>1, <4>1, <4>2, <4>3, <1>n DEF Map!Find, Map!With, Entries, MapCall
        <5> QED
          BY <5>1 DEF Map!Next
      <4>4. CASE call.op = "insert" /\ IsFull /\ ret' = FALSE
        <5>1. ~(Map!Cardinality(Entries) < am_size)
          BY <2>2, <4>4, <1>0 DEF IsFull
        <5>2. MapCall.op = "insert" /\ MapCall' = Map!None
          BY <2>0, <4>1, <4>4, <1>n
        <5>3. Map!Insert
          BY <4>1, <4>2, <4>4, <5>1, <5>2, Zenon DEF Map!Insert, Entries, MapCall
        <5> QED
          BY <5>3 DEF Map!Next
      <4>5. CASE call.op = "remove" /\ ret' = NULL
        <5>1. Map!With(call.arg) = {}
          BY <2>1, <3>1, <4>5 DEF Map!With, Entries
        <5>2. Map!Remove
          BY <2>0, <4>1, <4>2, <4>5, <5>1, <1>n DEF Map!Remove, Entries, MapCall
        <5> QED
          BY <5>2 DEF Map!Next
      <4> QED
        BY <4>1, <4>3, <4>4, <4>5
    <3> QED
      BY <3>2, <3>3
  <2>4. CASE low <= high /\ key_cmp(am_item[Med], SearchKey) = 0 /\ Found(Med)
    <3>1. Med \in Live
      <4>1. Med \in low..high
        BY <2>0, <2>4, <1>0, MedInside
      <4> QED
        BY <4>1, <2>0, <1>0
    <3>2. KeyOf[am_item[Med]] = SearchKey
      BY <2>0, <2>1, <2>4, <3>1 DEF key_cmp
    <3>3. am_item[Med] \in Entries
      BY <3>1 DEF Entries
    <3>4. CASE call.op = "insert"
      <4>1. /\ UNCHANGED <<am_item, am_size, am_len, value>> /\ pc' = "idle" /\ ret' = FALSE
        BY <2>4, <3>4 DEF Found, Return, mapFields
      <4>2. Entries' = Entries
        BY <2>0, <4>1, <1>e DEF Live
      <4>3. Map!With(KeyOf[call.arg]) # {}
        BY <2>1, <3>2, <3>3, <3>4 DEF Map!With, Entries
      <4>4. Map!Insert
        BY <2>0, <3>4, <4>1, <4>2, <4>3, <1>n DEF Map!Insert, Entries, MapCall
      <4> QED
        BY <4>4 DEF Map!Next
    <3>5. CASE call.op = "find"
      <4>1. /\ UNCHANGED <<am_item, am_size, am_len>> /\ pc' = "idle" /\ ret' = TRUE
            /\ value' = am_item[Med]
        BY <2>4, <3>5 DEF Found, Return, mapFields
      <4>2. Entries' = Entries
        BY <2>0, <4>1, <1>e DEF Live
      <4>3. am_item[Med] \in Map!With(call.arg)
        BY <2>1, <3>2, <3>3, <3>5 DEF Map!With, Entries
      <4>4. Map!Find
        BY <2>0, <3>5, <4>1, <4>2, <4>3, <1>n DEF Map!Find, Entries, MapCall
      <4> QED
        BY <4>4 DEF Map!Next
    <3>6. CASE call.op = "remove"
      <4>1. /\ UNCHANGED <<am_item, am_size, am_len, value, ret>>
            /\ pc' = "shift_down" /\ i' = Med
        BY <2>4, <3>6 DEF Found, Return, mapFields
      <4>2. Live' = Live \ {Med}
        BY <2>0, <4>1 DEF Live
      <4>3. MapCall' = Map!Owed
        BY <4>1 DEF MapCall, Map!Owed
      <4>4. \A k \in Live : KeyOf[am_item[k]] = SearchKey <=> k = Med
        BY <3>1, <3>2, KeyOnce
      <4>5. Entries' = Entries \ Map!With(call.arg)
        <5>1. Entries' = {am_item[k] : k \in Live \ {Med}}
          BY <4>1, <4>2 DEF Entries
        <5>2. Map!With(call.arg) = {v \in Entries : KeyOf[v] = SearchKey}
          BY <2>1, <3>6 DEF Map!With, Entries
        <5> QED
          BY <4>4, <5>1, <5>2 DEF Entries
      <4>6. Map!Remove
        BY <2>0, <3>6, <4>1, <4>3, <4>5 DEF Map!Remove, Entries, MapCall
      <4> QED
        BY <4>6 DEF Map!Next
    <3> QED
      BY <2>4, <3>4, <3>5, <3>6 DEF Found
  <2>5. CASE /\ GoRight \/ GoLeft
             /\ UNCHANGED <<mapFields, pc, call, index, i, value, ret>>
    <3>1. UNCHANGED <<am_item, am_size, am_len, pc, call, i, value, ret>>
      BY <2>5 DEF mapFields
    <3>2. Live' = Live /\ MapCall' = MapCall
      BY <3>1 DEF Live, MapCall
    <3> QED
      BY <3>1, <3>2, <1>e, <1>v
  <2> QED
    BY <1>5, <2>3, <2>4, <2>5, Zenon DEF Bsearch
<1>6. CASE ShiftUp
  <2>0. /\ pc = "shift_up" /\ MapCall = call /\ Live = (0..am_len) \ {i}
        /\ index \in 0..am_len /\ i \in index..am_len /\ am_len < am_size
        /\ am_item \in [Slot -> Item \cup {NULL}]
        /\ 0..am_len \subseteq Slot /\ i \in Slot /\ index \in Slot
        /\ call.op = "insert" /\ \A k \in Live : am_item[k] \in Item
    <3>1. pc = "shift_up"
      BY <1>6 DEF ShiftUp
    <3>2. index \in 0..am_len /\ i \in index..am_len /\ am_len < am_size
      BY <3>1 DEF Inv, Bounds
    <3>3. 0..am_len \subseteq Slot /\ i \in Slot /\ index \in Slot
      BY <1>0, <3>2 DEF Slot
    <3>4. Live = (0..am_len) \ {i} /\ MapCall = call
      BY <3>1 DEF Live, MapCall
    <3> QED
      BY <3>1, <3>2, <3>3, <3>4 DEF Inv, TypeOK, Bounds
  <2>1. CASE ShiftUpLoops
    <3>1. /\ am_item' = [am_item EXCEPT ![i] = am_item[i - 1]] /\ i' = i - 1
          /\ UNCHANGED <<am_size, am_len, pc, call, value, ret>>
      BY <1>6, <2>1 DEF ShiftUp
    <3>2. i - 1 \in Live
      BY <1>0, <2>0, <2>1 DEF ShiftUpLoops
    <3>3. Live' = (0..am_len) \ {i - 1} /\ i \in Live'
      BY <1>0, <2>0, <3>1 DEF Live
    <3>4. am_item'[i] = am_item[i - 1] /\ \A k \in (0..am_len) \ {i} : am_item'[k] = am_item[k]
      BY <2>0, <3>1
    <3>5. Entries' = Entries
      BY <2>0, <3>2, <3>3, <3>4 DEF Entries
    <3>6. MapCall' = MapCall
      BY <2>0, <3>1 DEF MapCall
    <3> QED
      BY <3>1, <3>5, <3>6, <1>v
  <2>2. CASE ~ShiftUpLoops
    <3>1. i = index
      BY <2>0, <2>2 DEF ShiftUpLoops
    <3>2. ToUint(am_len + 1) = am_len + 1
      BY <1>0, <2>0, ToUintFits
    <3>3. /\ am_item' = [am_item EXCEPT ![index] = call.arg] /\ am_len' = am_len + 1
          /\ pc' = "idle" /\ ret' = TRUE
          /\ UNCHANGED <<am_size, value>>
      BY <1>6, <2>2, <3>2 DEF ShiftUp, Return
    <3>4. Live' = 0..am_len
      BY <3>3, <1>0 DEF Live
    <3>5. am_item'[i] = call.arg /\ \A k \in (0..am_len) \ {i} : am_item'[k] = am_item[k]
      BY <2>0, <3>1, <3>3
    <3>6. Entries' = Entries \cup {call.arg}
      BY <2>0, <3>1, <3>4, <3>5 DEF Entries
    <3>7. Map!With(KeyOf[call.arg]) = {}
      <4>1. SearchKey \in Int /\ SearchKey = KeyOf[call.arg]
        BY <2>0, SearchKeyInt DEF Inv
      <4>2. \A k \in Live : /\ k \in Int /\ KeyOf[am_item[k]] \in Int
                            /\ k < index => KeyOf[am_item[k]] < SearchKey
                            /\ k >= index => KeyOf[am_item[k]] > SearchKey
        BY <2>0, KeyOfAssumption DEF Inv, SearchWindow
      <4>3. \A k \in Live : KeyOf[am_item[k]] # KeyOf[call.arg]
        BY <2>0, <4>1, <4>2
      <4> QED
        BY <4>3 DEF Map!With
    <3>8. Map!Cardinality(Entries) < am_size
      BY <2>0, EntriesCount
    <3>9. MapCall.op = "insert" /\ MapCall.arg = call.arg /\ MapCall' = Map!None
      BY <2>0, <3>3, <1>n
    <3>10. Map!Insert
      BY <3>3, <3>6, <3>7, <3>8, <3>9, Zenon DEF Map!Insert, Entries, MapCall
    <3> QED
      BY <3>10 DEF Map!Next
  <2> QED
    BY <2>1, <2>2
<1>7. CASE ShiftDown
  <2>0. /\ pc = "shift_down" /\ Live = (0..(am_len - 1)) \ {i}
        /\ index \in 0..(am_len - 1) /\ i \in index..(am_len - 1)
        /\ am_item \in [Slot -> Item \cup {NULL}]
        /\ 0..(am_len - 1) \subseteq Slot /\ i \in Slot
        /\ ToUint(am_len - 1) = am_len - 1 /\ ret = NULL
    <3>1. pc = "shift_down"
      BY <1>7 DEF ShiftDown
    <3>2. index \in 0..(am_len - 1) /\ i \in index..(am_len - 1) /\ ret = NULL
      BY <3>1 DEF Inv, Bounds
    <3>3. 0..(am_len - 1) \subseteq Slot /\ i \in Slot
      BY <1>0, <3>2 DEF Slot
    <3>4. ToUint(am_len - 1) = am_len - 1
      BY <1>0, <3>2, ToUintFits
    <3> QED
      BY <3>1, <3>2, <3>3, <3>4 DEF Inv, TypeOK, Live
  <2>1. CASE i < ToUint(am_len - 1)
    <3>1. ToUint(i + 1) = i + 1
      BY <1>0, <2>0, <2>1, ToUintFits
    <3>2. /\ am_item' = [am_item EXCEPT ![i] = am_item[i + 1]] /\ i' = i + 1
          /\ UNCHANGED <<am_size, am_len, pc, call, value, ret>>
      BY <1>0, <1>7, <2>0, <2>1, <3>1 DEF ShiftDown
    <3>3. i + 1 \in Live
      BY <1>0, <2>0, <2>1
    <3>4. Live' = (0..(am_len - 1)) \ {i + 1} /\ i \in Live'
      BY <1>0, <2>0, <3>2 DEF Live
    <3>5. am_item'[i] = am_item[i + 1]
          /\ \A k \in (0..(am_len - 1)) \ {i} : am_item'[k] = am_item[k]
      BY <2>0, <3>2
    <3>6. Entries' = Entries
      BY <2>0, <3>3, <3>4, <3>5 DEF Entries
    <3>7. MapCall' = MapCall
      BY <2>0, <3>2 DEF MapCall
    <3> QED
      BY <3>2, <3>6, <3>7, <1>v
  <2>2. CASE ~(i < ToUint(am_len - 1))
    <3>1. i = am_len - 1
      BY <1>0, <2>0, <2>2
    <3>2. /\ am_len' = am_len - 1 /\ pc' = "idle" /\ ret' = NULL
          /\ UNCHANGED <<am_item, am_size, value>>
      BY <1>7, <2>0, <2>2 DEF ShiftDown, Return
    <3>3. Live' = Live
      BY <1>0, <2>0, <3>1, <3>2 DEF Live
    <3>4. MapCall = Map!Owed
      BY <2>0 DEF MapCall, Map!Owed
    <3>5. Map!Reply
      BY <2>0, <3>2, <3>3, <3>4, <1>e, <1>n DEF Map!Reply, Entries, MapCall
    <3> QED
      BY <3>5 DEF Map!Next
  <2> QED
    BY <2>1, <2>2
<1>8. CASE UNCHANGED vars
  <2>1. Live' = Live /\ MapCall' = MapCall
    BY <1>8 DEF vars, Live, MapCall
  <2> QED
    BY <1>8, <2>1, <1>e, <1>v DEF vars
<1> QED
  <2>1. ASSUME NEW v \in Item, Call("insert", v) PROVE Map!Next
    BY <1>4, <2>1 DEF Map!Request, Map!Key
  <2>2. ASSUME NEW k \in Key, NEW op \in {"remove", "find"}, Call(op, k) PROVE Map!Next
    BY <1>4, <2>2 DEF Map!Request, Map!Key, Key
  <2> QED
    BY <1>2, <1>3, <1>5, <1>6, <1>7, <1>8, <2>1, <2>2 DEF Next, Client, Library

\* For every value type, key function and capacity bsearch can cope with,
\* array_map.h behaves like a map: insert refuses a key that is there and a
\* full map, find and remove find exactly the keys present, and shifting loses
\* no value.
THEOREM Refinement == Spec => ImplementsMap
BY InitRefines, NextRefines, InvAlways, PTL DEF Spec, ImplementsMap, Map!Spec
=============================================================================
