------------------------- MODULE ArrayMapPoolProofs -------------------------
(***************************************************************************)
(* Proofs about ArrayMapPool for every number of objects, every key set    *)
(* and every capacity that bsearch can cope with (BufLenAssumption).       *)
(*                                                                         *)
(* The properties hold each other up, so the induction takes them all at   *)
(* once: bsearch finds the right place because the objects are sorted,     *)
(* they stay sorted because initializer and finalizer change the key of no *)
(* other object in the array, and that is so because no object is listed   *)
(* twice.  Last, the callbacks of PoolCallbacks: what the waiting call has *)
(* in its locals stays true of the pool.                                   *)
(***************************************************************************)
EXTENDS PoolCallbacks, FiniteSetTheorems, TLAPS

\* Where the locals of a running call are, and that it has not answered yet.
Bounds ==
  /\ amp_len <= amp_size
  /\ pc = "idle" <=> call = None
  /\ pc # "idle" => ret = NULL
  /\ pc # "idle" => call.arg \in Key
  /\ pc = "bsearch" => low \in 0..amp_len /\ high \in (-1)..(amp_len - 1)
  /\ pc = "shift_up" => /\ call.op = "get"
                        /\ amp_len < amp_size /\ index \in 0..amp_len /\ i \in index..amp_len
  /\ pc = "shift_down" => index \in 0..(amp_len - 1) /\ i \in index..(amp_len - 1)
  /\ Shifting => item \in Object

\* The pointer that stands in slot s once the running loop is over or has
\* moved on, and PoolConserved in these terms.
Held(s) == IF Shifting /\ s = i THEN item ELSE amp_item[s]
Conserved == \A a, b \in Slot : a # b => Held(a) # Held(b)

Inv == TypeOK /\ Bounds /\ Conserved /\ LiveSorted /\ SearchWindow

-----------------------------------------------------------------------------
(* The conversions between int and unsigned.                               *)

\* The unsigned width is beyond twice the capacity.
LEMMA UintRange == UintMod \in Nat /\ BufLen < UintMod /\ BufLen <= IntMax + 1 /\ UintMod > 1
BY IntMaxAssumption, BufLenAssumption DEF UintMod

\* Lengths are the same as int and as unsigned.
LEMMA ToUintFits ==
  ASSUME NEW n \in 0..BufLen
  PROVE  ToUint(n) = n
<1>1. n \in Nat /\ n < UintMod
  BY UintRange, BufLenAssumption
<1> QED
  BY <1>1, UintRange DEF ToUint

\* So are indexes.
LEMMA ToIntFits ==
  ASSUME NEW n \in 0..(BufLen - 1)
  PROVE  ToInt(n) = n
BY UintRange, IntMaxAssumption, BufLenAssumption DEF ToInt

\* high = amp_len - 1 is what it says, -1 for an empty pool.
LEMMA LastIndexIs ==
  ASSUME amp_len \in 0..BufLen
  PROVE  LastIndex = amp_len - 1
<1>1. CASE amp_len = 0
  <2>1. (-1) % UintMod = UintMod - 1
    BY UintRange
  <2>2. UintMod - 1 > IntMax
    BY IntMaxAssumption DEF UintMod
  <2> QED
    BY <1>1, <2>1, <2>2, UintRange DEF LastIndex, ToInt, ToUint
<1>2. CASE amp_len # 0
  <2>1. amp_len - 1 \in 0..BufLen /\ amp_len - 1 \in 0..(BufLen - 1)
    BY <1>2, BufLenAssumption
  <2> QED
    BY <2>1, ToUintFits, ToIntFits DEF LastIndex
<1> QED
  BY <1>1, <1>2

\* The middle of a window that is not empty.
LEMMA MedInside ==
  ASSUME low \in Nat, high \in Int, low <= high
  PROVE  Med \in low..high
BY DEF Med

\* Conserved is PoolConserved.
LEMMA ConservedIs ==
  ASSUME TypeOK
  PROVE  PoolConserved <=> Conserved
<1>1. DOMAIN amp_item = Slot
  BY DEF TypeOK
<1>2. CASE Shifting
  BY <1>1, <1>2 DEF PoolConserved, Conserved, Held, IsInjective
<1>3. CASE ~Shifting
  BY <1>1, <1>3 DEF PoolConserved, Conserved, Held, IsInjective
<1> QED
  BY <1>2, <1>3

-----------------------------------------------------------------------------
\* A freshly initialised pool, its objects in any order.
LEMMA InitInv == Init => Inv
<1> SUFFICES ASSUME Init PROVE Inv
  OBVIOUS
<1>1. TypeOK
  <2>1. key \in [Object -> Key \cup {NULL}] /\ amp_item \in [Slot -> Object]
    BY DEF Init
  <2>2. 0 \in 0..BufLen /\ 0 \in (-1)..BufLen
    BY BufLenAssumption
  <2> QED
    BY <2>1, <2>2, BufLenAssumption DEF Init, TypeOK
<1>2. Bounds
  BY BufLenAssumption DEF Init, Bounds, Shifting
<1>3. Conserved
  BY <1>1 DEF Init, Conserved, Held, Shifting, IsInjective, TypeOK
<1>4. LiveSorted /\ SearchWindow
  BY DEF Init, LiveSorted, SearchWindow, Live
<1> QED
  BY <1>1, <1>2, <1>3, <1>4 DEF Inv

\* Every operation, and every turn of every loop, preserves the invariant.
LEMMA NextInv == Inv /\ [Next]_vars => Inv'
<1> SUFFICES ASSUME Inv, [Next]_vars PROVE Inv'
  OBVIOUS
<1>0. /\ BufLen \in Nat /\ IntMax \in Nat
      /\ amp_len \in 0..BufLen /\ amp_size \in 0..BufLen /\ amp_len <= amp_size
  BY BufLenAssumption, IntMaxAssumption DEF Inv, TypeOK, Bounds
<1>1. ASSUME pc = "idle", pc' = "idle", amp_len' = 0, amp_size' \in 0..BufLen,
             UNCHANGED <<amp_item, objects, call, low, high, index, i, item, ret>>
      PROVE  Inv'
  <2>1. TypeOK'
    BY <1>0, <1>1 DEF Inv, TypeOK, objects
  <2>2. Bounds'
    BY <1>0, <1>1 DEF Inv, Bounds, Shifting
  <2>3. Conserved'
    BY <1>1 DEF Inv, Conserved, Held, Shifting
  <2>4. LiveSorted' /\ SearchWindow'
    BY <1>1 DEF LiveSorted, SearchWindow, Live
  <2> QED
    BY <2>1, <2>2, <2>3, <2>4 DEF Inv
<1>2. CASE ARRAY_MAP_POOL_CLEAR
  BY <1>0, <1>1, <1>2 DEF ARRAY_MAP_POOL_CLEAR
<1>3. ASSUME NEW siz \in 0..BufLen, ARRAY_MAP_POOL_INIT(siz) PROVE Inv'
  BY <1>0, <1>1, <1>3 DEF ARRAY_MAP_POOL_INIT
<1>4. ASSUME NEW k \in Key, NEW op \in {"get", "free", "find"}, Call(op, k) PROVE Inv'
  <2>1. /\ pc = "idle" /\ pc' = "bsearch" /\ call' = [op |-> op, arg |-> k]
        /\ low' = 0 /\ high' = amp_len - 1
        /\ UNCHANGED <<amp_item, amp_size, amp_len, key, alive, index, i, item>>
        /\ ret' = NULL
    BY <1>0, <1>4, LastIndexIs DEF Call, poolFields, objects
  <2>2. TypeOK'
    <3>1. call' \in [op : {"get", "free", "find"}, arg : Key]
      BY <2>1
    <3> QED
      BY <1>0, <2>1, <3>1 DEF Inv, TypeOK
  <2>3. Bounds'
    <3>1. call' # None
      BY <2>1 DEF None
    <3> QED
      BY <1>0, <2>1, <3>1 DEF Bounds, Shifting
  <2>4. Conserved'
    BY <2>1 DEF Inv, Conserved, Held, Shifting
  <2>5. LiveSorted' /\ SearchWindow'
    BY <1>0, <2>1 DEF Inv, LiveSorted, SearchWindow, Live
  <2> QED
    BY <2>2, <2>3, <2>4, <2>5 DEF Inv
<1>5. ASSUME pc = "bsearch", NEW r \in Object \cup {NULL}, Return(r),
             UNCHANGED <<poolFields, objects>>
      PROVE  Inv'
  <2>1. /\ pc' = "idle" /\ call' = None /\ item' = NULL /\ ret' = r
        /\ low' = 0 /\ high' = 0 /\ index' = 0 /\ i' = 0
        /\ UNCHANGED <<amp_item, amp_size, amp_len, key, alive>>
    BY <1>5 DEF Return, poolFields, objects
  <2>2. TypeOK'
    BY <1>0, <2>1 DEF Inv, TypeOK
  <2>3. Bounds'
    BY <1>0, <2>1 DEF Bounds, Shifting
  <2>4. Conserved'
    BY <1>5, <2>1 DEF Inv, Conserved, Held, Shifting
  <2>5. LiveSorted' /\ SearchWindow'
    BY <1>5, <2>1 DEF Inv, LiveSorted, SearchWindow, Live
  <2> QED
    BY <2>2, <2>3, <2>4, <2>5 DEF Inv
<1>6. CASE Bsearch
  <2>0. /\ pc = "bsearch" /\ Live = 0..(amp_len - 1) /\ ~Shifting
        /\ low \in 0..amp_len /\ high \in (-1)..(amp_len - 1) /\ call.arg \in Key
        /\ \A k \in Live : amp_item[k] \in alive /\ key[amp_item[k]] \in Key
        /\ amp_item \in [Slot -> Object] /\ key \in [Object -> Key \cup {NULL}]
        /\ Live \subseteq Slot
    <3>1. pc = "bsearch"
      BY <1>6 DEF Bsearch
    <3>2. Live = 0..(amp_len - 1) /\ Live \subseteq Slot
      BY <1>0, <3>1 DEF Live, Slot
    <3> QED
      BY <3>1, <3>2 DEF Inv, TypeOK, Bounds, LiveSorted, Shifting
  <2>1. CASE low > high /\ NotFound
    <3>1. CASE /\ call.op \in {"free", "find"} \/ amp_len >= amp_size
               /\ Return(NULL) /\ UNCHANGED objects
      BY <1>5, <2>0, <2>1, <3>1 DEF NotFound
    <3>2. CASE ~(/\ call.op \in {"free", "find"} \/ amp_len >= amp_size
                 /\ Return(NULL) /\ UNCHANGED objects)
      <4>1. amp_len < amp_size /\ ToInt(amp_len) = amp_len /\ amp_len \in Slot
        BY <1>0, <2>1, <3>2, ToIntFits DEF NotFound, Slot
      <4>2. /\ call.op = "get"
            /\ item' = amp_item[amp_len] /\ pc' = "shift_up" /\ index' = low /\ i' = amp_len
            /\ key' = [key EXCEPT ![amp_item[amp_len]] = call.arg]
            /\ alive' = alive \cup {amp_item[amp_len]}
            /\ UNCHANGED <<amp_item, amp_size, amp_len, call, low, high, ret>>
        BY <2>1, <3>2, <4>1 DEF NotFound, NewItem, initializer, poolFields
      <4>3. item' \in Object
        BY <2>0, <4>1, <4>2
      <4>4. TypeOK'
        BY <1>0, <2>0, <4>2, <4>3 DEF Inv, TypeOK
      <4>5. Bounds'
        BY <1>0, <2>0, <4>1, <4>2, <4>3 DEF Inv, Bounds, Shifting
      <4>6. Conserved'
        BY <2>0, <4>2 DEF Inv, Conserved, Held, Shifting
      <4>7. Live' = Live /\ item' \in alive' /\ key'[item'] = call.arg
        BY <1>0, <2>0, <4>2, <4>3 DEF Live
      <4>8. \A k \in Live : key'[amp_item[k]] = key[amp_item[k]]
        <5>1. \A k \in Live : amp_item[k] # amp_item[amp_len]
          BY <1>0, <2>0, <4>1 DEF Inv, Conserved, Held
        <5> QED
          BY <2>0, <4>2, <5>1
      <4>9. LiveSorted' /\ SearchWindow'
        BY <1>0, <2>0, <2>1, <4>2, <4>7, <4>8, NullAssumption DEF Inv, LiveSorted, SearchWindow
      <4> QED
        BY <4>4, <4>5, <4>6, <4>9 DEF Inv
    <3> QED
      BY <3>1, <3>2
  <2>2. CASE low <= high
    <3>0. Med \in low..high /\ Med \in Live /\ Med \in Int
      BY <1>0, <2>0, <2>2, MedInside
    <3>1. CASE Found(Med) /\ key_cmp(amp_item[Med], call.arg) = 0
      <4>1. CASE call.op \in {"get", "find"} /\ Return(amp_item[Med]) /\ UNCHANGED objects
        BY <1>5, <2>0, <3>0, <3>1, <4>1 DEF Found
      <4>2. CASE ~(call.op \in {"get", "find"} /\ Return(amp_item[Med]) /\ UNCHANGED objects)
        <5>1. /\ pc' = "shift_down" /\ item' = amp_item[Med] /\ index' = Med /\ i' = Med
              /\ key' = [key EXCEPT ![amp_item[Med]] = NULL]
              /\ alive' = alive \ {amp_item[Med]}
              /\ UNCHANGED <<amp_item, amp_size, amp_len, call, low, high, ret>>
          BY <3>1, <4>2 DEF Found, finalizer, poolFields
        <5>2. item' \in Object
          BY <2>0, <3>0, <5>1
        <5>3. TypeOK'
          BY <1>0, <2>0, <3>0, <5>1, <5>2 DEF Inv, TypeOK
        <5>4. Bounds'
          BY <1>0, <2>0, <3>0, <5>1, <5>2 DEF Inv, Bounds, Shifting
        <5>5. Conserved'
          BY <2>0, <5>1 DEF Inv, Conserved, Held, Shifting
        <5>6. Live' = Live \ {Med}
          BY <1>0, <2>0, <5>1 DEF Live
        <5>7. \A k \in Live' : amp_item[k] # amp_item[Med]
          BY <2>0, <3>0, <5>6 DEF Inv, Conserved, Held
        <5>8. \A k \in Live' : key'[amp_item[k]] = key[amp_item[k]] /\ amp_item[k] \in alive'
          BY <2>0, <5>1, <5>6, <5>7
        <5>9. LiveSorted' /\ SearchWindow'
          BY <2>0, <5>1, <5>6, <5>8 DEF Inv, LiveSorted, SearchWindow
        <5> QED
          BY <5>3, <5>4, <5>5, <5>9 DEF Inv
      <4> QED
        BY <4>1, <4>2
    <3>2. CASE /\ \/ GoRight /\ key_cmp(amp_item[Med], call.arg) < 0
                  \/ GoLeft /\ key_cmp(amp_item[Med], call.arg) > 0
               /\ UNCHANGED <<poolFields, objects, pc, call, index, i, item, ret>>
      <4>1. /\ UNCHANGED <<amp_item, amp_size, amp_len, key, alive, pc, call, index, i, item, ret>>
            /\ Live' = Live
        BY <3>2 DEF poolFields, objects, Live
      <4>2. \/ low' = Med + 1 /\ high' = high /\ key[amp_item[Med]] < call.arg
            \/ high' = Med - 1 /\ low' = low /\ key[amp_item[Med]] > call.arg
        BY <2>0, <3>0, <3>2, KeyAssumption DEF GoRight, GoLeft, key_cmp
      <4>3. TypeOK'
        BY <1>0, <2>0, <3>0, <4>1, <4>2 DEF Inv, TypeOK
      <4>4. Bounds'
        BY <1>0, <2>0, <3>0, <4>1, <4>2 DEF Inv, Bounds, Shifting
      <4>5. Conserved'
        BY <4>1 DEF Inv, Conserved, Held, Shifting
      <4>6. LiveSorted'
        BY <4>1 DEF Inv, LiveSorted
      <4>7. SearchWindow'
        <5>1. \A k \in Live : /\ k < low => key[amp_item[k]] < call.arg
                              /\ k > high => key[amp_item[k]] > call.arg
          BY <2>0 DEF Inv, SearchWindow
        <5>2. \A j, k \in Live : j < k => key[amp_item[j]] < key[amp_item[k]]
          BY DEF Inv, LiveSorted
        <5>3. ASSUME NEW k \in Live PROVE k \in Int /\ key[amp_item[k]] \in Int
          <6>1. key[amp_item[k]] \in Key
            BY <2>0
          <6>2. key[amp_item[k]] \in Int
            BY <6>1, KeyAssumption, Zenon
          <6>3. k \in Int
            BY <2>0
          <6> QED
            BY <6>2, <6>3
        <5>4. call.arg \in Int
          BY <2>0, KeyAssumption
        <5>5. \A k \in Live : k < Med => key[amp_item[k]] < key[amp_item[Med]]
          BY <5>2, <3>0
        <5>6. ASSUME NEW k \in Live, k > Med PROVE key[amp_item[k]] > key[amp_item[Med]]
          <6>1. Med < k
            BY <5>3, <5>6, <3>0
          <6>2. key[amp_item[Med]] < key[amp_item[k]]
            BY <5>2, <3>0, <6>1
          <6> QED
            BY <5>3, <3>0, <6>2
        <5>7. \A k \in Live : /\ k < low' => key[amp_item[k]] < call.arg
                              /\ k > high' => key[amp_item[k]] > call.arg
          BY <5>1, <5>3, <5>4, <5>5, <5>6, <4>2, <3>0
        <5> QED
          BY <2>0, <4>1, <5>7 DEF SearchWindow
      <4> QED
        BY <4>3, <4>4, <4>5, <4>6, <4>7 DEF Inv
    <3>3. ~(low > high)
      BY <2>0, <2>2, <1>0
    <3>4. \/ Found(Med) /\ key_cmp(amp_item[Med], call.arg) = 0
          \/ /\ \/ GoRight /\ key_cmp(amp_item[Med], call.arg) < 0
                \/ GoLeft /\ key_cmp(amp_item[Med], call.arg) > 0
             /\ UNCHANGED <<poolFields, objects, pc, call, index, i, item, ret>>
      BY <1>6, <3>3, Zenon DEF Bsearch
    <3> QED
      BY <3>1, <3>2, <3>4
  <2>3. low > high => low > high /\ NotFound
    BY <1>6, <2>0, <1>0 DEF Bsearch
  <2> QED
    BY <2>0, <1>0, <2>1, <2>2, <2>3
<1>7. CASE ShiftUp
  <2>0. /\ pc = "shift_up" /\ Shifting /\ Live = (0..amp_len) \ {i}
        /\ index \in 0..amp_len /\ i \in index..amp_len /\ amp_len < amp_size
        /\ call.arg \in Key /\ item \in Object /\ item \in alive /\ key[item] = call.arg
        /\ amp_item \in [Slot -> Object] /\ key \in [Object -> Key \cup {NULL}]
        /\ 0..amp_len \subseteq Slot /\ i \in Slot /\ index \in Slot
        /\ \A k \in Live : amp_item[k] \in alive /\ key[amp_item[k]] \in Key
    <3>1. pc = "shift_up"
      BY <1>7 DEF ShiftUp
    <3>2. /\ index \in 0..amp_len /\ i \in index..amp_len /\ amp_len < amp_size /\ Shifting
      BY <3>1 DEF Inv, Bounds, Shifting
    <3>3. 0..amp_len \subseteq Slot /\ i \in Slot /\ index \in Slot
      BY <1>0, <3>2 DEF Slot
    <3>4. Live = (0..amp_len) \ {i}
      BY <3>1 DEF Live
    <3> QED
      BY <3>1, <3>2, <3>3, <3>4 DEF Inv, TypeOK, Bounds, LiveSorted
  <2>1. CASE ShiftUpLoops
    <3>1. /\ amp_item' = [amp_item EXCEPT ![i] = amp_item[i - 1]] /\ i' = i - 1
          /\ UNCHANGED <<amp_size, amp_len, key, alive, pc, call, low, high, index, item, ret>>
      BY <1>7, <2>1 DEF ShiftUp, objects
    <3>2. i > index /\ i - 1 \in 0..amp_len /\ i - 1 \in Live /\ i - 1 \in Slot
      BY <1>0, <2>0, <2>1 DEF ShiftUpLoops
    <3>3. Live' = (0..amp_len) \ {i - 1}
      BY <2>0, <3>1 DEF Live
    <3>4. amp_item' \in [Slot -> Object]
      BY <2>0, <3>1, <3>2
    <3>5. TypeOK'
      BY <1>0, <2>0, <3>1, <3>2, <3>4 DEF Inv, TypeOK
    <3>6. Bounds'
      BY <1>0, <2>0, <3>1, <3>2 DEF Inv, Bounds, Shifting
    <3>7. Conserved'
      <4>1. \A a \in Slot : Held(a)' = IF a = i - 1 THEN item
                                       ELSE IF a = i THEN amp_item[i - 1] ELSE amp_item[a]
        BY <2>0, <3>1 DEF Held, Shifting
      <4>2. \A a \in Slot : Held(a) = IF a = i THEN item ELSE amp_item[a]
        BY <2>0 DEF Held
      <4> QED
        BY <1>0, <2>0, <3>2, <4>1, <4>2 DEF Inv, Conserved
    <3>8. ASSUME NEW k \in Live'
          PROVE  /\ k \in Int
                 /\ \/ k # i /\ k \in Live /\ amp_item'[k] = amp_item[k]
                    \/ k = i /\ amp_item'[k] = amp_item[i - 1]
      BY <1>0, <2>0, <3>1, <3>2, <3>3
    <3>9. \A k \in Live' : amp_item'[k] \in alive /\ key[amp_item'[k]] \in Key
      BY <2>0, <3>2, <3>8
    <3>10. LiveSorted'
      <4>1. ASSUME NEW j \in Live', NEW k \in Live', j < k
            PROVE  key[amp_item'[j]] < key[amp_item'[k]]
        <5>1. \A a, b \in Live : a < b => key[amp_item[a]] < key[amp_item[b]]
          BY DEF Inv, LiveSorted
        <5>2. CASE j # i /\ k # i
          BY <4>1, <5>1, <5>2, <3>8
        <5>3. CASE j = i
          <6>1. i - 1 < k /\ k # i
            BY <4>1, <5>3, <3>8, <2>0
          <6> QED
            BY <6>1, <5>1, <5>3, <3>2, <3>8
        <5>4. CASE k = i
          <6>1. j < i - 1 /\ j # i
            BY <4>1, <5>4, <3>3, <3>8, <2>0
          <6> QED
            BY <6>1, <5>1, <5>4, <3>2, <3>8
        <5> QED
          BY <5>2, <5>3, <5>4
      <4>2. \A k \in Live' : amp_item'[k] \in alive' /\ key'[amp_item'[k]] # NULL
        BY <3>1, <3>9, NullAssumption
      <4> QED
        BY <4>1, <4>2, <2>0, <3>1 DEF LiveSorted
    <3>11. SearchWindow'
      <4>1. ASSUME NEW k \in Live'
            PROVE  /\ k < index => key[amp_item'[k]] < call.arg
                   /\ k >= index => key[amp_item'[k]] > call.arg
        <5>1. \A a \in Live : /\ a < index => key[amp_item[a]] < call.arg
                              /\ a >= index => key[amp_item[a]] > call.arg
          BY <2>0 DEF Inv, SearchWindow
        <5>2. CASE k # i
          BY <5>1, <5>2, <3>8
        <5>3. CASE k = i
          <6>1. k >= index /\ i - 1 >= index /\ ~(k < index)
            BY <5>3, <2>0, <3>2
          <6> QED
            BY <6>1, <5>1, <5>3, <3>2, <3>8
        <5> QED
          BY <5>2, <5>3
      <4> QED
        BY <4>1, <2>0, <3>1 DEF SearchWindow
    <3> QED
      BY <3>5, <3>6, <3>7, <3>10, <3>11 DEF Inv
  <2>2. CASE ~ShiftUpLoops
    <3>1. i = index
      BY <2>0, <2>2 DEF ShiftUpLoops
    <3>2. ToUint(amp_len + 1) = amp_len + 1
      BY <1>0, <2>0, ToUintFits
    <3>3. /\ amp_item' = [amp_item EXCEPT ![index] = item] /\ amp_len' = amp_len + 1
          /\ pc' = "idle" /\ call' = None /\ item' = NULL /\ ret' = amp_item'[index]
          /\ low' = 0 /\ high' = 0 /\ index' = 0 /\ i' = 0
          /\ UNCHANGED <<amp_size, key, alive>>
      BY <1>7, <2>2, <3>2 DEF ShiftUp, Return, objects
    <3>4. amp_item' \in [Slot -> Object] /\ ret' \in Object
      BY <2>0, <3>3
    <3>5. TypeOK'
      BY <1>0, <2>0, <3>3, <3>4 DEF Inv, TypeOK
    <3>6. Bounds'
      BY <1>0, <2>0, <3>3 DEF Inv, Bounds, Shifting
    <3>7. Conserved'
      <4>1. \A a \in Slot : Held(a)' = Held(a)
        BY <2>0, <3>1, <3>3 DEF Held, Shifting
      <4> QED
        BY <4>1 DEF Inv, Conserved
    <3>8. Live' = 0..amp_len
      BY <1>0, <2>0, <3>3 DEF Live
    <3>9. ASSUME NEW k \in Live'
          PROVE  /\ k \in Int
                 /\ \/ k # index /\ k \in Live /\ amp_item'[k] = amp_item[k]
                    \/ k = index /\ amp_item'[k] = item
      BY <1>0, <2>0, <3>1, <3>3, <3>8
    <3>10. LiveSorted'
      <4>1. ASSUME NEW j \in Live', NEW k \in Live', j < k
            PROVE  key[amp_item'[j]] < key[amp_item'[k]]
        <5>1. \A a, b \in Live : a < b => key[amp_item[a]] < key[amp_item[b]]
          BY DEF Inv, LiveSorted
        <5>2. \A a \in Live : /\ a < index => key[amp_item[a]] < call.arg
                              /\ a >= index => key[amp_item[a]] > call.arg
          BY <2>0 DEF Inv, SearchWindow
        <5>3. CASE j # index /\ k # index
          BY <4>1, <5>1, <5>3, <3>9
        <5>4. CASE j = index
          <6>1. k >= index /\ k # index
            BY <4>1, <5>4, <3>9, <2>0
          <6>2. key[amp_item[k]] > call.arg /\ key[amp_item[k]] \in Int /\ call.arg \in Int
            BY <6>1, <5>2, <3>9, <2>0, KeyAssumption
          <6> QED
            BY <6>1, <6>2, <5>4, <3>9, <2>0
        <5>5. CASE k = index
          BY <4>1, <5>2, <5>5, <3>9, <2>0
        <5> QED
          BY <5>3, <5>4, <5>5
      <4>2. \A k \in Live' : amp_item'[k] \in alive' /\ key'[amp_item'[k]] # NULL
        BY <2>0, <3>3, <3>9, NullAssumption
      <4> QED
        BY <4>1, <4>2, <3>3 DEF LiveSorted
    <3>11. SearchWindow'
      BY <3>3 DEF SearchWindow
    <3> QED
      BY <3>5, <3>6, <3>7, <3>10, <3>11 DEF Inv
  <2> QED
    BY <2>1, <2>2
<1>8. CASE ShiftDown
  <2>0. /\ pc = "shift_down" /\ Shifting /\ Live = (0..(amp_len - 1)) \ {i}
        /\ index \in 0..(amp_len - 1) /\ i \in index..(amp_len - 1) /\ item \in Object
        /\ amp_item \in [Slot -> Object] /\ 0..(amp_len - 1) \subseteq Slot /\ i \in Slot
        /\ ToUint(amp_len - 1) = amp_len - 1
    <3>1. pc = "shift_down"
      BY <1>8 DEF ShiftDown
    <3>2. index \in 0..(amp_len - 1) /\ i \in index..(amp_len - 1) /\ Shifting
      BY <3>1 DEF Inv, Bounds, Shifting
    <3>3. 0..(amp_len - 1) \subseteq Slot /\ i \in Slot
      BY <1>0, <3>2 DEF Slot
    <3>4. Live = (0..(amp_len - 1)) \ {i}
      BY <3>1 DEF Live
    <3>5. ToUint(amp_len - 1) = amp_len - 1
      BY <1>0, <3>2, ToUintFits
    <3> QED
      BY <3>1, <3>2, <3>3, <3>4, <3>5 DEF Inv, TypeOK, Bounds
  <2>1. \A a, b \in Live : a < b => key[amp_item[a]] < key[amp_item[b]]
    BY DEF Inv, LiveSorted
  <2>2. \A a \in Live : amp_item[a] \in alive /\ key[amp_item[a]] # NULL
    BY DEF Inv, LiveSorted
  <2>3. CASE i < amp_len - 1
    <3>0. ToUint(i + 1) = i + 1
      BY <1>0, <2>0, <2>3, ToUintFits
    <3>1. /\ amp_item' = [amp_item EXCEPT ![i] = amp_item[i + 1]] /\ i' = i + 1
          /\ UNCHANGED <<amp_size, amp_len, key, alive, pc, call, low, high, index, item, ret>>
      BY <1>8, <1>0, <2>0, <2>3, <3>0 DEF ShiftDown, objects
    <3>2. i + 1 \in 0..(amp_len - 1) /\ i + 1 \in Live /\ i + 1 \in Slot
      BY <1>0, <2>0, <2>3
    <3>3. Live' = (0..(amp_len - 1)) \ {i + 1}
      BY <2>0, <3>1 DEF Live
    <3>4. amp_item' \in [Slot -> Object]
      BY <2>0, <3>1, <3>2
    <3>5. TypeOK'
      BY <1>0, <2>0, <3>1, <3>2, <3>4 DEF Inv, TypeOK
    <3>6. Bounds'
      BY <1>0, <2>0, <3>1, <3>2 DEF Inv, Bounds, Shifting
    <3>7. Conserved'
      <4>1. \A a \in Slot : Held(a)' = IF a = i + 1 THEN item
                                       ELSE IF a = i THEN amp_item[i + 1] ELSE amp_item[a]
        BY <2>0, <3>1 DEF Held, Shifting
      <4>2. \A a \in Slot : Held(a) = IF a = i THEN item ELSE amp_item[a]
        BY <2>0 DEF Held
      <4> QED
        BY <1>0, <2>0, <3>2, <4>1, <4>2 DEF Inv, Conserved
    <3>8. ASSUME NEW k \in Live'
          PROVE  /\ k \in Int
                 /\ \/ k # i /\ k \in Live /\ amp_item'[k] = amp_item[k]
                    \/ k = i /\ amp_item'[k] = amp_item[i + 1]
      BY <1>0, <2>0, <3>1, <3>2, <3>3
    <3>9. ASSUME NEW j \in Live', NEW k \in Live', j < k
          PROVE  key[amp_item'[j]] < key[amp_item'[k]]
      <4>1. CASE j # i /\ k # i
        BY <3>9, <4>1, <2>1, <3>8
      <4>2. CASE j = i
        <5>1. i + 1 < k /\ k # i
          BY <3>9, <4>2, <3>3, <3>8, <2>0
        <5> QED
          BY <5>1, <4>2, <2>1, <3>2, <3>8
      <4>3. CASE k = i
        <5>1. j < i + 1 /\ j # i
          BY <3>9, <4>3, <3>8, <2>0
        <5> QED
          BY <5>1, <4>3, <2>1, <3>2, <3>8
      <4> QED
        BY <4>1, <4>2, <4>3
    <3>10. LiveSorted'
      <4>1. \A k \in Live' : amp_item'[k] \in alive' /\ key'[amp_item'[k]] # NULL
        BY <2>2, <3>1, <3>2, <3>8
      <4> QED
        BY <4>1, <3>9, <2>0, <3>1 DEF LiveSorted
    <3>11. SearchWindow'
      BY <2>0, <3>1 DEF SearchWindow
    <3> QED
      BY <3>5, <3>6, <3>7, <3>10, <3>11 DEF Inv
  <2>4. CASE ~(i < amp_len - 1)
    <3>1. i = amp_len - 1
      BY <1>0, <2>0, <2>4
    <3>2. /\ amp_item' = [amp_item EXCEPT ![i] = item] /\ amp_len' = amp_len - 1
          /\ pc' = "idle" /\ call' = None /\ item' = NULL /\ ret' = NULL
          /\ low' = 0 /\ high' = 0 /\ index' = 0 /\ i' = 0
          /\ UNCHANGED <<amp_size, key, alive>>
      BY <1>8, <2>0, <2>4, <3>1 DEF ShiftDown, GiveBack, Return, objects
    <3>3. amp_item' \in [Slot -> Object]
      BY <2>0, <3>2
    <3>4. TypeOK'
      BY <1>0, <2>0, <3>2, <3>3 DEF Inv, TypeOK
    <3>5. Bounds'
      BY <1>0, <2>0, <3>2 DEF Inv, Bounds, Shifting
    <3>6. Conserved'
      <4>1. \A a \in Slot : Held(a)' = Held(a)
        BY <2>0, <3>2 DEF Held, Shifting
      <4> QED
        BY <4>1 DEF Inv, Conserved
    <3>7. Live' = Live /\ i \notin Live
      BY <1>0, <2>0, <3>1, <3>2 DEF Live
    <3>8. \A k \in Live' : amp_item'[k] = amp_item[k]
      BY <2>0, <3>2, <3>7
    <3>9. LiveSorted' /\ SearchWindow'
      BY <2>1, <2>2, <3>2, <3>7, <3>8 DEF LiveSorted, SearchWindow
    <3> QED
      BY <3>4, <3>5, <3>6, <3>9 DEF Inv
  <2> QED
    BY <2>3, <2>4
<1>9. CASE UNCHANGED vars
  BY <1>9 DEF vars, Inv, TypeOK, Bounds, Shifting, Conserved, Held, LiveSorted, SearchWindow, Live
<1> QED
  BY <1>2, <1>3, <1>4, <1>6, <1>7, <1>8, <1>9 DEF Next, Client, Library

\* The invariant holds throughout.
LEMMA InvAlways == Spec => []Inv
BY InitInv, NextInv, PTL DEF Spec

-----------------------------------------------------------------------------
\* For every capacity bsearch can cope with, the pool's fields and the locals
\* of its functions keep their types.
THEOREM TypeCorrect == Spec => []TypeOK
<1>1. Inv => TypeOK
  BY DEF Inv
<1> QED
  BY <1>1, InvAlways, PTL

\* No sequence of get, free, find, clear and init loses an object or lists one
\* twice, in any turn of any loop.
THEOREM PoolSafe == Spec => []PoolConserved
<1>1. Inv => PoolConserved
  BY ConservedIs DEF Inv
<1> QED
  BY <1>1, InvAlways, PTL

\* In every turn of every loop the objects handed out are sorted by key,
\* initialised and not finalised.
THEOREM StaysSorted == Spec => []LiveSorted
<1>1. Inv => LiveSorted
  BY DEF Inv
<1> QED
  BY <1>1, InvAlways, PTL

\* The binary search leaves out of its window only what is smaller or larger
\* than the key, and get makes room where its object belongs.
THEOREM SearchCorrect == Spec => []SearchWindow
<1>1. Inv => SearchWindow
  BY DEF Inv
<1> QED
  BY <1>1, InvAlways, PTL

\* With 2 * BufLen <= INT_MAX + 1, low + high never overflows and no access
\* leaves the array.
THEOREM NoOverflow == Spec => []NoIntOverflow
<1>1. Inv => NoIntOverflow
  <2> SUFFICES ASSUME Inv PROVE NoIntOverflow
    OBVIOUS
  <2>1. amp_len \in 0..BufLen /\ amp_len <= BufLen /\ BufLen \in Nat /\ IntMax \in Nat
    BY BufLenAssumption, IntMaxAssumption DEF Inv, TypeOK
  <2>2. ASSUME pc = "bsearch", low <= high PROVE low + high <= IntMax /\ Med \in Live
    <3>1. low \in 0..amp_len /\ high \in (-1)..(amp_len - 1) /\ Live = 0..(amp_len - 1)
      BY <2>2 DEF Inv, Bounds, Live
    <3>2. Med \in low..high
      BY <2>1, <2>2, <3>1, MedInside
    <3>3. low + high <= 2 * BufLen - 2
      BY <2>1, <2>2, <3>1
    <3> QED
      BY <2>1, <3>1, <3>2, <3>3, BufLenAssumption
  <2> QED
    BY <2>1, <2>2 DEF Inv, Bounds, NoIntOverflow
<1> QED
  BY <1>1, InvAlways, PTL

-----------------------------------------------------------------------------
(* What the client sees.                                                   *)

\* The refinement mapping of Pool: which object is handed out under which key,
\* and the call as the client sees it.
HeldKeys == {key[amp_item[s]] : s \in Live}
Holder == [k \in HeldKeys |-> amp_item[SlotOf(k)]]
PoolCall == IF pc = "shift_down" THEN [op |-> "reply", arg |-> NULL] ELSE call

\* What the mapping comes to: the key in each live slot leads to its object.
HolderShape ==
  /\ DOMAIN Holder = HeldKeys
  /\ \A s \in Live : Holder[key[amp_item[s]]] = amp_item[s]

\* The live slots are indexes of the array and hold objects with keys.
LEMMA LiveSlots ==
  ASSUME Inv
  PROVE  /\ Live \subseteq Slot /\ Live \subseteq Int
         /\ \A s \in Live : amp_item[s] \in Object /\ key[amp_item[s]] \in Int
<1>1. BufLen \in Nat /\ amp_len \in 0..BufLen /\ amp_size \in 0..BufLen /\ amp_len <= amp_size
  BY BufLenAssumption DEF Inv, TypeOK, Bounds
<1>2. pc = "shift_up" => amp_len < amp_size
  BY DEF Inv, Bounds
<1>3. \/ pc = "shift_up" /\ Live = (0..amp_len) \ {i}
      \/ Live \subseteq 0..(amp_len - 1)
  BY DEF Live, Inv, TypeOK
<1>4. Live \subseteq Slot /\ Live \subseteq Int
  BY <1>1, <1>2, <1>3 DEF Slot
<1>5. \A s \in Live : amp_item[s] \in Object
  BY <1>4 DEF Inv, TypeOK
<1> QED
  BY <1>4, <1>5, KeyAssumption DEF Inv, TypeOK, LiveSorted

\* No two live slots hold objects of the same key.
LEMMA KeyOnce ==
  ASSUME Inv, NEW s \in Live, NEW t \in Live, key[amp_item[s]] = key[amp_item[t]]
  PROVE  s = t
<1>1. /\ s \in Int /\ t \in Int
      /\ key[amp_item[s]] \in Int /\ key[amp_item[t]] \in Int
  BY LiveSlots
<1>2. ~(s < t) /\ ~(t < s)
  BY <1>1 DEF Inv, LiveSorted
<1> QED
  BY <1>1, <1>2

\* HolderShape follows from the invariant.
LEMMA HolderIs == Inv => HolderShape
<1> SUFFICES ASSUME Inv, NEW s \in Live PROVE Holder[key[amp_item[s]]] = amp_item[s]
  BY DEF HolderShape, Holder
<1> DEFINE k == key[amp_item[s]]
<1>1. k \in HeldKeys
  BY DEF HeldKeys
<1>2. SlotOf(k) \in Live /\ key[amp_item[SlotOf(k)]] = k
  BY DEF SlotOf
<1>3. SlotOf(k) = s
  BY <1>2, KeyOnce
<1> QED
  BY <1>1, <1>3 DEF Holder

\* Cardinality as the abstract pool's module sees it.
LEMMA SameCardinality == ASSUME NEW S PROVE Pool!Cardinality(S) = Cardinality(S)
BY DEF Pool!Cardinality, Cardinality

\* As many keys are handed out as amp_len says.
LEMMA HeldCount ==
  ASSUME Inv, pc # "shift_down"
  PROVE  Pool!Cardinality(HeldKeys) = amp_len
<1>1. amp_len \in Nat
  BY BufLenAssumption DEF Inv, TypeOK
<1>2. IsFiniteSet(Live) /\ Cardinality(Live) = amp_len
  <2>1. CASE pc = "shift_up"
    <3>1. Live = (0..amp_len) \ {i} /\ i \in 0..amp_len
      BY <2>1, <1>1 DEF Live, Inv, Bounds
    <3>2. IsFiniteSet(0..amp_len) /\ Cardinality(0..amp_len) = amp_len + 1
      BY <1>1, FS_Interval
    <3>3. IsFiniteSet(Live) /\ Cardinality(Live) = Cardinality(0..amp_len) - 1
      BY <3>1, <3>2, FS_RemoveElement, Zenon
    <3> QED
      BY <3>2, <3>3, <1>1
  <2>2. CASE pc # "shift_up"
    <3>1. Live = 0..(amp_len - 1)
      BY <2>2 DEF Live
    <3> QED
      BY <3>1, <1>1, FS_Interval
  <2> QED
    BY <2>1, <2>2
<1> DEFINE f == [s \in Live |-> key[amp_item[s]]]
<1>3. f \in Bijection(Live, HeldKeys)
  <2>1. f \in [Live -> HeldKeys] /\ \A k \in HeldKeys : \E s \in Live : f[s] = k
    BY DEF HeldKeys
  <2>2. \A s, t \in Live : f[s] = f[t] => s = t
    BY KeyOnce
  <2> QED
    BY <2>1, <2>2 DEF Bijection, Injection, Surjection, IsInjective
<1>4. ExistsBijection(Live, HeldKeys)
  BY <1>3 DEF ExistsBijection
<1> QED
  BY <1>2, <1>4, FS_Bijection, SameCardinality

\* An initialised pool has handed out nothing.
LEMMA InitRefines == Init => Pool!Init
<1> SUFFICES ASSUME Init PROVE Pool!Init
  OBVIOUS
<1>1. Live = {} /\ pc = "idle"
  BY DEF Init, Live
<1>2. amp_size \in Nat
  BY BufLenAssumption DEF Init
<1>3. Holder = [k \in {} |-> NULL]
  BY <1>1 DEF Holder, HeldKeys
<1> QED
  BY <1>1, <1>2, <1>3
     DEF Init, Pool!Init, Pool!Fresh, Pool!Empty, Pool!None, None, Holder, HeldKeys

\* Every step of the pool is one step of the client's view or changes nothing
\* in it.  get takes effect when the pointer is stored, free when bsearch has
\* found the object; the turns of the loops hand out nothing and take nothing.
LEMMA NextRefines == Inv /\ Inv' /\ [Next]_vars => [Pool!Next]_Pool!poolVars
<1> SUFFICES ASSUME Inv, Inv', [Next]_vars PROVE [Pool!Next]_Pool!poolVars
  OBVIOUS
<1>0. /\ BufLen \in Nat /\ IntMax \in Nat
      /\ amp_len \in 0..BufLen /\ amp_size \in 0..BufLen /\ amp_len <= amp_size
      /\ amp_item \in [Slot -> Object] /\ key \in [Object -> Key \cup {NULL}]
  BY BufLenAssumption, IntMaxAssumption DEF Inv, TypeOK, Bounds
<1>v. /\ Pool!poolVars = <<amp_size, Holder, PoolCall, ret>>
      /\ Pool!poolVars' = <<amp_size', Holder', PoolCall', ret'>>
  BY DEF Pool!poolVars, Holder, HeldKeys, PoolCall
<1>n. /\ pc = "idle" => PoolCall = None
      /\ pc' = "idle" => PoolCall' = None
      /\ Pool!None = None
  BY DEF Inv, Bounds, PoolCall, Pool!None, None
<1>h. HolderShape /\ HolderShape'
  BY HolderIs, PTL
<1>l. \A s \in Live : s \in Slot /\ s \in Int /\ amp_item[s] \in Object /\ key[amp_item[s]] \in Int
  BY LiveSlots
<1>e. ASSUME Live' = Live, \A s \in Live : amp_item'[s] = amp_item[s] /\ key'[amp_item[s]] = key[amp_item[s]]
      PROVE  Holder' = Holder
  <2>1. HeldKeys' = HeldKeys
    BY <1>e DEF HeldKeys
  <2>2. \A k \in HeldKeys : Holder'[k] = Holder[k]
    BY <1>e, <1>h DEF HolderShape, HeldKeys
  <2> QED
    BY <2>1, <2>2 DEF Holder
<1>1. ASSUME pc = "idle", pc' = "idle", amp_len' = 0, amp_size' \in 0..BufLen, ret' = ret
      PROVE  Pool!Next
  <2>1. Live' = {}
    BY <1>1 DEF Live
  <2>2. Holder' = Pool!Empty
    BY <2>1 DEF Holder, HeldKeys, Pool!Empty
  <2>3. Pool!Reset
    BY <1>0, <1>1, <1>n, <2>2 DEF Pool!Reset, Pool!Fresh, Holder, HeldKeys, PoolCall
  <2> QED
    BY <2>3 DEF Pool!Next
<1>2. CASE ARRAY_MAP_POOL_CLEAR
  BY <1>0, <1>1, <1>2 DEF ARRAY_MAP_POOL_CLEAR
<1>3. ASSUME NEW siz \in 0..BufLen, ARRAY_MAP_POOL_INIT(siz) PROVE Pool!Next
  BY <1>1, <1>3 DEF ARRAY_MAP_POOL_INIT
<1>4. ASSUME NEW k \in Key, NEW op \in {"get", "free", "find"}, Call(op, k) PROVE Pool!Next
  <2>1. /\ pc = "idle" /\ pc' = "bsearch" /\ PoolCall' = [op |-> op, arg |-> k] /\ ret' = NULL
        /\ UNCHANGED <<amp_item, amp_size, amp_len, key>>
    BY <1>4 DEF Call, poolFields, objects, PoolCall
  <2>2. Live' = Live
    BY <2>1 DEF Live
  <2>3. Holder' = Holder
    BY <1>e, <2>1, <2>2
  <2>4. Pool!Invoke
    BY <1>4, <1>n, <2>1, <2>3 DEF Pool!Invoke, Holder, HeldKeys, PoolCall
  <2> QED
    BY <2>4 DEF Pool!Next
<1>5. CASE Bsearch
  <2>0. /\ pc = "bsearch" /\ PoolCall = call /\ ret = NULL /\ call.arg \in Key /\ call.arg \in Int
        /\ call.op \in {"get", "free", "find"}
        /\ Live = 0..(amp_len - 1)
        /\ low \in 0..amp_len /\ high \in (-1)..(amp_len - 1)
        /\ \A k \in Live : /\ k < low => key[amp_item[k]] < call.arg
                           /\ k > high => key[amp_item[k]] > call.arg
    <3>1. pc = "bsearch"
      BY <1>5 DEF Bsearch
    <3>2. Live = 0..(amp_len - 1)
      BY <3>1 DEF Live
    <3>3. call # None /\ call.arg \in Key
      BY <3>1 DEF Inv, Bounds
    <3> QED
      BY <3>1, <3>2, <3>3, KeyAssumption DEF Inv, Bounds, TypeOK, PoolCall, SearchWindow
  <2>1. Pool!Cardinality(HeldKeys) = amp_len
    BY <2>0, HeldCount
  <2>2. Pool!Lookup = IF call.arg \in HeldKeys THEN Holder[call.arg] ELSE NULL
    BY <2>0, <1>h DEF Pool!Lookup, HolderShape, Holder, HeldKeys, PoolCall
  <2>3. CASE low > high /\ NotFound
    <3>1. call.arg \notin HeldKeys
      <4>1. \A k \in Live : k < low \/ k > high
        BY <2>0, <2>3, <1>0
      <4>2. \A k \in Live : key[amp_item[k]] # call.arg
        BY <4>1, <2>0, <1>l
      <4> QED
        BY <4>2 DEF HeldKeys
    <3>2. CASE pc' = "shift_up"
      <4>1. /\ amp_len < amp_size /\ i' = ToInt(amp_len)
            /\ key' = [key EXCEPT ![amp_item[amp_len]] = call.arg]
            /\ UNCHANGED <<amp_item, amp_size, amp_len, call, ret>>
        BY <2>3, <3>2 DEF NotFound, Return, NewItem, initializer, poolFields
      <4>2. i' = amp_len /\ amp_len \in Slot
        BY <1>0, <4>1, ToIntFits DEF Slot
      <4>3. Live' = Live
        BY <1>0, <2>0, <3>2, <4>1, <4>2 DEF Live
      <4>4. \A s \in Live : amp_item[s] # amp_item[amp_len]
        BY <1>0, <1>l, <2>0, <4>2 DEF Inv, Conserved, Held, Shifting
      <4>5. Holder' = Holder
        BY <1>0, <1>e, <1>l, <4>1, <4>3, <4>4
      <4>6. PoolCall' = PoolCall
        BY <2>0, <3>2, <4>1 DEF PoolCall
      <4> QED
        BY <4>1, <4>5, <4>6, <1>v
    <3>3. CASE ~(pc' = "shift_up")
      <4>1. /\ UNCHANGED <<amp_item, amp_size, amp_len, key>> /\ pc' = "idle" /\ ret' = NULL
            /\ call.op \in {"free", "find"} \/ amp_len >= amp_size
        BY <2>3, <3>3 DEF NotFound, Return, poolFields, objects
      <4>2. Live' = Live
        BY <2>0, <4>1 DEF Live
      <4>3. Holder' = Holder
        BY <1>e, <4>1, <4>2
      <4>4. CASE call.op = "find"
        <5>1. Pool!Find
          BY <2>0, <2>2, <3>1, <4>1, <4>3, <4>4, <1>n DEF Pool!Find, Holder, HeldKeys, PoolCall
        <5> QED
          BY <5>1 DEF Pool!Next
      <4>5. CASE call.op = "free"
        <5>1. Holder = Pool!Restrict(Holder, DOMAIN Holder \ {call.arg})
          BY <3>1, <1>h DEF Pool!Restrict, Holder, HolderShape
        <5>2. Pool!Free
          BY <2>0, <4>1, <4>3, <4>5, <5>1, <1>n DEF Pool!Free, Holder, HeldKeys, PoolCall
        <5> QED
          BY <5>2 DEF Pool!Next
      <4>6. CASE call.op = "get"
        <5>1. amp_len >= amp_size /\ Pool!Cardinality(DOMAIN Holder) >= amp_size
          BY <2>1, <4>1, <4>6, <1>h DEF HolderShape
        <5>2. Pool!Get
          BY <2>0, <2>2, <3>1, <4>1, <4>3, <4>6, <5>1, <1>n DEF Pool!Get, Holder, HeldKeys, PoolCall
        <5> QED
          BY <5>2 DEF Pool!Next
      <4> QED
        BY <2>0, <4>4, <4>5, <4>6
    <3> QED
      BY <3>2, <3>3
  <2>4. CASE low <= high /\ key_cmp(amp_item[Med], call.arg) = 0 /\ Found(Med)
    <3>1. Med \in Live
      <4>1. Med \in low..high
        BY <2>0, <2>4, <1>0, MedInside
      <4> QED
        BY <4>1, <2>0, <1>0
    <3>2. key[amp_item[Med]] = call.arg
      BY <2>0, <2>4, <3>1, <1>l DEF key_cmp
    <3>3. call.arg \in HeldKeys /\ Holder[call.arg] = amp_item[Med] /\ amp_item[Med] # NULL
      BY <3>1, <3>2, <1>h, <1>l, NullAssumption DEF HeldKeys, HolderShape
    <3>4. CASE call.op \in {"get", "find"}
      <4>1. /\ UNCHANGED <<amp_item, amp_size, amp_len, key>> /\ pc' = "idle"
            /\ ret' = amp_item[Med]
        BY <2>4, <3>4 DEF Found, Return, poolFields, objects
      <4>2. Live' = Live
        BY <2>0, <4>1 DEF Live
      <4>3. Holder' = Holder
        BY <1>e, <4>1, <4>2
      <4>4. CASE call.op = "get"
        <5>1. Pool!Get
          BY <2>0, <2>2, <3>3, <4>1, <4>3, <4>4, <1>n DEF Pool!Get, Holder, HeldKeys, PoolCall
        <5> QED
          BY <5>1 DEF Pool!Next
      <4>5. CASE call.op = "find"
        <5>1. Pool!Find
          BY <2>0, <2>2, <3>3, <4>1, <4>3, <4>5, <1>n DEF Pool!Find, Holder, HeldKeys, PoolCall
        <5> QED
          BY <5>1 DEF Pool!Next
      <4> QED
        BY <3>4, <4>4, <4>5
    <3>5. CASE call.op = "free"
      <4>1. /\ key' = [key EXCEPT ![amp_item[Med]] = NULL]
            /\ UNCHANGED <<amp_item, amp_size, amp_len, call, ret>>
            /\ pc' = "shift_down" /\ i' = Med
        BY <2>4, <3>5 DEF Found, finalizer, poolFields
      <4>2. Live' = Live \ {Med}
        BY <2>0, <4>1 DEF Live
      <4>3. PoolCall' = Pool!Owed
        BY <4>1 DEF PoolCall, Pool!Owed
      <4>4. \A s \in Live \ {Med} : /\ amp_item[s] # amp_item[Med]
                                    /\ key'[amp_item[s]] = key[amp_item[s]]
                                    /\ key[amp_item[s]] # call.arg
        <5>1. \A s \in Live \ {Med} : key[amp_item[s]] # call.arg
          BY <3>1, <3>2, KeyOnce
        <5> QED
          BY <1>0, <1>l, <3>2, <4>1, <5>1
      <4>5. HeldKeys' = HeldKeys \ {call.arg}
        <5>1. HeldKeys' = {key[amp_item[s]] : s \in Live \ {Med}}
          BY <4>1, <4>2, <4>4 DEF HeldKeys
        <5> QED
          BY <3>2, <4>4, <5>1 DEF HeldKeys
      <4>6. \A k \in HeldKeys \ {call.arg} : Holder'[k] = Holder[k]
        <5>1. ASSUME NEW s \in Live \ {Med} PROVE Holder'[key[amp_item[s]]] = Holder[key[amp_item[s]]]
          BY <1>h, <4>1, <4>2, <4>4 DEF HolderShape
        <5> QED
          BY <3>2, <5>1 DEF HeldKeys
      <4>7. Holder' = Pool!Restrict(Holder, DOMAIN Holder \ {call.arg})
        <5>1. DOMAIN Holder = HeldKeys /\ Holder' = [k \in HeldKeys' |-> Holder'[k]]
          BY DEF Holder
        <5> QED
          BY <4>5, <4>6, <5>1 DEF Pool!Restrict
      <4>8. Pool!Free
        BY <2>0, <3>5, <4>1, <4>3, <4>7 DEF Pool!Free, Holder, HeldKeys, PoolCall
      <4> QED
        BY <4>8 DEF Pool!Next
    <3> QED
      BY <2>0, <3>4, <3>5
  <2>5. CASE /\ GoRight \/ GoLeft
             /\ UNCHANGED <<poolFields, objects, pc, call, index, i, item, ret>>
    <3>1. UNCHANGED <<amp_item, amp_size, amp_len, key, pc, call, i, ret>>
      BY <2>5 DEF poolFields, objects
    <3>2. Live' = Live /\ PoolCall' = PoolCall
      BY <3>1 DEF Live, PoolCall
    <3> QED
      BY <3>1, <3>2, <1>e, <1>v
  <2> QED
    BY <1>5, <2>3, <2>4, <2>5, Zenon DEF Bsearch
<1>6. CASE ShiftUp
  <2>0. /\ pc = "shift_up" /\ PoolCall = call /\ Live = (0..amp_len) \ {i}
        /\ index \in 0..amp_len /\ i \in index..amp_len /\ amp_len < amp_size
        /\ 0..amp_len \subseteq Slot /\ i \in Slot /\ index \in Slot
        /\ item \in Object /\ key[item] = call.arg /\ call.arg \in Int /\ call.op = "get"
        /\ UNCHANGED <<amp_size, key>>
    <3>1. pc = "shift_up"
      BY <1>6 DEF ShiftUp
    <3>2. index \in 0..amp_len /\ i \in index..amp_len /\ amp_len < amp_size /\ item \in Object
      BY <3>1 DEF Inv, Bounds, Shifting
    <3>3. 0..amp_len \subseteq Slot /\ i \in Slot /\ index \in Slot
      BY <1>0, <3>2 DEF Slot
    <3>4. Live = (0..amp_len) \ {i} /\ PoolCall = call
      BY <3>1 DEF Live, PoolCall
    <3>5. key[item] = call.arg /\ call.arg \in Int /\ call.op = "get"
      BY <3>1, KeyAssumption DEF Inv, Bounds, LiveSorted
    <3> QED
      BY <1>6, <3>1, <3>2, <3>3, <3>4, <3>5 DEF ShiftUp, objects
  <2>1. CASE ShiftUpLoops
    <3>1. /\ amp_item' = [amp_item EXCEPT ![i] = amp_item[i - 1]] /\ i' = i - 1
          /\ UNCHANGED <<amp_len, pc, call, ret>>
      BY <1>6, <2>1 DEF ShiftUp
    <3>2. i - 1 \in Live
      BY <1>0, <2>0, <2>1 DEF ShiftUpLoops
    <3>3. Live' = (0..amp_len) \ {i - 1} /\ i \in Live'
      BY <1>0, <2>0, <3>1 DEF Live
    <3>4. amp_item'[i] = amp_item[i - 1] /\ \A s \in (0..amp_len) \ {i} : amp_item'[s] = amp_item[s]
      BY <1>0, <2>0, <3>1
    <3>5. HeldKeys' = HeldKeys
      BY <2>0, <3>2, <3>3, <3>4 DEF HeldKeys
    <3>6. ASSUME NEW k \in HeldKeys PROVE Holder'[k] = Holder[k]
      <4>1. PICK s \in Live : k = key[amp_item[s]]
        BY DEF HeldKeys
      <4>2. \E t \in Live' : amp_item'[t] = amp_item[s]
        BY <2>0, <3>3, <3>4
      <4> QED
        BY <4>1, <4>2, <2>0, <1>h DEF HolderShape
    <3>7. Holder' = Holder
      BY <3>5, <3>6 DEF Holder
    <3>8. PoolCall' = PoolCall
      BY <2>0, <3>1 DEF PoolCall
    <3> QED
      BY <2>0, <3>1, <3>7, <3>8, <1>v
  <2>2. CASE ~ShiftUpLoops
    <3>1. i = index
      BY <2>0, <2>2 DEF ShiftUpLoops
    <3>2. ToUint(amp_len + 1) = amp_len + 1
      BY <1>0, <2>0, ToUintFits
    <3>3. /\ amp_item' = [amp_item EXCEPT ![index] = item] /\ amp_len' = amp_len + 1
          /\ pc' = "idle" /\ ret' = amp_item'[index]
      BY <1>6, <2>2, <3>2 DEF ShiftUp, Return
    <3>4. Live' = 0..amp_len
      BY <3>3, <1>0 DEF Live
    <3>5. /\ amp_item'[i] = item /\ ret' = item
          /\ \A s \in (0..amp_len) \ {i} : amp_item'[s] = amp_item[s]
      BY <1>0, <2>0, <3>1, <3>3
    <3>6. \A s \in Live : amp_item[s] # item /\ key[amp_item[s]] # call.arg
      <4>1. \A s \in Live : amp_item[s] # item
        BY <2>0 DEF Inv, Conserved, Held, Shifting
      <4>2. \A s \in Live : /\ s < index => key[amp_item[s]] < call.arg
                            /\ s >= index => key[amp_item[s]] > call.arg
        BY <2>0 DEF Inv, SearchWindow
      <4> QED
        BY <4>1, <4>2, <2>0, <1>l
    <3>7. HeldKeys' = HeldKeys \cup {call.arg} /\ call.arg \notin HeldKeys
      BY <2>0, <3>4, <3>5, <3>6 DEF HeldKeys
    <3>8. Holder'[call.arg] = item /\ \A k \in HeldKeys : Holder'[k] = Holder[k]
      <4>1. Holder'[call.arg] = item
        BY <1>h, <2>0, <3>4, <3>5 DEF HolderShape
      <4>2. \A s \in Live : Holder'[key[amp_item[s]]] = Holder[key[amp_item[s]]]
        BY <1>h, <2>0, <3>4, <3>5 DEF HolderShape
      <4> QED
        BY <4>1, <4>2 DEF HeldKeys
    <3>9. /\ DOMAIN Holder = HeldKeys
          /\ Holder' = [k \in DOMAIN Holder \cup {call.arg} |->
                          IF k = call.arg THEN ret' ELSE Holder[k]]
      <4>1. DOMAIN Holder = HeldKeys /\ Holder' = [k \in HeldKeys' |-> Holder'[k]]
        BY DEF Holder
      <4> QED
        BY <3>5, <3>7, <3>8, <4>1
    <3>10. ret' \in Object \ Pool!Range(Holder)
      <4>1. \A k \in HeldKeys : Holder[k] # item
        BY <3>6, <1>h DEF HeldKeys, HolderShape
      <4> QED
        BY <2>0, <3>5, <3>9, <4>1 DEF Pool!Range
    <3>11. Pool!Lookup = NULL /\ Pool!Cardinality(DOMAIN Holder) < amp_size
      <4>1. Pool!Cardinality(HeldKeys) = amp_len
        BY <2>0, HeldCount
      <4>2. Pool!Lookup = NULL
        BY <2>0, <3>7, <3>9 DEF Pool!Lookup, Holder, HeldKeys, PoolCall
      <4> QED
        BY <4>1, <4>2, <2>0, <3>9
    <3>12. PoolCall.op = "get" /\ PoolCall.arg = call.arg /\ PoolCall' = Pool!None
      BY <2>0, <3>3, <1>n
    <3>13. Pool!Get
      BY <2>0, <3>9, <3>10, <3>11, <3>12, Zenon DEF Pool!Get, Holder, HeldKeys, PoolCall
    <3> QED
      BY <3>13 DEF Pool!Next
  <2> QED
    BY <2>1, <2>2
<1>7. CASE ShiftDown
  <2>0. /\ pc = "shift_down" /\ Live = (0..(amp_len - 1)) \ {i}
        /\ index \in 0..(amp_len - 1) /\ i \in index..(amp_len - 1)
        /\ 0..(amp_len - 1) \subseteq Slot /\ i \in Slot
        /\ ToUint(amp_len - 1) = amp_len - 1 /\ ret = NULL
        /\ UNCHANGED <<amp_size, key>>
    <3>1. pc = "shift_down"
      BY <1>7 DEF ShiftDown
    <3>2. index \in 0..(amp_len - 1) /\ i \in index..(amp_len - 1) /\ ret = NULL
      BY <3>1 DEF Inv, Bounds
    <3>3. 0..(amp_len - 1) \subseteq Slot /\ i \in Slot
      BY <1>0, <3>2 DEF Slot
    <3>4. ToUint(amp_len - 1) = amp_len - 1
      BY <1>0, <3>2, ToUintFits
    <3> QED
      BY <1>7, <3>1, <3>2, <3>3, <3>4 DEF ShiftDown, objects, Live
  <2>1. CASE i < ToUint(amp_len - 1)
    <3>1. ToUint(i + 1) = i + 1
      BY <1>0, <2>0, <2>1, ToUintFits
    <3>2. /\ amp_item' = [amp_item EXCEPT ![i] = amp_item[i + 1]] /\ i' = i + 1
          /\ UNCHANGED <<amp_len, pc, call, ret>>
      BY <1>0, <1>7, <2>0, <2>1, <3>1 DEF ShiftDown
    <3>3. i + 1 \in Live
      BY <1>0, <2>0, <2>1
    <3>4. Live' = (0..(amp_len - 1)) \ {i + 1} /\ i \in Live'
      BY <1>0, <2>0, <3>2 DEF Live
    <3>5. amp_item'[i] = amp_item[i + 1]
          /\ \A s \in (0..(amp_len - 1)) \ {i} : amp_item'[s] = amp_item[s]
      BY <1>0, <2>0, <3>2
    <3>6. HeldKeys' = HeldKeys
      BY <2>0, <3>3, <3>4, <3>5 DEF HeldKeys
    <3>7. ASSUME NEW k \in HeldKeys PROVE Holder'[k] = Holder[k]
      <4>1. PICK s \in Live : k = key[amp_item[s]]
        BY DEF HeldKeys
      <4>2. \E t \in Live' : amp_item'[t] = amp_item[s]
        BY <2>0, <3>4, <3>5
      <4> QED
        BY <4>1, <4>2, <2>0, <1>h DEF HolderShape
    <3>8. Holder' = Holder
      BY <3>6, <3>7 DEF Holder
    <3>9. PoolCall' = PoolCall
      BY <2>0, <3>2 DEF PoolCall
    <3> QED
      BY <2>0, <3>2, <3>8, <3>9, <1>v
  <2>2. CASE ~(i < ToUint(amp_len - 1))
    <3>1. i = amp_len - 1
      BY <1>0, <2>0, <2>2
    <3>2. /\ amp_item' = [amp_item EXCEPT ![i] = item]
          /\ amp_len' = amp_len - 1 /\ pc' = "idle" /\ ret' = NULL
      BY <1>7, <2>0, <2>2, <3>1 DEF ShiftDown, GiveBack, Return
    <3>3. Live' = Live
      BY <1>0, <2>0, <3>1, <3>2 DEF Live
    <3>4. Holder' = Holder
      BY <1>0, <1>e, <1>l, <2>0, <3>2, <3>3
    <3>5. PoolCall = Pool!Owed
      BY <2>0 DEF PoolCall, Pool!Owed
    <3>6. Pool!Reply
      BY <2>0, <3>2, <3>4, <3>5, <1>n DEF Pool!Reply, Holder, HeldKeys, PoolCall
    <3> QED
      BY <3>6 DEF Pool!Next
  <2> QED
    BY <2>1, <2>2
<1>8. CASE UNCHANGED vars
  <2>1. UNCHANGED <<amp_item, amp_size, amp_len, key, pc, call, i, ret>>
    BY <1>8 DEF vars
  <2>2. Live' = Live /\ PoolCall' = PoolCall
    BY <2>1 DEF Live, PoolCall
  <2> QED
    BY <2>1, <2>2, <1>e, <1>v
<1> QED
  BY <1>2, <1>3, <1>4, <1>5, <1>6, <1>7, <1>8 DEF Next, Client, Library

\* For every number of objects, key set and capacity bsearch can cope with,
\* the pool of array_map.h keeps its promise: get returns the object of its key
\* for as long as it is not freed, never one that is handed out under another
\* key, and NULL only when the pool is full; find and free find exactly the
\* keys handed out.
THEOREM Refinement == Spec => ImplementsPool
BY InitRefines, NextRefines, InvAlways, PTL DEF Spec, ImplementsPool, Pool!Spec

-----------------------------------------------------------------------------
(* Callbacks that call the pool.                                           *)

\* No turn of the loop has moved a pointer yet.
FreshItem == pc = "shift_up" /\ i = amp_len => item = amp_item[i]

\* What the waiting call knows is true of the pool as it is now.
Waiting ==
  /\ frame \in Frame
  /\ frame.pc = "bsearch" =>
       /\ frame.low \in 0..amp_len /\ frame.high \in (-1)..(amp_len - 1)
       /\ \A s \in 0..(amp_len - 1) :
            /\ s < frame.low => key[amp_item[s]] < frame.call.arg
            /\ s > frame.high => key[amp_item[s]] > frame.call.arg
  /\ frame.pc = "shift_up" =>
       /\ frame.call.op = "get" /\ amp_len < amp_size
       /\ frame.index \in 0..amp_len /\ frame.i = amp_len
       /\ frame.item = amp_item[amp_len] /\ frame.item \in alive
       /\ key[frame.item] = frame.call.arg
       /\ \A s \in 0..(amp_len - 1) :
            /\ s < frame.index => key[amp_item[s]] < frame.call.arg
            /\ s >= frame.index => key[amp_item[s]] > frame.call.arg

\* The nested call is one that leaves the pool as it is.
NestedCall ==
  /\ ChangesNothing(frame.nested.op, frame.nested.arg)
  /\ pc = "idle" \/ (pc = "bsearch" /\ call = frame.nested)

NestInv == Inv /\ FreshItem /\ NestedAnswer /\ (frame # NULL => Waiting /\ NestedCall)

\* The pool's own steps keep new_item in its slot until the loop moves.
LEMMA FreshItemKept == Inv /\ Inv' /\ FreshItem /\ [Next]_vars => FreshItem'
<1> SUFFICES ASSUME Inv, Inv', FreshItem, [Next]_vars, pc' = "shift_up", i' = amp_len'
             PROVE  item' = amp_item'[i']
  BY DEF FreshItem
<1>0. /\ BufLen \in Nat /\ IntMax \in Nat
      /\ amp_len \in 0..BufLen /\ amp_size \in 0..BufLen /\ amp_len <= amp_size
      /\ amp_item \in [Slot -> Object]
  BY BufLenAssumption, IntMaxAssumption DEF Inv, TypeOK, Bounds
<1>1. CASE Client
  BY <1>1 DEF Client, ARRAY_MAP_POOL_CLEAR, ARRAY_MAP_POOL_INIT, Call
<1>2. CASE Bsearch
  <2>1. CASE low > high /\ NotFound
    <3>1. item' = amp_item[amp_len] /\ i' = ToInt(amp_len) /\ UNCHANGED poolFields
      BY <2>1 DEF NotFound, NewItem, Return
    <3> QED
      BY <3>1 DEF poolFields
  <2>2. CASE /\ GoRight \/ GoLeft
             /\ UNCHANGED <<poolFields, objects, pc, call, index, i, item, ret>>
    BY <1>2, <2>2 DEF Bsearch
  <2>3. CASE Found(Med)
    BY <2>3 DEF Found, Return
  <2> QED
    BY <1>2, <2>1, <2>2, <2>3, Zenon DEF Bsearch
<1>3. CASE ShiftUp
  <2>1. pc = "shift_up" /\ i \in index..amp_len /\ index \in 0..amp_len
    BY <1>3 DEF ShiftUp, Inv, Bounds
  <2>2. i' = i - 1 /\ amp_len' = amp_len
    BY <1>3 DEF ShiftUp, Return
  <2>3. i \in Int /\ amp_len \in Int /\ i <= amp_len
    BY <1>0, <2>1
  <2>4. i - 1 # amp_len
    BY <2>3
  <2> QED
    BY <2>2, <2>4, Zenon
<1>4. CASE ShiftDown
  BY <1>4 DEF ShiftDown, Return
<1>5. CASE UNCHANGED vars
  BY <1>5 DEF FreshItem, vars
<1> QED
  BY <1>1, <1>2, <1>3, <1>4, <1>5 DEF Next, Library

\* A nested call moves its window or returns, and leaves the pool as it is.
LEMMA NestedStep ==
  ASSUME Inv, Waiting, NestedCall, Library
  PROVE  /\ UNCHANGED <<poolFields, objects>>
         /\ pc = "bsearch" /\ call = frame.nested
         /\ \/ pc' = "bsearch" /\ call' = call
            \/ /\ pc' = "idle"
               /\ IF call.op # "free" /\ Listed(call.arg)
                  THEN ret' # NULL /\ key[ret'] = call.arg /\ \E s \in 0..(amp_len - 1) : amp_item[s] = ret'
                  ELSE ret' = NULL
<1>1. pc = "bsearch" /\ Bsearch /\ call = frame.nested
  BY DEF NestedCall, Library, Bsearch, ShiftUp, ShiftDown
<1>2. ChangesNothing(call.op, call.arg)
  BY <1>1 DEF NestedCall
<1>3. /\ Live = 0..(amp_len - 1) /\ call.arg \in Int /\ call.op \in {"get", "free", "find"}
      /\ low \in 0..amp_len /\ high \in (-1)..(amp_len - 1) /\ amp_len \in Nat /\ amp_size \in Nat
      /\ \A k \in Live : /\ k < low => key[amp_item[k]] < call.arg
                         /\ k > high => key[amp_item[k]] > call.arg
  <2>1. Live = 0..(amp_len - 1)
    BY <1>1 DEF Live
  <2>2. call # None /\ call.arg \in Key
    BY <1>1 DEF Inv, Bounds
  <2>3. amp_len \in Nat /\ amp_size \in Nat /\ call.op \in {"get", "free", "find"}
    BY <2>2, BufLenAssumption DEF Inv, TypeOK
  <2>4. low \in 0..amp_len /\ high \in (-1)..(amp_len - 1)
    BY <1>1 DEF Inv, Bounds
  <2>5. \A k \in Live : /\ k < low => key[amp_item[k]] < call.arg
                        /\ k > high => key[amp_item[k]] > call.arg
    BY <1>1 DEF Inv, SearchWindow
  <2>6. call.arg \in Int
    BY <2>2, KeyAssumption
  <2> QED
    BY <2>1, <2>3, <2>4, <2>5, <2>6
<1>4. \A s \in Live : s \in Int /\ amp_item[s] \in Object /\ key[amp_item[s]] \in Int
  BY LiveSlots
<1>5. CASE low > high /\ NotFound
  <2>1. ~Listed(call.arg)
    <3>1. \A k \in Live : k < low \/ k > high
      BY <1>3, <1>5
    <3>2. \A k \in Live : key[amp_item[k]] # call.arg
      BY <1>3, <1>4, <3>1
    <3> QED
      BY <1>3, <3>2 DEF Listed
  <2>2. ~(call.op = "get" /\ amp_len < amp_size)
    BY <1>2, <1>3, <2>1 DEF ChangesNothing
  <2>3. Return(NULL) /\ UNCHANGED <<poolFields, objects>>
    BY <1>5, <2>2 DEF NotFound
  <2> QED
    BY <1>1, <2>1, <2>3 DEF Return
<1>6. CASE /\ GoRight \/ GoLeft
           /\ UNCHANGED <<poolFields, objects, pc, call, index, i, item, ret>>
  BY <1>1, <1>6
<1>7. CASE low <= high /\ key_cmp(amp_item[Med], call.arg) = 0 /\ Found(Med)
  <2>1. Med \in Live
    <3>1. Med \in low..high
      BY <1>3, <1>7, MedInside
    <3> QED
      BY <3>1, <1>3
  <2>2. key[amp_item[Med]] = call.arg /\ amp_item[Med] # NULL
    BY <1>3, <1>4, <1>7, <2>1, NullAssumption DEF key_cmp
  <2>3. Listed(call.arg)
    BY <1>3, <2>1, <2>2 DEF Listed
  <2>4. call.op # "free"
    BY <1>2, <2>3 DEF ChangesNothing
  <2>5. Return(amp_item[Med]) /\ UNCHANGED <<poolFields, objects>>
    BY <1>7, <2>4 DEF Found
  <2>6. pc' = "idle" /\ ret' = amp_item[Med]
    BY <2>5 DEF Return
  <2> QED
    BY <1>1, <1>3, <2>1, <2>2, <2>3, <2>4, <2>5, <2>6
<1> QED
  BY <1>1, <1>5, <1>6, <1>7, Zenon DEF Bsearch

\* While a callback runs, no slot of the array is half changed.
LEMMA CallbackLive ==
  ASSUME Inv, InInitializer \/ InFinalizer
  PROVE  pc \in {"bsearch", "shift_up"} /\ Live = 0..(amp_len - 1)
<1>1. amp_len \in Nat
  BY BufLenAssumption DEF Inv, TypeOK
<1>2. pc = "bsearch" \/ (pc = "shift_up" /\ i = amp_len)
  BY DEF InInitializer, InFinalizer
<1>3. (0..amp_len) \ {amp_len} = 0..(amp_len - 1)
  BY <1>1
<1>4. Live = 0..(amp_len - 1)
  BY <1>2, <1>3 DEF Live
<1> QED
  BY <1>2, <1>4

\* A callback that calls the pool, and comes back, keeps the invariant.
LEMMA NestNextInv == NestInv /\ [NestNext]_<<vars, frame>> => NestInv'
<1> SUFFICES ASSUME NestInv, [NestNext]_<<vars, frame>> PROVE NestInv'
  OBVIOUS
<1> USE DEF NestInv
<1>0. /\ BufLen \in Nat /\ amp_len \in 0..BufLen /\ amp_size \in 0..BufLen
      /\ amp_len <= amp_size /\ amp_len \in Nat /\ amp_item \in [Slot -> Object]
  BY BufLenAssumption DEF Inv, TypeOK, Bounds
<1>1. ASSUME frame = NULL, frame' = NULL, [Next]_vars PROVE NestInv'
  <2>1. Inv'
    BY <1>1, NextInv
  <2>2. FreshItem'
    BY <1>1, <2>1, FreshItemKept
  <2> QED
    BY <1>1, <2>1, <2>2 DEF NestedAnswer
<1>2. ASSUME frame # NULL, Library, frame' = frame PROVE NestInv'
  <2>1. /\ UNCHANGED <<poolFields, objects>>
        /\ pc = "bsearch" /\ call = frame.nested
        /\ \/ pc' = "bsearch" /\ call' = call
           \/ /\ pc' = "idle"
              /\ IF call.op # "free" /\ Listed(call.arg)
                 THEN ret' # NULL /\ key[ret'] = call.arg /\ \E s \in 0..(amp_len - 1) : amp_item[s] = ret'
                 ELSE ret' = NULL
    BY <1>2, NestedStep
  <2>2. UNCHANGED <<amp_item, amp_size, amp_len, key, alive, frame>>
    BY <1>2, <2>1 DEF poolFields, objects
  <2>3. Inv'
    BY <1>2, NextInv DEF Next
  <2>4. Waiting'
    BY <1>2, <2>2 DEF Waiting
  <2>5. \A k : Listed(k)' = Listed(k)
    BY <2>2 DEF Listed
  <2>6. NestedCall'
    BY <1>2, <2>1, <2>2, <2>5 DEF NestedCall, ChangesNothing
  <2>7. NestedAnswer'
    BY <1>2, <2>1, <2>2, <2>5 DEF NestedAnswer
  <2>8. FreshItem'
    BY <2>1 DEF FreshItem
  <2> QED
    BY <2>3, <2>4, <2>6, <2>7, <2>8
<1>3. ASSUME NEW k \in Key, NEW op \in {"get", "free", "find"}, Nest(op, k) PROVE NestInv'
  <2> DEFINE f == [pc |-> pc, call |-> call, low |-> low, high |-> high, index |-> index,
                   i |-> i, item |-> item, nested |-> [op |-> op, arg |-> k]]
  <2>0. /\ InInitializer \/ InFinalizer
        /\ frame = NULL /\ frame' = f /\ ChangesNothing(op, k)
        /\ pc' = "bsearch" /\ call' = [op |-> op, arg |-> k]
        /\ low' = 0 /\ high' = amp_len - 1 /\ index' = 0 /\ i' = 0 /\ item' = NULL
        /\ UNCHANGED <<amp_item, amp_size, amp_len, key, alive, ret>>
    BY <1>0, <1>3, LastIndexIs DEF Nest, poolFields, objects
  <2>1. pc \in {"bsearch", "shift_up"} /\ Live = 0..(amp_len - 1)
    BY <2>0, CallbackLive
  <2>2. pc = "shift_up" => i = amp_len /\ item = amp_item[amp_len]
    BY <2>0 DEF FreshItem, InInitializer, InFinalizer
  <2>3. Live' = Live
    BY <2>0, <2>1 DEF Live
  <2>4. call \in Request
    BY <2>1 DEF Inv, Bounds, TypeOK, Request
  <2>5. f \in Frame
    <3>1. /\ low \in 0..BufLen /\ high \in (-1)..BufLen /\ index \in 0..BufLen /\ i \in 0..BufLen
          /\ item \in Object \cup {NULL}
      BY DEF Inv, TypeOK
    <3>2. [op |-> op, arg |-> k] \in Request
      BY DEF Request
    <3> QED
      BY <2>1, <2>4, <3>1, <3>2 DEF Frame
  <2>6. /\ f.pc = pc /\ f.call = call /\ f.low = low /\ f.high = high /\ f.index = index
        /\ f.i = i /\ f.item = item /\ f.nested = [op |-> op, arg |-> k]
    OBVIOUS
  <2> HIDE DEF f
  <2>7. Waiting'
    <3>1. ASSUME pc = "bsearch"
          PROVE  /\ low \in 0..amp_len /\ high \in (-1)..(amp_len - 1)
                 /\ \A s \in 0..(amp_len - 1) : /\ s < low => key[amp_item[s]] < call.arg
                                                /\ s > high => key[amp_item[s]] > call.arg
      BY <2>1, <3>1 DEF Inv, Bounds, SearchWindow
    <3>2. ASSUME pc = "shift_up"
          PROVE  /\ call.op = "get" /\ amp_len < amp_size /\ index \in 0..amp_len
                 /\ item \in alive /\ key[item] = call.arg
                 /\ \A s \in 0..(amp_len - 1) : /\ s < index => key[amp_item[s]] < call.arg
                                                /\ s >= index => key[amp_item[s]] > call.arg
      BY <2>1, <3>2 DEF Inv, Bounds, SearchWindow, LiveSorted
    <3> QED
      BY <2>0, <2>2, <2>5, <2>6, <3>1, <3>2 DEF Waiting
  <2>8. NestedCall'
    <3>1. ChangesNothing(op, k)' <=> ChangesNothing(op, k)
      BY <2>0 DEF ChangesNothing, Listed
    <3>2. frame'.nested.op = op /\ frame'.nested.arg = k /\ call' = frame'.nested
      BY <2>0, <2>6
    <3> QED
      BY <2>0, <3>1, <3>2 DEF NestedCall, ChangesNothing, Listed
  <2>9. TypeOK'
    <3>1. call' \in [op : {"get", "free", "find"}, arg : Key]
      BY <2>0
    <3> QED
      BY <1>0, <2>0, <3>1 DEF Inv, TypeOK
  <2>10. Bounds'
    <3>1. call' # None /\ call'.arg \in Key
      BY <2>0 DEF None
    <3>2. ret' = NULL
      BY <2>0, <2>1 DEF Inv, Bounds
    <3> QED
      BY <1>0, <2>0, <3>1, <3>2 DEF Bounds, Shifting
  <2>11. Conserved'
    <3>1. \A a \in Slot : Held(a) = amp_item[a]
      BY <2>1, <2>2 DEF Held, Shifting
    <3>2. \A a \in Slot : Held(a)' = amp_item[a]
      BY <2>0 DEF Held, Shifting
    <3> QED
      BY <3>1, <3>2 DEF Inv, Conserved
  <2>12. LiveSorted' /\ SearchWindow'
    BY <1>0, <2>0, <2>1, <2>3 DEF Inv, LiveSorted, SearchWindow
  <2>13. Inv'
    BY <2>9, <2>10, <2>11, <2>12 DEF Inv
  <2> QED
    BY <2>0, <2>7, <2>8, <2>13 DEF FreshItem, NestedAnswer
<1>4. CASE Resume
  <2>0. /\ frame # NULL /\ pc = "idle" /\ frame' = NULL /\ ret' = NULL
        /\ pc' = frame.pc /\ call' = frame.call /\ low' = frame.low /\ high' = frame.high
        /\ index' = frame.index /\ i' = frame.i /\ item' = frame.item
        /\ UNCHANGED <<amp_item, amp_size, amp_len, key, alive>>
    BY <1>4 DEF Resume, poolFields, objects
  <2>1. /\ frame.pc \in {"bsearch", "shift_up"} /\ frame.call \in Request
        /\ frame.low \in 0..BufLen /\ frame.high \in (-1)..BufLen
        /\ frame.index \in 0..BufLen /\ frame.i \in 0..BufLen
        /\ frame.item \in Object \cup {NULL}
    BY <2>0 DEF Waiting, Frame
  <2>2. Live = 0..(amp_len - 1)
    BY <2>0 DEF Live
  <2>3. pc' = "shift_up" => i' = amp_len /\ item' = amp_item[amp_len] /\ amp_len < amp_size
    BY <2>0 DEF Waiting
  <2>4. Live' = 0..(amp_len - 1)
    <3>1. (0..amp_len) \ {amp_len} = 0..(amp_len - 1)
      BY <1>0
    <3> QED
      BY <2>0, <2>1, <2>3, <3>1 DEF Live
  <2>5. TypeOK'
    BY <2>0, <2>1 DEF Inv, TypeOK, Request
  <2>6. Bounds'
    <3>1. call' # None /\ call'.arg \in Key
      BY <2>0, <2>1, NullAssumption DEF None, Request
    <3>2. CASE frame.pc = "bsearch"
      BY <1>0, <2>0, <3>1, <3>2 DEF Waiting, Bounds, Shifting
    <3>3. CASE frame.pc = "shift_up"
      <4>1. amp_len \in Slot
        BY <1>0, <2>0, <2>3, <3>3 DEF Slot
      <4>2. item' \in Object
        BY <1>0, <2>0, <2>3, <3>3, <4>1
      <4>3. index' \in 0..amp_len /\ i' \in index'..amp_len /\ call'.op = "get" /\ amp_len < amp_size
        BY <1>0, <2>0, <3>3 DEF Waiting
      <4> QED
        BY <1>0, <2>0, <3>1, <3>3, <4>2, <4>3 DEF Bounds, Shifting
    <3> QED
      BY <2>1, <3>2, <3>3
  <2>7. Conserved'
    <3>1. \A a \in Slot : Held(a) = amp_item[a]
      BY <2>0 DEF Held, Shifting
    <3>2. \A a \in Slot : Held(a)' = amp_item[a]
      BY <2>0, <2>1, <2>3 DEF Held, Shifting
    <3> QED
      BY <3>1, <3>2 DEF Inv, Conserved
  <2>8. LiveSorted'
    <3>1. pc' = "shift_up" => item' \in alive /\ key[item'] = call'.arg
      BY <2>0 DEF Waiting
    <3> QED
      BY <2>0, <2>2, <2>4, <3>1 DEF Inv, LiveSorted
  <2>9. SearchWindow'
    BY <2>0, <2>4 DEF Waiting, SearchWindow
  <2>10. FreshItem' /\ NestedAnswer'
    BY <2>0, <2>3 DEF FreshItem, NestedAnswer
  <2> QED
    BY <2>0, <2>5, <2>6, <2>7, <2>8, <2>9, <2>10 DEF Inv
<1>5. CASE UNCHANGED <<vars, frame>>
  <2>1. CASE frame = NULL
    BY <1>1, <1>5, <2>1
  <2>2. CASE frame # NULL
    <3>1. UNCHANGED <<amp_item, amp_size, amp_len, key, alive, pc, call, i, item, ret, frame>>
      BY <1>5 DEF vars
    <3>2. Inv'
      BY <1>5, NextInv
    <3> QED
      BY <2>2, <3>1, <3>2 DEF FreshItem, NestedAnswer, Listed, Waiting, NestedCall, ChangesNothing
  <2> QED
    BY <2>1, <2>2
<1>6. CASE frame = NULL /\ Client /\ UNCHANGED frame
  BY <1>1, <1>6 DEF Next
<1>7. CASE Library /\ UNCHANGED frame
  <2>1. CASE frame = NULL
    BY <1>1, <1>7, <2>1 DEF Next
  <2>2. CASE frame # NULL
    BY <1>2, <1>7, <2>2
  <2> QED
    BY <2>1, <2>2
<1> QED
  BY <1>3, <1>4, <1>5, <1>6, <1>7 DEF NestNext

\* The client's view of the call that waits.
ClientCall == IF pc = "shift_down" THEN [op |-> "reply", arg |-> NULL] ELSE OuterCall
ClientRet == IF frame = NULL THEN ret ELSE NULL

\* With no callback running the client sees what ArrayMapPool's client sees.
LEMMA SameView ==
  ASSUME frame = NULL, frame' = NULL, [Pool!Next]_Pool!poolVars
  PROVE  [Outer!Next]_Outer!poolVars
<1>1. ClientCall = PoolCall /\ ClientRet = ret /\ ClientCall' = PoolCall' /\ ClientRet' = ret'
  BY DEF ClientCall, OuterCall, ClientRet, PoolCall
<1>2. /\ Pool!poolVars = <<amp_size, Holder, PoolCall, ret>>
      /\ Pool!poolVars' = <<amp_size', Holder', PoolCall', ret'>>
  BY DEF Pool!poolVars, Holder, HeldKeys, PoolCall
<1>3. /\ Outer!poolVars = <<amp_size, Holder, ClientCall, ClientRet>>
      /\ Outer!poolVars' = <<amp_size', Holder', ClientCall', ClientRet'>>
  BY DEF Outer!poolVars, Holder, HeldKeys, ClientCall, ClientRet
<1>4. CASE UNCHANGED Pool!poolVars
  BY <1>1, <1>2, <1>3, <1>4
<1>5. CASE Pool!Reset
  <2>1. Outer!Reset
    BY <1>1, <1>5 DEF Pool!Reset, Outer!Reset, Pool!Fresh, Outer!Fresh, Pool!Empty, Outer!Empty,
       Pool!None, Outer!None, PoolCall, ClientCall, ClientRet
  <2> QED
    BY <2>1 DEF Outer!Next
<1>6. CASE Pool!Invoke
  <2>1. Outer!Invoke
    BY <1>1, <1>6 DEF Pool!Invoke, Outer!Invoke, Pool!None, Outer!None, PoolCall, ClientCall, ClientRet
  <2> QED
    BY <2>1 DEF Outer!Next
<1>7. CASE Pool!Get
  <2>l. Outer!Lookup = Pool!Lookup
    BY <1>1 DEF Pool!Lookup, Outer!Lookup, PoolCall, ClientCall
  <2>c. \A S : Outer!Cardinality(S) = Pool!Cardinality(S)
    BY DEF Pool!Cardinality, Outer!Cardinality
  <2>r. \A f : Outer!Range(f) = Pool!Range(f)
    BY DEF Pool!Range, Outer!Range
  <2>1. /\ PoolCall.op = "get" /\ PoolCall' = Pool!None /\ amp_size' = amp_size
        /\ \/ /\ Pool!Lookup # NULL \/ Pool!Cardinality(DOMAIN Holder) >= amp_size
              /\ ret' = Pool!Lookup /\ Holder' = Holder
           \/ /\ Pool!Lookup = NULL /\ Pool!Cardinality(DOMAIN Holder) < amp_size
              /\ ret' \in Object \ Pool!Range(Holder)
              /\ Holder' = [k \in DOMAIN Holder \cup {PoolCall.arg} |->
                              IF k = PoolCall.arg THEN ret' ELSE Holder[k]]
    BY <1>7, Zenon DEF Pool!Get, Holder, HeldKeys, PoolCall
  <2>2. /\ ClientCall.op = "get" /\ ClientCall' = Outer!None /\ amp_size' = amp_size
        /\ \/ /\ Outer!Lookup # NULL \/ Outer!Cardinality(DOMAIN Holder) >= amp_size
              /\ ClientRet' = Outer!Lookup /\ Holder' = Holder
           \/ /\ Outer!Lookup = NULL /\ Outer!Cardinality(DOMAIN Holder) < amp_size
              /\ ClientRet' \in Object \ Outer!Range(Holder)
              /\ Holder' = [k \in DOMAIN Holder \cup {ClientCall.arg} |->
                              IF k = ClientCall.arg THEN ClientRet' ELSE Holder[k]]
    BY <1>1, <2>1, <2>l, <2>c, <2>r DEF Pool!None, Outer!None
  <2>3. Outer!Get
    BY <2>2, Zenon DEF Outer!Get, Holder, HeldKeys, ClientCall, ClientRet
  <2> QED
    BY <2>3 DEF Outer!Next
<1>8. CASE Pool!Free
  <2>1. Outer!Free
    BY <1>1, <1>8 DEF Pool!Free, Outer!Free, Pool!Restrict, Outer!Restrict, Pool!None, Outer!None,
       Pool!Owed, Outer!Owed, PoolCall, ClientCall, ClientRet
  <2> QED
    BY <2>1 DEF Outer!Next
<1>9. CASE Pool!Find
  <2>1. Outer!Find
    BY <1>1, <1>9 DEF Pool!Find, Outer!Find, Pool!Lookup, Outer!Lookup, Pool!None, Outer!None,
       PoolCall, ClientCall, ClientRet
  <2> QED
    BY <2>1 DEF Outer!Next
<1>10. CASE Pool!Reply
  <2>1. Outer!Reply
    BY <1>1, <1>10 DEF Pool!Reply, Outer!Reply, Pool!None, Outer!None, Pool!Owed, Outer!Owed,
       PoolCall, ClientCall, ClientRet
  <2> QED
    BY <2>1 DEF Outer!Next
<1> QED
  BY <1>4, <1>5, <1>6, <1>7, <1>8, <1>9, <1>10 DEF Pool!Next

\* To the client of the waiting call, a nested call changes nothing.
LEMMA NestNextRefines ==
  NestInv /\ NestInv' /\ [NestNext]_<<vars, frame>> => [Outer!Next]_Outer!poolVars
<1> SUFFICES ASSUME NestInv, NestInv', [NestNext]_<<vars, frame>> PROVE [Outer!Next]_Outer!poolVars
  OBVIOUS
<1> USE DEF NestInv
<1>v. /\ Outer!poolVars = <<amp_size, Holder, ClientCall, ClientRet>>
      /\ Outer!poolVars' = <<amp_size', Holder', ClientCall', ClientRet'>>
  BY DEF Outer!poolVars, Holder, HeldKeys, ClientCall, ClientRet
<1>n. amp_len \in Nat
  BY BufLenAssumption DEF Inv, TypeOK
<1>e. ASSUME Live' = Live, UNCHANGED <<poolFields, objects>>, ClientCall' = ClientCall, ClientRet' = ClientRet
      PROVE  [Outer!Next]_Outer!poolVars
  <2>1. UNCHANGED <<amp_item, amp_size, key>>
    BY <1>e DEF poolFields, objects
  <2>2. Holder' = Holder
    BY <1>e, <2>1 DEF Holder, HeldKeys, SlotOf
  <2> QED
    BY <1>e, <1>v, <2>1, <2>2
<1>1. ASSUME frame = NULL, frame' = NULL, [Next]_vars PROVE [Outer!Next]_Outer!poolVars
  BY <1>1, NextRefines, SameView
<1>2. ASSUME frame # NULL, Library, frame' = frame PROVE [Outer!Next]_Outer!poolVars
  <2>1. UNCHANGED <<poolFields, objects>> /\ pc = "bsearch" /\ pc' \in {"bsearch", "idle"}
    BY <1>2, NestedStep
  <2>2. Live' = Live
    BY <2>1 DEF Live, poolFields
  <2>3. ClientCall' = ClientCall /\ ClientRet' = ClientRet
    BY <1>2, <2>1 DEF ClientCall, OuterCall, ClientRet
  <2> QED
    BY <1>e, <2>1, <2>2, <2>3
<1>3. ASSUME NEW k \in Key, NEW op \in {"get", "free", "find"}, Nest(op, k)
      PROVE  [Outer!Next]_Outer!poolVars
  <2>1. /\ InInitializer \/ InFinalizer
        /\ frame = NULL /\ frame'.call = call /\ pc' = "bsearch" /\ UNCHANGED <<poolFields, objects>>
    BY <1>3 DEF Nest
  <2>2. pc \in {"bsearch", "shift_up"} /\ Live = 0..(amp_len - 1)
    BY <2>1, CallbackLive
  <2>3. Live' = Live
    BY <2>1, <2>2 DEF Live, poolFields
  <2>4. frame' # NULL
    <3>1. frame' = [pc |-> pc, call |-> call, low |-> low, high |-> high, index |-> index,
                    i |-> i, item |-> item, nested |-> [op |-> op, arg |-> k]]
      BY <1>3 DEF Nest
    <3>2. call \in Request /\ [op |-> op, arg |-> k] \in Request
      BY <2>2 DEF Inv, Bounds, TypeOK, Request
    <3>3. /\ low \in 0..BufLen /\ high \in (-1)..BufLen /\ index \in 0..BufLen /\ i \in 0..BufLen
          /\ item \in Object \cup {NULL}
      BY DEF Inv, TypeOK
    <3>4. frame' \in Frame
      BY <2>2, <3>1, <3>2, <3>3 DEF Frame
    <3> QED
      BY <3>4, FrameAssumption
  <2>5. ret = NULL
    BY <2>2 DEF Inv, Bounds
  <2>6. ClientCall' = ClientCall /\ ClientRet' = ClientRet
    BY <2>1, <2>2, <2>4, <2>5 DEF ClientCall, OuterCall, ClientRet
  <2> QED
    BY <1>e, <2>1, <2>3, <2>6
<1>4. CASE Resume
  <2>0. /\ frame # NULL /\ pc = "idle" /\ frame' = NULL /\ ret' = NULL
        /\ pc' = frame.pc /\ call' = frame.call /\ i' = frame.i /\ UNCHANGED <<poolFields, objects>>
    BY <1>4 DEF Resume
  <2>1. /\ frame.pc \in {"bsearch", "shift_up"}
        /\ frame.pc = "shift_up" => frame.i = amp_len
    BY <2>0 DEF Waiting, Frame
  <2>2. Live = 0..(amp_len - 1) /\ Live' = 0..(amp_len - 1)
    <3>1. (0..amp_len) \ {amp_len} = 0..(amp_len - 1)
      BY <1>n
    <3> QED
      BY <2>0, <2>1, <3>1 DEF Live, poolFields
  <2>3. ClientCall' = ClientCall /\ ClientRet' = ClientRet
    BY <2>0, <2>1 DEF ClientCall, OuterCall, ClientRet
  <2> QED
    BY <1>e, <2>0, <2>2, <2>3
<1>5. CASE UNCHANGED <<vars, frame>>
  <2>1. UNCHANGED <<amp_item, amp_size, amp_len, key, alive, pc, call, i, ret, frame>>
    BY <1>5 DEF vars
  <2>2. Live' = Live /\ ClientCall' = ClientCall /\ ClientRet' = ClientRet
    BY <2>1 DEF Live, ClientCall, OuterCall, ClientRet
  <2> QED
    BY <1>e, <2>1, <2>2 DEF poolFields, objects
<1>6. CASE frame = NULL /\ Client /\ UNCHANGED frame
  BY <1>1, <1>6 DEF Next
<1>7. CASE Library /\ UNCHANGED frame
  <2>1. CASE frame = NULL
    BY <1>1, <1>7, <2>1 DEF Next
  <2>2. CASE frame # NULL
    BY <1>2, <1>7, <2>2
  <2> QED
    BY <2>1, <2>2
<1> QED
  BY <1>3, <1>4, <1>5, <1>6, <1>7 DEF NestNext

\* For any number of objects, keys and slots: a call that the initializer or the
\* finalizer makes, and that leaves the pool as it is, answers for the pool as it
\* stands, and get or free, whose index and pointer wait in locals meanwhile,
\* then does what ObjectPool promises.
THEOREM Callbacks == NestSpec => CallbacksHarmless
<1>1. NestInit => NestInv
  BY InitInv DEF NestInit, NestInv, Init, FreshItem, NestedAnswer
<1>2. NestInv /\ [NestNext]_<<vars, frame>> => NestInv'
  BY NestNextInv
<1>3. NestInit => Outer!Init
  <2> SUFFICES ASSUME NestInit PROVE Outer!Init
    OBVIOUS
  <2>1. Pool!Init
    BY InitRefines DEF NestInit
  <2>2. ClientCall = PoolCall /\ ClientRet = ret
    BY DEF NestInit, ClientCall, OuterCall, ClientRet, PoolCall
  <2> QED
    BY <2>1, <2>2 DEF Pool!Init, Outer!Init, Pool!Fresh, Outer!Fresh, Pool!Empty, Outer!Empty,
       Pool!None, Outer!None, PoolCall, ClientCall, ClientRet
<1>4. NestInv /\ NestInv' /\ [NestNext]_<<vars, frame>> => [Outer!Next]_Outer!poolVars
  BY NestNextRefines
<1>5. NestInv => NestedAnswer
  BY DEF NestInv
<1> QED
  BY <1>1, <1>2, <1>3, <1>4, <1>5, PTL DEF NestSpec, CallbacksHarmless, Outer!Spec
=============================================================================
