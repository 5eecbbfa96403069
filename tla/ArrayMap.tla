------------------------------ MODULE ArrayMap ------------------------------
(***************************************************************************)
(* The array map of array_utils/array_map.h: values sorted by key in a     *)
(* caller-supplied array, found by binary search.                          *)
(*                                                                         *)
(* Every turn of a loop is a step; low, high, index and i are the locals   *)
(* that live across turns.  Indexes are ints of the target, lengths are    *)
(* unsigned: the model uses the same width for both, with IntMax as the    *)
(* largest int.                                                            *)
(***************************************************************************)
EXTENDS Integers, FiniteSets

CONSTANTS Item,     \* the values
          NULL,
          KeyOf,    \* the key stored in each value, as key_cmp orders it
          BufLen,   \* number of slots of the caller's array
          IntMax    \* INT_MAX of the target

ASSUME NullAssumption   == NULL \notin Item
ASSUME KeyOfAssumption  == KeyOf \in [Item -> Int]
ASSUME IntMaxAssumption == IntMax \in Nat

\* The capacity up to which low + high cannot exceed INT_MAX.  array_map.h
\* neither states nor checks it.
ASSUME BufLenAssumption == BufLen \in Nat /\ 2 * BufLen <= IntMax + 1

VARIABLES am_item, am_size, am_len,   \* the map
          pc,      \* where the running call is
          call,    \* the running call, [op, arg]
          low, high,   \* the search window of bsearch
          index,   \* where bsearch says the value belongs
          i,       \* the shifting loops
          value,   \* the client's *pvalue
          ret      \* what the last call returned, NULL for void

mapFields == <<am_item, am_size, am_len>>
locals == <<low, high, index, i>>
vars == <<am_item, am_size, am_len, pc, call, low, high, index, i, value, ret>>

Slot == 0..(BufLen - 1)
Key == {KeyOf[v] : v \in Item}
None == [op |-> "none", arg |-> NULL]

-----------------------------------------------------------------------------
UintMod == 2 * (IntMax + 1)
ToUint(n) == n % UintMod

\* Mutant: the unsigned value is taken as it is.
ToInt_NoConversion(n) == n

ToInt(n) == IF n > IntMax THEN n - UintMod ELSE n

\* NULL in am_item is memory no value was stored in yet.
Init ==
  /\ am_item = [s \in Slot |-> NULL]
  /\ am_size \in 0..BufLen
  /\ am_len = 0
  /\ pc = "idle"
  /\ call = None
  /\ low = 0 /\ high = 0 /\ index = 0 /\ i = 0
  /\ value = NULL
  /\ ret = NULL

ARRAY_MAP_INIT(siz) ==
  /\ pc = "idle"
  /\ am_size' = siz
  /\ am_len' = 0
  /\ UNCHANGED <<am_item, pc, call, locals, value, ret>>

ARRAY_MAP_CLEAR ==
  /\ pc = "idle"
  /\ am_len' = 0
  /\ UNCHANGED <<am_item, am_size, pc, call, locals, value, ret>>

Return(r) ==
  /\ pc' = "idle"
  /\ call' = None
  /\ low' = 0 /\ high' = 0 /\ index' = 0 /\ i' = 0
  /\ ret' = r

\* Mutant: the window ends one slot too late.
LastIndex_Len == ToInt(am_len)

\* The int high = am_len - 1: the unsigned am_len - 1 of an empty one becomes -1.
LastIndex == ToInt(ToUint(am_len - 1))

\* insert, remove and find begin with bsearch.
Call(op, arg) ==
  /\ pc = "idle"
  /\ call' = [op |-> op, arg |-> arg]
  /\ pc' = "bsearch"
  /\ low' = 0
  /\ high' = LastIndex
  /\ ret' = NULL
  /\ UNCHANGED <<mapFields, index, i, value>>

SearchKey == IF call.op = "insert" THEN KeyOf[call.arg] ELSE call.arg

\* Mutant: compares the other way round.
key_cmp_Swapped(v, k) == IF KeyOf[v] < k THEN 1 ELSE IF KeyOf[v] > k THEN -1 ELSE 0

\* key_cmp(item, key) as its sign.
key_cmp(v, k) == IF KeyOf[v] < k THEN -1 ELSE IF KeyOf[v] > k THEN 1 ELSE 0

\* bsearch returned true.
Found(med) ==
  \/ /\ call.op = "insert"
     /\ Return(FALSE)
     /\ UNCHANGED <<mapFields, value>>
  \/ /\ call.op = "find"
     /\ value' = am_item[med]
     /\ Return(TRUE)
     /\ UNCHANGED mapFields
  \/ /\ call.op = "remove"
     /\ pc' = "shift_down"
     /\ index' = med
     /\ i' = med
     /\ UNCHANGED <<mapFields, call, low, high, value, ret>>

\* Mutant: one value too many gets in.
IsFull_OffByOne == am_len > am_size

IsFull == am_len >= am_size

\* bsearch returned false.
NotFound ==
  /\ \/ /\ call.op = "find" \/ (call.op = "insert" /\ IsFull)
        /\ Return(FALSE)
     \/ /\ call.op = "remove"
        /\ Return(NULL)
     \/ /\ call.op = "insert" /\ ~IsFull
        /\ pc' = "shift_up"
        /\ index' = low
        /\ i' = ToInt(am_len)
        /\ UNCHANGED <<call, low, high, ret>>
  /\ UNCHANGED <<mapFields, value>>

\* Exact below IntMax; see NoIntOverflow.
Med == (low + high) \div 2

\* Mutant: the slot just looked at stays in the window.
GoLeft_KeepMed == high' = Med /\ UNCHANGED low

GoLeft == high' = Med - 1 /\ UNCHANGED low
GoRight == low' = Med + 1 /\ UNCHANGED high

Bsearch ==
  /\ pc = "bsearch"
  /\ \/ low > high /\ NotFound
     \/ /\ low <= high
        /\ LET c == key_cmp(am_item[Med], SearchKey)
           IN  \/ c < 0 /\ GoRight
               \/ c > 0 /\ GoLeft
        /\ UNCHANGED <<mapFields, pc, call, index, i, value, ret>>
     \/ /\ low <= high
        /\ key_cmp(am_item[Med], SearchKey) = 0
        /\ Found(Med)

ShiftUpLoops == i > index

\* for (i = am_len; i > index; --i), then the value goes in.
ShiftUp ==
  /\ pc = "shift_up"
  /\ \/ /\ ShiftUpLoops
        /\ am_item' = [am_item EXCEPT ![i] = am_item[i - 1]]
        /\ i' = i - 1
        /\ UNCHANGED <<am_len, pc, call, low, high, index, ret>>
     \/ /\ ~ShiftUpLoops
        /\ am_item' = [am_item EXCEPT ![index] = call.arg]
        /\ am_len' = ToUint(am_len + 1)
        /\ Return(TRUE)
  /\ UNCHANGED <<am_size, value>>

\* for (i = index; i < am_len - 1; ++i), then the map is one shorter.
ShiftDown ==
  /\ pc = "shift_down"
  /\ \/ /\ i < ToUint(am_len - 1)
        /\ am_item' = [am_item EXCEPT ![i] = am_item[i + 1]]
        /\ i' = ToUint(i + 1)
        /\ UNCHANGED <<am_len, pc, call, low, high, index, ret>>
     \/ /\ i >= ToUint(am_len - 1)
        /\ am_len' = ToUint(am_len - 1)
        /\ Return(NULL)
        /\ UNCHANGED am_item
  /\ UNCHANGED <<am_size, value>>

Client ==
  \/ \E siz \in 0..BufLen : ARRAY_MAP_INIT(siz)
  \/ ARRAY_MAP_CLEAR
  \/ \E v \in Item : Call("insert", v)
  \/ \E k \in Key, op \in {"remove", "find"} : Call(op, k)

Library == Bsearch \/ ShiftUp \/ ShiftDown

Next == Client \/ Library

Spec == Init /\ [][Next]_vars

\* A call that has started keeps running; the client need not call again.
FairSpec == Spec /\ WF_vars(Library)

-----------------------------------------------------------------------------
(* Correctness.                                                            *)

\* Type invariant of the map and of the locals of its functions.
TypeOK ==
  /\ am_item \in [Slot -> Item \cup {NULL}]
  /\ am_size \in 0..BufLen
  /\ am_len \in 0..BufLen
  /\ pc \in {"idle", "bsearch", "shift_up", "shift_down"}
  /\ call \in {None} \cup [op : {"insert"}, arg : Item]
                     \cup [op : {"remove", "find"}, arg : Key]
  /\ low \in 0..BufLen /\ high \in (-1)..BufLen
  /\ index \in 0..BufLen /\ i \in 0..BufLen
  /\ value \in Item \cup {NULL}
  /\ ret \in BOOLEAN \cup {NULL}

\* The slots that hold the map's values.  While a loop shifts, slot i is the
\* one about to be overwritten, or already copied away.
Live ==
  CASE pc = "shift_up"   -> (0..am_len) \ {i}
    [] pc = "shift_down" -> (0..(am_len - 1)) \ {i}
    [] OTHER             -> 0..(am_len - 1)

\* In every turn of every loop, the live slots hold values in strictly
\* ascending key order: no key twice, and bsearch may rely on the order.
Sorted ==
  \A j, k \in Live : j < k => KeyOf[am_item[j]] < KeyOf[am_item[k]]

\* bsearch never discards the slot it is looking for: below low the keys are
\* smaller, above high larger.  Where insert then makes room, the new value
\* fits between its neighbours.
SearchWindow ==
  /\ pc = "bsearch" => \A k \in Live :
       /\ k < low => KeyOf[am_item[k]] < SearchKey
       /\ k > high => KeyOf[am_item[k]] > SearchKey
  /\ pc = "shift_up" => \A k \in Live :
       /\ k < index => KeyOf[am_item[k]] < SearchKey
       /\ k >= index => KeyOf[am_item[k]] > SearchKey

\* int arithmetic and array accesses stay in range: low + high does not
\* overflow, bsearch reads live slots only, and the loops that shift stay
\* inside the buffer, for maps that are empty, full, or at the assumed limit.
NoIntOverflow ==
  /\ am_len <= am_size
  /\ pc = "bsearch" /\ low <= high => low + high <= IntMax /\ Med \in Live
  /\ pc = "shift_up" => i \in index..am_len /\ am_len < am_size
  /\ pc = "shift_down" => i \in index..(am_len - 1)

Map == INSTANCE BoundedMap
         WITH capacity <- am_size,
              entries <- {am_item[k] : k \in Live},
              call <- IF pc = "shift_down" THEN [op |-> "reply", arg |-> NULL] ELSE call

\* Refinement: insert refuses a key that is there and a full map, find and
\* remove find exactly the keys present, and shifting loses no value.
ImplementsMap == Map!Spec

\* Liveness: every call returns; the search window shrinks in every turn.
CallReturns == pc # "idle" ~> pc = "idle"
=============================================================================
