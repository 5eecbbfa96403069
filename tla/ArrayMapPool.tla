---------------------------- MODULE ArrayMapPool ----------------------------
(***************************************************************************)
(* The array map pool of array_utils/array_map.h: an array of pointers to  *)
(* all objects of the pool.  The first amp_len point at the objects handed *)
(* out, sorted by the key stored in the object; the rest are free.         *)
(*                                                                         *)
(* Every turn of a loop is a step, as in ArrayMap.  The initializer and    *)
(* the finalizer are the client's.  They are modelled as storing the key   *)
(* in the object and as leaving nothing in it; they do not call the pool.  *)
(***************************************************************************)
EXTENDS Integers, FiniteSets, Functions

CONSTANTS Object,   \* the objects the caller's pointers lead to
          Key,      \* as key_cmp orders it
          NULL,
          BufLen,   \* number of pointers in the caller's array
          IntMax    \* INT_MAX of the target

ASSUME NullAssumption   == NULL \notin Object /\ NULL \notin Key
ASSUME KeyAssumption    == Key \subseteq Int
ASSUME IntMaxAssumption == IntMax \in Nat
ASSUME BufLenAssumption == BufLen \in Nat /\ 2 * BufLen <= IntMax + 1

VARIABLES amp_item, amp_size, amp_len,   \* the pool
          key,     \* the key stored in each object, NULL if none
          alive,   \* the objects initialised and not finalised since
          pc,      \* where the running call is
          call,    \* the running call, [op, arg]
          low, high,   \* the search window of bsearch
          index,   \* where bsearch says the object belongs
          i,       \* the shifting loops
          item,    \* new_item of get, free_item of free
          ret      \* what the last call returned

objects == <<key, alive>>
poolFields == <<amp_item, amp_size, amp_len>>
vars == <<amp_item, amp_size, amp_len, key, alive, pc, call, low, high, index, i, item, ret>>

Slot == 0..(BufLen - 1)
None == [op |-> "none", arg |-> NULL]

-----------------------------------------------------------------------------
UintMod == 2 * (IntMax + 1)
ToUint(n) == n % UintMod

\* Mutant: the unsigned value is taken as it is.
ToInt_NoConversion(n) == n

ToInt(n) == IF n > IntMax THEN n - UintMod ELSE n

Init ==
  /\ amp_item \in {f \in [Slot -> Object] : IsInjective(f)}
  /\ amp_size \in 0..BufLen
  /\ amp_len = 0
  /\ key = [o \in Object |-> NULL]
  /\ alive = {}
  /\ pc = "idle"
  /\ call = None
  /\ low = 0 /\ high = 0 /\ index = 0 /\ i = 0
  /\ item = NULL
  /\ ret = NULL

ARRAY_MAP_POOL_INIT(siz) ==
  /\ pc = "idle"
  /\ amp_size' = siz
  /\ amp_len' = 0
  /\ UNCHANGED <<amp_item, objects, pc, call, low, high, index, i, item, ret>>

\* No finalizer is called.
ARRAY_MAP_POOL_CLEAR ==
  /\ pc = "idle"
  /\ amp_len' = 0
  /\ UNCHANGED <<amp_item, amp_size, objects, pc, call, low, high, index, i, item, ret>>

Return(r) ==
  /\ pc' = "idle"
  /\ call' = None
  /\ low' = 0 /\ high' = 0 /\ index' = 0 /\ i' = 0
  /\ item' = NULL
  /\ ret' = r

\* Mutant: the window ends one slot too late.
LastIndex_Len == ToInt(amp_len)

\* The int high = amp_len - 1: the unsigned amp_len - 1 of an empty one becomes -1.
LastIndex == ToInt(ToUint(amp_len - 1))

\* get, free and find begin with bsearch.
Call(op, k) ==
  /\ pc = "idle"
  /\ call' = [op |-> op, arg |-> k]
  /\ pc' = "bsearch"
  /\ low' = 0
  /\ high' = LastIndex
  /\ ret' = NULL
  /\ UNCHANGED <<poolFields, objects, index, i, item>>

initializer(o, k) == key' = [key EXCEPT ![o] = k] /\ alive' = alive \cup {o}
finalizer(o) == key' = [key EXCEPT ![o] = NULL] /\ alive' = alive \ {o}

\* Mutant: compares the other way round.
key_cmp_Swapped(o, k) == IF key[o] < k THEN 1 ELSE IF key[o] > k THEN -1 ELSE 0

\* key_cmp(object, key) as its sign.
key_cmp(o, k) == IF key[o] < k THEN -1 ELSE IF key[o] > k THEN 1 ELSE 0

\* bsearch returned true.
Found(med) ==
  /\ \/ /\ call.op \in {"get", "find"}
        /\ Return(amp_item[med])
        /\ UNCHANGED objects
     \/ /\ call.op = "free"
        /\ finalizer(amp_item[med])
        /\ pc' = "shift_down"
        /\ item' = amp_item[med]
        /\ index' = med
        /\ i' = med
        /\ UNCHANGED <<call, low, high, ret>>
  /\ UNCHANGED poolFields

\* Mutant: the object whose slot the new one will get.
NewItem_AtIndex == amp_item[low]

\* The first of the free objects.
NewItem == amp_item[amp_len]

\* bsearch returned false.
NotFound ==
  /\ \/ /\ call.op \in {"free", "find"} \/ amp_len >= amp_size
        /\ Return(NULL)
        /\ UNCHANGED objects
     \/ /\ call.op = "get" /\ amp_len < amp_size
        /\ item' = NewItem
        /\ initializer(NewItem, call.arg)
        /\ pc' = "shift_up"
        /\ index' = low
        /\ i' = ToInt(amp_len)
        /\ UNCHANGED <<call, low, high, ret>>
  /\ UNCHANGED poolFields

\* Exact below IntMax; see NoIntOverflow.
Med == (low + high) \div 2

\* Mutant: the slot just looked at stays in the window.
GoLeft_KeepMed == high' = Med /\ UNCHANGED low

GoLeft == high' = Med - 1 /\ UNCHANGED low
GoRight == low' = Med + 1 /\ UNCHANGED high

Bsearch ==
  /\ pc = "bsearch"
  /\ \/ low > high /\ NotFound
     \/ /\ low <= high
        /\ LET c == key_cmp(amp_item[Med], call.arg)
           IN  \/ c < 0 /\ GoRight
               \/ c > 0 /\ GoLeft
        /\ UNCHANGED <<poolFields, objects, pc, call, index, i, item, ret>>
     \/ /\ low <= high
        /\ key_cmp(amp_item[Med], call.arg) = 0
        /\ Found(Med)

\* Mutant: stops one slot early.
ShiftUpLoops_Early == i > index + 1

ShiftUpLoops == i > index

\* for (i = amp_len; i > index; --i), then new_item goes in.
ShiftUp ==
  /\ pc = "shift_up"
  /\ \/ /\ ShiftUpLoops
        /\ amp_item' = [amp_item EXCEPT ![i] = amp_item[i - 1]]
        /\ i' = i - 1
        /\ UNCHANGED <<amp_len, pc, call, low, high, index, item, ret>>
     \/ /\ ~ShiftUpLoops
        /\ amp_item' = [amp_item EXCEPT ![index] = item]
        /\ amp_len' = ToUint(amp_len + 1)
        /\ Return(amp_item'[index])
  /\ UNCHANGED <<amp_size, objects>>

\* Mutant: the freed pointer is not put back.
GiveBack_Forget == amp_item

GiveBack == [amp_item EXCEPT ![ToUint(amp_len - 1)] = item]

\* for (i = index; i < amp_len - 1; ++i), then free_item becomes the first of
\* the free objects.
ShiftDown ==
  /\ pc = "shift_down"
  /\ \/ /\ i < ToUint(amp_len - 1)
        /\ amp_item' = [amp_item EXCEPT ![i] = amp_item[i + 1]]
        /\ i' = ToUint(i + 1)
        /\ UNCHANGED <<amp_len, pc, call, low, high, index, item, ret>>
     \/ /\ i >= ToUint(amp_len - 1)
        /\ amp_item' = GiveBack
        /\ amp_len' = ToUint(amp_len - 1)
        /\ Return(NULL)
  /\ UNCHANGED <<amp_size, objects>>

Client ==
  \/ ARRAY_MAP_POOL_CLEAR
  \/ \E siz \in 0..BufLen : ARRAY_MAP_POOL_INIT(siz)
  \/ \E k \in Key, op \in {"get", "free", "find"} : Call(op, k)

Library == Bsearch \/ ShiftUp \/ ShiftDown

Next == Client \/ Library

Spec == Init /\ [][Next]_vars

\* A call that has started keeps running; the client need not call again.
FairSpec == Spec /\ WF_vars(Library)

-----------------------------------------------------------------------------
(* Correctness.                                                            *)

\* Type invariant of the pool and of the locals of its functions.
TypeOK ==
  /\ amp_item \in [Slot -> Object]
  /\ amp_size \in 0..BufLen
  /\ amp_len \in 0..BufLen
  /\ key \in [Object -> Key \cup {NULL}]
  /\ alive \subseteq Object
  /\ pc \in {"idle", "bsearch", "shift_up", "shift_down"}
  /\ call \in {None} \cup [op : {"get", "free", "find"}, arg : Key]
  /\ low \in 0..BufLen /\ high \in (-1)..BufLen
  /\ index \in 0..BufLen /\ i \in 0..BufLen
  /\ {item, ret} \subseteq Object \cup {NULL}

Shifting == pc \in {"shift_up", "shift_down"}

\* The slots that point at objects handed out.  While a loop shifts, slot i is
\* the one about to be overwritten, or already copied away.
Live ==
  CASE pc = "shift_up"   -> (0..amp_len) \ {i}
    [] pc = "shift_down" -> (0..(amp_len - 1)) \ {i}
    [] OTHER             -> 0..(amp_len - 1)

\* No object is ever lost or listed twice: the array, with the pointer that get
\* or free carries in new_item or free_item standing in for the slot the loop
\* is about to overwrite, is a one-to-one list of the caller's objects.
PoolConserved ==
  IsInjective(IF Shifting THEN [amp_item EXCEPT ![i] = item] ELSE amp_item)

\* The objects handed out are initialised and not finalised, and hold their
\* keys in strictly ascending order, in every turn of every loop.
LiveSorted ==
  /\ \A k \in Live : amp_item[k] \in alive /\ key[amp_item[k]] # NULL
  /\ \A j, k \in Live : j < k => key[amp_item[j]] < key[amp_item[k]]
  /\ pc = "shift_up" => item \in alive /\ key[item] = call.arg

\* bsearch never discards the slot it is looking for, and where get makes room
\* the new object fits between its neighbours.
SearchWindow ==
  /\ pc = "bsearch" => \A k \in Live :
       /\ k < low => key[amp_item[k]] < call.arg
       /\ k > high => key[amp_item[k]] > call.arg
  /\ pc = "shift_up" => \A k \in Live :
       /\ k < index => key[amp_item[k]] < call.arg
       /\ k >= index => key[amp_item[k]] > call.arg

\* int arithmetic and array accesses stay in range: low + high does not
\* overflow, bsearch reads live slots only, and the loops that shift stay
\* inside the buffer, for pools that are empty, full, or at the assumed limit.
NoIntOverflow ==
  /\ amp_len <= amp_size
  /\ pc = "bsearch" /\ low <= high => low + high <= IntMax /\ Med \in Live
  /\ pc = "shift_up" => i \in index..amp_len /\ amp_len < amp_size
  /\ pc = "shift_down" => i \in index..(amp_len - 1)

SlotOf(k) == CHOOSE s \in Live : key[amp_item[s]] = k

Pool == INSTANCE ObjectPool
          WITH capacity <- amp_size,
               holder <- [k \in {key[amp_item[s]] : s \in Live} |-> amp_item[SlotOf(k)]],
               call <- IF pc = "shift_down" THEN [op |-> "reply", arg |-> NULL] ELSE call

\* Refinement: get returns the object of its key for as long as it is not
\* freed, never one that is handed out under another key, and NULL only when
\* the pool is full; find and free find exactly the keys handed out.
ImplementsPool == Pool!Spec

\* Liveness: every call returns; the search window shrinks in every turn.
CallReturns == pc # "idle" ~> pc = "idle"

\* array_map.h:44-45: the pool "uses a initializer and a finalizer when
\* allocating and deallocating a object".  So an object that get allocates
\* again has been through the finalizer since it was last allocated.
FinalizedBeforeReuse ==
  [][pc # "shift_up" /\ pc' = "shift_up" => item' \notin alive]_vars
=============================================================================
