---------------------------- MODULE PoolCallbacks ----------------------------
(***************************************************************************)
(* An array map pool whose initializer and finalizer call the pool they    *)
(* are called from.  The nested call runs to its end while get or free     *)
(* waits, between its search and its shift, with index and new_item in     *)
(* locals that nothing refreshes afterwards; `frame` keeps them.           *)
(*                                                                         *)
(* array_map.h does not say which nested calls are allowed.  The ones here *)
(* leave the pool as it is: find, get of a key that is there or for which  *)
(* there is no room, free of a key that is not there.                      *)
(***************************************************************************)
EXTENDS ArrayMapPool

Request == [op : {"get", "free", "find"}, arg : Key]

\* The locals of a waiting call, and the nested one.
Frame == [pc : {"bsearch", "shift_up"}, call : Request, low : 0..BufLen, high : (-1)..BufLen,
          index : 0..BufLen, i : 0..BufLen, item : Object \cup {NULL}, nested : Request]

ASSUME FrameAssumption == NULL \notin Frame

VARIABLE frame    \* the waiting call's, or NULL

\* The initializer is running; it has not stored the key yet, or has already.
InInitializer ==
  \/ pc = "bsearch" /\ low > high /\ call.op = "get" /\ amp_len < amp_size
  \/ pc = "shift_up" /\ i = amp_len

\* The finalizer is running and has left the key alone so far.
InFinalizer ==
  /\ pc = "bsearch" /\ low <= high /\ call.op = "free"
  /\ key_cmp(amp_item[Med], call.arg) = 0

Listed(k) == \E s \in 0..(amp_len - 1) : key[amp_item[s]] = k

ChangesNothing(op, k) ==
  \/ op = "find"
  \/ op = "get" /\ (Listed(k) \/ amp_len = amp_size)
  \/ op = "free" /\ ~Listed(k)

Nest(op, k) ==
  /\ frame = NULL
  /\ InInitializer \/ InFinalizer
  /\ ChangesNothing(op, k)
  /\ frame' = [pc |-> pc, call |-> call, low |-> low, high |-> high, index |-> index,
               i |-> i, item |-> item, nested |-> [op |-> op, arg |-> k]]
  /\ pc' = "bsearch"
  /\ call' = [op |-> op, arg |-> k]
  /\ low' = 0 /\ high' = LastIndex /\ index' = 0 /\ i' = 0
  /\ item' = NULL
  /\ UNCHANGED <<poolFields, objects, ret>>

\* The nested call has returned, and the callback goes on.
Resume ==
  /\ frame # NULL /\ pc = "idle"
  /\ pc' = frame.pc /\ call' = frame.call
  /\ low' = frame.low /\ high' = frame.high /\ index' = frame.index /\ i' = frame.i
  /\ item' = frame.item
  /\ ret' = NULL
  /\ frame' = NULL
  /\ UNCHANGED <<poolFields, objects>>

NestInit == Init /\ frame = NULL

NestNext ==
  \/ frame = NULL /\ Client /\ UNCHANGED frame
  \/ Library /\ UNCHANGED frame
  \/ \E k \in Key, op \in {"get", "free", "find"} : Nest(op, k)
  \/ Resume

NestSpec == NestInit /\ [][NestNext]_<<vars, frame>>

-----------------------------------------------------------------------------
(* Correctness.                                                            *)

\* A call made from the initializer or the finalizer answers for the pool as
\* it is without the object being set up, and with the one being given back:
\* bsearch does not look at slots that are half changed.
NestedAnswer ==
  frame # NULL /\ pc = "idle" =>
    IF frame.nested.op # "free" /\ Listed(frame.nested.arg)
    THEN ret # NULL /\ key[ret] = frame.nested.arg /\ \E s \in 0..(amp_len - 1) : amp_item[s] = ret
    ELSE ret = NULL

OuterCall == IF frame = NULL THEN call ELSE frame.call

Outer == INSTANCE ObjectPool
           WITH capacity <- amp_size,
                holder <- [k \in {key[amp_item[s]] : s \in Live} |-> amp_item[SlotOf(k)]],
                call <- IF pc = "shift_down" THEN [op |-> "reply", arg |-> NULL] ELSE OuterCall,
                ret <- IF frame = NULL THEN ret ELSE NULL

\* Nested calls get the right answers, and refinement: get and free whose
\* callbacks make such calls still do what they promise; the index and the
\* object they hold across the callback are current.
CallbacksHarmless == Outer!Spec /\ []NestedAnswer
==============================================================================
