----------------------------- MODULE ObjectPool -----------------------------
(***************************************************************************)
(* What array_map.h promises the client of an array map pool: at most      *)
(* `capacity` objects are handed out at a time, each under its own key,    *)
(* and an object that is handed out is not handed out again under another  *)
(* key before it is given back.                                            *)
(***************************************************************************)
EXTENDS Integers, FiniteSets, Functions

CONSTANTS Object, Key, NULL

VARIABLES capacity,
          holder,  \* the objects handed out: a function from keys to objects
          call,    \* the call in progress
          ret      \* the object the last call returned, or NULL

poolVars == <<capacity, holder, call, ret>>

None == [op |-> "none", arg |-> NULL]
Owed == [op |-> "reply", arg |-> NULL]
Empty == [k \in {} |-> NULL]

Fresh == capacity \in Nat /\ holder = Empty /\ call = None

Init == Fresh /\ ret = NULL

Reset == call = None /\ Fresh' /\ UNCHANGED ret

Invoke ==
  /\ call = None
  /\ call' \in [op : {"get", "free", "find"}, arg : Key]
  /\ ret' = NULL
  /\ UNCHANGED <<capacity, holder>>

Lookup == IF call.arg \in DOMAIN holder THEN holder[call.arg] ELSE NULL

\* The object under the key, or a free one that it is put under now.
Get ==
  /\ call.op = "get"
  /\ \/ /\ Lookup # NULL \/ Cardinality(DOMAIN holder) >= capacity
        /\ ret' = Lookup
        /\ UNCHANGED holder
     \/ /\ Lookup = NULL /\ Cardinality(DOMAIN holder) < capacity
        /\ ret' \in Object \ Range(holder)
        /\ holder' = [k \in DOMAIN holder \cup {call.arg} |->
                        IF k = call.arg THEN ret' ELSE holder[k]]
  /\ call' = None
  /\ UNCHANGED capacity

Free ==
  /\ call.op = "free"
  /\ holder' = Restrict(holder, DOMAIN holder \ {call.arg})
  /\ call' \in {None, Owed}
  /\ UNCHANGED <<capacity, ret>>

Find ==
  /\ call.op = "find"
  /\ ret' = Lookup
  /\ call' = None
  /\ UNCHANGED <<capacity, holder>>

Reply ==
  /\ call = Owed
  /\ call' = None
  /\ UNCHANGED <<capacity, holder, ret>>

Next == Reset \/ Invoke \/ Get \/ Free \/ Find \/ Reply

Spec == Init /\ [][Next]_poolVars
=============================================================================
