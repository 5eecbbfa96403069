----------------------------- MODULE BoundedMap -----------------------------
(***************************************************************************)
(* What array_map.h promises the client of an array map: at most           *)
(* `capacity` values, no two with the same key, found by key.  A call is   *)
(* requested, takes effect at one instant, and answers then or later.      *)
(***************************************************************************)
EXTENDS Integers, FiniteSets

CONSTANTS Item,    \* the values
          NULL,
          KeyOf    \* the key stored in each value

VARIABLES capacity,
          entries,   \* the values in the map
          call,      \* the call in progress
          value,     \* what the last successful find delivered
          ret        \* whether the last call succeeded; NULL if it does not say

mapVars == <<capacity, entries, call, value, ret>>

Key == {KeyOf[v] : v \in Item}
None == [op |-> "none", arg |-> NULL]
Owed == [op |-> "reply", arg |-> NULL]

Request == [op : {"insert"}, arg : Item] \cup [op : {"remove", "find"}, arg : Key]

With(k) == {v \in entries : KeyOf[v] = k}

Fresh == capacity \in Nat /\ entries = {} /\ call = None

Init == Fresh /\ value = NULL /\ ret = NULL

Reset == call = None /\ Fresh' /\ UNCHANGED <<value, ret>>

Invoke ==
  /\ call = None
  /\ call' \in Request
  /\ ret' = NULL
  /\ UNCHANGED <<capacity, entries, value>>

\* A value goes in if its key is new and there is room.
Insert ==
  /\ call.op = "insert"
  /\ LET ok == With(KeyOf[call.arg]) = {} /\ Cardinality(entries) < capacity
     IN  /\ entries' = IF ok THEN entries \cup {call.arg} ELSE entries
         /\ ret' = ok
  /\ call' = None
  /\ UNCHANGED <<capacity, value>>

Find ==
  /\ call.op = "find"
  /\ \/ With(call.arg) = {} /\ ret' = FALSE /\ UNCHANGED value
     \/ value' \in With(call.arg) /\ ret' = TRUE
  /\ call' = None
  /\ UNCHANGED <<capacity, entries>>

Remove ==
  /\ call.op = "remove"
  /\ entries' = entries \ With(call.arg)
  /\ call' \in {None, Owed}
  /\ UNCHANGED <<capacity, value, ret>>

Reply ==
  /\ call = Owed
  /\ call' = None
  /\ UNCHANGED <<capacity, entries, value, ret>>

Next == Reset \/ Invoke \/ Insert \/ Find \/ Remove \/ Reply

Spec == Init /\ [][Next]_mapVars
=============================================================================
