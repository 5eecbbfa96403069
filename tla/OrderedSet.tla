----------------------------- MODULE OrderedSet -----------------------------
(***************************************************************************)
(* What rbtree.h promises its client: a set of nodes with distinct keys,   *)
(* searched by key and walked in key order.  A call is requested, takes    *)
(* effect at one instant, and answers then or later.                       *)
(***************************************************************************)
EXTENDS Integers

CONSTANTS Node, NULL,
          Val      \* the key stored in each node

VARIABLES nodes,   \* the nodes in the set
          call,    \* the call in progress: [op, arg]
          ret      \* the answer of the last call

setVars == <<nodes, call, ret>>

Key == {Val[n] : n \in Node}
None == [op |-> "none", arg |-> NULL]

\* The requests a client may make: it inserts any node, one that is in the set
\* already included, and hands rb_remove, rb_next and rb_prev nodes of the set.
Request ==
       [op : {"insert"}, arg : Node]
  \cup [op : {"find", "remove"}, arg : Key]
  \cup [op : {"rb_remove", "next", "prev"}, arg : nodes]
  \cup [op : {"next", "prev", "first", "last"}, arg : {NULL}]

Least(S) == IF S = {} THEN NULL
            ELSE CHOOSE n \in S : \A m \in S : Val[n] <= Val[m]
Greatest(S) == IF S = {} THEN NULL
               ELSE CHOOSE n \in S : \A m \in S : Val[m] <= Val[n]
WithKey(k) == Least({n \in nodes : Val[n] = k})

\* The answer to a request, and the set after it.
Answer(c) ==
  CASE c.op = "insert" -> IF WithKey(Val[c.arg]) = NULL THEN c.arg
                                                        ELSE WithKey(Val[c.arg])
    [] c.op \in {"find", "remove"} -> WithKey(c.arg)
    [] c.op = "rb_remove" -> c.arg
    [] c.op = "first" -> Least(nodes)
    [] c.op = "last" -> Greatest(nodes)
    [] c.op = "next" -> IF c.arg = NULL THEN NULL
                        ELSE Least({n \in nodes : Val[c.arg] < Val[n]})
    [] c.op = "prev" -> IF c.arg = NULL THEN NULL
                        ELSE Greatest({n \in nodes : Val[n] < Val[c.arg]})

Effect(c) ==
  CASE c.op = "insert" -> nodes \cup {Answer(c)}
    [] c.op \in {"remove", "rb_remove"} -> nodes \ {Answer(c)}
    [] OTHER -> nodes

Init == nodes = {} /\ call = None /\ ret = NULL

\* The client forgets the set and has all its nodes back.
Reset == call = None /\ nodes' = {} /\ UNCHANGED <<call, ret>>

Invoke ==
  /\ call = None
  /\ call' \in Request
  /\ ret' = NULL
  /\ UNCHANGED nodes

\* The call takes effect and answers now, or owes the answer.
Apply ==
  /\ call \notin {None} \cup [op : {"reply"}, arg : Node]
  /\ nodes' = Effect(call)
  /\ \/ call' = None /\ ret' = Answer(call)
     \/ call' = [op |-> "reply", arg |-> Answer(call)] /\ UNCHANGED ret

Reply ==
  /\ call.op = "reply"
  /\ ret' = call.arg
  /\ call' = None
  /\ UNCHANGED nodes

Next == Reset \/ Invoke \/ Apply \/ Reply

Spec == Init /\ [][Next]_setVars
=============================================================================
