---------------------------- MODULE CompactWalks ----------------------------
(***************************************************************************)
(* A client of rbtree_compact.h with two walks, each with an RB_PATH of its *)
(* own, which inserts nodes in between.  RB_INSERT works on a third stack  *)
(* and knows nothing of the client's: a rotation leaves them as they are.  *)
(*                                                                         *)
(* rp and at of RbTreeCompact are the walk in use; `walk` and `wat` are    *)
(* the stack and the node of the one put aside.  `stale` records that an   *)
(* insert has rotated a node on that stack.  rb_remove, which documents    *)
(* that walks end, ends this one too.                                      *)
(***************************************************************************)
EXTENDS RbTreeCompact

CONSTANT Cautious   \* the client does not go on with a walk that is stale

ASSUME CautiousAssumption == Cautious \in BOOLEAN

VARIABLES walk, wat, stale

walkVars == <<walk, wat, stale>>

DropWalk == walk' = <<>> /\ wat' = NULL /\ stale' = FALSE

\* The client turns to another RB_PATH.
PutAside ==
  /\ pc = "idle"
  /\ at # NULL
  /\ walk' = rp /\ wat' = at /\ stale' = FALSE
  /\ rp' = <<>> /\ at' = NULL
  /\ UNCHANGED <<tree, linked, pc, call, target, cur, ret>>

\* It takes the first one up again.
TakeUp ==
  /\ pc = "idle"
  /\ wat # NULL
  /\ Cautious => ~stale
  /\ rp' = walk /\ at' = wat
  /\ DropWalk
  /\ UNCHANGED <<tree, linked, pc, call, target, cur, ret>>

OnWalk(n) == n = wat \/ \E k \in 1..Len(walk) : walk[k].parent = n

\* rb_insert_color is about to rotate its grandparent down.
RotatesOnWalk ==
  LET e == Entry(rp, -1)
  IN  /\ IsRed(tree, Entry(rp, 0).parent)
      /\ IsBlack(tree, tree.child[e.parent][Opp(e.dir)])
      /\ OnWalk(e.parent)

\* The steps of the tree, and what becomes of the walk put aside.
WalkStep ==
  \/ InsertColor /\ stale' = (stale \/ RotatesOnWalk) /\ UNCHANGED <<walk, wat>>
  \/ RB_ROOT_INIT /\ DropWalk
  \/ RbRemove /\ DropWalk
  \/ /\ \/ \E n \in Node : Insert(n)
        \/ RemoveNode
        \/ \E k \in Key, op \in {"find", "remove"} : Find(op, k)
        \/ \E op \in {"first", "last"} : Iter(op)
        \/ \E op \in {"next", "prev"} : IterNext(op)
        \/ InsertDescend \/ FindStep \/ Successor \/ RemoveColor \/ IterDown \/ IterUp
     /\ UNCHANGED walkVars

WalkInit == Init /\ walk = <<>> /\ wat = NULL /\ stale = FALSE

WalkNext == PutAside \/ TakeUp \/ WalkStep

WalkSpec == WalkInit /\ [][WalkNext]_<<vars, walkVars>>

-----------------------------------------------------------------------------
(* Correctness.                                                            *)

\* The stack of the walk put aside names the way from the root to its node.
WalkLeads ==
  \A k \in 1..Len(walk) :
    (IF walk[k].parent = NULL THEN tree.root ELSE tree.child[walk[k].parent][walk[k].dir])
      = IF k < Len(walk) THEN walk[k + 1].parent ELSE wat

\* An RB_PATH outlives other walks and any number of inserts, as long as none
\* of them rotates down a node that is on it.
WalkSurvives == ~stale => WalkLeads

\* Such a rotation always ruins it: the rule is not too strict.
RotationRuinsWalk == [][~stale /\ stale' => ~WalkLeads']_<<vars, walkVars>>

\* What rbtree_compact.h says of rb_next: it returns the node's successor in
\* the tree, or NULL if the node is the last one.
NextIsSuccessor ==
  [][pc # "idle" /\ pc' = "idle" /\ call.op = "next" => ret' = Set!Answer(call)]_vars
=============================================================================
