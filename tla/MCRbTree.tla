------------------------------ MODULE MCRbTree ------------------------------
(***************************************************************************)
(* RbTree over the nodes 1..N.  Node n has key n, except that the last     *)
(* Twins nodes repeat the keys of the first ones, so that inserts can meet *)
(* a duplicate.                                                            *)
(***************************************************************************)
EXTENDS RbTree

CONSTANTS N, Twins

MCNode == 1..N
MCVal == [n \in MCNode |-> IF n > N - Twins THEN n - (N - Twins) ELSE n]
=============================================================================
