----------------------------- MODULE MCArrayMap -----------------------------
(***************************************************************************)
(* ArrayMap over the values 1..N.  Value v has key v, except that the last *)
(* one has key 1, so that an insert can meet its key with another value.   *)
(***************************************************************************)
EXTENDS ArrayMap

CONSTANT N

MCItem == 1..N
MCKeyOf == [v \in MCItem |-> IF v = N THEN 1 ELSE v]
=============================================================================
