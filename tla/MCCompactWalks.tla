--------------------------- MODULE MCCompactWalks ---------------------------
(* CompactWalks over the nodes and keys of MCRbTreeCompact.                  *)
EXTENDS CompactWalks, MCRbTreeCompact
=============================================================================
