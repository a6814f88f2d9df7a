------------------------- MODULE MCGraphAlgorithms -------------------------
(* Few nodes for TLC; which is which does not matter. *)
EXTENDS GraphAlgorithms, TLC

AnyNode == Permutations(Ids)
=============================================================================
