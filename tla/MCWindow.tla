------------------------------ MODULE MCWindow ------------------------------
(* Two graphs, so at most two tabs; the first graph has two nodes. *)
EXTENDS ChainWindow

WindowNodes == <<{1, 2}, {1}>>
=============================================================================
