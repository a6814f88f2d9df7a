------------------------------ MODULE MCEditor ------------------------------
(***************************************************************************)
(* An editor with two nodes that have one input port, and one that has     *)
(* several (Concat).                                                       *)
(***************************************************************************)
EXTENDS GraphEditor, TLC

CONSTANTS Plain, Concat, ConcatPorts

PlainOrConcat == Plain \cup Concat
PortsOf  == [i \in Plain \cup Concat |-> IF i \in Concat THEN ConcatPorts ELSE 1]
Symmetry == Permutations(Plain) \cup Permutations(Concat) \cup Permutations(QNode)
=============================================================================
