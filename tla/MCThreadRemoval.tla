-------------------------- MODULE MCThreadRemoval --------------------------
EXTENDS RemovalInv, TLC
(* Nodes are interchangeable, and so are the threads other than main.      *)
Symmetry == Permutations(Nodes) \cup Permutations(Threads \ {Main})
=============================================================================
