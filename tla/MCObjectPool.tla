---------------------------- MODULE MCObjectPool ----------------------------
(* Instances of ObjectPool for TLC.                                         *)
EXTENDS ObjectPool, TLC

Symmetry == Permutations(Threads) \cup Permutations(Nodes)
=============================================================================
