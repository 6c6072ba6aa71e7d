---------------------------- MODULE MCLockFreeQueue ----------------------------
(* Instances of LockFreeQueue for TLC.                                      *)
EXTENDS LockFreeQueue, TLC

CONSTANTS t1, t2, t3, v1, v2, v3, n1, n2, n3, n4

ThreeThreads == {t1, t2, t3}
ThreeValues  == {v1, v2, v3}
FourNodes    == {n1, n2, n3, n4}

Symmetry == Permutations(Threads) \cup Permutations(Values)
            \cup Permutations(Nodes)
================================================================================
