------------------------------ MODULE MCChunkPool ------------------------------
(* An instance of ChunkPool for TLC.                                       *)
EXTENDS ChunkPool, TLC

CONSTANTS t1, t2, t3, c1, c2, c3, c4, c5

ThreeThreads == {t1, t2, t3}
FiveChunks == {c1, c2, c3, c4, c5}

Symmetric == Permutations(ThreeThreads) \cup Permutations(FiveChunks)
================================================================================
