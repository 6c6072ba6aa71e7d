----------------------------- MODULE MCConnection -----------------------------
(* Instances of Connection for TLC.                                         *)
EXTENDS Connection, TLC

CONSTANTS s1, s2, s3, a1, a2

ThreeSessions == {s1, s2, s3}
TwoSlots      == {a1, a2}

Symmetry == Permutations(Sessions) \cup Permutations(Slots)
===============================================================================
