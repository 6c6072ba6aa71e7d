------------------------------ MODULE MCListening ------------------------------
(* Instances of Listening for TLC.                                          *)
EXTENDS Listening, TLC

CONSTANTS h1, h2, h3, h4, h5, h6

SixHandles == {h1, h2, h3, h4, h5, h6}

Symmetry == Permutations(Handles)
================================================================================
