---------------------------- MODULE MCScopedActor ----------------------------
(* Instances of ScopedActor for TLC.                                        *)
EXTENDS ScopedActor

CONSTANTS a1, a2, j1, j2, s1

TwoActors == {a1, a2}
TwoJobs   == {j1, j2}
NoJobs    == {}
OneEach   == [j \in Jobs |-> IF j = j1 THEN a1 ELSE a2]
SeedOrder == [a \in Actors |-> IF a = a1 THEN 0 ELSE 1]
OneScope  == {s1}
Reversed  == [s \in Scopes |-> <<a2, a1, a1>>]
==============================================================================
