---------------------------- MODULE MCActorSystem ----------------------------
(* Instances of ActorSystem for TLC.                                        *)
EXTENDS ActorSystem

CONSTANTS a1, j1, j2, j3

OneActor  == {a1}
NoJobs    == {}
ThreeJobs == {j1, j2, j3}

AllToOne == [j \in Jobs |-> a1]

=============================================================================
