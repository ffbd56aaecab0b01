---------------------------- MODULE MCOrchestrator ----------------------------
(* Instances of Orchestrator for TLC. *)
EXTENDS Orchestrator, TLC

CONSTANTS w1, w2, w3

TwoGoals     == {w1, w2}
ThreeGoals   == {w1, w2, w3}
GoalSymmetry == Permutations(ThreeGoals)
=============================================================================
