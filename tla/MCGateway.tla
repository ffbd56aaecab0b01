------------------------------ MODULE MCGateway ------------------------------
(* Instances of Gateway for TLC. *)
EXTENDS Gateway, TLC

CONSTANTS r1, r2, k1, k2, c1, c2

TwoIds   == {r1, r2}
TwoTasks == {k1, k2}
OneTask  == {k1}
TwoCalls == {c1, c2}

(* The control tells terminal states apart from the others, REJECTED from  *)
(* the outcomes of a workflow, and COMPLETED from the others where an      *)
(* empty result is read.                                                   *)
TwoOutcomes == {"COMPLETED", "SAFE_STOP"}
GatewaySymmetry == Permutations(TwoIds) \cup Permutations(TwoTasks) \cup Permutations(TwoCalls)
=============================================================================
