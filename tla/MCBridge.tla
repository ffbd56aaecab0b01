------------------------------ MODULE MCBridge ------------------------------
(* Instances of BridgeSystem for TLC. *)
EXTENDS BridgeSystem, TLC

CONSTANTS g1, g2, p1

MCGoals    == {g1, g2}
MCPayloads == {p1}

AllModes   == {"normal", "delay_ack", "drop_ack", "drop_stop_ack", "reject", "fault"}
GoalSymmetry == Permutations(MCGoals)
MCModes    == AllModes \ {"delay_ack"}  \* "normal" already answers at any later time

(* 1..2 application ids, 3..4 STOP ids. *)
AppGoalIds  == {1, 2}
TwoModes == {"normal", "drop_stop_ack"}

(* Up to the names of the goals, the first has the first id. *)
MCInit == Init /\ request[g1].id = 1
MCSpec == MCInit /\ [][Next]_vars /\ Fairness
=============================================================================
