------------------------------ MODULE MCExecutor ------------------------------
(* Instances of TaskExecutor for TLC. *)
EXTENDS TaskExecutor, TLC

CONSTANTS t1, t2

OneTask      == {t1}
TwoTasks     == {t1, t2}
TaskSymmetry == Permutations(TwoTasks)
=============================================================================
