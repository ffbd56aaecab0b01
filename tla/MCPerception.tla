----------------------------- MODULE MCPerception -----------------------------
(* Instances of PerceptionAdapter for TLC. *)
EXTENDS PerceptionAdapter

CONSTANTS m1, m2

TwoMarkers == {m1, m2}
=============================================================================
