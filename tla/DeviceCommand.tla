---------------------------- MODULE DeviceCommand ----------------------------
(***************************************************************************)
(* What ExecuteDeviceCommand promises its caller, with no wire, no retry   *)
(* and no worker: one goal at a time, a command carried out at most once,  *)
(* and an outcome that says something about the device.  COMPLETED means   *)
(* the command was carried out; CANCELED means a cancel was accepted and   *)
(* the command is not running and never will be; DEVICE_FAULT means the    *)
(* device refused it and never will carry it out.  SAFE_STOP leaves the    *)
(* device in doubt.                                                        *)
(***************************************************************************)
EXTENDS FiniteSets

CONSTANT Goals

VARIABLES
  phase,    \* "new", "refused", "open", "canceling" or the outcome
  done,     \* goals whose command the device carried out
  running   \* goals carried out since the device last stopped

promiseVars == <<phase, done, running>>

Open     == {"open", "canceling"}
Final    == {"COMPLETED", "CANCELED", "SAFE_STOP", "DEVICE_FAULT"}

Init ==
  /\ phase = [g \in Goals |-> "new"]
  /\ done = {}
  /\ running = {}

Accept(g) ==
  /\ phase[g] = "new"
  /\ \A h \in Goals : phase[h] \notin Open
  /\ phase' = [phase EXCEPT ![g] = "open"]
  /\ UNCHANGED <<done, running>>

Refuse(g) ==
  /\ phase[g] = "new"
  /\ phase' = [phase EXCEPT ![g] = "refused"]
  /\ UNCHANGED <<done, running>>

Cancel(g) ==
  /\ phase[g] = "open"
  /\ phase' = [phase EXCEPT ![g] = "canceling"]
  /\ UNCHANGED <<done, running>>

CarryOut(g) ==
  /\ phase[g] \in Open \cup {"SAFE_STOP"}
  /\ g \notin done
  /\ done' = done \cup {g}
  /\ running' = running \cup {g}
  /\ UNCHANGED phase

Stop ==
  /\ running' = {}
  /\ UNCHANGED <<phase, done>>

Settle(g, outcome) ==
  /\ phase[g] \in Open
  /\ outcome = "COMPLETED" => g \in done
  /\ outcome = "CANCELED"  => phase[g] = "canceling" /\ g \notin running
  /\ outcome = "DEVICE_FAULT" => g \notin done
  /\ phase' = [phase EXCEPT ![g] = outcome]
  /\ UNCHANGED <<done, running>>

Next ==
  \/ \E g \in Goals : \/ Accept(g) \/ Refuse(g) \/ Cancel(g) \/ CarryOut(g)
                      \/ \E outcome \in Final : Settle(g, outcome)
  \/ Stop

Spec == Init /\ [][Next]_promiseVars
=============================================================================
