---------------------------- MODULE BridgeSystem ----------------------------
(***************************************************************************)
(* The Device Bridge and the device, joined by the bus, and what holds of  *)
(* the two together.                                                       *)
(***************************************************************************)
EXTENDS DeviceBridge, CanDevice

vars == <<busVars, bridgeVars, deviceVars>>

(* Clients do not give two goals the same command id: the Task Executor    *)
(* numbers its commands (task_executor_node.cpp, allocate_command_id).     *)
FreshIds == \A g, h \in Goals : g # h => request[g].id # request[h].id

Init == BusInit /\ BridgeInit /\ DeviceInit /\ FreshIds

Next ==
  \/ BridgeNext /\ UNCHANGED deviceVars
  \/ DeviceNext /\ UNCHANGED bridgeVars
  \/ (LoseCommand \/ LoseResponse) /\ UNCHANGED <<bridgeVars, deviceVars>>

(* The worker thread keeps running, and a wait that goes on looking at the *)
(* steady clock finds the deadline passed; clients, device and bus may     *)
(* stop.                                                                   *)
Fairness ==
  /\ WF_vars(Worker /\ UNCHANGED deviceVars)
  /\ SF_vars(WaitTimeout /\ UNCHANGED deviceVars)
  /\ SF_vars(StopTimeout /\ UNCHANGED deviceVars)

Spec     == Init /\ [][Next]_vars
FairSpec == Spec /\ Fairness

-----------------------------------------------------------------------------
(* The variables of the three parts have the types their code gives them.  *)
TypeOK == BusTypeOK /\ BridgeTypeOK /\ DeviceTypeOK

(* One wire transaction at a time ("a single active wire transaction keeps *)
(* response matching unambiguous"): the only goal that is alive is the     *)
(* worker's, and active_goal_ is set exactly while the worker has one.     *)
SingleFlight ==
  /\ active <=> pc # "idle"
  /\ \A g \in Goals : goal[g] \in Live => active /\ g = cur

(* A command reaches the device's actuators at most once, however often    *)
(* its frame is sent: the retry relies on the device's replay cache.       *)
CarriedAtMostOnce == \A g \in Goals : carried[g] <= 1

(* COMPLETED is reported only for a command that the device carried out    *)
(* for this very goal, never on the strength of a stale acknowledgement.   *)
CompletedIsCarried ==
  \A g \in Goals : result[g].outcome = "COMPLETED" => carried[g] = 1

(* No frame that could still start the goal's command is on the bus.       *)
NothingOnTheWay(g) ==
  \A i \in 1..Len(toDevice) : toDevice[i].by = g => toDevice[i].cmd.op = STOP

(* CANCELED, and SAFE_STOP/201 after an acknowledgement timeout, are       *)
(* reported only when the goal's command is not running on the device and  *)
(* nothing on the bus will start it later ("protocol STOP acknowledged").  *)
ConfirmedStop ==
  \A g \in Goals :
    \/ result[g].outcome = "CANCELED"
    \/ result[g] = [outcome |-> "SAFE_STOP", code |-> ErrAckTimeout]
    => g \notin running /\ NothingOnTheWay(g)

(* rclcpp_action throws when canceled() is called on a goal that nobody    *)
(* asked to cancel, and the exception would end the worker thread and the  *)
(* process: the CANCELED path is only taken on an accepted cancel.         *)
CancelIsLegal ==
  pc = "finish" /\ pending.outcome = "CANCELED" => goal[cur] = "canceling"

(* Between goals the diagnostics show the last goal's failure, with its    *)
(* code, and no failure when the last goal completed or was canceled:      *)
(* "FailuresLatchUntilNewSuccess", across retries, STOP and shutdown.      *)
LatchMatchesResult ==
  pc = "idle" /\ cur # NoGoal =>
    /\ diag.latched <=> result[cur].outcome \notin {"COMPLETED", "CANCELED"}
    /\ diag.err = result[cur].code

(* Every goal that the bridge accepted is answered even if the device and  *)
(* the bus stay silent for ever, since every wait has a deadline: over and *)
(* over no goal is alive.                                                  *)
EveryGoalSettles == []<>(\A g \in Goals : goal[g] \notin Live)

(* The bridge keeps the promise of ExecuteDeviceCommand.                   *)
PromisePhase(g) ==
  CASE goal[g] = "unsent"    -> "new"
    [] goal[g] = "refused"   -> "refused"
    [] goal[g] = "executing" -> "open"
    [] goal[g] = "canceling" -> "canceling"
    [] goal[g] = "lost"      -> "SAFE_STOP"
    [] OTHER                 -> result[g].outcome

Promise == INSTANCE DeviceCommand WITH
  phase <- [g \in Goals |-> PromisePhase(g)],
  done  <- {g \in Goals : carried[g] > 0}

KeepsPromise == Promise!Spec

(* protocol.hpp: "STOP ACKs use a disjoint command-id range and cannot     *)
(* match an application ACK": what answers the wait for a STOP is an       *)
(* answer to a STOP, as long as goals keep to the application ids.         *)
StopAckAnswersStop == [][StopResponse => Answer.op = STOP]_vars
=============================================================================
