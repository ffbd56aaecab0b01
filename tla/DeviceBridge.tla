---------------------------- MODULE DeviceBridge ----------------------------
(***************************************************************************)
(* The Device Bridge: device_bridge_node.cpp.  An action server that runs  *)
(* one goal at a time on a worker thread: send the command, wait for its   *)
(* acknowledgement, retry once, and when the command may be on the wire    *)
(* and its fate is not known, send STOP and wait for the STOP's own        *)
(* acknowledgement.  Goal, cancel and shutdown arrive at any point between *)
(* two steps of the worker.                                                *)
(***************************************************************************)
EXTENDS CanBus

CONSTANTS
  GoalIds,       \* command ids that clients put into goals
  NoGoal,        \* the worker has not had a goal yet
  MaxRestarts    \* bound: how often the bridge process is replaced

ASSUME BridgeAssumption ==
  /\ GoalIds \subseteq 0..(WireIdMax + 1)
  /\ NoGoal \notin Goals
  /\ MaxRestarts \in Nat

VARIABLES
  goal,       \* rclcpp_action state of each goal
  request,    \* the command each goal asks for
  result,     \* what each finished goal reported: [outcome, code]
  up,         \* rclcpp::ok(): FALSE after a shutdown signal
  active,     \* active_goal_
  pc,         \* where the worker thread is
  cur,        \* the goal of the worker
  attempt,    \* retry counter of the command
  sent,       \* command_sent
  stopping,   \* arguments of stop_and_finish: [canceled, code]
  stopId,     \* id of the STOP in flight
  nextStop,   \* next_stop_command_id_
  pending,    \* result about to be reported
  diag,       \* DeviceDiagnosticState: [phase, id, latched, err]
  restarts    \* process replacements so far (bounded by MaxRestarts)

workerVars == <<pc, cur, attempt, sent, stopping, stopId, pending>>
serverVars == <<goal, request, result, up, active>>
bridgeVars == <<goal, request, result, up, active, pc, cur, attempt, sent,
                stopping, stopId, nextStop, pending, diag, restarts>>

kMaxRetries == 1

(* Error codes of command_policy.hpp. *)
ErrTransport    == 200
ErrAckTimeout   == 201
ErrShutdown     == 202
ErrStopTimeout  == 204
ErrStopRejected == 205
DeviceErrorCode(code) == 300 + code

Live     == {"executing", "canceling"}
Settled  == {"succeeded", "aborted", "canceled"}
GoalStates == {"unsent", "refused", "lost"} \cup Live \cup Settled
Outcomes == {"NONE", "COMPLETED", "CANCELED", "SAFE_STOP", "DEVICE_FAULT"}
Codes    == {0, ErrTransport, ErrAckTimeout, ErrShutdown, ErrStopTimeout, ErrStopRejected}
              \cup {DeviceErrorCode(c) : c \in Rejected..Conflict}
Results  == [outcome: Outcomes, code: Codes]
NoResult == [outcome |-> "NONE", code |-> 0]
Steps    == {"idle", "check", "send", "wait", "poll", "stop", "stopwait", "stoppoll",
             "finish", "release"}
Phases   == {"IDLE", "SENDING", "WAITING_ACK", "RETRYING", "STOPPING"}
Requests == [id: GoalIds, op: {APP}, arg: Payloads]
Stops    == [canceled: BOOLEAN, code: Codes]
NoStop   == [canceled |-> FALSE, code |-> 0]
Diagnostics == [phase: Phases, id: 0..WireIdMax, latched: BOOLEAN, err: Codes]
DiagInit == [phase |-> "IDLE", id |-> 0, latched |-> FALSE, err |-> 0]

ProcessInit ==
  /\ up = TRUE /\ active = FALSE
  /\ pc = "idle" /\ cur = NoGoal /\ attempt = 0 /\ sent = FALSE
  /\ stopping = NoStop /\ stopId = StopIdMin /\ pending = NoResult
  /\ nextStop = StopIdMin
  /\ diag = DiagInit

BridgeInit ==
  /\ goal = [g \in Goals |-> "unsent"]
  /\ request \in [Goals -> Requests]
  /\ result = [g \in Goals |-> NoResult]
  /\ ProcessInit
  /\ restarts = 0

(***************************************************************************)
(* Diagnostics.                                                            *)
(***************************************************************************)
Mark(phase)  == diag' = [diag EXCEPT !.phase = phase]
RecordClear  == diag' = DiagInit
RecordFailureUnlatched(code) ==
  diag' = [phase |-> "IDLE", id |-> 0, latched |-> diag.latched, err |-> code]
RecordFailure(code) ==
  diag' = [phase |-> "IDLE", id |-> 0, latched |-> TRUE, err |-> code]

(***************************************************************************)
(* Server callbacks.  handle_goal and handle_accepted run in one callback. *)
(***************************************************************************)
ValidId(g) == request[g].id \in WireIds

(* Mutant: active_goal_ is tested and not set. *)
HandleGoalAcceptUnclaimed(g) ==
  /\ up /\ goal[g] = "unsent" /\ ValidId(g)
  /\ ~active /\ pc = "idle"
  /\ goal' = [goal EXCEPT ![g] = "executing"]
  /\ cur' = g /\ pc' = "check" /\ attempt' = 0 /\ sent' = FALSE
  /\ diag' = [diag EXCEPT !.phase = "SENDING", !.id = request[g].id]
  /\ UNCHANGED <<busVars, request, result, up, active, stopping, stopId, nextStop, pending, restarts>>

HandleGoalAccept(g) ==
  /\ up /\ goal[g] = "unsent" /\ ValidId(g)
  /\ ~active
  /\ pc = "idle"                        \* handle_accepted joins the old worker
  /\ active' = TRUE
  /\ goal' = [goal EXCEPT ![g] = "executing"]
  /\ cur' = g /\ pc' = "check" /\ attempt' = 0 /\ sent' = FALSE
  /\ diag' = [diag EXCEPT !.phase = "SENDING", !.id = request[g].id]
  /\ UNCHANGED <<busVars, request, result, up, stopping, stopId, nextStop, pending, restarts>>

(* A goal is refused for its id, for its ack_timeout (whose value the      *)
(* model leaves open), or because the bridge is busy.                      *)
HandleGoalReject(g) ==
  /\ up /\ goal[g] = "unsent"
  /\ goal' = [goal EXCEPT ![g] = "refused"]
  /\ UNCHANGED <<busVars, request, result, up, active, workerVars, nextStop, diag, restarts>>

HandleCancel(g) ==
  /\ up /\ goal[g] = "executing"
  /\ goal' = [goal EXCEPT ![g] = "canceling"]
  /\ UNCHANGED <<busVars, request, result, up, active, workerVars, nextStop, diag, restarts>>

(***************************************************************************)
(* The worker thread.                                                      *)
(***************************************************************************)
Canceling == goal[cur] = "canceling"

Report(outcome, code) == pending' = [outcome |-> outcome, code |-> code] /\ pc' = "finish"

(* Mutant: the cancellation flag of the call is swapped. *)
StopAndFinishAsCancel(canceled, code) ==
  stopping' = [canceled |-> TRUE, code |-> code] /\ pc' = "stop"

StopAndFinish(canceled, code) ==
  stopping' = [canceled |-> canceled, code |-> code] /\ pc' = "stop"

(* Mutant: a cancel seen before the retry is treated as one before any     *)
(* send.                                                                   *)
CommandOnWireUnknown == FALSE
CommandOnWire == sent

(* Top of the attempt loop, first try and retry alike. *)
CheckCancel ==
  /\ pc = "check"
  /\ \/ /\ Canceling /\ ~CommandOnWire
        /\ Report("CANCELED", 0) /\ RecordClear
        /\ UNCHANGED stopping
     \/ /\ Canceling /\ CommandOnWire
        /\ StopAndFinish(TRUE, 0)
        /\ UNCHANGED <<pending, diag>>
     \/ /\ ~Canceling
        /\ pc' = "send" /\ Mark("SENDING")
        /\ UNCHANGED <<pending, stopping>>
  /\ UNCHANGED <<busVars, serverVars, cur, attempt, sent, stopId, nextStop, restarts>>

SendCommand ==
  /\ pc = "send"
  /\ Transmit([cmd |-> request[cur], by |-> cur])
  /\ sent' = TRUE /\ pc' = "wait"
  /\ Mark("WAITING_ACK")
  /\ UNCHANGED <<serverVars, cur, attempt, stopping, stopId, nextStop, pending, restarts>>

(* The send fails: the goal ends here, on the retry as on the first try. *)
SendCommandFails ==
  /\ pc = "send"
  /\ Report("SAFE_STOP", ErrTransport) /\ RecordFailure(ErrTransport)
  /\ UNCHANGED <<busVars, serverVars, cur, attempt, sent, stopping, stopId, nextStop, restarts>>

Receive == toBridge # <<>> /\ toBridge' = Tail(toBridge) /\ UNCHANGED toDevice
Answer  == Head(toBridge)

(* Mutants: responses are not matched to the command. *)
AnswersCommandAny == TRUE
AnswersStopAny == TRUE

AnswersCommand == Answer.id = request[cur].id
AnswersStop    == Answer.id = stopId

(* receive_response: shutdown, cancel and the deadline are looked at (wait, *)
(* stopwait) between two polls of the socket (poll, stoppoll).  Nothing is *)
(* looked at during a poll, so an answer is still taken when the shutdown  *)
(* came after the poll began.                                              *)
Poll ==
  /\ up
  /\ \/ pc = "wait" /\ ~Canceling /\ pc' = "poll"
     \/ pc = "stopwait" /\ pc' = "stoppoll"
  /\ UNCHANGED <<busVars, serverVars, cur, attempt, sent, stopping, stopId, nextStop,
                 pending, diag, restarts>>

Resume == IF pc = "poll" THEN "wait" ELSE "stopwait"

(* Nothing arrived within receive_poll_ms. *)
PollEmpty ==
  /\ pc \in {"poll", "stoppoll"}
  /\ pc' = Resume
  /\ UNCHANGED <<busVars, serverVars, cur, attempt, sent, stopping, stopId, nextStop,
                 pending, diag, restarts>>

(* Whatever carries another command id is dropped. *)
IgnoreFrame ==
  /\ \/ pc = "poll" /\ Receive /\ ~AnswersCommand
     \/ pc = "stoppoll" /\ Receive /\ ~AnswersStop
  /\ pc' = Resume
  /\ UNCHANGED <<serverVars, cur, attempt, sent, stopping, stopId, nextStop,
                 pending, diag, restarts>>

WaitResponse ==
  /\ pc = "poll"
  /\ Receive /\ AnswersCommand
  /\ \/ /\ Canceling
        /\ StopAndFinish(TRUE, 0)
        /\ UNCHANGED <<pending, diag>>
     \/ /\ ~Canceling /\ Answer.code = Accepted
        /\ Report("COMPLETED", 0) /\ RecordClear
        /\ UNCHANGED stopping
     \/ /\ ~Canceling /\ Answer.code # Accepted
        /\ Report("DEVICE_FAULT", DeviceErrorCode(Answer.code))
        /\ RecordFailure(DeviceErrorCode(Answer.code))
        /\ UNCHANGED stopping
  /\ UNCHANGED <<serverVars, cur, attempt, sent, stopId, nextStop, restarts>>

WaitCanceled ==
  /\ pc = "wait" /\ up /\ Canceling
  /\ StopAndFinish(TRUE, 0)
  /\ UNCHANGED <<busVars, serverVars, cur, attempt, sent, stopId, nextStop, pending, diag, restarts>>

(* The deadline is looked at after the cancel flag, so it can pass with a  *)
(* cancel just accepted.                                                   *)
WaitTimeout ==
  /\ pc = "wait" /\ up
  /\ \/ /\ attempt < kMaxRetries
        /\ attempt' = attempt + 1 /\ pc' = "check"
        /\ Mark("RETRYING")
        /\ UNCHANGED stopping
     \/ /\ attempt = kMaxRetries
        /\ StopAndFinish(FALSE, ErrAckTimeout) /\ RecordFailure(ErrAckTimeout)
        /\ UNCHANGED attempt
  /\ UNCHANGED <<busVars, serverVars, cur, sent, stopId, nextStop, pending, restarts>>

WaitTransportError ==
  /\ pc = "poll"
  /\ StopAndFinish(FALSE, ErrTransport) /\ RecordFailure(ErrTransport)
  /\ UNCHANGED <<busVars, serverVars, cur, attempt, sent, stopId, nextStop, pending, restarts>>

WaitShutdown ==
  /\ pc = "wait" /\ ~up
  /\ StopAndFinish(FALSE, ErrShutdown)
  /\ UNCHANGED <<busVars, serverVars, cur, attempt, sent, stopId, nextStop, pending, diag, restarts>>

(* allocate_stop_command_id. *)
AllocateStopIdNoWrap == stopId' = nextStop /\ nextStop' = nextStop + 1
AllocateStopId ==
  /\ stopId' = nextStop
  /\ nextStop' = IF nextStop = WireIdMax THEN StopIdMin ELSE nextStop + 1

StopCommand == [id |-> nextStop, op |-> STOP, arg |-> request[cur].id]

SendStop ==
  /\ pc = "stop"
  /\ AllocateStopId
  /\ Transmit([cmd |-> StopCommand, by |-> cur])
  /\ pc' = "stopwait" /\ Mark("STOPPING")
  /\ UNCHANGED <<serverVars, cur, attempt, sent, stopping, pending, restarts>>

SendStopFails ==
  /\ pc = "stop"
  /\ AllocateStopId
  /\ Report("SAFE_STOP", ErrTransport) /\ RecordFailure(ErrTransport)
  /\ UNCHANGED <<busVars, serverVars, cur, attempt, sent, stopping, restarts>>

StopConfirmed(answer) == answer.code = Accepted /\ answer.mode = "STOPPED"

StopResponse ==
  /\ pc = "stoppoll"
  /\ Receive /\ AnswersStop
  /\ \/ /\ StopConfirmed(Answer) /\ stopping.canceled
        /\ Report("CANCELED", 0) /\ RecordClear
     \/ /\ StopConfirmed(Answer) /\ ~stopping.canceled
        /\ Report("SAFE_STOP", stopping.code) /\ UNCHANGED diag
     \/ /\ ~StopConfirmed(Answer)
        /\ Report("SAFE_STOP", ErrStopRejected) /\ RecordFailure(ErrStopRejected)
  /\ UNCHANGED <<serverVars, cur, attempt, sent, stopping, stopId, nextStop, restarts>>

(* Mutant: the deadline is only looked at when a frame is there. *)
StopTimeoutOnFrame ==
  /\ pc = "stopwait" /\ up /\ toBridge # <<>>
  /\ Report("SAFE_STOP", ErrStopTimeout) /\ RecordFailure(ErrStopTimeout)
  /\ UNCHANGED <<busVars, serverVars, cur, attempt, sent, stopping, stopId, nextStop, restarts>>

(* Mutant: a cancel that waited long enough is reported as done. *)
StopTimeoutCanceled ==
  /\ pc = "stopwait" /\ up
  /\ Report(IF stopping.canceled THEN "CANCELED" ELSE "SAFE_STOP", ErrStopTimeout)
  /\ RecordFailure(ErrStopTimeout)
  /\ UNCHANGED <<busVars, serverVars, cur, attempt, sent, stopping, stopId, nextStop, restarts>>

StopTimeout ==
  /\ pc = "stopwait" /\ up
  /\ Report("SAFE_STOP", ErrStopTimeout) /\ RecordFailure(ErrStopTimeout)
  /\ UNCHANGED <<busVars, serverVars, cur, attempt, sent, stopping, stopId, nextStop, restarts>>

(* A receive error, or the shutdown flag. *)
StopTransportError ==
  /\ \/ pc = "stoppoll"
     \/ pc = "stopwait" /\ ~up
  /\ Report("SAFE_STOP", ErrTransport) /\ RecordFailure(ErrTransport)
  /\ UNCHANGED <<busVars, serverVars, cur, attempt, sent, stopping, stopId, nextStop, restarts>>

(* goal_handle->succeed, canceled or abort. *)
TerminalState(outcome) ==
  CASE outcome = "COMPLETED" -> "succeeded"
    [] outcome = "CANCELED"  -> "canceled"
    [] OTHER                 -> "aborted"

Finish ==
  /\ pc = "finish"
  /\ result' = [result EXCEPT ![cur] = pending]
  /\ goal' = [goal EXCEPT ![cur] = TerminalState(pending.outcome)]
  /\ pc' = "release"
  /\ UNCHANGED <<busVars, request, up, active, cur, attempt, sent, stopping,
                 stopId, nextStop, pending, diag, restarts>>

(* ActiveGuard, after the result is out; the locals of execute are gone.   *)
Release ==
  /\ pc = "release"
  /\ active' = FALSE /\ pc' = "idle"
  /\ attempt' = 0 /\ sent' = FALSE
  /\ stopping' = NoStop /\ stopId' = StopIdMin /\ pending' = NoResult
  /\ UNCHANGED <<busVars, goal, request, result, up, cur, nextStop, diag, restarts>>

Worker ==
  \/ CheckCancel \/ SendCommand \/ SendCommandFails
  \/ Poll \/ PollEmpty \/ IgnoreFrame \/ WaitResponse \/ WaitCanceled \/ WaitTimeout
  \/ WaitTransportError \/ WaitShutdown
  \/ SendStop \/ SendStopFails
  \/ StopResponse \/ StopTimeout \/ StopTransportError
  \/ Finish \/ Release

(***************************************************************************)
(* The process.                                                            *)
(***************************************************************************)
Shutdown ==
  /\ up /\ up' = FALSE
  /\ UNCHANGED <<busVars, goal, request, result, active, workerVars, nextStop, diag, restarts>>

FreshProcess ==
  /\ up' = TRUE /\ active' = FALSE
  /\ pc' = "idle" /\ cur' = NoGoal /\ attempt' = 0 /\ sent' = FALSE
  /\ stopping' = NoStop /\ stopId' = StopIdMin /\ pending' = NoResult
  /\ nextStop' = StopIdMin /\ diag' = DiagInit

(* The process ends (after a shutdown, or by a crash at any point) and a   *)
(* new one starts: memory is fresh, the socket is new and empty, and the   *)
(* goal the old process was working on gets no result.                     *)
Restart ==
  /\ restarts < MaxRestarts
  /\ restarts' = restarts + 1
  /\ FreshProcess
  /\ goal' = [g \in Goals |-> IF goal[g] \in Live THEN "lost" ELSE goal[g]]
  /\ toBridge' = <<>>
  /\ UNCHANGED <<toDevice, request, result>>

BridgeNext ==
  \/ \E g \in Goals : HandleGoalAccept(g) \/ HandleGoalReject(g) \/ HandleCancel(g)
  \/ Worker
  \/ Shutdown
  \/ Restart

BridgeTypeOK ==
  /\ goal \in [Goals -> GoalStates]
  /\ request \in [Goals -> Requests]
  /\ result \in [Goals -> Results]
  /\ up \in BOOLEAN /\ active \in BOOLEAN
  /\ pc \in Steps /\ cur \in Goals \cup {NoGoal}
  /\ attempt \in 0..kMaxRetries /\ sent \in BOOLEAN
  /\ stopping \in Stops
  /\ stopId \in StopIds /\ nextStop \in StopIds
  /\ pending \in Results
  /\ diag \in Diagnostics
  /\ restarts \in 0..MaxRestarts
=============================================================================
